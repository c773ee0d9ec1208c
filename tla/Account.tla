------------------------------ MODULE Account ------------------------------
(***************************************************************************)
(* What one account promises its owner, request by request: each operation *)
(* of the auth service takes effect at once and touches only what it is    *)
(* about.  A verification code is good for one use, a reset takes the code *)
(* with it, a verified contact stays verified, a contact is set once.      *)
(*                                                                         *)
(* AuthAccount implements this when its handlers run one at a time.        *)
(***************************************************************************)
CONSTANTS Passwords,
          Contacts, \* emails and mobile numbers
          Codes,    \* codes with their expiration
          None

VARIABLES password,
          contact,  \* the email and the mobile, None while unset
          verified, \* whether each of them is verified
          codes     \* the unused code for each key, None when there is none

promised == <<password, contact, verified, codes>>

ContactKeys == {"email", "mobile"}
Keys        == ContactKeys \cup {"resetPassword"}

AccountInit ==
  /\ password \in Passwords
  /\ contact \in [ContactKeys -> Contacts \cup {None}]
  /\ verified = [k \in ContactKeys |-> FALSE]
  /\ codes \in [Keys -> Codes \cup {None}]

(* The owner sets a contact the account did not have. *)
SetContact(k) ==
  /\ contact[k] = None
  /\ contact'[k] \in Contacts
  /\ contact' = [contact EXCEPT ![k] = contact'[k]]
  /\ UNCHANGED <<password, verified, codes>>

(* A code is issued: to verify a contact not verified yet, or to reset. *)
Issue(k) ==
  /\ k \in ContactKeys => ~verified[k]
  /\ codes'[k] \in Codes
  /\ codes' = [codes EXCEPT ![k] = codes'[k]]
  /\ UNCHANGED <<password, contact, verified>>

(* The code of an unverified contact is used up to verify it. *)
VerifyContact(k) ==
  /\ contact[k] # None
  /\ ~verified[k]
  /\ codes[k] # None
  /\ verified' = [verified EXCEPT ![k] = TRUE]
  /\ codes' = [codes EXCEPT ![k] = None]
  /\ UNCHANGED <<password, contact>>

(* The reset code is used up to choose a password. *)
Reset ==
  /\ codes["resetPassword"] # None
  /\ password' \in Passwords
  /\ codes' = [codes EXCEPT !["resetPassword"] = None]
  /\ UNCHANGED <<contact, verified>>

Change ==
  /\ password' \in Passwords
  /\ UNCHANGED <<contact, verified, codes>>

AccountNext ==
  \/ \E k \in ContactKeys : SetContact(k) \/ VerifyContact(k)
  \/ \E k \in Keys : Issue(k)
  \/ Reset
  \/ Change

AccountSpec == AccountInit /\ [][AccountNext]_promised

-----------------------------------------------------------------------------
(* A contact that is verified has no code left that could be used again    *)
(* (updateVerification and the first test of sendVerification).            *)
VerifiedHasNoCode ==
  \A k \in ContactKeys : verified[k] => contact[k] # None /\ codes[k] = None

(* A verified contact stays verified, and stays the contact it was. *)
VerifiedStays ==
  [][\A k \in ContactKeys : verified[k] => verified'[k] /\ contact'[k] = contact[k]]_promised
=============================================================================
