--------------------------- MODULE AccountProofs ---------------------------
(* Proofs of what the promises of Account add up to for its owner.         *)
EXTENDS Account, TLAPS

AccountTypeOK == /\ contact \in [ContactKeys -> Contacts \cup {None}]
                 /\ verified \in [ContactKeys -> BOOLEAN]
                 /\ codes \in [Keys -> Codes \cup {None}]

AccountInv == AccountTypeOK /\ VerifiedHasNoCode

LEMMA InitAccountInv == AccountInit => AccountInv
BY DEF AccountInit, AccountInv, AccountTypeOK, VerifiedHasNoCode

(* No operation brings back a code of a verified contact, nor moves it.    *)
LEMMA NextAccountInv ==
  ASSUME AccountInv, [AccountNext]_promised
  PROVE  /\ AccountInv'
         /\ \A k \in ContactKeys : verified[k] => verified'[k] /\ contact'[k] = contact[k]
<1> USE DEF AccountInv, AccountTypeOK, VerifiedHasNoCode
<1>1. ContactKeys \subseteq Keys /\ "resetPassword" \in Keys \ ContactKeys
  BY DEF Keys, ContactKeys
<1>2. ASSUME NEW k \in ContactKeys, SetContact(k)
      PROVE  /\ AccountInv'
             /\ \A j \in ContactKeys : verified[j] => verified'[j] /\ contact'[j] = contact[j]
  BY <1>2 DEF SetContact
<1>3. ASSUME NEW k \in ContactKeys, VerifyContact(k)
      PROVE  /\ AccountInv'
             /\ \A j \in ContactKeys : verified[j] => verified'[j] /\ contact'[j] = contact[j]
  BY <1>1, <1>3 DEF VerifyContact
<1>4. ASSUME NEW k \in Keys, Issue(k)
      PROVE  /\ AccountInv'
             /\ \A j \in ContactKeys : verified[j] => verified'[j] /\ contact'[j] = contact[j]
  BY <1>1, <1>4 DEF Issue
<1>5. CASE Reset
  BY <1>1, <1>5 DEF Reset
<1>6. CASE Change
  BY <1>6 DEF Change
<1>7. CASE UNCHANGED promised
  BY <1>7 DEF promised
<1>8. QED
  BY <1>2, <1>3, <1>4, <1>5, <1>6, <1>7 DEF AccountNext

LEMMA SpecAccountInv == AccountSpec => []AccountInv
BY InitAccountInv, NextAccountInv, PTL DEF AccountSpec

(* A code is single-use: once the contact is verified no code for it is    *)
(* left (updateVerification), and none is issued (auth.service.ts:152-154).*)
THEOREM VerifiedContactsHaveNoCode == AccountSpec => []VerifiedHasNoCode
<1>1. AccountInv => VerifiedHasNoCode
  BY DEF AccountInv
<1>2. QED
  BY <1>1, SpecAccountInv, PTL

(* What the tests of verify-email and verify-mobile expect: a contact once *)
(* verified stays verified, and cannot be replaced.                        *)
THEOREM VerifiedContactsStay == AccountSpec => VerifiedStays
<1>1. AccountInv /\ [AccountNext]_promised =>
        [\A k \in ContactKeys : verified[k] => verified'[k] /\ contact'[k] = contact[k]]_promised
  BY NextAccountInv
<1>2. QED
  BY <1>1, SpecAccountInv, PTL DEF AccountSpec, VerifiedStays
=============================================================================
