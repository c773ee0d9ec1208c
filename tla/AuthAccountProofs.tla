------------------------- MODULE AuthAccountProofs -------------------------
(* Proofs that the safety invariants of AuthAccount hold for any number of *)
(* handlers, any requests and any sets of codes, passwords and contacts.   *)
EXTENDS AuthAccount, TLAPS

(* The steps at which a handler holds a document. *)
Holding == {"user", "contact", "issue", "save", "reply"}

(* Which handlers wait for which steps, and with what in hand. *)
Protocol ==
  \A r \in Requests :
    /\ pc[r] # "idle" => call[r] \in Calls
    /\ pc[r] \in Holding => doc[r] \in AuthDocument
    /\ pc[r] \in {"user", "contact"} => call[r].op = "sendVerification"
    /\ pc[r] \in {"issue", "reply"} => call[r].op \in {"sendVerification", "passwordReset"}

TypeInv == TypeOK /\ Protocol

(* The part of TypeInv about the handlers. *)
HandlerInv == /\ pc \in [Requests -> Steps]
              /\ call \in [Requests -> Calls \cup {NoCall}]
              /\ doc \in [Requests -> AuthDocument \cup {None}]
              /\ linked \in [Requests -> BOOLEAN]
              /\ overlapped \in BOOLEAN
              /\ raced \subseteq VerifyKeys
              /\ Protocol

(* What handler r may wait for with the call it serves. *)
MayWait(r, step) ==
  /\ step \in Steps
  /\ step \in {"user", "contact"} => call[r].op = "sendVerification"
  /\ step \in {"issue", "reply"} => call[r].op \in {"sendVerification", "passwordReset"}

(* What the DTOs of the calls give each handler. *)
LEMMA CallTypes ==
  ASSUME NEW c \in Calls
  PROVE  /\ c # NoCall
         /\ c \in Dtos
         /\ c.op = "verifyEmail" => c.email \in Emails /\ c.code \in Codes
         /\ c.op = "verifyMobile" => c.mobile \in Mobiles /\ c.code \in Codes
         /\ c.op = "sendVerification" =>
              /\ c.type \in CodeKeys
              /\ c.type \in VerifyKeys => c.contact \in Addresses \cup {None}
              /\ c.type \notin VerifyKeys => c.contact = None
         /\ c.op = "resetPassword" => c.code \in Codes /\ c.password \in Passwords
         /\ c.op = "changePassword" => c.password \in Passwords
<1>1. c \in Dtos
  BY CallsAssumption
<1>2. QED
  BY <1>1 DEF Dtos, NoCall, VerifyEmailDto, VerifyMobileDto, SendVerificationDto,
     ResetCodeDto, PasswordResetDto, ChangePasswordDto, CodeKeys, VerifyKeys, Addresses

LEMMA InitTypeInv == Init => TypeInv
<1> SUFFICES ASSUME Init PROVE TypeInv
  OBVIOUS
<1> USE HourAssumption DEF Init
<1>1. auth \in AuthDocument
  BY DEF AuthDocument, Entry, VerifyKeys, CodeKeys, Addresses
<1>2. userContact \in [VerifyKeys -> Addresses \cup {None}]
  BY DEF VerifyKeys, Addresses
<1>3. lastIssued \in [CodeKeys -> [Codes -> Int]]
  OBVIOUS
<1>4. proven \subseteq VerifyKeys /\ authorised \subseteq Passwords
  OBVIOUS
<1>5. overlapped \in BOOLEAN /\ raced \subseteq VerifyKeys
  OBVIOUS
<1>6. QED
  BY <1>1, <1>2, <1>3, <1>4, <1>5 DEF TypeInv, TypeOK, Protocol, Steps, Holding, NoCall

-----------------------------------------------------------------------------
(* The types are preserved.                                                *)

LEMMA FinishHandlers ==
  ASSUME HandlerInv, NEW r \in Requests, Finish(r)
  PROVE  HandlerInv'
BY DEF HandlerInv, Protocol, Finish, Holding, Steps

LEMMA ContinueHandlers ==
  ASSUME HandlerInv, NEW r \in Requests, pc[r] # "idle",
         NEW step, NEW d \in AuthDocument, MayWait(r, step), Continue(r, step, d)
  PROVE  HandlerInv'
BY DEF HandlerInv, Protocol, Continue, MayWait, Holding, Steps

LEMMA DocumentTypes ==
  ASSUME TypeInv, NEW d \in AuthDocument
  PROVE  /\ d.password \in Passwords
         /\ d.contact \in [VerifyKeys -> Addresses \cup {None}]
         /\ d.verifications \in [VerifyKeys -> BOOLEAN]
         /\ d.codes \in [CodeKeys -> Entry \cup {None}]
         /\ \A k \in VerifyKeys : UpdateVerification(d, k) \in AuthDocument
         /\ \A k \in CodeKeys, code \in Codes : WithCode(d, k, code) \in AuthDocument
         /\ \A p \in Passwords : /\ WithNewPassword(d, p) \in AuthDocument
                                 /\ [d EXCEPT !.password = p] \in AuthDocument
         /\ \A k \in VerifyKeys, a \in Addresses \cup {None} :
              [d EXCEPT !.contact[k] = a] \in AuthDocument
<1>1. now + Hour \in Nat
  BY HourAssumption DEF TypeInv, TypeOK
<1>2. \A code \in Codes : [code |-> code, expiration |-> AddHourToDate] \in Entry
  BY <1>1 DEF Entry, AddHourToDate
<1>3. VerifyKeys \subseteq CodeKeys
  BY DEF CodeKeys
<1>4. "resetPassword" \in CodeKeys
  BY DEF CodeKeys
<1>5. \A k \in VerifyKeys : UpdateVerification(d, k) \in AuthDocument
  BY <1>3 DEF AuthDocument, UpdateVerification
<1>6. \A k \in CodeKeys, code \in Codes : WithCode(d, k, code) \in AuthDocument
  BY <1>2 DEF AuthDocument, WithCode
<1>7. \A p \in Passwords : /\ WithNewPassword(d, p) \in AuthDocument
                           /\ [d EXCEPT !.password = p] \in AuthDocument
  BY <1>4 DEF AuthDocument, WithNewPassword
<1>8. \A k \in VerifyKeys, a \in Addresses \cup {None} :
        [d EXCEPT !.contact[k] = a] \in AuthDocument
  BY DEF AuthDocument
<1>9. QED
  BY <1>5, <1>6, <1>7, <1>8 DEF AuthDocument

(* TypeInv without the handlers. *)
StoreInv == /\ auth \in AuthDocument
            /\ userContact \in [VerifyKeys -> Addresses \cup {None}]
            /\ now \in Nat
            /\ lastIssued \in [CodeKeys -> [Codes -> Int]]
            /\ proven \subseteq VerifyKeys
            /\ authorised \subseteq Passwords

LEMMA TypeInvParts == /\ TypeInv <=> HandlerInv /\ StoreInv
                      /\ TypeInv' <=> HandlerInv' /\ StoreInv'
BY DEF TypeInv, TypeOK, HandlerInv, StoreInv

LEMMA FindAndVerifyTypes ==
  ASSUME TypeInv, NEW r \in Requests, NEW k \in VerifyKeys,
         NEW address, NEW code \in Codes, FindAndVerify(r, k, address, code)
  PROVE  TypeInv'
<1>1. HandlerInv /\ StoreInv
  BY TypeInvParts
<1>2. StoreInv'
  BY <1>1 DEF FindAndVerify, RecordProof, StoreInv, stored, AuthDocument
<1>3. CASE Continue(r, "save", UpdateVerification(auth, k))
  <2>1. UpdateVerification(auth, k) \in AuthDocument
    BY <1>1, DocumentTypes DEF StoreInv
  <2>2. QED
    BY <1>1, <1>2, <1>3, <2>1, ContinueHandlers, TypeInvParts
       DEF FindAndVerify, MayWait, Steps
<1>4. CASE Finish(r)
  BY <1>1, <1>2, <1>4, FinishHandlers, TypeInvParts
<1>5. QED
  BY <1>3, <1>4 DEF FindAndVerify

LEMMA IssueCodeTypes ==
  ASSUME TypeInv, NEW r \in Requests, NEW k \in CodeKeys, IssueCode(r, k)
  PROVE  TypeInv'
<1>1. HandlerInv /\ StoreInv
  BY TypeInvParts
<1>2. PICK code \in Codes : /\ Continue(r, "save", WithCode(doc[r], k, code))
                            /\ lastIssued' = [lastIssued EXCEPT ![k][code] = now]
  BY DEF IssueCode
<1>3. StoreInv'
  BY <1>1, <1>2 DEF IssueCode, StoreInv, stored, AuthDocument
<1>4. doc[r] \in AuthDocument
  BY <1>1 DEF IssueCode, HandlerInv, Protocol, Holding
<1>5. WithCode(doc[r], k, code) \in AuthDocument
  BY <1>4, DocumentTypes
<1>6. QED
  BY <1>1, <1>2, <1>3, <1>5, ContinueHandlers, TypeInvParts DEF IssueCode, MayWait, Steps

LEMMA NextTypeInv == TypeInv /\ [Next]_vars => TypeInv'
<1> SUFFICES ASSUME TypeInv, [Next]_vars PROVE TypeInv'
  OBVIOUS
<1>1. HandlerInv /\ StoreInv
  BY TypeInvParts
<1>2. ASSUME NEW r \in Requests, pc[r] # "idle"
      PROVE  call[r] \in Calls /\ (pc[r] \in Holding => doc[r] \in AuthDocument)
  BY <1>1, <1>2 DEF HandlerInv, Protocol
<1>3. ASSUME NEW r \in Requests, Receive(r) PROVE TypeInv'
  <2>1. StoreInv'
    BY <1>1, <1>3 DEF Receive, StoreInv, stored, history, AuthDocument
  <2>2. raced' \subseteq VerifyKeys
    <3>1. ASSUME NEW c \in Calls, Races(c) PROVE c.type \in VerifyKeys
      BY <3>1, CallTypes DEF Races
    <3>2. QED
      BY <1>1, <1>3, <3>1 DEF Receive, HandlerInv
  <2>3. HandlerInv'
    BY <1>1, <1>3, <2>2 DEF Receive, HandlerInv, Protocol, Holding, Steps
  <2>4. QED
    BY <2>1, <2>3, TypeInvParts
<1>4. ASSUME NEW r \in Requests, Verify(r) PROVE TypeInv'
  <2>1. CASE VerifyEmail(r)
    <3>1. call[r].code \in Codes
      BY <2>1, <1>2, CallTypes DEF VerifyEmail, FindAndVerify
    <3>2. QED
      BY <2>1, <3>1, FindAndVerifyTypes DEF VerifyEmail, VerifyKeys
  <2>2. CASE VerifyMobile(r)
    <3>1. call[r].code \in Codes
      BY <2>2, <1>2, CallTypes DEF VerifyMobile, FindAndVerify
    <3>2. QED
      BY <2>2, <3>1, FindAndVerifyTypes DEF VerifyMobile, VerifyKeys
  <2>3. CASE SaveVerification(r)
    <3>1. doc[r] \in AuthDocument
      BY <2>3, <1>2 DEF SaveVerification, Holding
    <3>2. StoreInv'
      BY <1>1, <2>3, <3>1 DEF SaveVerification, StoreInv, history, AuthDocument
    <3>3. QED
      BY <1>1, <2>3, <3>2, FinishHandlers, TypeInvParts DEF SaveVerification
  <2>4. QED
    BY <1>4, <2>1, <2>2, <2>3 DEF Verify
<1>5. ASSUME NEW r \in Requests, Send(r) PROVE TypeInv'
  <2>1. CASE Guard(r)
    <3>1. StoreInv'
      BY <1>1, <2>1 DEF Guard, StoreInv, stored, history, AuthDocument
    <3>2. CASE Finish(r)
      BY <1>1, <3>1, <3>2, FinishHandlers, TypeInvParts
    <3>3. CASE ~Finish(r)
      <4>1. HandlerInv'
        BY <1>1, <2>1, <3>3 DEF Guard, HandlerInv, Protocol, Holding, Steps
      <4>2. QED
        BY <3>1, <4>1, TypeInvParts
    <3>4. QED
      BY <3>2, <3>3
  <2>2. CASE FindToSend(r)
    <3>1. StoreInv'
      BY <1>1, <2>2 DEF FindToSend, StoreInv, stored, history, AuthDocument
    <3>2. QED
      BY <1>1, <2>2, <3>1, ContinueHandlers, TypeInvParts
         DEF FindToSend, StoreInv, MayWait, Steps, Sending
  <2>3. CASE UpdateUser(r)
    <3>1. /\ call[r] \in Calls
          /\ call[r].op = "sendVerification"
          /\ doc[r] \in AuthDocument
      BY <1>1, <1>2, <2>3 DEF UpdateUser, HandlerInv, Protocol, Holding
    <3>2. StoreInv'
      BY <1>1, <2>3, <3>1, CallTypes DEF UpdateUser, StoreInv, history, AuthDocument
    <3>3. QED
      BY <1>1, <2>3, <3>1, <3>2, ContinueHandlers, TypeInvParts DEF UpdateUser, MayWait, Steps
  <2>4. CASE SaveContact(r)
    <3> DEFINE type    == call[r].type
               contact == call[r].contact
    <3>1. /\ call[r] \in Calls
          /\ call[r].op = "sendVerification"
          /\ doc[r] \in AuthDocument
      BY <1>1, <1>2, <2>4 DEF SaveContact, HandlerInv, Protocol, Holding
    <3>2. type \in VerifyKeys => contact \in Addresses \cup {None}
      BY <3>1, CallTypes
    <3>3. auth' \in AuthDocument
      <4>1. auth \in AuthDocument
        BY <1>1 DEF StoreInv
      <4>2. auth' = auth \/ (type \in VerifyKeys /\ auth' = [auth EXCEPT !.contact[type] = contact])
        BY <2>4 DEF SaveContact
      <4>3. type \in VerifyKeys => [auth EXCEPT !.contact[type] = contact] \in AuthDocument
        BY <4>1, <3>2, DocumentTypes
      <4>4. QED
        BY <4>1, <4>2, <4>3
    <3>4. StoreInv'
      BY <1>1, <2>4, <3>3 DEF SaveContact, StoreInv, history
    <3>5. PICK d \in AuthDocument : Continue(r, "issue", d)
      BY <2>4, <3>1, <3>2, DocumentTypes DEF SaveContact
    <3>6. QED
      BY <1>1, <2>4, <3>1, <3>4, <3>5, ContinueHandlers, TypeInvParts
         DEF SaveContact, MayWait, Steps
  <2>5. CASE IssueVerification(r)
    BY <1>2, <2>5, CallTypes, IssueCodeTypes DEF IssueVerification, IssueCode, Sending
  <2>6. QED
    BY <1>5, <2>1, <2>2, <2>3, <2>4, <2>5 DEF Send
<1>6. ASSUME NEW r \in Requests, SaveCodes(r) PROVE TypeInv'
  <2>1. doc[r] \in AuthDocument
    BY <1>6, <1>2 DEF SaveCodes, Holding
  <2>2. StoreInv'
    BY <1>1, <1>6, <2>1 DEF SaveCodes, StoreInv, history, AuthDocument
  <2>3. QED
    BY <1>1, <1>6, <2>1, <2>2, ContinueHandlers, TypeInvParts DEF SaveCodes, MayWait, Steps
<1>7. ASSUME NEW r \in Requests, Reply(r) \/ Fail(r) PROVE TypeInv'
  <2>1. StoreInv'
    BY <1>1, <1>7 DEF Reply, Fail, StoreInv, stored, history, AuthDocument
  <2>2. QED
    BY <1>1, <1>7, <2>1, FinishHandlers, TypeInvParts DEF Reply, Fail
<1>8. ASSUME NEW r \in Requests, Reset(r) PROVE TypeInv'
  <2>1. CASE FindToReset(r)
    <3>1. StoreInv'
      BY <1>1, <2>1 DEF FindToReset, StoreInv, stored, history, AuthDocument
    <3>2. CASE Finish(r)
      BY <1>1, <3>1, <3>2, FinishHandlers, TypeInvParts
    <3>3. CASE Continue(r, "issue", auth)
      BY <1>1, <2>1, <3>1, <3>3, ContinueHandlers, TypeInvParts
         DEF FindToReset, StoreInv, MayWait, Steps
    <3>4. QED
      BY <2>1, <3>2, <3>3 DEF FindToReset
  <2>2. CASE RequestPasswordReset(r)
    BY <2>2, IssueCodeTypes DEF RequestPasswordReset, CodeKeys
  <2>3. CASE ResetPassword(r)
    <3>1. call[r].password \in Passwords
      BY <1>2, <2>3, CallTypes DEF ResetPassword
    <3>2. StoreInv'
      BY <1>1, <2>3, <3>1 DEF ResetPassword, RecordAuthorised, StoreInv, stored, AuthDocument
    <3>3. CASE Finish(r)
      BY <1>1, <3>2, <3>3, FinishHandlers, TypeInvParts
    <3>4. CASE Continue(r, "save", WithNewPassword(auth, call[r].password))
      <4>1. WithNewPassword(auth, call[r].password) \in AuthDocument
        BY <1>1, <3>1, DocumentTypes DEF StoreInv
      <4>2. QED
        BY <1>1, <2>3, <3>2, <3>4, <4>1, ContinueHandlers, TypeInvParts
           DEF ResetPassword, MayWait, Steps
    <3>5. QED
      BY <2>3, <3>3, <3>4 DEF ResetPassword
  <2>4. CASE SaveReset(r)
    <3>1. doc[r] \in AuthDocument
      BY <2>4, <1>2 DEF SaveReset, Holding
    <3>2. StoreInv'
      BY <1>1, <2>4, <3>1 DEF SaveReset, StoreInv, history, AuthDocument
    <3>3. QED
      BY <1>1, <2>4, <3>2, FinishHandlers, TypeInvParts DEF SaveReset
  <2>5. QED
    BY <1>8, <2>1, <2>2, <2>3, <2>4 DEF Reset
<1>9. ASSUME NEW r \in Requests, Change(r) PROVE TypeInv'
  <2>1. CASE ChangePassword(r)
    <3>1. call[r].password \in Passwords
      BY <1>2, <2>1, CallTypes DEF ChangePassword
    <3>2. StoreInv'
      BY <1>1, <2>1, <3>1 DEF ChangePassword, RecordAuthorised, StoreInv, stored, AuthDocument
    <3>3. CASE Finish(r)
      BY <1>1, <3>2, <3>3, FinishHandlers, TypeInvParts
    <3>4. CASE Continue(r, "save", [auth EXCEPT !.password = call[r].password])
      <4>1. [auth EXCEPT !.password = call[r].password] \in AuthDocument
        BY <1>1, <3>1, DocumentTypes DEF StoreInv
      <4>2. QED
        BY <1>1, <2>1, <3>2, <3>4, <4>1, ContinueHandlers, TypeInvParts
           DEF ChangePassword, MayWait, Steps
    <3>5. QED
      BY <2>1, <3>3, <3>4 DEF ChangePassword
  <2>2. CASE SaveChange(r)
    <3>1. doc[r] \in AuthDocument
      BY <2>2, <1>2 DEF SaveChange, Holding
    <3>2. StoreInv'
      BY <1>1, <2>2, <3>1 DEF SaveChange, StoreInv, history, AuthDocument
    <3>3. QED
      BY <1>1, <2>2, <3>2, FinishHandlers, TypeInvParts DEF SaveChange
  <2>3. QED
    BY <1>9, <2>1, <2>2 DEF Change
<1>10. CASE Tick
  BY <1>1, <1>10, TypeInvParts
     DEF Tick, StoreInv, HandlerInv, Protocol, stored, handler, history, AuthDocument
<1>11. CASE UNCHANGED vars
  BY <1>1, <1>11, TypeInvParts
     DEF vars, StoreInv, HandlerInv, Protocol, stored, handler, history, AuthDocument
<1>12. CASE Crash
  <2>1. HandlerInv'
    BY <1>1, <1>12 DEF Crash, HandlerInv, Protocol, Holding, Steps
  <2>2. QED
    BY <1>1, <1>12, <2>1, TypeInvParts DEF Crash, StoreInv, stored, history, AuthDocument
<1>13. QED
  BY <1>3, <1>4, <1>5, <1>6, <1>7, <1>8, <1>9, <1>10, <1>11, <1>12 DEF Next, Handle

(* Every document, request and handler keeps the form the schemas, the     *)
(* DTOs and the order of the handlers' calls give it (auth.service.ts).    *)
THEOREM TypeCorrect == Spec => []TypeOK
<1>1. Init => TypeInv
  BY InitTypeInv
<1>2. TypeInv /\ [Next]_vars => TypeInv'
  BY NextTypeInv
<1>3. TypeInv => TypeOK
  BY DEF TypeInv
<1>4. QED
  BY <1>1, <1>2, <1>3, PTL DEF Spec

-----------------------------------------------------------------------------
(* What every document a handler reads or holds has in common with the     *)
(* history, whichever handler wrote its parts last: the strengthening that *)
(* makes the safety invariants inductive.                                  *)

Sound(d, issued, proved, allowed) ==
  /\ \A k \in CodeKeys : d.codes[k] # None =>
       /\ issued[k][d.codes[k].code] >= 0
       /\ d.codes[k].expiration <= issued[k][d.codes[k].code] + Hour
  /\ \A k \in VerifyKeys : d.verifications[k] => k \in proved
  /\ d.password \in allowed

SafetyInv ==
  /\ \A k \in CodeKeys, c \in Codes : lastIssued[k][c] <= now
  /\ Sound(auth, lastIssued, proven, authorised)
  /\ \A r \in Requests :
       pc[r] \in Holding => Sound(doc[r], lastIssued, proven, authorised)

(* History only grows, so what was sound stays sound. *)
LEMMA SoundGrows ==
  ASSUME NEW d \in AuthDocument, NEW proved, NEW allowed, NEW proved2, NEW allowed2,
         NEW issued \in [CodeKeys -> [Codes -> Int]],
         NEW issued2 \in [CodeKeys -> [Codes -> Int]],
         \A k \in CodeKeys, c \in Codes : issued[k][c] <= issued2[k][c],
         proved \subseteq proved2, allowed \subseteq allowed2,
         Sound(d, issued, proved, allowed)
  PROVE  Sound(d, issued2, proved2, allowed2)
<1>1. ASSUME NEW k \in CodeKeys, d.codes[k] # None
      PROVE  /\ issued2[k][d.codes[k].code] >= 0
             /\ d.codes[k].expiration <= issued2[k][d.codes[k].code] + Hour
  <2>1. d.codes[k] \in Entry
    BY <1>1 DEF AuthDocument
  <2>2. d.codes[k].code \in Codes /\ d.codes[k].expiration \in Nat
    BY <2>1 DEF Entry
  <2>3. /\ issued[k][d.codes[k].code] >= 0
        /\ d.codes[k].expiration <= issued[k][d.codes[k].code] + Hour
        /\ issued[k][d.codes[k].code] <= issued2[k][d.codes[k].code]
    BY <1>1, <2>2 DEF Sound
  <2>4. issued[k][d.codes[k].code] \in Int /\ issued2[k][d.codes[k].code] \in Int
    BY <2>2
  <2>5. QED
    BY <2>2, <2>3, <2>4, HourAssumption
<1>2. QED
  BY <1>1 DEF Sound

(* A save writes parts of one sound document over another. *)
LEMMA SoundSave ==
  ASSUME NEW a \in AuthDocument, NEW d \in AuthDocument,
         NEW issued, NEW proved, NEW allowed,
         Sound(a, issued, proved, allowed), Sound(d, issued, proved, allowed)
  PROVE  /\ Sound([a EXCEPT !.verifications = d.verifications, !.codes = d.codes],
                  issued, proved, allowed)
         /\ Sound([a EXCEPT !.codes = d.codes], issued, proved, allowed)
         /\ Sound([a EXCEPT !.password = d.password, !.codes = d.codes],
                  issued, proved, allowed)
         /\ Sound([a EXCEPT !.password = d.password], issued, proved, allowed)
         /\ \A k \in VerifyKeys : \A v :
              Sound([a EXCEPT !.contact[k] = v], issued, proved, allowed)
BY DEF Sound, AuthDocument

(* What the handlers compute from a sound document is sound. *)
LEMMA SoundUpdate ==
  ASSUME NEW d \in AuthDocument, NEW issued, NEW proved, NEW allowed,
         Sound(d, issued, proved, allowed)
  PROVE  /\ \A k \in VerifyKeys : k \in proved =>
              Sound(UpdateVerification(d, k), issued, proved, allowed)
         /\ \A p \in allowed : /\ Sound(WithNewPassword(d, p), issued, proved, allowed)
                               /\ Sound([d EXCEPT !.password = p], issued, proved, allowed)
BY DEF Sound, AuthDocument, UpdateVerification, WithNewPassword, CodeKeys, VerifyKeys

(* A code that a sound document accepts was issued within the hour. *)
LEMMA AcceptedInForce ==
  ASSUME TypeInv, NEW d \in AuthDocument, NEW k \in CodeKeys, NEW code \in Codes,
         Sound(d, lastIssued, proven, authorised), CodeAccepted(d, k, code)
  PROVE  InForce(k, code)
<1>1. d.codes[k] \in Entry /\ d.codes[k] # None /\ d.codes[k].code = code
  BY DEF AuthDocument, CodeAccepted
<1>2. /\ d.codes[k].expiration \in Nat
      /\ now \in Nat
      /\ lastIssued[k][code] \in Int
  BY <1>1 DEF Entry, TypeInv, TypeOK
<1>3. now <= d.codes[k].expiration
  BY <1>2 DEF CodeAccepted, Expired
<1>4. lastIssued[k][code] >= 0 /\ d.codes[k].expiration <= lastIssued[k][code] + Hour
  BY <1>1 DEF Sound
<1>5. QED
  BY <1>2, <1>3, <1>4, HourAssumption DEF InForce

LEMMA InitSafetyInv == Init => SafetyInv
<1> SUFFICES ASSUME Init PROVE SafetyInv
  OBVIOUS
<1>1. \A k \in CodeKeys, c \in Codes : lastIssued[k][c] <= now
  BY DEF Init
<1>2. Sound(auth, lastIssued, proven, authorised)
  BY HourAssumption DEF Init, Sound, CodeKeys, VerifyKeys
<1>3. QED
  BY <1>1, <1>2 DEF Init, SafetyInv, Holding

(* The history of a step: it grows, and stays behind the clock. *)
HistoryGrows == /\ proven \subseteq proven'
                /\ authorised \subseteq authorised'
                /\ \A k \in CodeKeys, c \in Codes :
                     /\ lastIssued[k][c] <= lastIssued'[k][c]
                     /\ lastIssued'[k][c] <= now'

(* A step of handler r keeps SafetyInv if the stored document and the one  *)
(* that r holds after the step are sound.                                  *)
LEMMA SafetyStep ==
  ASSUME TypeInv, TypeInv', SafetyInv, NEW r \in Requests, HistoryGrows,
         Sound(auth', lastIssued', proven', authorised'),
         \A q \in Requests \ {r} : pc'[q] = pc[q] /\ doc'[q] = doc[q],
         pc'[r] \in Holding => Sound(doc'[r], lastIssued', proven', authorised')
  PROVE  SafetyInv'
<1>1. ASSUME NEW q \in Requests, pc'[q] \in Holding
      PROVE  Sound(doc'[q], lastIssued', proven', authorised')
  <2>1. CASE q # r
    <3>1. doc'[q] = doc[q] /\ doc[q] \in AuthDocument
      BY <1>1, <2>1 DEF TypeInv, Protocol
    <3>2. Sound(doc[q], lastIssued, proven, authorised)
      BY <1>1, <2>1 DEF SafetyInv
    <3>3. /\ lastIssued \in [CodeKeys -> [Codes -> Int]]
          /\ lastIssued' \in [CodeKeys -> [Codes -> Int]]
      BY DEF TypeInv, TypeOK
    <3>4. QED
      BY <3>1, <3>2, <3>3, SoundGrows DEF HistoryGrows
  <2>2. QED
    BY <1>1, <2>1
<1>2. QED
  BY <1>1 DEF SafetyInv, HistoryGrows

(* The same for a step that leaves the history alone and ends the handler, *)
(* or lets it go on with a sound document.                                 *)
LEMMA QuietStep ==
  ASSUME TypeInv, TypeInv', SafetyInv, NEW r \in Requests,
         UNCHANGED <<now, history>>,
         Sound(auth', lastIssued, proven, authorised),
         \/ Finish(r)
         \/ \E step, d : /\ Continue(r, step, d)
                         /\ Sound(d, lastIssued, proven, authorised)
  PROVE  SafetyInv'
<1>1. HistoryGrows
  BY DEF HistoryGrows, history, SafetyInv, TypeInv, TypeOK
<1>2. \A q \in Requests \ {r} : pc'[q] = pc[q] /\ doc'[q] = doc[q]
  BY DEF Finish, Continue, TypeInv, TypeOK
<1>3. CASE Finish(r)
  <2>1. pc'[r] \notin Holding
    BY <1>3 DEF Finish, TypeInv, TypeOK, Holding
  <2>2. QED
    BY <1>1, <1>2, <2>1, SafetyStep DEF history
<1>4. CASE \E step, d : /\ Continue(r, step, d)
                        /\ Sound(d, lastIssued, proven, authorised)
  <2>1. PICK step, d : /\ Continue(r, step, d)
                       /\ Sound(d, lastIssued, proven, authorised)
    BY <1>4
  <2>2. doc'[r] = d
    BY <2>1 DEF Continue, TypeInv, TypeOK
  <2>3. QED
    BY <1>1, <1>2, <2>1, <2>2, SafetyStep DEF history
<1>5. QED
  BY <1>3, <1>4

LEMMA FindAndVerifySafe ==
  ASSUME TypeInv, TypeInv', SafetyInv, NEW r \in Requests, NEW k \in VerifyKeys,
         NEW address, NEW code \in Codes, FindAndVerify(r, k, address, code)
  PROVE  SafetyInv'
<1>1. Sound(auth, lastIssued, proven, authorised) /\ auth \in AuthDocument
  BY DEF SafetyInv, TypeInv, TypeOK
<1>2. CASE Finish(r) /\ UNCHANGED proven
  BY <1>1, <1>2, QuietStep DEF FindAndVerify, stored, history
<1>3. CASE /\ CanVerify(auth, k, code)
           /\ Continue(r, "save", UpdateVerification(auth, k))
           /\ RecordProof(k, code)
  <2>1. InForce(k, code)
    BY <1>1, <1>3, AcceptedInForce DEF CanVerify, CodeKeys
  <2>2. /\ proven' = proven \cup {k}
        /\ UNCHANGED <<stored, now, lastIssued, authorised>>
    BY <1>3, <2>1 DEF RecordProof, FindAndVerify
  <2>3. HistoryGrows
    BY <2>2 DEF HistoryGrows, SafetyInv, TypeInv, TypeOK
  <2>4. Sound(auth, lastIssued, proven', authorised)
    BY <1>1, <2>2 DEF Sound
  <2>5. Sound(UpdateVerification(auth, k), lastIssued, proven', authorised)
    BY <1>1, <2>2, <2>4, SoundUpdate
  <2>6. \A q \in Requests \ {r} : pc'[q] = pc[q] /\ doc'[q] = doc[q]
    BY <1>3 DEF Continue, TypeInv, TypeOK
  <2>7. doc'[r] = UpdateVerification(auth, k)
    BY <1>3 DEF Continue, TypeInv, TypeOK
  <2>8. QED
    BY <2>2, <2>3, <2>4, <2>5, <2>6, <2>7, SafetyStep DEF stored
<1>4. QED
  BY <1>2, <1>3 DEF FindAndVerify

LEMMA IssueCodeSafe ==
  ASSUME TypeInv, TypeInv', SafetyInv, NEW r \in Requests, NEW k \in CodeKeys, IssueCode(r, k)
  PROVE  SafetyInv'
<1>1. PICK code \in Codes : /\ Continue(r, "save", WithCode(doc[r], k, code))
                            /\ lastIssued' = [lastIssued EXCEPT ![k][code] = now]
  BY DEF IssueCode
<1>2. UNCHANGED <<stored, now, proven, authorised>>
  BY DEF IssueCode
<1>3. /\ doc[r] \in AuthDocument
      /\ Sound(doc[r], lastIssued, proven, authorised)
  BY DEF IssueCode, TypeInv, Protocol, SafetyInv, Holding
<1>4. /\ auth \in AuthDocument
      /\ now \in Nat
      /\ lastIssued \in [CodeKeys -> [Codes -> Int]]
      /\ lastIssued' \in [CodeKeys -> [Codes -> Int]]
  BY DEF TypeInv, TypeOK
<1>5. HistoryGrows
  BY <1>1, <1>2, <1>4 DEF HistoryGrows, SafetyInv
<1>6. /\ Sound(auth, lastIssued', proven, authorised)
      /\ Sound(doc[r], lastIssued', proven, authorised)
  BY <1>2, <1>3, <1>4, <1>5, SoundGrows DEF HistoryGrows, SafetyInv
<1>7. Sound(WithCode(doc[r], k, code), lastIssued', proven, authorised)
  <2> DEFINE d == WithCode(doc[r], k, code)
  <2>1. /\ d.verifications = doc[r].verifications
        /\ d.password = doc[r].password
        /\ d.codes = [doc[r].codes EXCEPT ![k] = [code |-> code, expiration |-> now + Hour]]
    BY <1>3 DEF WithCode, AuthDocument, AddHourToDate
  <2>2. lastIssued'[k][code] = now
    BY <1>1, <1>4
  <2>3. doc[r].codes \in [CodeKeys -> Entry \cup {None}]
    BY <1>3 DEF AuthDocument
  <2> HIDE DEF d
  <2>4. ASSUME NEW j \in CodeKeys, d.codes[j] # None
        PROVE  /\ lastIssued'[j][d.codes[j].code] >= 0
               /\ d.codes[j].expiration <= lastIssued'[j][d.codes[j].code] + Hour
    <3>1. CASE j = k
      BY <1>4, <2>1, <2>2, <2>3, <3>1, HourAssumption
    <3>2. CASE j # k
      BY <1>6, <2>1, <2>3, <2>4, <3>2 DEF Sound
    <3>3. QED
      BY <3>1, <3>2
  <2>5. QED
    BY <1>6, <2>1, <2>4 DEF Sound, d
<1>8. doc'[r] = WithCode(doc[r], k, code)
  BY <1>1 DEF Continue, TypeInv, TypeOK
<1>9. \A q \in Requests \ {r} : pc'[q] = pc[q] /\ doc'[q] = doc[q]
  BY <1>1 DEF Continue, TypeInv, TypeOK
<1>10. QED
  BY <1>2, <1>5, <1>6, <1>7, <1>8, <1>9, SafetyStep DEF stored

(* resetPassword and changePassword, once their check has passed *)
LEMMA NewPasswordSafe ==
  ASSUME TypeInv, TypeInv', SafetyInv, NEW r \in Requests, NEW p \in Passwords,
         NEW d, Continue(r, "save", d),
         d = WithNewPassword(auth, p) \/ d = [auth EXCEPT !.password = p],
         authorised' = authorised \cup {p},
         UNCHANGED <<stored, now, lastIssued, proven>>
  PROVE  SafetyInv'
<1>1. Sound(auth, lastIssued, proven, authorised) /\ auth \in AuthDocument
  BY DEF SafetyInv, TypeInv, TypeOK
<1>2. HistoryGrows
  BY DEF HistoryGrows, SafetyInv, TypeInv, TypeOK
<1>3. Sound(auth, lastIssued, proven, authorised')
  BY <1>1 DEF Sound
<1>4. Sound(d, lastIssued, proven, authorised')
  <2>1. /\ Sound(WithNewPassword(auth, p), lastIssued, proven, authorised')
        /\ Sound([auth EXCEPT !.password = p], lastIssued, proven, authorised')
    BY <1>1, <1>3, SoundUpdate
  <2>2. QED
    BY <2>1
<1>5. /\ doc'[r] = d
      /\ \A q \in Requests \ {r} : pc'[q] = pc[q] /\ doc'[q] = doc[q]
  BY DEF Continue, TypeInv, TypeOK
<1>6. QED
  BY <1>2, <1>3, <1>4, <1>5, SafetyStep DEF stored

LEMMA NextSafetyInv == TypeInv /\ TypeInv' /\ SafetyInv /\ [Next]_vars => SafetyInv'
<1> SUFFICES ASSUME TypeInv, TypeInv', SafetyInv, [Next]_vars PROVE SafetyInv'
  OBVIOUS
<1>1. auth \in AuthDocument /\ Sound(auth, lastIssued, proven, authorised)
  BY DEF TypeInv, TypeOK, SafetyInv
<1>2. ASSUME NEW r \in Requests, pc[r] \in Holding
      PROVE  /\ doc[r] \in AuthDocument
             /\ Sound(doc[r], lastIssued, proven, authorised)
  BY <1>2 DEF TypeInv, Protocol, SafetyInv
<1>3. ASSUME NEW r \in Requests, pc[r] # "idle" PROVE call[r] \in Calls
  BY <1>3 DEF TypeInv, Protocol
<1>4. ASSUME NEW r \in Requests, Receive(r) PROVE SafetyInv'
  BY <1>4 DEF Receive, SafetyInv, TypeInv, TypeOK, Holding, stored, history
<1>5. ASSUME NEW r \in Requests, Verify(r) PROVE SafetyInv'
  <2>1. CASE VerifyEmail(r)
    <3>1. call[r].code \in Codes
      BY <2>1, <1>3, CallTypes DEF VerifyEmail, FindAndVerify
    <3>2. QED
      BY <2>1, <3>1, FindAndVerifySafe DEF VerifyEmail, VerifyKeys
  <2>2. CASE VerifyMobile(r)
    <3>1. call[r].code \in Codes
      BY <2>2, <1>3, CallTypes DEF VerifyMobile, FindAndVerify
    <3>2. QED
      BY <2>2, <3>1, FindAndVerifySafe DEF VerifyMobile, VerifyKeys
  <2>3. CASE SaveVerification(r)
    <3>1. Sound(auth', lastIssued, proven, authorised)
      BY <1>1, <1>2, <2>3, SoundSave DEF SaveVerification, Holding
    <3>2. QED
      BY <2>3, <3>1, QuietStep DEF SaveVerification
  <2>4. QED
    BY <1>5, <2>1, <2>2, <2>3 DEF Verify
<1>6. ASSUME NEW r \in Requests, Send(r) PROVE SafetyInv'
  <2>1. CASE Guard(r)
    <3>1. CASE Finish(r)
      BY <1>1, <2>1, <3>1, QuietStep DEF Guard, stored
    <3>2. CASE ~Finish(r)
      BY <2>1, <3>2 DEF Guard, SafetyInv, TypeInv, TypeOK, Holding, stored, history
    <3>3. QED
      BY <3>1, <3>2
  <2>2. CASE FindToSend(r)
    BY <1>1, <2>2, QuietStep DEF FindToSend, stored
  <2>3. CASE UpdateUser(r)
    BY <1>1, <1>2, <2>3, QuietStep DEF UpdateUser, Holding
  <2>4. CASE SaveContact(r)
    <3>1. doc[r] \in AuthDocument /\ Sound(doc[r], lastIssued, proven, authorised)
      BY <1>2, <2>4 DEF SaveContact, Holding
    <3>2. \A k \in VerifyKeys : \A v :
            /\ Sound([auth EXCEPT !.contact[k] = v], lastIssued, proven, authorised)
            /\ Sound([doc[r] EXCEPT !.contact[k] = v], lastIssued, proven, authorised)
      BY <1>1, <3>1, SoundSave
    <3>3. Sound(auth', lastIssued, proven, authorised)
      BY <1>1, <2>4, <3>2 DEF SaveContact
    <3>4. \/ Continue(r, "issue", doc[r])
          \/ /\ call[r].type \in VerifyKeys
             /\ Continue(r, "issue", [doc[r] EXCEPT !.contact[call[r].type] = call[r].contact])
      BY <2>4 DEF SaveContact
    <3>5. \E d : Continue(r, "issue", d) /\ Sound(d, lastIssued, proven, authorised)
      BY <3>1, <3>2, <3>4
    <3>6. UNCHANGED <<now, history>>
      BY <2>4 DEF SaveContact
    <3>7. QED
      BY <3>3, <3>5, <3>6, QuietStep
  <2>5. CASE IssueVerification(r)
    BY <1>3, <2>5, CallTypes, IssueCodeSafe DEF IssueVerification, IssueCode, Sending
  <2>6. QED
    BY <1>6, <2>1, <2>2, <2>3, <2>4, <2>5 DEF Send
<1>7. ASSUME NEW r \in Requests, SaveCodes(r) PROVE SafetyInv'
  <2>1. doc[r] \in AuthDocument /\ Sound(doc[r], lastIssued, proven, authorised)
    BY <1>2, <1>7 DEF SaveCodes, Holding
  <2>2. Sound(auth', lastIssued, proven, authorised)
    BY <1>1, <1>7, <2>1, SoundSave DEF SaveCodes
  <2>3. QED
    BY <1>7, <2>1, <2>2, QuietStep DEF SaveCodes
<1>8. ASSUME NEW r \in Requests, Reply(r) \/ Fail(r) PROVE SafetyInv'
  BY <1>1, <1>8, QuietStep DEF Reply, Fail, stored
<1>9. ASSUME NEW r \in Requests, Reset(r) PROVE SafetyInv'
  <2>1. CASE FindToReset(r)
    BY <1>1, <2>1, QuietStep DEF FindToReset, stored
  <2>2. CASE RequestPasswordReset(r)
    BY <2>2, IssueCodeSafe DEF RequestPasswordReset, CodeKeys
  <2>3. CASE ResetPassword(r)
    <3>1. call[r].code \in Codes /\ call[r].password \in Passwords
      BY <1>3, <2>3, CallTypes DEF ResetPassword
    <3>2. CASE Finish(r) /\ UNCHANGED authorised
      BY <1>1, <2>3, <3>2, QuietStep DEF ResetPassword, stored, history
    <3>3. CASE /\ CanResetPassword(auth, call[r].code)
               /\ Continue(r, "save", WithNewPassword(auth, call[r].password))
               /\ RecordAuthorised(InForce("resetPassword", call[r].code), call[r].password)
      <4>1. InForce("resetPassword", call[r].code)
        BY <1>1, <3>1, <3>3, AcceptedInForce DEF CanResetPassword, CodeKeys
      <4>2. authorised' = authorised \cup {call[r].password}
        BY <3>3, <4>1 DEF RecordAuthorised
      <4>3. QED
        BY <2>3, <3>1, <3>3, <4>2, NewPasswordSafe DEF ResetPassword
    <3>4. QED
      BY <2>3, <3>2, <3>3 DEF ResetPassword
  <2>4. CASE SaveReset(r)
    <3>1. Sound(auth', lastIssued, proven, authorised)
      BY <1>1, <1>2, <2>4, SoundSave DEF SaveReset, Holding
    <3>2. QED
      BY <2>4, <3>1, QuietStep DEF SaveReset
  <2>5. QED
    BY <1>9, <2>1, <2>2, <2>3, <2>4 DEF Reset
<1>10. ASSUME NEW r \in Requests, Change(r) PROVE SafetyInv'
  <2>1. CASE ChangePassword(r)
    <3>1. call[r].password \in Passwords
      BY <1>3, <2>1, CallTypes DEF ChangePassword
    <3>2. CASE Finish(r) /\ UNCHANGED authorised
      BY <1>1, <2>1, <3>2, QuietStep DEF ChangePassword, stored, history
    <3>3. CASE /\ Compare(call[r].currentPassword, auth.password)
               /\ Continue(r, "save", [auth EXCEPT !.password = call[r].password])
               /\ RecordAuthorised(call[r].currentPassword = auth.password, call[r].password)
      <4>1. authorised' = authorised \cup {call[r].password}
        BY <3>3 DEF RecordAuthorised, Compare
      <4>2. QED
        BY <2>1, <3>1, <3>3, <4>1, NewPasswordSafe DEF ChangePassword
    <3>4. QED
      BY <2>1, <3>2, <3>3 DEF ChangePassword
  <2>2. CASE SaveChange(r)
    <3>1. Sound(auth', lastIssued, proven, authorised)
      BY <1>1, <1>2, <2>2, SoundSave DEF SaveChange, Holding
    <3>2. QED
      BY <2>2, <3>1, QuietStep DEF SaveChange
  <2>3. QED
    BY <1>10, <2>1, <2>2 DEF Change
<1>11. CASE Tick
  BY <1>11 DEF Tick, SafetyInv, TypeInv, TypeOK, stored, handler, history
<1>12. CASE UNCHANGED vars
  BY <1>12 DEF vars, SafetyInv, stored, handler, history
<1>13. CASE Crash
  BY <1>13 DEF Crash, SafetyInv, stored, history, Holding
<1>14. QED
  BY <1>4, <1>5, <1>6, <1>7, <1>8, <1>9, <1>10, <1>11, <1>12, <1>13 DEF Next, Handle

LEMMA SafetyCorrect == Spec => [](TypeInv /\ SafetyInv)
<1>1. Init => TypeInv /\ SafetyInv
  BY InitTypeInv, InitSafetyInv
<1>2. TypeInv /\ SafetyInv /\ [Next]_vars => (TypeInv /\ SafetyInv)'
  BY NextTypeInv, NextSafetyInv
<1>3. QED
  BY <1>1, <1>2, PTL DEF Spec

(* Whatever the interleaving of the whole-object saves, the stored codes   *)
(* were issued for their keys and die within the hour.                     *)
THEOREM CodesAreIssued == Spec => []CodesWereIssued
<1>1. SafetyInv => CodesWereIssued
  BY DEF SafetyInv, Sound, CodesWereIssued, CodesIssued
<1>2. QED
  BY <1>1, SafetyCorrect, PTL

(* A contact is marked verified only after a code in force for it was      *)
(* presented (verifyEmail, verifyMobile, canVerify).                       *)
THEOREM VerifiedIsProven == Spec => []VerifiedWasProven
<1>1. SafetyInv => VerifiedWasProven
  BY DEF SafetyInv, Sound, VerifiedWasProven
<1>2. QED
  BY <1>1, SafetyCorrect, PTL

(* The stored password was authorised by a reset code in force or by the   *)
(* password stored when its change was checked (resetPassword,             *)
(* changePassword), or is the one of sign-up.                              *)
THEOREM PasswordIsAuthorised == Spec => []PasswordWasAuthorised
<1>1. SafetyInv => PasswordWasAuthorised
  BY DEF SafetyInv, Sound, PasswordWasAuthorised
<1>2. QED
  BY <1>1, SafetyCorrect, PTL

-----------------------------------------------------------------------------
(* The user and the account agree on a contact.                            *)

(* Handler r may still write the contact its request names. *)
Linking(r) == /\ call[r].op = "sendVerification"
              /\ \/ pc[r] \in {"user", "contact"}
                 \/ pc[r] = "find" /\ ~linked[r]

(* Of the requests that link a contact of kind k at the same time, none is *)
(* about another contact; so what one of them has written to the user is   *)
(* what the user has, and what the account has if it has a contact at all. *)
LinksAgree(k) ==
  /\ auth.contact[k] # None => userContact[k] = auth.contact[k]
  /\ \A q, r \in Requests, a, b \in Addresses : Links(q, k, a) /\ Links(r, k, b) => a = b
  /\ \A r \in Requests, a \in Addresses :
       Links(r, k, a) => /\ pc[r] = "contact" => userContact[k] = a
                         /\ Linking(r) => auth.contact[k] \in {None, a}

ContactInv == \A k \in VerifyKeys \ raced : LinksAgree(k)

LEMMA InitContactInv == Init => ContactInv
BY DEF Init, ContactInv, LinksAgree, Links, Linking, NoCall, VerifyKeys

(* A step of handler r that writes no contact and does not race. *)
LEMMA ContactStep ==
  ASSUME NEW k \in VerifyKeys, LinksAgree(k), NEW r \in Requests,
         UNCHANGED userContact, auth'.contact = auth.contact,
         \A q \in Requests \ {r} : /\ pc'[q] = pc[q]
                                   /\ call'[q] = call[q]
                                   /\ linked'[q] = linked[q],
         \A a \in Addresses :
           Links(r, k, a)' => /\ Links(r, k, a)
                              /\ pc'[r] # "contact"
                              /\ Linking(r)' => auth.contact[k] \in {None, a}
  PROVE  LinksAgree(k)'
BY DEF LinksAgree, Links, Linking

LEMMA NextContactInv == TypeInv /\ ContactInv /\ [Next]_vars => ContactInv'
<1> SUFFICES ASSUME TypeInv, ContactInv, [Next]_vars, NEW k \in VerifyKeys, k \notin raced'
             PROVE  LinksAgree(k)'
  BY DEF ContactInv
<1> USE DEF TypeInv, TypeOK
<1>1. auth.contact \in [VerifyKeys -> Addresses \cup {None}]
  BY DEF AuthDocument
<1>2. raced \subseteq raced'
  BY DEF Next, Receive, Handle, Fail, Crash, Tick, Verify, VerifyEmail, VerifyMobile,
     FindAndVerify, SaveVerification, Send, Guard, FindToSend, UpdateUser, SaveContact,
     IssueVerification, IssueCode, SaveCodes, Reply, Reset, FindToReset, RequestPasswordReset,
     ResetPassword, SaveReset, Change, ChangePassword, SaveChange, Finish, Continue, vars, handler
<1>3. LinksAgree(k)
  BY <1>2 DEF ContactInv
<1>4. ASSUME NEW r \in Requests, UNCHANGED userContact, auth'.contact = auth.contact,
             Finish(r) \/ \E d : Continue(r, "issue", d) \/ Continue(r, "save", d)
                                 \/ Continue(r, "reply", d)
      PROVE  LinksAgree(k)'
  <2>1. /\ \A q \in Requests \ {r} : /\ pc'[q] = pc[q]
                                      /\ call'[q] = call[q]
                                      /\ linked'[q] = linked[q]
        /\ pc'[r] \in {"idle", "issue", "save", "reply"}
    BY <1>4 DEF Finish, Continue
  <2>2. QED
    BY <1>3, <1>4, <2>1, ContactStep DEF Links
<1>5. ASSUME NEW r \in Requests, Receive(r) PROVE LinksAgree(k)'
  <2>1. PICK c \in Calls :
          /\ call' = [call EXCEPT ![r] = c]
          /\ pc' = [pc EXCEPT ![r] = IF c.op = "sendVerification" THEN "guard" ELSE "find"]
          /\ raced' = IF Races(c) THEN raced \cup {c.type} ELSE raced
    BY <1>5 DEF Receive
  <2>2. UNCHANGED <<auth, userContact, linked>> /\ pc[r] = "idle"
    BY <1>5 DEF Receive, stored
  <2>3. ASSUME NEW q \in Requests, NEW a \in Addresses, Links(q, k, a)'
        PROVE  \/ q # r /\ Links(q, k, a) /\ pc'[q] = pc[q] /\ (Linking(q)' => Linking(q))
               \/ q = r /\ c.op = "sendVerification" /\ c.type = k /\ c.contact = a
                  /\ pc'[q] = "guard"
    BY <2>1, <2>2, <2>3 DEF Links, Linking
  <2>4. ASSUME NEW q \in Requests, NEW a \in Addresses, NEW b \in Addresses,
               c.op = "sendVerification", c.type = k, c.contact = a, Links(q, k, b)
        PROVE  b = a
    <3>1. a # None
      BY NoneAssumption
    <3>2. b # a => Races(c)
      BY <2>4, <3>1 DEF Races
    <3>3. QED
      BY <2>1, <2>4, <3>2
  <2>5. \A q, p \in Requests, a, b \in Addresses :
          Links(q, k, a)' /\ Links(p, k, b)' => a = b
    BY <1>3, <2>3, <2>4 DEF LinksAgree
  <2>6. QED
    BY <1>3, <2>2, <2>3, <2>5 DEF LinksAgree, Linking
<1>6. ASSUME NEW r \in Requests, Verify(r) \/ Reset(r) \/ Change(r) \/ SaveCodes(r)
      PROVE  LinksAgree(k)'
  <2>1. auth'.contact = auth.contact /\ UNCHANGED userContact
    BY <1>6 DEF Verify, VerifyEmail, VerifyMobile, FindAndVerify, SaveVerification, Reset,
       FindToReset, RequestPasswordReset, IssueCode, ResetPassword, SaveReset, Change,
       ChangePassword, SaveChange, SaveCodes, stored, AuthDocument
  <2>2. Finish(r) \/ \E d : Continue(r, "issue", d) \/ Continue(r, "save", d)
                           \/ Continue(r, "reply", d)
    BY <1>6 DEF Verify, VerifyEmail, VerifyMobile, FindAndVerify, SaveVerification, Reset,
       FindToReset, RequestPasswordReset, IssueCode, ResetPassword, SaveReset, Change,
       ChangePassword, SaveChange, SaveCodes
  <2>3. QED
    BY <1>4, <2>1, <2>2
<1>7. ASSUME NEW r \in Requests, Reply(r) \/ Fail(r) \/ IssueVerification(r)
      PROVE  LinksAgree(k)'
  BY <1>4, <1>7 DEF Reply, Fail, IssueVerification, IssueCode, stored
<1>8. ASSUME NEW r \in Requests, Guard(r) PROVE LinksAgree(k)'
  <2>1. CASE Finish(r)
    BY <1>4, <1>8, <2>1 DEF Guard, stored
  <2>2. CASE ~Finish(r)
    <3>1. /\ pc[r] = "guard" /\ pc' = [pc EXCEPT ![r] = "find"]
          /\ UNCHANGED <<call, auth, userContact>>
          /\ linked' = [linked EXCEPT ![r] = /\ call[r].type \in VerifyKeys
                                             /\ auth.contact[call[r].type] # None]
      BY <1>8, <2>2 DEF Guard, stored
    <3>2. ASSUME NEW a \in Addresses, Links(r, k, a)'
          PROVE  Links(r, k, a) /\ (Linking(r)' => auth.contact[k] = None)
      BY <3>1, <3>2 DEF Links, Linking
    <3>3. QED
      BY <1>3, <3>1, <3>2, ContactStep
  <2>3. QED
    BY <2>1, <2>2
<1>9. ASSUME NEW r \in Requests, FindToSend(r) PROVE LinksAgree(k)'
  <2>1. CASE linked[r]
    BY <1>4, <1>9, <2>1 DEF FindToSend, stored
  <2>2. CASE ~linked[r]
    <3>1. /\ pc[r] = "find" /\ pc' = [pc EXCEPT ![r] = "user"]
          /\ UNCHANGED <<call, auth, userContact, linked>> /\ Sending(r)
      BY <1>9, <2>2 DEF FindToSend, Continue, stored
    <3>2. ASSUME NEW a \in Addresses, Links(r, k, a)'
          PROVE  Links(r, k, a) /\ Linking(r)
      BY <2>2, <3>1, <3>2 DEF Links, Linking, Sending
    <3>3. QED
      BY <1>3, <3>1, <3>2, ContactStep DEF LinksAgree
  <2>3. QED
    BY <2>1, <2>2
<1>10. ASSUME NEW r \in Requests, UpdateUser(r) PROVE LinksAgree(k)'
  <2>1. /\ pc[r] = "user" /\ pc' = [pc EXCEPT ![r] = "contact"]
        /\ UNCHANGED <<call, auth, linked>>
        /\ call[r].op = "sendVerification" /\ call[r] \in Calls
        /\ userContact' = IF call[r].contact # None
                          THEN [userContact EXCEPT ![call[r].type] = call[r].contact]
                          ELSE userContact
    BY <1>10 DEF UpdateUser, Continue, Protocol
  <2>2. \A q \in Requests, a \in Addresses :
          /\ Links(q, k, a)' <=> Links(q, k, a)
          /\ Linking(q)' <=> Linking(q)
    BY <2>1 DEF Links, Linking
  <2>3. CASE \E a \in Addresses : Links(r, k, a)
    <3>1. PICK a \in Addresses : Links(r, k, a)
      BY <2>3
    <3>2. userContact'[k] = a
      BY <2>1, <3>1, NoneAssumption DEF Links
    <3>3. auth.contact[k] \in {None, a}
      BY <1>3, <2>1, <3>1 DEF LinksAgree, Linking
    <3>4. QED
      BY <1>3, <2>1, <2>2, <3>1, <3>2, <3>3 DEF LinksAgree
  <2>4. CASE ~\E a \in Addresses : Links(r, k, a)
    <3>1. call[r].contact # None => call[r].type \in VerifyKeys /\ call[r].contact \in Addresses
      BY <2>1, CallTypes
    <3>2. call[r].contact # None => call[r].type # k
      BY <2>1, <2>4, <3>1 DEF Links
    <3>3. userContact'[k] = userContact[k]
      BY <2>1, <3>2
    <3>4. \A q \in Requests \ {r} : pc'[q] = pc[q]
      BY <2>1
    <3>5. QED
      BY <1>3, <2>1, <2>2, <2>4, <3>3, <3>4 DEF LinksAgree
  <2>5. QED
    BY <2>3, <2>4
<1>11. ASSUME NEW r \in Requests, SaveContact(r) PROVE LinksAgree(k)'
  <2>1. /\ pc[r] = "contact" /\ pc' = [pc EXCEPT ![r] = "issue"]
        /\ UNCHANGED <<call, userContact, linked>>
        /\ call[r].op = "sendVerification" /\ call[r] \in Calls
    BY <1>11 DEF SaveContact, Continue, Protocol
  <2>2. \A q \in Requests, a \in Addresses :
          Links(q, k, a)' => /\ Links(q, k, a)
                             /\ pc'[q] = pc[q]
                             /\ Linking(q)' => Linking(q)
    BY <2>1 DEF Links, Linking
  <2>3. CASE auth'.contact[k] = auth.contact[k]
    BY <1>3, <2>1, <2>2, <2>3 DEF LinksAgree
  <2>4. CASE auth'.contact[k] # auth.contact[k]
    <3>1. auth'.contact = [auth.contact EXCEPT ![call[r].type] = call[r].contact]
      BY <1>11, <2>4 DEF SaveContact, AuthDocument
    <3>2. call[r].type = k /\ auth'.contact[k] = call[r].contact
      BY <1>1, <2>4, <3>1
    <3>3. CASE call[r].contact = None
      BY <1>3, <2>1, <2>2, <3>2, <3>3 DEF LinksAgree
    <3>4. CASE call[r].contact # None
      <4> DEFINE a == call[r].contact
      <4>1. a \in Addresses
        BY <2>1, <3>2, <3>4, CallTypes
      <4>2. Links(r, k, a)
        BY <2>1, <3>2 DEF Links
      <4>3. userContact'[k] = a
        BY <1>3, <2>1, <4>1, <4>2 DEF LinksAgree
      <4>4. \A q \in Requests, b \in Addresses : Links(q, k, b)' => b = a
        BY <1>3, <2>2, <4>1, <4>2 DEF LinksAgree
      <4> HIDE DEF a
      <4>5. auth'.contact[k] = a
        BY <3>2 DEF a
      <4>6. QED
        BY <1>3, <2>1, <2>2, <4>3, <4>4, <4>5 DEF LinksAgree
    <3>5. QED
      BY <3>3, <3>4
  <2>5. QED
    BY <2>3, <2>4
<1>12. CASE Tick \/ UNCHANGED vars
  BY <1>3, <1>12 DEF Tick, vars, stored, handler, LinksAgree, Links, Linking
<1>13. CASE Crash
  BY <1>3, <1>13 DEF Crash, stored, LinksAgree, Links, Linking
<1>14. QED
  BY <1>5, <1>6, <1>7, <1>8, <1>9, <1>10, <1>11, <1>12, <1>13 DEF Next, Handle, Send

(* The contact an account has is its user's, wherever sendVerification     *)
(* stops (auth.service.ts:158-165), unless two requests linked different   *)
(* contacts of that kind at once.                                          *)
THEOREM ContactsAgreeUnlessRaced == Spec => []ContactsAgree
<1>1. TypeInv /\ ContactInv /\ [Next]_vars => ContactInv'
  BY NextContactInv
<1>2. ContactInv => ContactsAgree
  BY DEF ContactInv, LinksAgree, ContactsAgree
<1>3. Spec => []TypeInv
  BY SafetyCorrect, PTL
<1>4. QED
  BY <1>1, <1>2, <1>3, InitContactInv, PTL DEF Spec

-----------------------------------------------------------------------------
(* What the queued messages tell.                                          *)

Purpose(c) == IF c.op = "passwordReset" THEN "resetPassword" ELSE c.type

(* A handler about to save or to tell a new code has it in hand. *)
MessageInv ==
  \A r \in Requests :
    /\ pc[r] \in {"save", "reply"}
    /\ call[r].op \in {"sendVerification", "passwordReset"}
    => doc[r].codes[Purpose(call[r])] # None

LEMMA IssuedInHand ==
  ASSUME TypeInv, MessageInv, NEW r \in Requests, NEW k \in CodeKeys,
         k = Purpose(call[r]), IssueCode(r, k)
  PROVE  MessageInv'
<1>1. PICK code \in Codes : Continue(r, "save", WithCode(doc[r], k, code))
  BY DEF IssueCode
<1>2. doc[r] \in AuthDocument
  BY DEF TypeInv, Protocol, IssueCode, Holding
<1>3. WithCode(doc[r], k, code).codes[k] = [code |-> code, expiration |-> now + Hour]
  BY <1>2 DEF WithCode, AddHourToDate, AuthDocument
<1>4. [code |-> code, expiration |-> now + Hour] # None
  <2>1. now + Hour \in Nat
    BY HourAssumption DEF TypeInv, TypeOK
  <2>2. QED
    BY <2>1, NoneAssumption
<1>5. QED
  BY <1>1, <1>3, <1>4 DEF Continue, MessageInv, TypeInv, TypeOK

LEMMA NextMessageInv == TypeInv /\ MessageInv /\ [Next]_vars => MessageInv'
<1> SUFFICES ASSUME TypeInv, MessageInv, [Next]_vars PROVE MessageInv'
  OBVIOUS
<1> USE DEF TypeInv, TypeOK, MessageInv
<1>1. ASSUME NEW r \in Requests,
             \A q \in Requests \ {r} : pc'[q] = pc[q] /\ call'[q] = call[q] /\ doc'[q] = doc[q],
             \/ pc'[r] \notin {"save", "reply"}
             \/ call'[r].op \notin {"sendVerification", "passwordReset"}
      PROVE  MessageInv'
  BY <1>1
<1>2. ASSUME NEW r \in Requests,
             \/ Finish(r)
             \/ \E step, d : /\ Continue(r, step, d)
                             /\ \/ step \notin {"save", "reply"}
                                \/ call[r].op \notin {"sendVerification", "passwordReset"}
      PROVE  MessageInv'
  <2>1. \A q \in Requests \ {r} : pc'[q] = pc[q] /\ call'[q] = call[q] /\ doc'[q] = doc[q]
    BY <1>2 DEF Finish, Continue
  <2>2. \/ pc'[r] \notin {"save", "reply"}
        \/ call'[r].op \notin {"sendVerification", "passwordReset"}
    BY <1>2 DEF Finish, Continue
  <2>3. QED
    BY <1>1, <2>1, <2>2
<1>3. ASSUME NEW r \in Requests, Receive(r) PROVE MessageInv'
  BY <1>1, <1>3 DEF Receive
<1>4. ASSUME NEW r \in Requests, Verify(r) \/ Change(r) \/ ResetPassword(r) \/ SaveReset(r)
      PROVE  MessageInv'
  BY <1>2, <1>4 DEF Verify, VerifyEmail, VerifyMobile, FindAndVerify, SaveVerification,
     Change, ChangePassword, SaveChange, ResetPassword, SaveReset
<1>5. ASSUME NEW r \in Requests,
             FindToSend(r) \/ UpdateUser(r) \/ SaveContact(r) \/ FindToReset(r) \/ Reply(r) \/ Fail(r)
      PROVE  MessageInv'
  BY <1>2, <1>5 DEF FindToSend, UpdateUser, SaveContact, FindToReset, Reply, Fail
<1>6. ASSUME NEW r \in Requests, Guard(r) PROVE MessageInv'
  <2>1. CASE Finish(r)
    BY <1>2, <2>1
  <2>2. CASE ~Finish(r)
    BY <1>1, <1>6, <2>2 DEF Guard
  <2>3. QED
    BY <2>1, <2>2
<1>7. ASSUME NEW r \in Requests, IssueVerification(r) PROVE MessageInv'
  <2>1. call[r] \in Calls
    BY <1>7 DEF IssueVerification, IssueCode, Protocol
  <2>2. QED
    BY <1>7, <2>1, CallTypes, IssuedInHand DEF IssueVerification, Sending, Purpose
<1>8. ASSUME NEW r \in Requests, RequestPasswordReset(r) PROVE MessageInv'
  BY <1>8, IssuedInHand DEF RequestPasswordReset, CodeKeys, Purpose
<1>9. ASSUME NEW r \in Requests, SaveCodes(r) PROVE MessageInv'
  BY <1>9 DEF SaveCodes, Continue
<1>10. CASE Tick \/ UNCHANGED vars
  BY <1>10 DEF Tick, vars, handler
<1>11. CASE Crash
  BY <1>11 DEF Crash
<1>12. QED
  BY <1>3, <1>4, <1>5, <1>6, <1>7, <1>8, <1>9, <1>10, <1>11 DEF Next, Handle, Send, Reset

(* A queued message tells a code issued for the purpose it names.          *)
THEOREM MessagesAreTrue == Spec => []MessagesTellIssuedCodes
<1>1. Init => MessageInv
  BY DEF Init, MessageInv
<1>2. TypeInv /\ MessageInv /\ [Next]_vars => MessageInv'
  BY NextMessageInv
<1>3. TypeInv /\ SafetyInv /\ MessageInv => MessagesTellIssuedCodes
  <2> SUFFICES ASSUME TypeInv, SafetyInv, MessageInv, NEW r \in Requests, pc[r] = "reply",
                      NEW m \in Message(r)
               PROVE  /\ m.code # None => lastIssued[m.kind][m.code] >= 0
                      /\ m.kind # "email" => m.code # None
    BY DEF MessagesTellIssuedCodes
  <2>1. /\ call[r].op \in {"sendVerification", "passwordReset"}
        /\ Sound(doc[r], lastIssued, proven, authorised)
        /\ doc[r].codes[Purpose(call[r])] # None
    BY DEF TypeInv, Protocol, SafetyInv, Holding, MessageInv
  <2>2. PICK k \in CodeKeys : /\ m.kind = k
                              /\ m.code = CodeOf(doc[r], k)
                              /\ k # "email" => k = Purpose(call[r])
    <3>1. CASE Sending(r)
      BY <3>1 DEF Message, Sending, VerificationMessage, SmsMessage, EmailMessage, CodeKeys,
         VerifyKeys, Purpose
    <3>2. CASE ~Sending(r)
      BY <2>1, <3>2 DEF Message, Sending, ResetMessage, EmailMessage, CodeKeys, Purpose
    <3>3. QED
      BY <3>1, <3>2
  <2>3. ASSUME m.code # None PROVE lastIssued[m.kind][m.code] >= 0
    BY <2>1, <2>2, <2>3 DEF CodeOf, Sound
  <2>4. ASSUME m.kind # "email" PROVE m.code # None
    <3>1. doc[r].codes[m.kind] # None /\ m.code = doc[r].codes[m.kind].code
      BY <2>1, <2>2, <2>4 DEF CodeOf
    <3>2. doc[r].codes[m.kind] \in Entry
      BY <2>2, <3>1 DEF TypeInv, Protocol, Holding, AuthDocument
    <3>3. QED
      BY <3>1, <3>2, NoneAssumption DEF Entry
  <2>5. QED
    BY <2>3, <2>4
<1>4. QED
  BY <1>1, <1>2, <1>3, SafetyCorrect, PTL DEF Spec
-----------------------------------------------------------------------------
(* A handler that runs alone keeps the promises of Account.                *)

(* A handler that read the document when nobody else ran.                  *)
Current(r) ==
  LET c == call[r] IN
    /\ pc[r] \in {"user", "contact", "issue"} => doc[r] = auth
    /\ pc[r] \in {"find", "user", "contact", "issue", "save"} /\ Sending(r) /\ c.type \in VerifyKeys
       => ~auth.verifications[c.type]
    /\ pc[r] \in {"user", "contact"} \/ (pc[r] = "find" /\ Sending(r) /\ ~linked[r])
       => (c.type \in VerifyKeys => auth.contact[c.type] = None)

(* What it is about to save says of key k: verified, with its code.        *)
Verifies(r, k) ==
  /\ auth.contact[k] # None /\ ~auth.verifications[k] /\ auth.codes[k] # None
  /\ doc[r].verifications = [auth.verifications EXCEPT ![k] = TRUE]
  /\ doc[r].codes = [auth.codes EXCEPT ![k] = None]

(* A handler about to save changes what its request is about.              *)
Prepared(r) ==
  LET op == call[r].op IN
    /\ op = "verifyEmail" => Verifies(r, "email")
    /\ op = "verifyMobile" => Verifies(r, "mobile")
    /\ op \in {"sendVerification", "passwordReset"} =>
         \E e \in Entry : doc[r].codes = [auth.codes EXCEPT ![Purpose(call[r])] = e]
    /\ op = "resetPassword" =>
         /\ auth.codes["resetPassword"] # None
         /\ doc[r].codes = [auth.codes EXCEPT !["resetPassword"] = None]

Alone(r) == Current(r) /\ (pc[r] = "save" => Prepared(r))

AloneInv ==
  ~overlapped => \A r \in Requests : pc[r] # "idle" =>
                   /\ \A q \in Requests \ {r} : pc[q] = "idle"
                   /\ Alone(r)

(* What a handler that runs alone may do to the account. *)
Kept == Promise!AccountNext \/ UNCHANGED Promise!promised

(* Handler r goes on or ends; what others do does not matter to it if it   *)
(* is alone.                                                               *)
LEMMA GoOnAlone ==
  ASSUME AloneInv, NEW r \in Requests, pc[r] # "idle", UNCHANGED overlapped,
         \A q \in Requests \ {r} : pc'[q] = pc[q],
         ~overlapped => pc'[r] = "idle" \/ Alone(r)'
  PROVE  AloneInv'
BY DEF AloneInv

LEMMA StoredKept == UNCHANGED auth => Kept
BY DEF Kept, Promise!promised

LEMMA VerifyAlone ==
  ASSUME TypeInv, NEW r \in Requests, Alone(r), NEW k \in VerifyKeys,
         NEW address \in Addresses, NEW code,
         call[r].op = (IF k = "email" THEN "verifyEmail" ELSE "verifyMobile"),
         FindAndVerify(r, k, address, code)
  PROVE  pc'[r] = "idle" \/ Alone(r)'
<1>1. CASE Finish(r)
  BY <1>1 DEF Finish, TypeInv, TypeOK
<1>2. CASE /\ auth.contact[k] = address /\ CanVerify(auth, k, code)
           /\ Continue(r, "save", UpdateVerification(auth, k))
  <2>1. auth.contact[k] # None
    BY <1>2, NoneAssumption
  <2>2. ~auth.verifications[k] /\ auth.codes[k] # None
    BY <1>2 DEF CanVerify, CodeAccepted
  <2>3. UNCHANGED auth /\ UNCHANGED call
    BY <1>2 DEF FindAndVerify, stored, Continue
  <2>4. doc'[r] = UpdateVerification(auth, k) /\ pc'[r] = "save"
    BY <1>2 DEF Continue, TypeInv, TypeOK
  <2>5. /\ UpdateVerification(auth, k).verifications = [auth.verifications EXCEPT ![k] = TRUE]
        /\ UpdateVerification(auth, k).codes = [auth.codes EXCEPT ![k] = None]
    BY DEF UpdateVerification, TypeInv, TypeOK, AuthDocument
  <2>6. Verifies(r, k)'
    BY <2>1, <2>2, <2>3, <2>4, <2>5 DEF Verifies
  <2>7. Current(r)'
    BY <2>3, <2>4 DEF Current, Sending
  <2>8. Prepared(r)'
    BY <2>3, <2>6 DEF Prepared, VerifyKeys
  <2>9. QED
    BY <2>7, <2>8 DEF Alone
<1>3. QED
  BY <1>1, <1>2 DEF FindAndVerify

LEMMA IssueAlone ==
  ASSUME TypeInv, NEW r \in Requests, Alone(r), call[r].op \in {"sendVerification", "passwordReset"},
         Purpose(call[r]) \in CodeKeys, IssueCode(r, Purpose(call[r]))
  PROVE  Alone(r)'
<1> DEFINE k == Purpose(call[r])
<1>1. PICK code \in Codes : Continue(r, "save", WithCode(doc[r], k, code))
  BY DEF IssueCode
<1>2. doc[r] = auth /\ auth \in AuthDocument
  BY DEF Alone, Current, IssueCode, TypeInv, TypeOK
<1>3. [code |-> code, expiration |-> AddHourToDate] \in Entry
  BY HourAssumption DEF Entry, AddHourToDate, TypeInv, TypeOK
<1>4. WithCode(auth, k, code).codes
        = [auth.codes EXCEPT ![k] = [code |-> code, expiration |-> AddHourToDate]]
  BY <1>2 DEF WithCode, AuthDocument
<1>5. UNCHANGED auth /\ UNCHANGED call /\ doc'[r] = WithCode(auth, k, code) /\ pc'[r] = "save"
  BY <1>1, <1>2 DEF IssueCode, stored, Continue, TypeInv, TypeOK
<1>6. doc'[r].codes = [auth'.codes EXCEPT ![Purpose(call'[r])]
                         = [code |-> code, expiration |-> AddHourToDate]]
  BY <1>4, <1>5
<1>7. Prepared(r)'
  BY <1>3, <1>5, <1>6 DEF Prepared
<1>8. Current(r)'
  BY <1>5 DEF Alone, Current, Sending, IssueCode
<1>9. QED
  BY <1>7, <1>8 DEF Alone

LEMMA SaveVerificationKept ==
  ASSUME TypeInv, NEW r \in Requests, Alone(r), SaveVerification(r)
  PROVE  Kept
<1>1. PICK k \in VerifyKeys : Verifies(r, k)
  BY DEF SaveVerification, Alone, Prepared, VerifyKeys
<1>2. /\ auth'.password = auth.password
      /\ auth'.contact = auth.contact
      /\ auth'.verifications = [auth.verifications EXCEPT ![k] = TRUE]
      /\ auth'.codes = [auth.codes EXCEPT ![k] = None]
  BY <1>1 DEF SaveVerification, Verifies, TypeInv, TypeOK, AuthDocument
<1>3. Promise!VerifyContact(k)
  BY <1>1, <1>2 DEF Promise!VerifyContact, Verifies
<1>4. QED
  BY <1>3 DEF Kept, Promise!AccountNext, Promise!ContactKeys, VerifyKeys

LEMMA SaveCodesKept ==
  ASSUME TypeInv, NEW r \in Requests, Alone(r), SaveCodes(r)
  PROVE  Kept
<1> DEFINE k == Purpose(call[r])
<1>1. k \in CodeKeys
  BY CallTypes DEF SaveCodes, TypeInv, Protocol, Purpose, CodeKeys
<1>2. PICK e \in Entry : doc[r].codes = [auth.codes EXCEPT ![k] = e]
  BY DEF SaveCodes, Alone, Prepared
<1>3. /\ auth'.password = auth.password
      /\ auth'.contact = auth.contact
      /\ auth'.verifications = auth.verifications
      /\ auth'.codes = [auth.codes EXCEPT ![k] = e]
  BY <1>2 DEF SaveCodes, TypeInv, TypeOK, AuthDocument
<1>4. auth.codes \in [CodeKeys -> Entry \cup {None}]
  BY DEF TypeInv, TypeOK, AuthDocument
<1>5. k \in VerifyKeys => ~auth.verifications[k]
  BY DEF SaveCodes, Alone, Current, Sending, Purpose, VerifyKeys
<1>6. auth'.codes[k] = e
  BY <1>1, <1>3, <1>4
<1>7. Promise!Issue(k)
  BY <1>3, <1>5, <1>6 DEF Promise!Issue, Promise!ContactKeys, VerifyKeys
<1>8. k \in Promise!Keys
  BY <1>1 DEF Promise!Keys, Promise!ContactKeys, CodeKeys, VerifyKeys
<1>9. QED
  BY <1>7, <1>8 DEF Kept, Promise!AccountNext

LEMMA SaveResetKept ==
  ASSUME TypeInv, NEW r \in Requests, Alone(r), SaveReset(r)
  PROVE  Kept
<1>1. /\ auth.codes["resetPassword"] # None
      /\ doc[r].codes = [auth.codes EXCEPT !["resetPassword"] = None]
  BY DEF SaveReset, Alone, Prepared
<1>2. doc[r].password \in Passwords
  BY DEF SaveReset, TypeInv, Protocol, Holding, AuthDocument
<1>3. /\ auth'.password = doc[r].password
      /\ auth'.contact = auth.contact
      /\ auth'.verifications = auth.verifications
      /\ auth'.codes = doc[r].codes
  BY DEF SaveReset, TypeInv, TypeOK, AuthDocument
<1>4. Promise!Reset
  BY <1>1, <1>2, <1>3 DEF Promise!Reset
<1>5. QED
  BY <1>4 DEF Kept, Promise!AccountNext

LEMMA SaveChangeKept ==
  ASSUME TypeInv, NEW r \in Requests, SaveChange(r)
  PROVE  Kept
<1>1. doc[r].password \in Passwords
  BY DEF SaveChange, TypeInv, Protocol, Holding, AuthDocument
<1>2. /\ auth'.password = doc[r].password
      /\ auth'.contact = auth.contact
      /\ auth'.verifications = auth.verifications
      /\ auth'.codes = auth.codes
  BY DEF SaveChange, TypeInv, TypeOK, AuthDocument
<1>3. Promise!Change
  BY <1>1, <1>2 DEF Promise!Change
<1>4. QED
  BY <1>3 DEF Kept, Promise!AccountNext

(* The contact is set: the account had none when the guard looked. *)
LEMMA SaveContactAlone ==
  ASSUME TypeInv, NEW r \in Requests, Alone(r), SaveContact(r)
  PROVE  Alone(r)' /\ Kept
<1> DEFINE k == call[r].type
           c == call[r].contact
<1>1. /\ call[r] \in Calls /\ call[r].op = "sendVerification"
      /\ doc[r] = auth /\ auth \in AuthDocument
      /\ k \in VerifyKeys => auth.contact[k] = None /\ ~auth.verifications[k]
  BY DEF SaveContact, Alone, Current, TypeInv, TypeOK, Protocol, Sending
<1>2. CASE k \in VerifyKeys /\ doc[r].contact[k] # c
  <2>1. auth' = [auth EXCEPT !.contact[k] = c]
    BY <1>2 DEF SaveContact
  <2>2. /\ auth'.password = auth.password
        /\ auth'.contact = [auth.contact EXCEPT ![k] = c]
        /\ auth'.verifications = auth.verifications
        /\ auth'.codes = auth.codes
    BY <1>1, <2>1 DEF AuthDocument
  <2>3. c \in Addresses
    BY <1>1, <1>2, CallTypes
  <2>4. auth'.contact[k] = c
    BY <1>1, <1>2, <2>2 DEF AuthDocument
  <2>5. Promise!SetContact(k)
    BY <1>1, <1>2, <2>2, <2>3, <2>4 DEF Promise!SetContact
  <2>6. Kept
    BY <1>2, <2>5 DEF Kept, Promise!AccountNext, Promise!ContactKeys, VerifyKeys
  <2>7. pc'[r] = "issue" /\ doc'[r] = auth' /\ UNCHANGED call
    BY <1>1, <1>2, <2>1 DEF SaveContact, Continue, TypeInv, TypeOK
  <2>8. Current(r)'
    BY <1>1, <2>2, <2>7 DEF Current, Sending
  <2>9. QED
    BY <2>6, <2>7, <2>8 DEF Alone
<1>3. CASE ~(k \in VerifyKeys /\ doc[r].contact[k] # c)
  <2>1. UNCHANGED auth /\ Continue(r, "issue", doc[r])
    BY <1>3 DEF SaveContact
  <2>2. pc'[r] = "issue" /\ doc'[r] = auth' /\ UNCHANGED call
    BY <1>1, <2>1 DEF Continue, TypeInv, TypeOK
  <2>3. Current(r)'
    BY <1>1, <2>1, <2>2 DEF Current, Sending
  <2>4. QED
    BY <2>1, <2>2, <2>3, StoredKept DEF Alone
<1>4. QED
  BY <1>2, <1>3

(* A handler that runs alone stays current, and its steps are Account's.   *)
LEMMA HandleAlone ==
  ASSUME TypeInv, NEW r \in Requests, Alone(r), Handle(r) \/ Fail(r)
  PROVE  (pc'[r] = "idle" \/ Alone(r)') /\ Kept
<1> USE DEF TypeInv, TypeOK
<1>1. ASSUME Finish(r), UNCHANGED auth PROVE pc'[r] = "idle" /\ Kept
  BY <1>1, StoredKept DEF Finish
<1>2. ASSUME Current(r)', pc'[r] # "save", UNCHANGED auth PROVE Alone(r)' /\ Kept
  BY <1>2, StoredKept DEF Alone
<1>3. CASE VerifyEmail(r)
  <2>1. call[r].email \in Addresses
    BY <1>3, CallTypes DEF VerifyEmail, FindAndVerify, Protocol, Addresses
  <2>2. pc'[r] = "idle" \/ Alone(r)'
    BY <1>3, <2>1, VerifyAlone DEF VerifyEmail, VerifyKeys
  <2>3. UNCHANGED auth
    BY <1>3 DEF VerifyEmail, FindAndVerify, stored
  <2>4. QED
    BY <2>2, <2>3, StoredKept
<1>4. CASE VerifyMobile(r)
  <2>1. call[r].mobile \in Addresses
    BY <1>4, CallTypes DEF VerifyMobile, FindAndVerify, Protocol, Addresses
  <2>2. pc'[r] = "idle" \/ Alone(r)'
    BY <1>4, <2>1, VerifyAlone DEF VerifyMobile, VerifyKeys
  <2>3. UNCHANGED auth
    BY <1>4 DEF VerifyMobile, FindAndVerify, stored
  <2>4. QED
    BY <2>2, <2>3, StoredKept
<1>5. CASE SaveVerification(r) \/ SaveReset(r) \/ SaveChange(r)
  <2>1. pc'[r] = "idle"
    BY <1>5 DEF SaveVerification, SaveReset, SaveChange, Finish
  <2>2. QED
    BY <1>5, <2>1, SaveVerificationKept, SaveResetKept, SaveChangeKept
<1>6. CASE Guard(r)
  <2>1. CASE Finish(r)
    BY <1>1, <1>6, <2>1 DEF Guard, stored
  <2>2. CASE ~Finish(r)
    <3>1. /\ pc'[r] = "find" /\ UNCHANGED call /\ UNCHANGED auth
          /\ call[r].type \in VerifyKeys => ~auth.verifications[call[r].type]
          /\ ~linked'[r] => (call[r].type \in VerifyKeys => auth.contact[call[r].type] = None)
      BY <1>6, <2>2 DEF Guard, stored
    <3>2. QED
      BY <1>2, <3>1 DEF Current
  <2>3. QED
    BY <2>1, <2>2
<1>7. CASE FindToSend(r)
  <2>1. /\ pc'[r] = (IF linked[r] THEN "issue" ELSE "user")
        /\ doc'[r] = auth' /\ UNCHANGED call /\ UNCHANGED auth /\ UNCHANGED linked
    BY <1>7 DEF FindToSend, Continue, stored
  <2>2. Current(r)'
    BY <1>7, <2>1 DEF Alone, Current, FindToSend, Sending
  <2>3. QED
    BY <1>2, <2>1, <2>2
<1>8. CASE UpdateUser(r)
  <2>1. /\ pc[r] = "user" /\ pc'[r] = "contact" /\ doc'[r] = doc[r]
        /\ UNCHANGED call /\ UNCHANGED auth /\ UNCHANGED linked
    BY <1>8 DEF UpdateUser, Continue
  <2>2. Current(r)'
    BY <2>1 DEF Alone, Current, Sending
  <2>3. QED
    BY <1>2, <2>1, <2>2
<1>9. CASE IssueVerification(r) \/ RequestPasswordReset(r)
  <2>1. /\ call[r].op \in {"sendVerification", "passwordReset"}
        /\ Purpose(call[r]) \in CodeKeys
        /\ IssueCode(r, Purpose(call[r]))
    BY <1>9, CallTypes DEF IssueVerification, RequestPasswordReset, Sending, IssueCode, Purpose,
       Protocol, CodeKeys
  <2>2. Alone(r)'
    BY <2>1, IssueAlone
  <2>3. UNCHANGED auth
    BY <2>1 DEF IssueCode, stored
  <2>4. QED
    BY <2>2, <2>3, StoredKept
<1>10. CASE FindToReset(r)
  <2>1. CASE Finish(r)
    BY <1>1, <1>10, <2>1 DEF FindToReset, stored
  <2>2. CASE Continue(r, "issue", auth)
    <3>1. pc'[r] = "issue" /\ doc'[r] = auth' /\ UNCHANGED call /\ UNCHANGED auth
      BY <1>10, <2>2 DEF FindToReset, Continue, stored
    <3>2. Current(r)'
      BY <1>10, <3>1 DEF Current, FindToReset, Sending
    <3>3. QED
      BY <1>2, <3>1, <3>2
  <2>3. QED
    BY <1>10, <2>1, <2>2 DEF FindToReset
<1>11. CASE ResetPassword(r)
  <2>1. CASE Finish(r)
    BY <1>1, <1>11, <2>1 DEF ResetPassword, stored
  <2>2. CASE /\ CanResetPassword(auth, call[r].code)
             /\ Continue(r, "save", WithNewPassword(auth, call[r].password))
    <3>1. /\ pc'[r] = "save" /\ UNCHANGED call /\ UNCHANGED auth /\ call[r].op = "resetPassword"
          /\ doc'[r] = WithNewPassword(auth, call[r].password)
      BY <1>11, <2>2 DEF ResetPassword, Continue, stored
    <3>2. auth.codes["resetPassword"] # None
      BY <2>2 DEF CanResetPassword, CodeAccepted
    <3>3. doc'[r].codes = [auth.codes EXCEPT !["resetPassword"] = None]
      BY <3>1 DEF WithNewPassword, AuthDocument
    <3>4. Prepared(r)' /\ Current(r)'
      BY <3>1, <3>2, <3>3 DEF Prepared, Current, Sending
    <3>5. QED
      BY <3>1, <3>4, StoredKept DEF Alone
  <2>3. QED
    BY <1>11, <2>1, <2>2 DEF ResetPassword
<1>12. CASE ChangePassword(r)
  <2>1. CASE Finish(r)
    BY <1>1, <1>12, <2>1 DEF ChangePassword, stored
  <2>2. CASE ~Finish(r)
    <3>1. pc'[r] = "save" /\ UNCHANGED call /\ UNCHANGED auth /\ call[r].op = "changePassword"
      BY <1>12, <2>2 DEF ChangePassword, Continue, stored
    <3>2. Prepared(r)' /\ Current(r)'
      BY <3>1 DEF Prepared, Current, Sending
    <3>3. QED
      BY <3>1, <3>2, StoredKept DEF Alone
  <2>3. QED
    BY <2>1, <2>2
<1>13. CASE SaveCodes(r)
  <2>1. pc'[r] = "reply"
    BY <1>13 DEF SaveCodes, Continue
  <2>2. Alone(r)'
    BY <2>1 DEF Alone, Current
  <2>3. QED
    BY <1>13, <2>2, SaveCodesKept
<1>14. CASE Reply(r) \/ Fail(r)
  BY <1>1, <1>14 DEF Reply, Fail, stored
<1>15. QED
  BY <1>3, <1>4, <1>5, <1>6, <1>7, <1>8, <1>9, <1>10, <1>11, <1>12, <1>13, <1>14,
     SaveContactAlone DEF Handle, Verify, Send, Reset, Change

(* A handler's step leaves the others where they are. *)
LEMMA HandleFrame ==
  ASSUME TypeInv, NEW r \in Requests, Handle(r) \/ Fail(r)
  PROVE  /\ pc[r] # "idle"
         /\ UNCHANGED overlapped
         /\ \A q \in Requests \ {r} : pc'[q] = pc[q]
<1>1. Finish(r) \/ (\E step, d : Continue(r, step, d)) \/ Guard(r)
  BY DEF Handle, Fail, Verify, VerifyEmail, VerifyMobile, FindAndVerify, SaveVerification, Send,
     FindToSend, UpdateUser, SaveContact, IssueVerification, IssueCode, SaveCodes, Reply, Reset,
     FindToReset, RequestPasswordReset, ResetPassword, SaveReset, Change, ChangePassword, SaveChange
<1>2. UNCHANGED overlapped /\ \E step : pc' = [pc EXCEPT ![r] = step]
  BY <1>1 DEF Finish, Continue, Guard
<1>3. pc[r] # "idle"
  BY DEF Handle, Fail, Verify, VerifyEmail, VerifyMobile, FindAndVerify, SaveVerification, Send,
     Guard, FindToSend, UpdateUser, SaveContact, IssueVerification, IssueCode, SaveCodes, Reply,
     Reset, FindToReset, RequestPasswordReset, ResetPassword, SaveReset, Change, ChangePassword,
     SaveChange
<1>4. QED
  BY <1>2, <1>3 DEF TypeInv, TypeOK

LEMMA NextAlone ==
  ASSUME TypeInv, AloneInv, [Next]_vars
  PROVE  AloneInv' /\ (overlapped' \/ Kept)
<1>1. ASSUME NEW r \in Requests, Receive(r) PROVE AloneInv' /\ Kept
  <2>1. ~overlapped' => \A q \in Requests \ {r} : pc'[q] = "idle"
    BY <1>1 DEF Receive, TypeInv, TypeOK
  <2>2. Alone(r)'
    BY <1>1 DEF Receive, Alone, Current, Sending, TypeInv, TypeOK
  <2>3. QED
    BY <1>1, <2>1, <2>2, StoredKept DEF Receive, AloneInv, stored
<1>2. ASSUME NEW r \in Requests, Handle(r) \/ Fail(r) PROVE AloneInv' /\ (overlapped' \/ Kept)
  <2>1. ~overlapped => Alone(r)
    BY <1>2, HandleFrame DEF AloneInv
  <2>2. ~overlapped => (pc'[r] = "idle" \/ Alone(r)') /\ Kept
    BY <1>2, <2>1, HandleAlone
  <2>3. QED
    BY <1>2, <2>2, HandleFrame, GoOnAlone
<1>3. CASE Crash
  BY <1>3, StoredKept DEF Crash, AloneInv, stored
<1>4. CASE Tick \/ UNCHANGED vars
  <2>1. UNCHANGED <<auth, pc, call, doc, linked, overlapped>>
    BY <1>4 DEF Tick, vars, stored, handler
  <2>2. AloneInv'
    BY <2>1 DEF AloneInv, Alone, Current, Prepared, Verifies, Sending
  <2>3. QED
    BY <2>1, <2>2, StoredKept
<1>5. QED
  BY <1>1, <1>2, <1>3, <1>4 DEF Next

LEMMA AloneCorrect == Spec => [](TypeInv /\ AloneInv)
<1>1. Init => AloneInv
  BY DEF Init, AloneInv
<1>2. TypeInv /\ AloneInv /\ [Next]_vars => AloneInv'
  BY NextAlone
<1>3. Spec => []TypeInv
  BY SafetyCorrect, PTL
<1>4. QED
  BY <1>1, <1>2, <1>3, PTL DEF Spec

LEMMA InitPromise == Init => Promise!AccountInit
<1> SUFFICES ASSUME Init PROVE Promise!AccountInit
  OBVIOUS
<1>1. auth \in AuthDocument
  BY InitTypeInv DEF TypeInv, TypeOK
<1>2. auth.verifications = [k \in VerifyKeys |-> FALSE]
  BY DEF Init
<1>3. QED
  BY <1>1, <1>2 DEF Promise!AccountInit, Promise!ContactKeys, Promise!Keys, AuthDocument,
     VerifyKeys, CodeKeys

(* A handler that runs alone undoes nothing that an earlier one wrote,     *)
(* whatever overlapping handlers left behind and wherever it dies: each of *)
(* its saves is one operation of Account on the document as it is          *)
(* (auth.service.ts:108-344).                                              *)
THEOREM AloneKeepsPromise == Spec => KeepsPromise
<1>1. TypeInv /\ AloneInv /\ [Next]_vars => [overlapped' \/ Promise!AccountNext]_(Promise!promised)
  BY NextAlone DEF Kept
<1>2. QED
  BY <1>1, AloneCorrect, InitPromise, PTL DEF Spec, KeepsPromise

(* With one handler at a time the service implements Account, and all that *)
(* is proved of Account holds of it.                                       *)
THEOREM SerialHandlersImplementAccount ==
  ASSUME \A q, r \in Requests : q = r
  PROVE  Spec => Promise!AccountSpec
<1>1. Init => ~overlapped
  BY DEF Init
<1>2. TypeInv /\ ~overlapped /\ [Next]_vars => ~overlapped'
  <2> SUFFICES ASSUME TypeInv, ~overlapped, [Next]_vars PROVE ~overlapped'
    OBVIOUS
  <2>1. ASSUME NEW r \in Requests, Receive(r) PROVE ~overlapped'
    BY <2>1 DEF Receive
  <2>2. QED
    BY <2>1, HandleFrame DEF Next, Crash, Tick, vars, handler
<1>3. TypeInv /\ AloneInv /\ ~overlapped' /\ [Next]_vars
        => [Promise!AccountNext]_(Promise!promised)
  BY NextAlone DEF Kept
<1>4. QED
  BY <1>1, <1>2, <1>3, AloneCorrect, InitPromise, PTL DEF Spec, Promise!AccountSpec

(* A handler that runs alone takes no verification back: what undoes one,  *)
(* as verify-email.e2e-spec.ts:108 does not expect, is an overlap          *)
(* (verifyEmail, verifyMobile, auth.service.ts:108-144, 194-220).          *)
THEOREM AloneVerificationsStay ==
  Spec => [][\A k \in VerifyKeys :
               auth.verifications[k] /\ ~overlapped' => auth'.verifications[k]]_vars
<1>1. ASSUME TypeInv, Kept, NEW k \in VerifyKeys, auth.verifications[k]
      PROVE  auth'.verifications[k]
  <2>1. auth.verifications \in [VerifyKeys -> BOOLEAN]
    BY <1>1 DEF TypeInv, TypeOK, AuthDocument
  <2>2. \/ auth'.verifications = auth.verifications
        \/ \E j \in VerifyKeys : auth'.verifications = [auth.verifications EXCEPT ![j] = TRUE]
    BY <1>1 DEF Kept, Promise!AccountNext, Promise!SetContact, Promise!VerifyContact,
       Promise!Issue, Promise!Reset, Promise!Change, Promise!promised, Promise!ContactKeys,
       VerifyKeys
  <2>3. QED
    BY <1>1, <2>1, <2>2
<1>2. TypeInv /\ AloneInv /\ [Next]_vars
        => [\A k \in VerifyKeys :
              auth.verifications[k] /\ ~overlapped' => auth'.verifications[k]]_vars
  BY <1>1, NextAlone
<1>3. QED
  BY <1>2, AloneCorrect, PTL DEF Spec

=============================================================================
