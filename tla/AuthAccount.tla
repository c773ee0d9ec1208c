---------------------------- MODULE AuthAccount ----------------------------
(***************************************************************************)
(* One account of the auth service (AuthService, AuthController) and the   *)
(* handlers that run against it at the same time.                          *)
(*                                                                         *)
(* A handler is a sequence of awaited calls.  Between two of them Node     *)
(* runs other handlers, and the other replicas of the API run all the      *)
(* time, so each call to MongoDB is one action and so is each piece of     *)
(* code that runs without awaiting.  A handler works on the Mongoose       *)
(* document it found (doc[r]); save() writes the paths the handler         *)
(* assigned, and nothing else, but `verifications' and `verificationCodes' *)
(* are assigned, hence written, as whole objects.                          *)
(*                                                                         *)
(* Hashes are represented by the password they match, and time by a count  *)
(* of ticks, Hour of them in an hour.                                      *)
(***************************************************************************)
EXTENDS Integers

CONSTANTS Requests,   \* handlers that may run at the same time
          Calls,      \* the requests the clients make
          Codes,      \* the values getCode can return
          Passwords,
          Emails,
          Mobiles,
          Hour,       \* clock ticks in an hour
          MaxTime,    \* bound: the clock stops here
          None        \* undefined

VerifyKeys == {"email", "mobile"}
CodeKeys   == VerifyKeys \cup {"resetPassword"}
Addresses  == Emails \cup Mobiles

ASSUME HourAssumption == Hour \in Nat \ {0}
ASSUME NoneAssumption == /\ None \notin Addresses \cup Codes
                         /\ None \notin [code : Codes, expiration : Nat]

VARIABLES
  auth,        \* the stored Auth document
  userContact, \* email and mobile of the stored User document
  pc,          \* what each handler is waiting for
  call,        \* the request each handler serves
  doc,         \* the Auth document each handler holds
  linked,      \* sendVerification: the JWT user already had the contact
  overlapped,  \* history: the last handler that began was not alone
  raced,       \* history: keys for which different contacts were sent at once
  now,         \* the clock
  lastIssued,  \* history: when each code was last issued for each key
  proven,      \* history: keys for which a code in force was presented
  authorised   \* history: passwords whose choice was authorised

stored  == <<auth, userContact>>
handler == <<pc, call, doc, linked, overlapped, raced>>
history == <<lastIssued, proven, authorised>>
vars    == <<stored, handler, now, history>>

-----------------------------------------------------------------------------
(* The stored document and the requests.                                   *)

Entry == [code : Codes, expiration : Nat]

AuthDocument ==
  [ password      : Passwords,
    contact       : [VerifyKeys -> Addresses \cup {None}],
    verifications : [VerifyKeys -> BOOLEAN],
    codes         : [CodeKeys -> Entry \cup {None}] ]

(* The body of each request, once its DTO is validated.  A reset needs no  *)
(* email when the body has a mobile, which the service does not look at.   *)
VerifyEmailDto  == [op : {"verifyEmail"}, email : Emails, code : Codes]
VerifyMobileDto == [op : {"verifyMobile"}, mobile : Mobiles, code : Codes]
SendVerificationDto ==
  UNION { [op : {"sendVerification"}, type : {"email"}, contact : Emails \cup {None}],
          [op : {"sendVerification"}, type : {"mobile"}, contact : Mobiles \cup {None}],
          [op : {"sendVerification"}, type : {"resetPassword"}, contact : {None}] }
ResetCodeDto      == [op : {"passwordReset"}, email : Emails \cup {None}]
PasswordResetDto  == [op : {"resetPassword"}, email : Emails \cup {None}, code : Codes,
                      password : Passwords]
ChangePasswordDto == [op : {"changePassword"}, currentPassword : Passwords,
                      password : Passwords]

Dtos == UNION { VerifyEmailDto, VerifyMobileDto, SendVerificationDto,
                ResetCodeDto, PasswordResetDto, ChangePasswordDto }
NoCall == [op |-> "none"]

ASSUME CallsAssumption == Calls \subseteq Dtos

-----------------------------------------------------------------------------
(* Helpers of the handlers.                                                *)

(* Mutant of AddHourToDate: the hour is added twice. *)
AddTwoHoursToDate == now + 2 * Hour

(* Utils.addHourToDate(1) *)
AddHourToDate == now + Hour

(* Mutant of Expired: the comparison is left out. *)
NeverExpired(e) == FALSE

(* new Date() > expiration *)
Expired(e) == now > e.expiration

(* Mutant of CodeAccepted: the code of any key will do. *)
AnyCodeAccepted(d, k, code) ==
  \E j \in CodeKeys : /\ d.codes[j] # None
                      /\ d.codes[j].code = code
                      /\ ~Expired(d.codes[j])

(* The code in d for k is there, is the one presented and is in force. *)
CodeAccepted(d, k, code) ==
  /\ d.codes[k] # None
  /\ d.codes[k].code = code
  /\ ~Expired(d.codes[k])

(* canVerify: also refuses what is verified already. *)
CanVerify(d, k, code) == ~d.verifications[k] /\ CodeAccepted(d, k, code)

(* Mutant of CanResetPassword: an expired code resets. *)
CanResetPasswordLate(d, code) ==
  d.codes["resetPassword"] # None /\ d.codes["resetPassword"].code = code

(* The negation of cannotResetPassword. *)
CanResetPassword(d, code) == CodeAccepted(d, "resetPassword", code)

(* Mutant of UpdateVerification: every code is dropped, not only k's. *)
UpdateVerificationDropAll(d, k) == [d EXCEPT !.verifications[k] = TRUE, !.codes = None]

(* Mutant of UpdateVerification: the code is not omitted. *)
UpdateVerificationKeepCode(d, k) == [d EXCEPT !.verifications[k] = TRUE]

(* Utils.updateVerification: set the flag, omit the code. *)
UpdateVerification(d, k) == [d EXCEPT !.verifications[k] = TRUE, !.codes[k] = None]

(* Mutant of WithCode: the code lands under `email' whatever the key. *)
WithCodeForEmail(d, k, code) ==
  [d EXCEPT !.codes["email"] = [code |-> code, expiration |-> AddHourToDate]]

(* verificationCodes = { ...verificationCodes, [k]: { code, expiration } } *)
WithCode(d, k, code) ==
  [d EXCEPT !.codes[k] = [code |-> code, expiration |-> AddHourToDate]]

(* bcrypt.compare *)
Compare(password, hash) == password = hash

(* bcrypt.hash of the new password, `resetPassword' omitted from the codes *)
WithNewPassword(d, password) ==
  [d EXCEPT !.password = password, !.codes["resetPassword"] = None]

-----------------------------------------------------------------------------
(* What is true of a request, whatever the handler computes: the history   *)
(* the properties compare the handlers with.                               *)

(* code was issued for k, and that was at most an hour ago *)
InForce(k, code) == /\ lastIssued[k][code] >= 0
                    /\ now <= lastIssued[k][code] + Hour

RecordProof(k, code) ==
  proven' = IF InForce(k, code) THEN proven \cup {k} ELSE proven

RecordAuthorised(condition, password) ==
  authorised' = IF condition THEN authorised \cup {password} ELSE authorised

-----------------------------------------------------------------------------
(* A freshly signed-up account: AuthService.signUp has committed.          *)

Init ==
  \E password \in Passwords, code \in Codes,
     email \in Emails \cup {None}, mobile \in Mobiles \cup {None} :
    /\ email = None => mobile # None
    /\ auth = [ password      |-> password,
                contact       |-> [k \in VerifyKeys |-> IF k = "email" THEN email ELSE None],
                verifications |-> [k \in VerifyKeys |-> FALSE],
                codes         |-> [k \in CodeKeys |->
                                     IF k = "email"
                                     THEN [code |-> code, expiration |-> Hour]
                                     ELSE None] ]
    /\ userContact = [k \in VerifyKeys |-> IF k = "email" THEN email ELSE mobile]
    /\ pc     = [r \in Requests |-> "idle"]
    /\ call   = [r \in Requests |-> NoCall]
    /\ doc    = [r \in Requests |-> None]
    /\ linked = [r \in Requests |-> FALSE]
    /\ overlapped = FALSE
    /\ raced = {}
    /\ now = 0
    /\ lastIssued = [k \in CodeKeys |-> [c \in Codes |->
                       IF k = "email" /\ c = code THEN 0 ELSE -1]]
    /\ proven = {}
    /\ authorised = {password}

(* Handler r ends: it answers, it throws, or its process dies. *)
Finish(r) == /\ pc'     = [pc EXCEPT ![r] = "idle"]
             /\ call'   = [call EXCEPT ![r] = NoCall]
             /\ doc'    = [doc EXCEPT ![r] = None]
             /\ linked' = [linked EXCEPT ![r] = FALSE]
             /\ UNCHANGED <<overlapped, raced>>

(* Handler r goes on with document d, waiting for step. *)
Continue(r, step, d) == /\ pc'  = [pc EXCEPT ![r] = step]
                        /\ doc' = [doc EXCEPT ![r] = d]
                        /\ UNCHANGED <<call, linked, overlapped, raced>>

(* Handler q has yet to link contact a of kind k. *)
Links(q, k, a) == /\ call[q].op = "sendVerification"
                  /\ pc[q] \in {"guard", "find", "user", "contact"}
                  /\ call[q].type = k
                  /\ call[q].contact = a

(* Request c would link a contact while another one links a different one. *)
Races(c) == /\ c.op = "sendVerification"
            /\ c.contact # None
            /\ \E q \in Requests, a \in Addresses \ {c.contact} : Links(q, c.type, a)

(* A request reaches its controller method. *)
Receive(r) ==
  /\ pc[r] = "idle"
  /\ \E c \in Calls :
       /\ call' = [call EXCEPT ![r] = c]
       /\ pc'   = [pc EXCEPT ![r] = IF c.op = "sendVerification" THEN "guard" ELSE "find"]
       /\ raced' = IF Races(c) THEN raced \cup {c.type} ELSE raced
  /\ overlapped' = \E q \in Requests \ {r} : pc[q] # "idle"
  /\ UNCHANGED <<stored, doc, linked, now, history>>

-----------------------------------------------------------------------------
(* verifyEmail and verifyMobile: find the document, check the code, save.  *)

FindAndVerify(r, k, address, code) ==
  /\ pc[r] = "find"
  /\ \/ /\ auth.contact[k] = address
        /\ CanVerify(auth, k, code)
        /\ Continue(r, "save", UpdateVerification(auth, k))
        /\ RecordProof(k, code)
     \/ /\ \/ auth.contact[k] # address
           \/ ~CanVerify(auth, k, code)
        /\ Finish(r)
        /\ UNCHANGED proven
  /\ UNCHANGED <<stored, now, lastIssued, authorised>>

VerifyEmail(r) ==
  /\ call[r].op = "verifyEmail"
  /\ FindAndVerify(r, "email", call[r].email, call[r].code)

VerifyMobile(r) ==
  /\ call[r].op = "verifyMobile"
  /\ FindAndVerify(r, "mobile", call[r].mobile, call[r].code)

SaveVerification(r) ==
  /\ pc[r] = "save"
  /\ call[r].op \in {"verifyEmail", "verifyMobile"}
  /\ auth' = [auth EXCEPT !.verifications = doc[r].verifications,
                          !.codes         = doc[r].codes]
  /\ Finish(r)
  /\ UNCHANGED <<userContact, now, history>>

-----------------------------------------------------------------------------
(* sendVerification: the JWT guard reads the document a first time; then   *)
(* find, link the contact to the user and to the account, issue, save.     *)

Sending(r) == call[r].op = "sendVerification"

(* JwtStrategy.validate, and the test of authUser.verifications[type] *)
Guard(r) ==
  /\ pc[r] = "guard"
  /\ Sending(r)
  /\ LET type == call[r].type IN
       \/ /\ type \in VerifyKeys
          /\ auth.verifications[type]
          /\ Finish(r)
       \/ /\ type \in VerifyKeys => ~auth.verifications[type]
          /\ pc' = [pc EXCEPT ![r] = "find"]
          /\ linked' = [linked EXCEPT ![r] = /\ type \in VerifyKeys
                                             /\ auth.contact[type] # None]
          /\ UNCHANGED <<call, doc, overlapped, raced>>
  /\ UNCHANGED <<stored, now, history>>

FindToSend(r) ==
  /\ pc[r] = "find"
  /\ Sending(r)
  /\ Continue(r, IF linked[r] THEN "issue" ELSE "user", auth)
  /\ UNCHANGED <<stored, now, history>>

(* Mutant of UpdateUser: the update is built and never executed. *)
UpdateUserNotExecuted(r) ==
  /\ pc[r] = "user"
  /\ Continue(r, "contact", doc[r])
  /\ UNCHANGED <<stored, now, history>>

(* userModel.updateOne, which drops an undefined value *)
UpdateUser(r) ==
  /\ pc[r] = "user"
  /\ userContact' = IF call[r].contact # None
                    THEN [userContact EXCEPT ![call[r].type] = call[r].contact]
                    ELSE userContact
  /\ Continue(r, "contact", doc[r])
  /\ UNCHANGED <<auth, now, history>>

(* auth[type] = contact; save() writes it if that modified the document *)
SaveContact(r) ==
  /\ pc[r] = "contact"
  /\ LET type    == call[r].type
         contact == call[r].contact
     IN IF type \in VerifyKeys /\ doc[r].contact[type] # contact
        THEN /\ auth' = [auth EXCEPT !.contact[type] = contact]
             /\ Continue(r, "issue", [doc[r] EXCEPT !.contact[type] = contact])
        ELSE /\ Continue(r, "issue", doc[r])
             /\ UNCHANGED auth
  /\ UNCHANGED <<userContact, now, history>>

-----------------------------------------------------------------------------
(* A new code: sendVerification and requestPasswordRequest.                *)

(* addHourToDate, getCode and the assignment of verificationCodes *)
IssueCode(r, k) ==
  /\ pc[r] = "issue"
  /\ \E code \in Codes :
       /\ Continue(r, "save", WithCode(doc[r], k, code))
       /\ lastIssued' = [lastIssued EXCEPT ![k][code] = now]
  /\ UNCHANGED <<stored, now, proven, authorised>>

IssueVerification(r) == Sending(r) /\ IssueCode(r, call[r].type)

(* Mutant of FindToReset: an unknown email is never answered. *)
FindToResetUnanswered(r) ==
  /\ pc[r] = "find"
  /\ call[r].op = "passwordReset"
  /\ auth.contact["email"] = call[r].email
  /\ Continue(r, "issue", auth)
  /\ UNCHANGED <<stored, now, history>>

(* findOne({ email }) for the email of handler r's body may give another   *)
(* account or none: always without an email, when the filter is a null     *)
(* that every account without an email matches.                            *)
NotFound(r) == auth.contact["email"] # call[r].email \/ call[r].email = None

FindToReset(r) ==
  /\ pc[r] = "find"
  /\ call[r].op = "passwordReset"
  /\ \/ /\ auth.contact["email"] = call[r].email
        /\ Continue(r, "issue", auth)
     \/ /\ NotFound(r)
        /\ Finish(r)
  /\ UNCHANGED <<stored, now, history>>

RequestPasswordReset(r) ==
  /\ call[r].op = "passwordReset"
  /\ IssueCode(r, "resetPassword")

(* Mutant of SaveCodes: save() is not awaited. *)
SaveCodesNotAwaited(r) ==
  /\ pc[r] = "save"
  /\ call[r].op \in {"sendVerification", "passwordReset"}
  /\ auth' \in {auth, [auth EXCEPT !.codes = doc[r].codes]}
  /\ Continue(r, "reply", doc[r])
  /\ UNCHANGED <<userContact, now, history>>

SaveCodes(r) ==
  /\ pc[r] = "save"
  /\ call[r].op \in {"sendVerification", "passwordReset"}
  /\ auth' = [auth EXCEPT !.codes = doc[r].codes]
  /\ Continue(r, "reply", doc[r])
  /\ UNCHANGED <<userContact, now, history>>

(* The code the message tells, `undefined' when there is none. *)
CodeOf(d, k) == IF d.codes[k] = None THEN None ELSE d.codes[k].code

(* AuthEmail.verifyEmail: null for an account without an email *)
EmailMessage(d, kind, code) ==
  IF d.contact["email"] = None THEN {}
  ELSE {[kind |-> kind, to |-> d.contact["email"], code |-> code]}

(* AuthSMS.verifyMobile throws for an account without a mobile *)
SmsMessage(d) ==
  IF d.contact["mobile"] = None THEN {}
  ELSE {[kind |-> "mobile", to |-> d.contact["mobile"], code |-> CodeOf(d, "mobile")]}

(* Mutant of VerificationMessage: always the email code. *)
VerificationMessageEmailCode(d, type) ==
  IF type = "mobile" THEN {[m EXCEPT !.code = CodeOf(d, "email")] : m \in SmsMessage(d)}
  ELSE EmailMessage(d, "email", CodeOf(d, "email"))

VerificationMessage(d, type) ==
  IF type = "mobile" THEN SmsMessage(d)
  ELSE EmailMessage(d, "email", CodeOf(d, "email"))

(* Mutant of ResetMessage: the email code is told instead. *)
ResetMessageEmailCode(d) == EmailMessage(d, "resetPassword", CodeOf(d, "email"))

ResetMessage(d) == EmailMessage(d, "resetPassword", CodeOf(d, "resetPassword"))

(* The messages the controller composes from the saved document. *)
Message(r) ==
  IF Sending(r) THEN VerificationMessage(doc[r], call[r].type) ELSE ResetMessage(doc[r])

(* getResponse gives Message(r) to WorkService; the handler answers. *)
Reply(r) ==
  /\ pc[r] = "reply"
  /\ Finish(r)
  /\ UNCHANGED <<stored, now, history>>

-----------------------------------------------------------------------------
(* resetPassword and changePassword: find, check, hash, save.              *)

ResetPassword(r) ==
  /\ pc[r] = "find"
  /\ call[r].op = "resetPassword"
  /\ LET code     == call[r].code
         password == call[r].password
     IN \/ /\ auth.contact["email"] = call[r].email
           /\ CanResetPassword(auth, code)
           /\ Continue(r, "save", WithNewPassword(auth, password))
           /\ RecordAuthorised(InForce("resetPassword", code), password)
        \/ /\ NotFound(r) \/ ~CanResetPassword(auth, code)
           /\ Finish(r)
           /\ UNCHANGED authorised
  /\ UNCHANGED <<stored, now, lastIssued, proven>>

SaveReset(r) ==
  /\ pc[r] = "save"
  /\ call[r].op = "resetPassword"
  /\ auth' = [auth EXCEPT !.password = doc[r].password, !.codes = doc[r].codes]
  /\ Finish(r)
  /\ UNCHANGED <<userContact, now, history>>

ChangePassword(r) ==
  /\ pc[r] = "find"
  /\ call[r].op = "changePassword"
  /\ LET current  == call[r].currentPassword
         password == call[r].password
     IN \/ /\ Compare(current, auth.password)
           /\ Continue(r, "save", [auth EXCEPT !.password = password])
           /\ RecordAuthorised(current = auth.password, password)
        \/ /\ ~Compare(current, auth.password)
           /\ Finish(r)
           /\ UNCHANGED authorised
  /\ UNCHANGED <<stored, now, lastIssued, proven>>

SaveChange(r) ==
  /\ pc[r] = "save"
  /\ call[r].op = "changePassword"
  /\ auth' = [auth EXCEPT !.password = doc[r].password]
  /\ Finish(r)
  /\ UNCHANGED <<userContact, now, history>>

-----------------------------------------------------------------------------
(* The environment.                                                        *)

(* The awaited call fails and the handler throws, or the process dies; a   *)
(* call that took effect first and failed then is that call and Fail.      *)
Fail(r) == /\ pc[r] # "idle"
           /\ Finish(r)
           /\ UNCHANGED <<stored, now, history>>

(* The process dies, with all the handlers it runs. *)
Crash == /\ \E r \in Requests : pc[r] # "idle"
         /\ pc'     = [r \in Requests |-> "idle"]
         /\ call'   = [r \in Requests |-> NoCall]
         /\ doc'    = [r \in Requests |-> None]
         /\ linked' = [r \in Requests |-> FALSE]
         /\ UNCHANGED <<stored, overlapped, raced, now, history>>

Tick == /\ now < MaxTime
        /\ now' = now + 1
        /\ UNCHANGED <<stored, handler, history>>

Verify(r) == VerifyEmail(r) \/ VerifyMobile(r) \/ SaveVerification(r)
Send(r)   == \/ Guard(r) \/ FindToSend(r) \/ UpdateUser(r) \/ SaveContact(r)
             \/ IssueVerification(r)
Reset(r)  == \/ FindToReset(r) \/ RequestPasswordReset(r)
             \/ ResetPassword(r) \/ SaveReset(r)
Change(r) == ChangePassword(r) \/ SaveChange(r)

Handle(r) == Verify(r) \/ Send(r) \/ SaveCodes(r) \/ Reply(r) \/ Reset(r) \/ Change(r)

Next == \/ \E r \in Requests : Receive(r) \/ Handle(r) \/ Fail(r)
        \/ Crash
        \/ Tick

Spec == Init /\ [][Next]_vars

-----------------------------------------------------------------------------
(* Properties.                                                             *)

Steps == {"idle", "guard", "find", "user", "contact", "issue", "save", "reply"}

(* The variables hold what the schemas, the DTOs and the handlers allow. *)
TypeOK ==
  /\ auth \in AuthDocument
  /\ userContact \in [VerifyKeys -> Addresses \cup {None}]
  /\ pc \in [Requests -> Steps]
  /\ call \in [Requests -> Calls \cup {NoCall}]
  /\ doc \in [Requests -> AuthDocument \cup {None}]
  /\ linked \in [Requests -> BOOLEAN]
  /\ overlapped \in BOOLEAN
  /\ raced \subseteq VerifyKeys
  /\ now \in Nat
  /\ lastIssued \in [CodeKeys -> [Codes -> Int]]
  /\ proven \subseteq VerifyKeys
  /\ authorised \subseteq Passwords

(* d holds only codes that were issued for the key they are stored under, *)
(* and none that outlives the hour after it was last issued.              *)
CodesIssued(d) ==
  \A k \in CodeKeys : d.codes[k] # None =>
    LET e == d.codes[k]
    IN  /\ lastIssued[k][e.code] >= 0
        /\ e.expiration <= lastIssued[k][e.code] + Hour

(* The whole-object writes of verificationCodes by concurrent handlers     *)
(* (auth.service.ts:134,173,211,274,307) can bring an old code back, but   *)
(* never move a code to another key nor prolong it.                        *)
CodesWereIssued == CodesIssued(auth)

(* However the handlers' whole-object writes of verifications interleave,  *)
(* an email or a mobile is marked verified only if, at some time, somebody *)
(* presented a code issued for that very key less than an hour before      *)
(* (canVerify, auth.service.ts:238-257).                                   *)
VerifiedWasProven == \A k \in VerifyKeys : auth.verifications[k] => k \in proven

(* The stored password is the one of sign-up, or was chosen by a request   *)
(* that presented a reset code in force or the password stored at that     *)
(* time (auth.service.ts:281-308, 333-344), never by a stale save.         *)
PasswordWasAuthorised == auth.password \in authorised

(* sendVerification writes the contact to the user and then to the account *)
(* (auth.service.ts:158-165).  Wherever it stops, and whatever runs beside *)
(* it, the contact an account has is the one its user has, unless two      *)
(* requests linked different contacts of that kind at once: then the later *)
(* write of each pair wins, and the pairs can end up different.            *)
ContactsAgree ==
  \A k \in VerifyKeys \ raced : auth.contact[k] # None => userContact[k] = auth.contact[k]

(* A queued message tells a code that was issued for the purpose it names, *)
(* and an SMS or a reset mail always tells one (auth.controller.ts:111-132,*)
(* 165-174).                                                               *)
MessagesTellIssuedCodes ==
  \A r \in Requests : pc[r] = "reply" =>
    \A m \in Message(r) : /\ m.code # None => lastIssued[m.kind][m.code] >= 0
                          /\ m.kind # "email" => m.code # None

(* Every request is answered or fails: no handler waits for another one.   *)
RequestsEnd == \A r \in Requests : pc[r] # "idle" ~> pc[r] = "idle"

(* The stored document, read as the account of module Account. *)
Promise == INSTANCE Account WITH
  Contacts <- Addresses, Codes <- Entry,
  password <- auth.password, contact <- auth.contact,
  verified <- auth.verifications, codes <- auth.codes

(* A handler that runs alone from its start to its end keeps every promise *)
(* of Account, whatever handlers that overlapped left behind and wherever  *)
(* it dies: it does not undo what an earlier one wrote                     *)
(* (auth.service.ts:108-344).                                              *)
KeepsPromise ==
  Promise!AccountInit /\ [][overlapped' \/ Promise!AccountNext]_(Promise!promised)

(* verify-email.e2e-spec.ts:91-110 and verify-mobile.e2e-spec.ts:123-140:  *)
(* what is verified is refused as `data already verified' from then on.    *)
VerifiedForGood ==
  [][\A k \in VerifyKeys : auth.verifications[k] => auth'.verifications[k]]_vars

(* The key of the code a request presents. *)
PresentedKey(c) == CASE c.op = "verifyEmail"   -> "email"
                     [] c.op = "verifyMobile"  -> "mobile"
                     [] c.op = "resetPassword" -> "resetPassword"

(* templates/emails/verify.ejs:11 and templates/sms/verify.ejs:1: a code   *)
(* "expires in 30 mins".                                                   *)
HalfHourCodes ==
  [][\A r \in Requests :
       /\ call[r].op \in {"verifyEmail", "verifyMobile", "resetPassword"}
       /\ pc[r] = "find"
       /\ pc'[r] = "save"
       => 2 * (now - lastIssued[PresentedKey(call[r])][call[r].code]) <= Hour]_vars
=============================================================================
