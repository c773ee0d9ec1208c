-------------------------- MODULE AuthSystemProofs --------------------------
(* Proofs that the account and the queue, put together, do what each of    *)
(* them does alone, and that jobs tell only what the account has stored.   *)
EXTENDS AuthSystem, AuthAccountProofs, JobQueueProofs

-----------------------------------------------------------------------------
(* Each part sees the other as a source of what it allows anyway.          *)

LEMMA ApiStepOfBoth ==
  ASSUME NEW r \in Requests,
         Accept(r) \/ HandlerStep(r) \/ HandlerFails(r) \/ SendEndsApi(r)
  PROVE  [Next]_vars /\ [QueueNext]_queueVars
<1>1. CASE Accept(r)
  BY <1>1 DEF Accept, Next
<1>2. CASE RunHandler(r)
  BY <1>2 DEF RunHandler, Next
<1>3. CASE HandlerFails(r)
  BY <1>3 DEF HandlerFails, Next
<1>4. CASE SendAndReply(r)
  <2>1. Handle(r)
    BY <1>4 DEF SendAndReply, Handle
  <2>2. UNCHANGED queueVars \/ \E j \in Jobs : AddJobToQueue(j)
    BY <1>4 DEF SendAndReply
  <2>3. QED
    BY <2>1, <2>2 DEF Next, QueueNext
<1>5. CASE SendEndsApi(r)
  <2>1. Crash \/ UNCHANGED vars
    BY <1>5 DEF SendEndsApi, HandlersDie, HandlersEnd
  <2>2. \E j \in Jobs : SendFails(j)
    BY <1>5 DEF SendEndsApi
  <2>3. QED
    BY <2>1, <2>2 DEF Next, QueueNext
<1>6. QED
  BY <1>1, <1>2, <1>3, <1>4, <1>5 DEF HandlerStep

LEMMA StepOfEach ==
  ASSUME [SystemNext]_systemVars
  PROVE  [Next]_vars /\ [QueueNext]_queueVars
<1>1. CASE \E r \in Requests : \/ Accept(r) \/ HandlerStep(r)
                               \/ HandlerFails(r) \/ SendEndsApi(r)
  BY <1>1, ApiStepOfBoth
<1>2. CASE QueueStep
  <2>1. QueueNext
    BY <1>2 DEF QueueStep, QueueNext
  <2>2. Crash \/ UNCHANGED vars
    BY <1>2 DEF QueueStep, HandlersDie, HandlersEnd
  <2>3. QED
    BY <2>1, <2>2 DEF Next
<1>3. CASE TimePasses
  BY <1>3 DEF TimePasses, Next
<1>4. CASE UNCHANGED systemVars
  BY <1>4 DEF systemVars
<1>5. QED
  BY <1>1, <1>2, <1>3, <1>4 DEF SystemNext

(* All that is proved of AuthAccount holds of an API process that jobs and *)
(* the broker may end (job.service.ts:15-27).                              *)
THEOREM SystemRunsAccount == SystemSpec => Spec
<1>1. SystemInit => Init
  BY DEF SystemInit
<1>2. QED
  BY <1>1, StepOfEach, PTL DEF SystemSpec, Spec

(* All that is proved of JobQueue holds of the jobs that handlers send,    *)
(* when they are done with the account (auth.service.ts:350-358).          *)
THEOREM SystemRunsQueue == SystemSpec => QueueSpec
<1>1. SystemInit => QueueInit
  BY DEF SystemInit
<1>2. QED
  BY <1>1, StepOfEach, PTL DEF SystemSpec, QueueSpec

-----------------------------------------------------------------------------
(* What the account has had.                                               *)

HadContacts(d) ==
  \A k \in VerifyKeys : d.contact[k] # None => <<k, d.contact[k]>> \in everStored
HadCodes(d) ==
  \A k \in CodeKeys : d.codes[k] # None => <<k, d.codes[k].code>> \in everStored

(* What a handler holds may be older than the account, but not newer: its  *)
(* contacts were stored, and once it answers, so were its codes.           *)
ToldInv ==
  /\ HadContacts(auth) /\ HadCodes(auth)
  /\ \A r \in Requests : /\ pc[r] \in Holding => HadContacts(doc[r])
                         /\ pc[r] = "reply" => HadCodes(doc[r])
  /\ message \in [Jobs -> Messages \cup {None}]
  /\ JobsTellStoredCodes

LEMMA InitToldInv == SystemInit => ToldInv
<1> SUFFICES ASSUME SystemInit PROVE ToldInv
  OBVIOUS
<1>1. HadContacts(auth) /\ HadCodes(auth)
  BY DEF SystemInit, HadContacts, HadCodes, ContactsIn, CodesIn
<1>2. \A r \in Requests : pc[r] = "idle"
  BY DEF SystemInit, Init
<1>3. message \in [Jobs -> Messages \cup {None}] /\ JobsTellStoredCodes
  BY DEF SystemInit, QueueInit, JobsTellStoredCodes
<1>4. QED
  BY <1>1, <1>2, <1>3 DEF ToldInv, Holding

LEMMA Remembered ==
  ASSUME Remember
  PROVE  everStored \subseteq everStored' /\ HadContacts(auth)' /\ HadCodes(auth)'
BY DEF Remember, HadContacts, HadCodes, ContactsIn, CodesIn

(* A contact in the hands of a handler comes from the account, as it was   *)
(* or as the handler has just made it.                                     *)
LEMMA HeldContacts ==
  ASSUME TypeInv, [Next]_vars, NEW r \in Requests, pc'[r] \in Holding, NEW k \in VerifyKeys
  PROVE  \/ doc'[r].contact[k] \in {auth.contact[k], auth'.contact[k]}
         \/ pc[r] \in Holding /\ doc'[r].contact[k] = doc[r].contact[k]
<1> DEFINE Goal == \/ doc'[r].contact[k] \in {auth.contact[k], auth'.contact[k]}
                   \/ pc[r] \in Holding /\ doc'[r].contact[k] = doc[r].contact[k]
<1> USE DEF TypeInv, TypeOK, Protocol
<1>1. ASSUME NEW q \in Requests, NEW step, NEW d, Continue(q, step, d),
             \/ d.contact[k] = auth.contact[k]
             \/ pc[q] \in Holding /\ d.contact[k] = doc[q].contact[k]
      PROVE  Goal
  BY <1>1 DEF Continue
<1>2. ASSUME NEW q \in Requests, Finish(q) PROVE Goal
  BY <1>2 DEF Finish, Holding
<1>3. ASSUME NEW q \in Requests, Receive(q) PROVE Goal
  BY <1>3 DEF Receive, Holding
<1>4. ASSUME NEW q \in Requests, VerifyEmail(q) \/ VerifyMobile(q) PROVE Goal
  <2>1. \A l \in VerifyKeys : UpdateVerification(auth, l).contact = auth.contact
    BY DEF UpdateVerification, AuthDocument
  <2>2. QED
    BY <1>1, <1>2, <1>4, <2>1 DEF VerifyEmail, VerifyMobile, FindAndVerify, VerifyKeys
<1>5. ASSUME NEW q \in Requests, Guard(q) PROVE Goal
  BY <1>2, <1>5 DEF Guard, Holding
<1>6. ASSUME NEW q \in Requests, FindToSend(q) \/ FindToReset(q) PROVE Goal
  BY <1>1, <1>2, <1>6 DEF FindToSend, FindToReset
<1>7. ASSUME NEW q \in Requests, UpdateUser(q) \/ SaveCodes(q) PROVE Goal
  BY <1>1, <1>7 DEF UpdateUser, SaveCodes, Holding
<1>8. ASSUME NEW q \in Requests, SaveContact(q) PROVE Goal
  <2>1. CASE Continue(q, "issue", doc[q])
    BY <1>1, <1>8, <2>1 DEF SaveContact, Holding
  <2>2. CASE /\ call[q].type \in VerifyKeys
             /\ auth' = [auth EXCEPT !.contact[call[q].type] = call[q].contact]
             /\ Continue(q, "issue", [doc[q] EXCEPT !.contact[call[q].type] = call[q].contact])
    <3>1. doc[q] \in AuthDocument /\ pc[q] \in Holding
      BY <1>8 DEF SaveContact, Holding
    <3>2. CASE r = q
      <4>1. doc'[r] = [doc[q] EXCEPT !.contact[call[q].type] = call[q].contact]
        BY <2>2, <3>2 DEF Continue
      <4>2. CASE k = call[q].type
        BY <2>2, <3>1, <4>1, <4>2 DEF AuthDocument
      <4>3. CASE k # call[q].type
        BY <3>1, <3>2, <4>1, <4>3 DEF AuthDocument
      <4>4. QED
        BY <4>2, <4>3
    <3>3. CASE r # q
      BY <2>2, <3>3 DEF Continue
    <3>4. QED
      BY <3>2, <3>3
  <2>3. QED
    BY <1>8, <2>1, <2>2 DEF SaveContact
<1>9. ASSUME NEW q \in Requests, IssueVerification(q) \/ RequestPasswordReset(q) PROVE Goal
  <2>1. PICK key, code : Continue(q, "save", WithCode(doc[q], key, code))
    BY <1>9 DEF IssueVerification, RequestPasswordReset, IssueCode
  <2>2. doc[q] \in AuthDocument /\ pc[q] \in Holding
    BY <1>9 DEF IssueVerification, RequestPasswordReset, IssueCode, Holding
  <2>3. WithCode(doc[q], key, code).contact = doc[q].contact
    BY <2>2 DEF WithCode, AuthDocument
  <2>4. QED
    BY <1>1, <2>1, <2>2, <2>3
<1>10. ASSUME NEW q \in Requests, ResetPassword(q) \/ ChangePassword(q) PROVE Goal
  <2>1. \A p : /\ WithNewPassword(auth, p).contact = auth.contact
               /\ [auth EXCEPT !.password = p].contact = auth.contact
    BY DEF WithNewPassword, AuthDocument
  <2>2. QED
    BY <1>1, <1>2, <1>10, <2>1 DEF ResetPassword, ChangePassword
<1>11. ASSUME NEW q \in Requests,
              SaveVerification(q) \/ SaveReset(q) \/ SaveChange(q) \/ Reply(q) \/ Fail(q)
       PROVE  Goal
  BY <1>2, <1>11 DEF SaveVerification, SaveReset, SaveChange, Reply, Fail
<1>12. ASSUME Crash PROVE Goal
  BY <1>12 DEF Crash, Holding
<1>13. ASSUME Tick \/ UNCHANGED vars PROVE Goal
  BY <1>13 DEF Tick, vars, handler
<1> HIDE DEF Goal, TypeInv, TypeOK, Protocol
<1>14. ASSUME NEW q \in Requests, Handle(q) PROVE Goal
  BY <1>4, <1>5, <1>6, <1>7, <1>8, <1>9, <1>10, <1>11, <1>14
  DEF Handle, Verify, Send, Reset, Change
<1>15. Goal
  BY <1>3, <1>11, <1>12, <1>13, <1>14 DEF Next
<1>16. QED
  BY <1>15 DEF Goal

(* A handler answers with the codes it has just stored. *)
LEMMA HeldCodes ==
  ASSUME TypeInv, [Next]_vars, NEW r \in Requests, pc'[r] = "reply"
  PROVE  \/ pc[r] = "reply" /\ doc'[r].codes = doc[r].codes
         \/ doc'[r].codes = auth'.codes
<1> DEFINE Goal == \/ pc[r] = "reply" /\ doc'[r].codes = doc[r].codes
                   \/ doc'[r].codes = auth'.codes
<1> USE DEF TypeInv, TypeOK, Protocol
<1>1. ASSUME NEW q \in Requests, \/ Finish(q)
                                 \/ \E step, d : step # "reply" /\ Continue(q, step, d)
      PROVE  Goal
  BY <1>1 DEF Finish, Continue
<1>2. ASSUME NEW q \in Requests, Receive(q) \/ Guard(q) PROVE Goal
  BY <1>1, <1>2 DEF Receive, Guard
<1>3. ASSUME NEW q \in Requests, \/ Verify(q) \/ Reset(q) \/ Change(q) \/ Reply(q) \/ Fail(q)
                                 \/ FindToSend(q) \/ UpdateUser(q) \/ SaveContact(q)
                                 \/ IssueVerification(q)
      PROVE  Goal
  BY <1>1, <1>3 DEF Verify, VerifyEmail, VerifyMobile, FindAndVerify, SaveVerification, Reset,
     FindToReset, RequestPasswordReset, ResetPassword, SaveReset, Change, ChangePassword,
     SaveChange, Reply, Fail, FindToSend, UpdateUser, SaveContact, IssueVerification, IssueCode
<1>4. ASSUME NEW q \in Requests, SaveCodes(q) PROVE Goal
  <2>1. auth'.codes = doc[q].codes
    BY <1>4 DEF SaveCodes, AuthDocument
  <2>2. QED
    BY <1>4, <2>1 DEF SaveCodes, Continue
<1>5. ASSUME Crash PROVE Goal
  BY <1>5 DEF Crash
<1>6. ASSUME Tick \/ UNCHANGED vars PROVE Goal
  BY <1>6 DEF Tick, vars, handler
<1> HIDE DEF Goal, TypeInv, TypeOK, Protocol
<1>7. ASSUME NEW q \in Requests, Handle(q) PROVE Goal
  BY <1>2, <1>3, <1>4, <1>7 DEF Handle, Send
<1>8. Goal
  BY <1>2, <1>3, <1>5, <1>6, <1>7 DEF Next
<1>9. QED
  BY <1>8 DEF Goal

(* The message of a handler that answers tells what its document holds.    *)
LEMMA MessageFacts ==
  ASSUME TypeInv, NEW r \in Requests, pc[r] = "reply", HadContacts(doc[r]), HadCodes(doc[r]),
         NEW m \in Message(r)
  PROVE  /\ m \in Messages
         /\ m.code # None => <<m.kind, m.code>> \in everStored
         /\ <<IF m.kind = "mobile" THEN "mobile" ELSE "email", m.to>> \in everStored
<1>1. doc[r] \in AuthDocument
  BY DEF TypeInv, Protocol, Holding
<1>2. PICK kind \in CodeKeys, key \in VerifyKeys :
        /\ m = [kind |-> kind, to |-> doc[r].contact[key], code |-> CodeOf(doc[r], kind)]
        /\ doc[r].contact[key] # None
        /\ key = IF kind = "mobile" THEN "mobile" ELSE "email"
  BY DEF Message, VerificationMessage, ResetMessage, EmailMessage, SmsMessage, CodeKeys, VerifyKeys
<1>3. doc[r].contact[key] \in Addresses
  BY <1>1, <1>2 DEF AuthDocument
<1>4. CodeOf(doc[r], kind) \in Codes \cup {None}
  BY <1>1 DEF AuthDocument, Entry, CodeOf
<1>5. CodeOf(doc[r], kind) # None => <<kind, CodeOf(doc[r], kind)>> \in everStored
  BY DEF HadCodes, CodeOf
<1>6. <<key, doc[r].contact[key]>> \in everStored
  BY <1>2 DEF HadContacts
<1>7. QED
  BY <1>2, <1>3, <1>4, <1>5, <1>6 DEF Messages

(* A job that moves, or is lost, still tells what it told. *)
LEMMA TellKept ==
  ASSUME ToldInv, everStored \subseteq everStored', UNCHANGED message,
         \A j \in Jobs : stage[j] = "new" => stage'[j] = "new"
  PROVE  JobsTellStoredCodes'
BY DEF ToldInv, JobsTellStoredCodes

LEMMA TellNew ==
  ASSUME TypeInv, ToldInv, everStored \subseteq everStored', NEW r \in Requests, pc[r] = "reply",
         NEW m \in Message(r), NEW j \in Jobs, Told(m, j),
         \A i \in Jobs \ {j} : stage'[i] = stage[i]
  PROVE  JobsTellStoredCodes' /\ message' \in [Jobs -> Messages \cup {None}]
<1>1. /\ m \in Messages /\ m # None
      /\ m.code # None => <<m.kind, m.code>> \in everStored
      /\ <<IF m.kind = "mobile" THEN "mobile" ELSE "email", m.to>> \in everStored
  BY MessageFacts, MessagesAssumption DEF ToldInv, Holding
<1>2. /\ message' \in [Jobs -> Messages \cup {None}]
      /\ message'[j] = m
      /\ \A i \in Jobs \ {j} : message'[i] = message[i]
  BY <1>1 DEF Told, ToldInv
<1>3. QED
  BY <1>1, <1>2 DEF ToldInv, JobsTellStoredCodes

LEMMA QueueOnlyMovesOn ==
  ASSUME QueueTypeOK, QueueStep, NEW j \in Jobs, stage[j] = "new"
  PROVE  stage'[j] = "new"
BY DEF QueueTypeOK, QueueStep, ReceiveReply, Consume, Ends, Work, Render, PostEmail, EmailSent,
   WorkerDies, Lost, InWorker, ApiCrash, WorkerCrash, BrokerRestart, ApiRestart, WorkerRestart,
   Fault

LEMMA NextToldInv ==
  ASSUME TypeInv, QueueTypeOK, ToldInv, [SystemNext]_systemVars
  PROVE  ToldInv'
<1>1. CASE SystemNext
  <2>1. /\ everStored \subseteq everStored'
        /\ HadContacts(auth)' /\ HadCodes(auth)'
    BY <1>1, Remembered DEF SystemNext
  <2>2. [Next]_vars
    BY <1>1, StepOfEach
  <2>3. ASSUME NEW r \in Requests, pc'[r] \in Holding PROVE HadContacts(doc[r])'
    <3>1. SUFFICES ASSUME NEW k \in VerifyKeys, doc'[r].contact[k] # None
                   PROVE  <<k, doc'[r].contact[k]>> \in everStored'
      BY DEF HadContacts
    <3>2. CASE doc'[r].contact[k] = auth.contact[k]
      BY <2>1, <3>1, <3>2 DEF ToldInv, HadContacts
    <3>3. CASE doc'[r].contact[k] = auth'.contact[k]
      BY <2>1, <3>1, <3>3 DEF HadContacts
    <3>4. CASE pc[r] \in Holding /\ doc'[r].contact[k] = doc[r].contact[k]
      BY <2>1, <3>1, <3>4 DEF ToldInv, HadContacts
    <3>5. QED
      BY <2>2, <2>3, <3>2, <3>3, <3>4, HeldContacts
  <2>4. ASSUME NEW r \in Requests, pc'[r] = "reply" PROVE HadCodes(doc[r])'
    <3>1. CASE doc'[r].codes = auth'.codes
      BY <2>1, <3>1 DEF HadCodes
    <3>2. CASE pc[r] = "reply" /\ doc'[r].codes = doc[r].codes
      BY <2>1, <3>2 DEF ToldInv, HadCodes
    <3>3. QED
      BY <2>2, <2>4, <3>1, <3>2, HeldCodes
  <2>5. JobsTellStoredCodes' /\ message' \in [Jobs -> Messages \cup {None}]
    <3>1. CASE UNCHANGED <<message, stage>>
      BY <2>1, <3>1, TellKept DEF ToldInv
    <3>2. CASE QueueStep
      BY <2>1, <3>2, TellKept, QueueOnlyMovesOn DEF ToldInv, QueueStep
    <3>3. ASSUME NEW r \in Requests, pc[r] = "reply", NEW m \in Message(r), NEW j \in Jobs,
                 AddJobToQueue(j) \/ SendFails(j), Told(m, j)
          PROVE  JobsTellStoredCodes' /\ message' \in [Jobs -> Messages \cup {None}]
      <4>1. \A i \in Jobs \ {j} : stage'[i] = stage[i]
        BY <3>3 DEF AddJobToQueue, SendFails, QueueTypeOK
      <4>2. QED
        BY <2>1, <3>3, <4>1, TellNew
    <3>4. ASSUME NEW r \in Requests,
                 Accept(r) \/ HandlerStep(r) \/ HandlerFails(r) \/ SendEndsApi(r)
          PROVE  JobsTellStoredCodes' /\ message' \in [Jobs -> Messages \cup {None}]
      BY <3>1, <3>3, <3>4 DEF Accept, HandlerStep, RunHandler, SendAndReply, Reply, HandlerFails,
         SendEndsApi, queueVars
    <3>5. CASE TimePasses
      BY <3>1, <3>5 DEF TimePasses, queueVars
    <3>6. QED
      BY <1>1, <3>2, <3>4, <3>5 DEF SystemNext
  <2>6. QED
    BY <2>1, <2>3, <2>4, <2>5 DEF ToldInv
<1>2. CASE UNCHANGED systemVars
  BY <1>2 DEF systemVars, vars, stored, handler, queueVars, ToldInv, HadContacts, HadCodes,
     JobsTellStoredCodes
<1>3. QED
  BY <1>1, <1>2

(* What a provider has been given tells codes and goes to contacts that    *)
(* the account had before, however many handlers overwrite each other's    *)
(* codes and however API, worker and broker crash                          *)
(* (auth.service.ts:146-177, 263-275, 350-358).                            *)
THEOREM ToldCodesWereStored == SystemSpec => []JobsTellStoredCodes
<1>1. SystemSpec => [](TypeInv /\ QueueTypeOK)
  BY SystemRunsAccount, SafetyCorrect, SystemRunsQueue, QueueTypeCorrect, PTL
<1>2. TypeInv /\ QueueTypeOK /\ ToldInv /\ [SystemNext]_systemVars => ToldInv'
  BY NextToldInv
<1>3. ToldInv => JobsTellStoredCodes
  BY DEF ToldInv
<1>4. QED
  BY <1>1, <1>2, <1>3, InitToldInv, PTL DEF SystemSpec

(* A code is mailed at most once, whatever dies: the queue of handlers     *)
(* that crash with their API is at most once too (worker main.ts:34).      *)
THEOREM SystemDeliversAtMostOnce == SystemSpec => KeepsDelivery
BY SystemRunsQueue, DeliveredAtMostOnce, PTL

(* A handler that runs alone keeps the promises of Account in a process    *)
(* that error replies may end at any step (job.service.ts:15-27).          *)
THEOREM SystemKeepsPromise == SystemSpec => KeepsPromise
BY SystemRunsAccount, AloneKeepsPromise, PTL
=============================================================================
