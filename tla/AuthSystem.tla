----------------------------- MODULE AuthSystem -----------------------------
(***************************************************************************)
(* One API process with the account its handlers work on (AuthAccount) and *)
(* the queue that takes their mails and SMS to the worker (JobQueue).      *)
(*                                                                         *)
(* The two meet where a handler answers: getResponse gives the message to  *)
(* WorkService, which sends a job for it and waits for nothing.  They meet *)
(* again when the API dies: an error reply to any job, or a broker that    *)
(* cannot be reached, ends the process with all the handlers it runs.      *)
(***************************************************************************)
EXTENDS AuthAccount, JobQueue, FiniteSets

Messages == [kind : CodeKeys, to : Addresses, code : Codes \cup {None}]

ASSUME MessagesAssumption == None \notin Messages

VARIABLES
  message,   \* what each job tells, None until it is sent
  everStored \* history: the codes and contacts the account has had, by key

systemVars == <<vars, queueVars, message, everStored>>

ContactsIn(d) == {<<k, d.contact[k]>> : k \in {l \in VerifyKeys : d.contact[l] # None}}
CodesIn(d)    == {<<k, d.codes[k].code>> : k \in {l \in CodeKeys : d.codes[l] # None}}

SystemInit == /\ Init /\ QueueInit
              /\ message = [j \in Jobs |-> None]
              /\ everStored = ContactsIn(auth) \cup CodesIn(auth)

Remember == everStored' = everStored \cup ContactsIn(auth') \cup CodesIn(auth')

-----------------------------------------------------------------------------
(* The handlers.                                                           *)

Sends(c)    == c.op \in {"sendVerification", "passwordReset"}
SendsSms(c) == c.op = "sendVerification" /\ c.type = "mobile"
Task(sms)   == IF sms THEN "SEND_SMS" ELSE "SEND_EMAIL"

(* Bound: a handler that may send a message will find a job to send it as. *)
Spare(c) ==
  Sends(c) => Cardinality({j \in Jobs : j.task = Task(SendsSms(c)) /\ stage[j] = "new"})
              > Cardinality({r \in Requests : /\ Sends(call[r])
                                              /\ SendsSms(call[r]) = SendsSms(c)})

Accept(r) == /\ api = "up"
             /\ Receive(r)
             /\ Spare(call'[r])
             /\ UNCHANGED <<queueVars, message>>

(* Everything handler r does before it answers. *)
RunHandler(r) == /\ api = "up"
                 /\ pc[r] # "reply"
                 /\ Handle(r)
                 /\ UNCHANGED <<queueVars, message>>

HandlerFails(r) == Fail(r) /\ UNCHANGED <<queueVars, message>>

(* Message m becomes job j. *)
Told(m, j) == /\ j.task = Task(m.kind = "mobile")
              /\ message' = [message EXCEPT ![j] = m]

(* getResponse, queueToSendEmail, queueToSendSms *)
SendAndReply(r) ==
  /\ Reply(r)
  /\ \/ /\ Message(r) = {}
        /\ UNCHANGED <<queueVars, message>>
     \/ \E m \in Message(r), j \in Jobs : AddJobToQueue(j) /\ Told(m, j)

(* All handlers end with their process. *)
HandlersEnd == IF \E r \in Requests : pc[r] # "idle" THEN Crash ELSE UNCHANGED vars

(* What the life of the API process means for its handlers. *)
HandlersDie == IF api = "up" /\ api' = "down" THEN HandlersEnd ELSE UNCHANGED vars

(* The broker cannot be reached: the message is lost and the process ends. *)
SendEndsApi(r) ==
  /\ pc[r] = "reply"
  /\ \E m \in Message(r), j \in Jobs : SendFails(j) /\ Told(m, j)
  /\ HandlersDie

HandlerStep(r) == (api = "up" /\ SendAndReply(r)) \/ RunHandler(r)

-----------------------------------------------------------------------------
(* The queue, the worker, and crashes.                                     *)

QueueStep ==
  /\ \/ \E j \in Jobs : ReceiveReply(j) \/ Consume(j) \/ Work(j)
     \/ ApiCrash \/ WorkerCrash \/ BrokerRestart \/ ApiRestart \/ WorkerRestart
  /\ HandlersDie
  /\ UNCHANGED message

TimePasses == Tick /\ UNCHANGED <<queueVars, message>>

SystemNext ==
  /\ \/ \E r \in Requests : Accept(r) \/ HandlerStep(r) \/ HandlerFails(r) \/ SendEndsApi(r)
     \/ QueueStep
     \/ TimePasses
  /\ Remember

SystemSpec == SystemInit /\ [][SystemNext]_systemVars

(* MongoDB answers or fails every call and Node runs every continuation.   *)
SystemFairness == \A r \in Requests : WF_systemVars(HandlerStep(r) /\ Remember)

FairSystemSpec == SystemSpec /\ SystemFairness

-----------------------------------------------------------------------------
(* Properties.                                                             *)

(* Whatever has been sent as a job tells only a code, and goes only to a   *)
(* contact, that the account had under the key the message is about before *)
(* the job was sent, whoever overwrites the codes, and whatever dies: what *)
(* a client receives was there to be used (auth.service.ts:173, 274 are    *)
(* awaited before auth.controller.ts:112, 165 and auth.service.ts:350).    *)
JobsTellStoredCodes ==
  \A j \in Jobs : stage[j] # "new" =>
    LET m   == message[j]
        key == IF m.kind = "mobile" THEN "mobile" ELSE "email"
    IN  /\ m # None
        /\ m.code # None => <<m.kind, m.code>> \in everStored
        /\ <<key, m.to>> \in everStored
=============================================================================
