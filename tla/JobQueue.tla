------------------------------ MODULE JobQueue ------------------------------
(***************************************************************************)
(* The job queue between the API and the worker.                           *)
(*                                                                         *)
(* JobService sends a job over RabbitMQ and keeps a subscription for the   *)
(* reply.  The worker consumes with noAck, so a job is gone from the       *)
(* broker as soon as it is consumed; the queue is durable but its messages *)
(* are transient.  JobController reads the template and gives the message  *)
(* to the provider over HTTP, several jobs at a time.                      *)
(*                                                                         *)
(* What is thrown in a callback of fs.readFile is caught by nobody and     *)
(* ends the worker; an error reply finds no error callback in              *)
(* addJobToQueue's subscription and ends the API.                          *)
(*                                                                         *)
(* The configuration is configuration.ts: an environment that is not test, *)
(* and no app.verification.smsService, so send() gives no SMS to Termii.   *)
(***************************************************************************)
EXTENDS Naturals

CONSTANTS Jobs,       \* the jobs, each queued at most once: its id is fresh
          MaxFailures \* bound: crashes that no job caused

Tasks     == {"SEND_EMAIL", "SEND_SMS", "UPLOAD_PHOTO", "PING"}
Templates == {"good", "missing", "broken", "none"}

ASSUME JobsAssumption == Jobs \subseteq [id : Nat, task : Tasks, template : Templates]
ASSUME FailuresAssumption == MaxFailures \in Nat

VARIABLES
  stage,     \* where each job is
  sent,      \* history: the jobs a provider accepted
  replies,   \* on the way to the API, as <<job, outcome>>
  listening, \* the jobs the API process has a subscription for
  api, worker,
  failures   \* crashes that no job caused, so far

queueVars == <<stage, sent, replies, listening, api, worker, failures>>

InWorker == {"reading", "posting", "accepted"}
Settled  == {"done", "failed", "lost"}

QueueInit ==
  /\ stage = [j \in Jobs |-> "new"]
  /\ sent = {} /\ replies = {} /\ listening = {}
  /\ api = "up" /\ worker = "up"
  /\ failures = 0

-----------------------------------------------------------------------------
(* The API: WorkService builds the job, JobService sends it.               *)

AddJobToQueue(j) ==
  /\ api = "up"
  /\ stage[j] = "new"
  /\ stage' = [stage EXCEPT ![j] = "queued"]
  /\ listening' = listening \cup {j}
  /\ UNCHANGED <<sent, replies, api, worker, failures>>

ApiDies == api' = "down" /\ listening' = {}

(* The broker cannot be reached: send() errors, with no error callback. *)
SendFails(j) ==
  /\ api = "up"
  /\ failures < MaxFailures
  /\ failures' = failures + 1
  /\ stage[j] = "new"
  /\ stage' = [stage EXCEPT ![j] = "lost"]
  /\ ApiDies
  /\ UNCHANGED <<sent, replies, worker>>

(* A reply reaches the subscription, if its process still lives. *)
ReceiveReply(j) ==
  /\ api = "up"
  /\ \E outcome \in {"complete", "error"} :
       /\ <<j, outcome>> \in replies
       /\ replies' = replies \ {<<j, outcome>>}
       /\ IF outcome = "error" /\ j \in listening
          THEN ApiDies
          ELSE listening' = listening \ {j} /\ UNCHANGED api
  /\ UNCHANGED <<stage, sent, worker, failures>>

-----------------------------------------------------------------------------
(* The worker.                                                             *)

(* Mutant of Ends: the reply carries the stage. *)
EndsWithStage(j, end) ==
  /\ stage' = [stage EXCEPT ![j] = end]
  /\ replies' = replies \cup {<<j, end>>}

(* The handler of j ends, and the worker replies. *)
Ends(j, end) ==
  /\ stage' = [stage EXCEPT ![j] = end]
  /\ replies' = replies \cup {<<j, IF end = "done" THEN "complete" ELSE "error">>}

(* Mutant of Lost: the broker delivers unacknowledged jobs again. *)
LostRedelivered(j) == IF stage[j] \in InWorker THEN "queued" ELSE stage[j]

(* Where the death of the worker leaves j: noAck, so the broker forgot it. *)
Lost(j) == IF stage[j] \in InWorker THEN "lost" ELSE stage[j]

WorkerDies == /\ worker' = "down"
              /\ stage' = [j \in Jobs |-> Lost(j)]
              /\ UNCHANGED replies

(* The worker takes j, and its handler runs to its first await. *)
Consume(j) ==
  /\ worker = "up"
  /\ stage[j] = "queued"
  /\ \/ /\ j.task \in {"SEND_EMAIL", "SEND_SMS"}
        /\ j.task = "SEND_EMAIL" => j.template # "none"
        /\ stage' = [stage EXCEPT ![j] = "reading"]
        /\ UNCHANGED replies
     \/ /\ j.task = "PING"
        /\ Ends(j, "done")
     \/ /\ \/ j.task = "SEND_EMAIL" /\ j.template = "none"
           \/ j.task = "UPLOAD_PHOTO" \* no handler has this pattern
        /\ Ends(j, "failed")
  /\ UNCHANGED <<sent, listening, api, worker, failures>>

(* getHtmlFromEmailTemplate throws in the callback of readFile when the     *)
(* template is missing or does not render, getTextFromSMSTemplate only when *)
(* it does not render: a missing one is rejected, caught and logged.        *)
CallbackThrows(j) ==
  IF j.task = "SEND_EMAIL" THEN j.template # "good" ELSE j.template = "broken"

(* Mutant of Render: the error is logged, and resolve never called. *)
RenderNeverResolves(j) ==
  /\ stage[j] = "reading"
  /\ ~CallbackThrows(j)
  /\ IF j.task = "SEND_EMAIL"
     THEN stage' = [stage EXCEPT ![j] = "posting"] /\ UNCHANGED replies
     ELSE Ends(j, "done")
  /\ UNCHANGED worker

(* readFile calls back.  The text of an SMS is then given to nobody. *)
Render(j) ==
  /\ stage[j] = "reading"
  /\ \/ /\ CallbackThrows(j)
        /\ WorkerDies
     \/ /\ ~CallbackThrows(j)
        /\ IF j.task = "SEND_EMAIL"
           THEN stage' = [stage EXCEPT ![j] = "posting"] /\ UNCHANGED replies
           ELSE Ends(j, "done")
        /\ UNCHANGED worker

(* Mutant of PostEmail: the request is not awaited. *)
PostEmailNotAwaited(j) ==
  /\ stage[j] = "posting"
  /\ Ends(j, "done")
  /\ sent' \in {sent, sent \cup {j}}

(* The provider accepts the message, or the request fails. *)
PostEmail(j) ==
  /\ stage[j] = "posting"
  /\ \/ /\ stage' = [stage EXCEPT ![j] = "accepted"]
        /\ sent' = sent \cup {j}
        /\ UNCHANGED replies
     \/ /\ Ends(j, "failed")
        /\ UNCHANGED sent

(* The provider's response arrives, or its connection breaks. *)
EmailSent(j) ==
  /\ stage[j] = "accepted"
  /\ \/ Ends(j, "done")
     \/ Ends(j, "failed")

Work(j) ==
  /\ \/ Render(j) /\ UNCHANGED sent
     \/ PostEmail(j) /\ UNCHANGED worker
     \/ EmailSent(j) /\ UNCHANGED <<sent, worker>>
  /\ UNCHANGED <<listening, api, failures>>

-----------------------------------------------------------------------------
(* The environment: crashes and restarts.                                  *)

Fault(crash) == /\ failures < MaxFailures
                /\ failures' = failures + 1
                /\ crash

ApiCrash == /\ api = "up"
            /\ Fault(ApiDies)
            /\ UNCHANGED <<stage, sent, replies, worker>>

WorkerCrash == /\ worker = "up"
               /\ Fault(WorkerDies)
               /\ UNCHANGED <<sent, listening, api>>

(* The messages are not persistent: the broker forgets them. *)
BrokerRestart ==
  /\ Fault(/\ stage' = [j \in Jobs |-> IF stage[j] = "queued" THEN "lost" ELSE stage[j]]
           /\ replies' = {})
  /\ UNCHANGED <<sent, listening, api, worker>>

ApiRestart == /\ api = "down" /\ api' = "up"
              /\ UNCHANGED <<stage, sent, replies, listening, worker, failures>>

WorkerRestart == /\ worker = "down" /\ worker' = "up"
                 /\ UNCHANGED <<stage, sent, replies, listening, api, failures>>

QueueNext ==
  \/ \E j \in Jobs : \/ AddJobToQueue(j) \/ SendFails(j) \/ ReceiveReply(j)
                     \/ Consume(j) \/ Work(j)
  \/ ApiCrash \/ WorkerCrash \/ BrokerRestart \/ ApiRestart \/ WorkerRestart

QueueSpec == QueueInit /\ [][QueueNext]_queueVars

(* Kubernetes restarts the worker, the broker pushes what it has to it, and *)
(* file system and provider answer or fail.                                 *)
QueueFairness == /\ WF_queueVars(WorkerRestart)
                 /\ \A j \in Jobs : WF_queueVars(Consume(j) \/ Work(j))

FairQueueSpec == QueueSpec /\ QueueFairness

-----------------------------------------------------------------------------
(* Properties.                                                             *)

(* The variables hold what the code puts in them. *)
QueueTypeOK ==
  /\ stage \in [Jobs -> {"new", "queued"} \cup InWorker \cup Settled]
  /\ sent \subseteq Jobs
  /\ replies \subseteq Jobs \X {"complete", "error"}
  /\ listening \subseteq Jobs
  /\ api \in {"up", "down"} /\ worker \in {"up", "down"}
  /\ failures \in 0 .. MaxFailures

(* However the worker, the API and the broker crash, the provider of a job *)
(* gets it at most once: no crash, error or restart sends it again         *)
(* (noAck, apps/finfrac-worker/src/main.ts:34).                            *)
Delivery == INSTANCE JobDelivery WITH
  pending   <- {j \in Jobs : stage[j] \in {"queued", "reading", "posting"}},
  delivered <- sent,
  dropped   <- {j \in Jobs : stage[j] \in Settled /\ j \notin sent}

KeepsDelivery == Delivery!DeliverySpec

(* The worker reports an email as done only if the provider has it:        *)
(* sendEmail awaits every step (job.controller.ts:23, email.service.ts:70).*)
DoneEmailsWereSent ==
  \A j \in Jobs : j.task = "SEND_EMAIL" /\ stage[j] = "done" => j \in sent

(* A queued job is settled in the end, even behind a job that kills the    *)
(* worker: such a job is not delivered again, and no handler waits forever *)
(* for its template (email.service.ts:143-153, sms.service.ts:45-53).      *)
JobsSettle == \A j \in Jobs : stage[j] = "queued" ~> stage[j] \in Settled
=============================================================================
