--------------------------- MODULE JobQueueProofs ---------------------------
(* Proofs that the job queue delivers at most once and reports truthfully, *)
(* for any set of jobs and any number of crashes.                          *)
EXTENDS JobQueue, TLAPS

(* A provider has a job from the moment it accepts it on, and no job that  *)
(* is still on its way.                                                    *)
SentInv ==
  /\ \A j \in sent : stage[j] \in {"accepted"} \cup Settled
  /\ \A j \in Jobs : stage[j] = "accepted" => j \in sent

QueueInv == QueueTypeOK /\ SentInv /\ DoneEmailsWereSent

Stages == {"new", "queued"} \cup InWorker \cup Settled

-----------------------------------------------------------------------------

LEMMA InitQueueInv == QueueInit => QueueInv
BY FailuresAssumption DEF QueueInit, QueueInv, QueueTypeOK, SentInv, DoneEmailsWereSent

(* The worker's death loses what it held, and nothing else. *)
LEMMA WorkerDiesQueueInv ==
  ASSUME QueueInv, WorkerDies, UNCHANGED <<sent, listening, api>>,
         failures' \in 0 .. MaxFailures
  PROVE  QueueInv'
BY DEF QueueInv, QueueTypeOK, SentInv, DoneEmailsWereSent, WorkerDies, Lost, InWorker, Settled

(* One job moves to another stage. *)
LEMMA MoveQueueInv ==
  ASSUME QueueInv, NEW j \in Jobs, NEW to \in Stages, stage' = [stage EXCEPT ![j] = to],
         sent' \in {sent, sent \cup {j}},
         replies' \subseteq Jobs \X {"complete", "error"}, listening' \subseteq Jobs,
         api' \in {"up", "down"}, worker' \in {"up", "down"}, failures' \in 0 .. MaxFailures,
         j \in sent' => to \in {"accepted"} \cup Settled,
         to = "accepted" => j \in sent',
         j.task = "SEND_EMAIL" /\ to = "done" => j \in sent'
  PROVE  QueueInv'
BY DEF QueueInv, QueueTypeOK, SentInv, DoneEmailsWereSent, Stages

LEMMA NextQueueInv ==
  ASSUME QueueInv, [QueueNext]_queueVars
  PROVE  QueueInv'
<1> USE DEF QueueInv, QueueTypeOK, Stages
<1>1. ASSUME NEW j \in Jobs, AddJobToQueue(j) PROVE QueueInv'
  BY <1>1, MoveQueueInv DEF AddJobToQueue, SentInv, InWorker, Settled
<1>2. ASSUME NEW j \in Jobs, SendFails(j) PROVE QueueInv'
  <2>1. failures' \in 0 .. MaxFailures
    BY <1>2, FailuresAssumption DEF SendFails
  <2>2. QED
    BY <1>2, <2>1, MoveQueueInv DEF SendFails, ApiDies, SentInv, InWorker, Settled
<1>3. ASSUME NEW j \in Jobs, ReceiveReply(j) PROVE QueueInv'
  BY <1>3 DEF ReceiveReply, ApiDies, SentInv, DoneEmailsWereSent
<1>4. ASSUME NEW j \in Jobs, Consume(j) PROVE QueueInv'
  BY <1>4, MoveQueueInv DEF Consume, Ends, SentInv, InWorker, Settled
<1>5. ASSUME NEW j \in Jobs, Work(j) PROVE QueueInv'
  <2>1. CASE Render(j) /\ UNCHANGED sent
    <3>1. CASE WorkerDies
      BY <1>5, <2>1, <3>1, WorkerDiesQueueInv DEF Work
    <3>2. CASE ~WorkerDies
      BY <1>5, <2>1, <3>2, MoveQueueInv DEF Work, Render, Ends, SentInv, InWorker, Settled
    <3>3. QED
      BY <3>1, <3>2
  <2>2. CASE PostEmail(j) /\ UNCHANGED worker
    BY <1>5, <2>2, MoveQueueInv DEF Work, PostEmail, Ends, SentInv, InWorker, Settled
  <2>3. CASE EmailSent(j) /\ UNCHANGED <<sent, worker>>
    BY <1>5, <2>3, MoveQueueInv DEF Work, EmailSent, Ends, SentInv, InWorker, Settled
  <2>4. QED
    BY <1>5, <2>1, <2>2, <2>3 DEF Work
<1>6. CASE ApiCrash
  BY <1>6, FailuresAssumption DEF ApiCrash, Fault, ApiDies, SentInv, DoneEmailsWereSent
<1>7. CASE WorkerCrash
  <2>1. failures' \in 0 .. MaxFailures
    BY <1>7, FailuresAssumption DEF WorkerCrash, Fault
  <2>2. QED
    BY <1>7, <2>1, WorkerDiesQueueInv DEF WorkerCrash, Fault
<1>8. CASE BrokerRestart
  BY <1>8, FailuresAssumption DEF BrokerRestart, Fault, SentInv, DoneEmailsWereSent, Settled
<1>9. CASE ApiRestart \/ WorkerRestart
  BY <1>9 DEF ApiRestart, WorkerRestart, SentInv, DoneEmailsWereSent
<1>10. CASE UNCHANGED queueVars
  BY <1>10 DEF queueVars, SentInv, DoneEmailsWereSent
<1>11. QED
  BY <1>1, <1>2, <1>3, <1>4, <1>5, <1>6, <1>7, <1>8, <1>9, <1>10 DEF QueueNext

LEMMA QueueKeepsInv == QueueSpec => []QueueInv
BY InitQueueInv, NextQueueInv, PTL DEF QueueSpec

(* Jobs, replies and subscriptions keep their types.                       *)
THEOREM QueueTypeCorrect == QueueSpec => []QueueTypeOK
<1>1. QueueInv => QueueTypeOK
  BY DEF QueueInv
<1>2. QED
  BY <1>1, QueueKeepsInv, PTL

(* An email the worker reports as done has been accepted by the provider.  *)
THEOREM DoneMeansSent == QueueSpec => []DoneEmailsWereSent
<1>1. QueueInv => DoneEmailsWereSent
  BY DEF QueueInv
<1>2. QED
  BY <1>1, QueueKeepsInv, PTL

-----------------------------------------------------------------------------
(* Every step is a step of JobDelivery, or none.                           *)

Pending == {j \in Jobs : stage[j] \in {"queued", "reading", "posting"}}
Dropped == {j \in Jobs : stage[j] \in Settled /\ j \notin sent}

(* The jobs of S, which no provider has, end; the others stay. *)
LEMMA DropStep ==
  ASSUME QueueInv, QueueInv', NEW S \in SUBSET Jobs, S \cap sent = {}, UNCHANGED sent,
         \A j \in S : stage'[j] \in Settled,
         \A j \in Jobs \ S : \/ stage'[j] = stage[j]
                             \/ stage[j] = "accepted" /\ stage'[j] \in Settled
  PROVE  Delivery!Drop(S)
BY DEF Delivery!Drop, QueueInv, QueueTypeOK, SentInv, Settled

LEMMA WorkerDiesStep ==
  ASSUME QueueInv, QueueInv', WorkerDies, UNCHANGED sent
  PROVE  \E S \in SUBSET Jobs : Delivery!Drop(S)
<1> DEFINE S == {j \in Jobs : stage[j] \in {"reading", "posting"}}
<1>1. S \cap sent = {}
  BY DEF QueueInv, SentInv, Settled
<1>2. \A j \in S : stage'[j] \in Settled
  BY DEF WorkerDies, Lost, InWorker, Settled
<1>3. \A j \in Jobs \ S : \/ stage'[j] = stage[j]
                          \/ stage[j] = "accepted" /\ stage'[j] \in Settled
  BY DEF WorkerDies, Lost, InWorker, Settled
<1> HIDE DEF S
<1>4. S \in SUBSET Jobs
  BY DEF S
<1>5. QED
  BY <1>1, <1>2, <1>3, <1>4, DropStep

LEMMA BrokerRestartStep ==
  ASSUME QueueInv, QueueInv', BrokerRestart
  PROVE  \E S \in SUBSET Jobs : Delivery!Drop(S)
<1> DEFINE S == {j \in Jobs : stage[j] = "queued"}
<1>1. S \cap sent = {} /\ UNCHANGED sent
  BY DEF BrokerRestart, QueueInv, SentInv, Settled
<1>2. /\ \A j \in S : stage'[j] \in Settled
      /\ \A j \in Jobs \ S : stage'[j] = stage[j]
  BY DEF BrokerRestart, Fault, Settled
<1> HIDE DEF S
<1>3. S \in SUBSET Jobs
  BY DEF S
<1>4. QED
  BY <1>1, <1>2, <1>3, DropStep

(* A handler that ends without having reached a provider. *)
LEMMA EndStep ==
  ASSUME QueueInv, QueueInv', NEW j \in Jobs, j \notin sent, UNCHANGED sent,
         NEW end \in Settled, stage' = [stage EXCEPT ![j] = end]
  PROVE  \E S \in SUBSET Jobs : Delivery!Drop(S)
<1>1. Delivery!Drop({j})
  BY DropStep DEF QueueInv, QueueTypeOK
<1>2. QED
  BY <1>1

(* A job that moves on without settling, or is settled with its provider.  *)
LEMMA MoveStutter ==
  ASSUME QueueInv, NEW j \in Jobs, UNCHANGED sent, NEW to, stage' = [stage EXCEPT ![j] = to],
         \/ stage[j] \in {"queued", "reading"} /\ to \in {"reading", "posting"}
         \/ j \in sent /\ to \in Settled
  PROVE  UNCHANGED <<Pending, sent, Dropped>>
BY DEF QueueInv, QueueTypeOK, SentInv, Pending, Dropped, Settled

LEMMA QueueSimulation ==
  ASSUME QueueInv, QueueInv', [QueueNext]_queueVars
  PROVE  [Delivery!DeliveryNext]_(Delivery!delivery)
<1> DEFINE Stutter == UNCHANGED <<Pending, sent, Dropped>>
<1>1. Stutter => UNCHANGED Delivery!delivery
  BY DEF Delivery!delivery, Pending, Dropped
<1>2. ASSUME NEW j \in Jobs, AddJobToQueue(j) PROVE Delivery!Submit(j)
  BY <1>2 DEF AddJobToQueue, Delivery!Submit, QueueInv, QueueTypeOK, SentInv, Settled
<1>3. ASSUME NEW j \in Jobs, SendFails(j) PROVE \E S \in SUBSET Jobs : Delivery!Drop(S)
  BY <1>3, EndStep DEF SendFails, QueueInv, SentInv, Settled
<1>4. ASSUME NEW j \in Jobs, ReceiveReply(j) PROVE Stutter
  BY <1>4 DEF ReceiveReply, Pending, Dropped
<1>5. ASSUME NEW j \in Jobs, Consume(j)
      PROVE  Stutter \/ \E S \in SUBSET Jobs : Delivery!Drop(S)
  <2>1. j \notin sent /\ UNCHANGED sent /\ stage[j] = "queued"
    BY <1>5 DEF Consume, QueueInv, SentInv, Settled
  <2>2. \E to \in {"reading", "done", "failed"} : stage' = [stage EXCEPT ![j] = to]
    BY <1>5 DEF Consume, Ends
  <2>3. QED
    BY <2>1, <2>2, EndStep, MoveStutter DEF Settled
<1>6. ASSUME NEW j \in Jobs, Work(j)
      PROVE  Stutter \/ Delivery!Deliver(j) \/ \E S \in SUBSET Jobs : Delivery!Drop(S)
  <2>1. CASE WorkerDies /\ UNCHANGED sent
    BY <2>1, WorkerDiesStep
  <2>2. CASE Render(j) /\ UNCHANGED sent /\ ~WorkerDies
    <3>1. CASE j.task = "SEND_EMAIL"
      BY <2>2, <3>1, MoveStutter DEF Render
    <3>2. CASE j.task # "SEND_EMAIL"
      BY <2>2, <3>2, EndStep DEF Render, Ends, QueueInv, SentInv, Settled
    <3>3. QED
      BY <3>1, <3>2
  <2>3. CASE PostEmail(j)
    <3>1. CASE UNCHANGED sent
      BY <2>3, <3>1, EndStep DEF PostEmail, Ends, QueueInv, SentInv, Settled
    <3>2. CASE stage' = [stage EXCEPT ![j] = "accepted"] /\ sent' = sent \cup {j}
      BY <2>3, <3>2 DEF PostEmail, Delivery!Deliver, QueueInv, QueueTypeOK, SentInv, Settled
    <3>3. QED
      BY <2>3, <3>1, <3>2 DEF PostEmail
  <2>4. CASE EmailSent(j) /\ UNCHANGED sent
    BY <2>4, MoveStutter DEF EmailSent, Ends, QueueInv, SentInv, Settled
  <2>5. QED
    BY <1>6, <2>1, <2>2, <2>3, <2>4 DEF Work
<1>7. CASE ApiCrash \/ ApiRestart \/ WorkerRestart \/ UNCHANGED queueVars
  <2>1. UNCHANGED <<stage, sent>>
    BY <1>7 DEF ApiCrash, Fault, ApiRestart, WorkerRestart, queueVars
  <2>2. Stutter
    BY <2>1 DEF Pending, Dropped
  <2>3. QED
    BY <1>1, <2>2
<1>8. CASE WorkerCrash
  BY <1>8, WorkerDiesStep DEF WorkerCrash, Fault, Delivery!DeliveryNext
<1>9. CASE BrokerRestart
  BY <1>9, BrokerRestartStep DEF Delivery!DeliveryNext
<1> HIDE DEF Stutter
<1>10. QED
  BY <1>1, <1>2, <1>3, <1>4, <1>5, <1>6, <1>7, <1>8, <1>9
  DEF QueueNext, Delivery!DeliveryNext

(* Crashes, restarts and errors never make the queue send a job twice: it  *)
(* implements at-most-once delivery (noAck, worker main.ts:34).            *)
THEOREM DeliveredAtMostOnce == QueueSpec => KeepsDelivery
<1>1. QueueInit => Delivery!DeliveryInit
  BY DEF QueueInit, Delivery!DeliveryInit, Settled
<1>2. QED
  BY <1>1, QueueKeepsInv, QueueSimulation, PTL DEF QueueSpec, KeepsDelivery, Delivery!DeliverySpec
=============================================================================
