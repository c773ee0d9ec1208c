------------------------------- MODULE Worker -------------------------------
(***************************************************************************)
(* finfrac-worker, one process for two things: it consumes jobs (JobQueue) *)
(* and serves uploads (MediaUpload).  Whatever ends it ends both: a job    *)
(* whose template cannot be rendered loses the uploads it serves, and a    *)
(* makePublic that rejects loses the jobs it holds.                        *)
(***************************************************************************)
EXTENDS JobQueue, MediaUpload

workerVars == <<queueVars, uploadVars>>

WorkerInit == QueueInit /\ UploadInit

(* A step of the queue's parties; the worker's death is everybody's. *)
JobStep ==
  /\ QueueNext
  /\ IF worker = "up" /\ worker' = "down" THEN ProcessDies ELSE UNCHANGED uploadVars

(* The process runs a step of an upload. *)
UploadStep == /\ worker = "up"
              /\ \E u \in Uploads : Upload(u) \/ Serve(u)
              /\ UNCHANGED queueVars

(* The rejection is unhandled: to the queue, a crash that no job caused. *)
PublishCrash == \E u \in Uploads : MakePublicRejected(u) /\ WorkerCrash

TimePasses == Tick /\ UNCHANGED queueVars

WorkerNext == JobStep \/ UploadStep \/ PublishCrash \/ TimePasses

WorkerSpec == WorkerInit /\ [][WorkerNext]_workerVars

(* Bucket and MongoDB answer or fail (their clients have timeouts). *)
WorkerFairness == /\ QueueFairness
                  /\ \A u \in Uploads : WF_uploadVars(Serve(u))

FairWorkerSpec == WorkerSpec /\ WorkerFairness
=============================================================================
