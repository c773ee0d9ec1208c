------------------------------ MODULE MCWorker ------------------------------
(* The jobs and uploads of the run of Worker.                              *)
EXTENDS Worker

(* An email whose template ends the worker. *)
SomeJobs == { [id |-> 1, task |-> "SEND_EMAIL", template |-> "missing"] }

(* Two files that may be given one key, and a request that has none. *)
SomeUploads == { [id |-> 1, ext |-> "png"],
                 [id |-> 2, ext |-> "png"],
                 [id |-> 3, ext |-> None] }
=============================================================================
