----------------------------- MODULE MCJobQueue -----------------------------
(* The jobs of the runs of JobQueue.                                       *)
EXTENDS JobQueue

AJob(i, task, template) == [id |-> i, task |-> task, template |-> template]

(* A job of every end: an email that can be sent, beside jobs that kill the *)
(* worker, fail at once or are done with nothing sent.                      *)
SomeJobs == { AJob(1, "SEND_EMAIL", "good"),
              AJob(2, "SEND_EMAIL", "missing"),
              AJob(3, "SEND_EMAIL", "none"),
              AJob(4, "SEND_SMS", "missing"),
              AJob(5, "PING", "none") }
=============================================================================
