---------------------------- MODULE MCAuthSystem ----------------------------
(* The jobs and requests of the run of AuthSystem.                         *)
EXTENDS AuthSystem

AJob(i, task) == [id |-> i, task |-> task, template |-> "good"]

SomeJobs == { AJob(1, "SEND_EMAIL"), AJob(2, "SEND_SMS") }

(* Both kinds of message, beside handlers that choose a password. *)
SystemCalls ==
  UNION { {c \in SendVerificationDto : c.type = "mobile"},
          ResetCodeDto, {c \in PasswordResetDto : c.email # None}, ChangePasswordDto }
=============================================================================
