--------------------------- MODULE MCAuthAccount ---------------------------
(* The requests of each run of AuthAccount, and its symmetries.            *)
EXTENDS AuthAccount, TLC

SendReset == {c \in SendVerificationDto : c.type = "resetPassword"}

(* Verification of the email and of the mobile. *)
VerifyCalls ==
  UNION { VerifyEmailDto, VerifyMobileDto, {c \in SendVerificationDto : c.contact # None} }

(* Everything that writes or reads the password, beside handlers of other  *)
(* kinds that write the same verificationCodes.                            *)
PasswordCalls ==
  UNION { ResetCodeDto, PasswordResetDto, VerifyEmailDto, SendReset,
          {c \in ChangePasswordDto : c.password # c.currentPassword} }

(* Accounts with one contact: the reset reads only the email. *)
OneContact == \E k \in VerifyKeys : userContact[k] = None

Symmetry ==
  Permutations(Requests) \cup Permutations(Codes) \cup Permutations(Mobiles)
=============================================================================
