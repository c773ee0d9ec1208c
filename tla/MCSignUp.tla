------------------------------ MODULE MCSignUp ------------------------------
(* The symmetries of the runs of SignUp.                                   *)
EXTENDS SignUp, TLC

Symmetry == Permutations(Requests) \cup Permutations(Emails) \cup Permutations(Passwords)
=============================================================================
