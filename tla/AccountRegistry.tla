-------------------------- MODULE AccountRegistry --------------------------
(***************************************************************************)
(* What sign-up promises: an email is registered at most once, and nothing *)
(* that happens at sign-up touches an account already registered.          *)
(***************************************************************************)
CONSTANTS Emails, Passwords

VARIABLE registered  \* the accounts, as [email, password] records

RegistryInit == registered = {}

Register(email, password) ==
  /\ \A a \in registered : a.email # email
  /\ registered' = registered \cup {[email |-> email, password |-> password]}

RegistryNext == \E email \in Emails, password \in Passwords : Register(email, password)

RegistrySpec == RegistryInit /\ [][RegistryNext]_registered
=============================================================================
