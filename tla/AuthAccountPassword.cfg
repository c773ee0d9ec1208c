SPECIFICATION Spec
CONSTANTS
  None = None
  Requests = {r1, r2}
  Calls <- PasswordCalls
  Codes = {c1, c2}
  Passwords = {p1, p2}
  Emails = {e1}
  Mobiles = {m1}
  Hour = 1
  MaxTime = 2
CONSTRAINT OneContact
SYMMETRY Symmetry
INVARIANTS
  CodesWereIssued
  VerifiedWasProven
  PasswordWasAuthorised
  MessagesTellIssuedCodes
PROPERTIES
  KeepsPromise
