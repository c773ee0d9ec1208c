SPECIFICATION Spec
CONSTANTS
  None = None
  Requests = {r1, r2}
  Calls <- VerifyCalls
  Codes = {c1}
  Passwords = {p1}
  Emails = {e1}
  Mobiles = {m1, m2}
  Hour = 1
  MaxTime = 2
SYMMETRY Symmetry
INVARIANTS
  TypeOK
  CodesWereIssued
  VerifiedWasProven
  ContactsAgree
  MessagesTellIssuedCodes
PROPERTIES
  KeepsPromise
