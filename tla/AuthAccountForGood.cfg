SPECIFICATION Spec
CONSTANTS
  None = None
  Requests = {r1, r2}
  Calls <- VerifyCalls
  Codes = {c1}
  Passwords = {p1}
  Emails = {e1}
  Mobiles = {m1}
  Hour = 1
  MaxTime = 1
PROPERTIES
  VerifiedForGood
