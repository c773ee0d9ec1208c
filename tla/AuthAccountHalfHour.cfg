SPECIFICATION Spec
CONSTANTS
  None = None
  Requests = {r1}
  Calls <- VerifyCalls
  Codes = {c1}
  Passwords = {p1}
  Emails = {e1}
  Mobiles = {m1}
  Hour = 2
  MaxTime = 3
PROPERTIES
  HalfHourCodes
