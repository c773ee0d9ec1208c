SPECIFICATION Spec
CONSTANTS
  None = None
  Requests = {r1, r2}
  Emails = {e1}
  Mobiles = {m1}
  Passwords = {p1}
  MaxAccounts = 3
INVARIANTS
  OneAccountPerEmail
