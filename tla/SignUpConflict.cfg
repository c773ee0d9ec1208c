SPECIFICATION Spec
CONSTANTS
  None = None
  Requests = {r1}
  Emails = {e1}
  Mobiles = {m1, m2}
  Passwords = {p1}
  MaxAccounts = 3
INVARIANTS
  ConflictNamesDuplicate
