SPECIFICATION Spec
CONSTANTS
  None = None
  Requests = {r1, r2}
  Emails = {e1, e2}
  Mobiles = {m1}
  Passwords = {p1, p2}
  MaxAccounts = 3
SYMMETRY Symmetry
INVARIANTS
  TypeOK
  AuthsHaveUsers
  TokenNamesAccount
  ConflictsAreReal
PROPERTIES
  KeepsRegistry
