SPECIFICATION FairSystemSpec
CONSTANTS
  None = None
  Requests = {r1, r2}
  Calls <- SystemCalls
  Codes = {c1}
  Passwords = {p1}
  Emails = {e1}
  Mobiles = {m1}
  Hour = 1
  MaxTime = 0
  Jobs <- SomeJobs
  MaxFailures = 1
INVARIANTS
  JobsTellStoredCodes
PROPERTIES
  RequestsEnd
