SPECIFICATION FairQueueSpec
CONSTANTS
  Jobs <- SomeJobs
  MaxFailures = 2
INVARIANTS
  QueueTypeOK
  DoneEmailsWereSent
PROPERTIES
  KeepsDelivery
  JobsSettle
CHECK_DEADLOCK FALSE
