SPECIFICATION FairWorkerSpec
CONSTANTS
  None = None
  Jobs <- SomeJobs
  MaxFailures = 2
  Uploads <- SomeUploads
  Extensions = {"png"}
  MaxTime = 1
INVARIANTS
  UploadTypeOK
  MediaServesItsFile
PROPERTIES
  UploadsSettle
  JobsSettle
CHECK_DEADLOCK FALSE
