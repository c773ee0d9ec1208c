SPECIFICATION Spec
CONSTANTS
  None = None
  Requests = {r1, r2}
  Calls <- SomeCalls
  Configs <- SomeConfigs
  Keys = {k1}
  Values = {v1, v2}
  MaxDocs = 2
CONSTRAINT WhatIsRead
SYMMETRY Symmetry
INVARIANTS
  TypeOK
  AnswersWereTrue
PROPERTIES
  SoftDeletedStays
  KeepsResource
