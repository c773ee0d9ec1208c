SPECIFICATION FairSpec
CONSTANTS
  None = None
  NaN = NaN
  Names = {1, 2}
  Times = {1, 2, 3}
  Queries <- SomeQueries
  ItemsPerPage = 2
  MaxDocs = 3
  MaxPage = 3
INVARIANTS
  TypeOK
  SortedAsAsked
  WalkMissesNothing
PROPERTIES
  WalkRepeatsNothing
  WalkEnds
