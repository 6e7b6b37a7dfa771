SPECIFICATION FairSpec
CONSTANTS
  MaxRequests = 2
  MaxWrites = 1
  MaxHeaders = 1
INVARIANTS
  WellFramed
  RequestsSound
PROPERTIES
  LastResponseCloses
CHECK_DEADLOCK FALSE
