SPECIFICATION FairSpec
CONSTANTS
  MaxWrites = 2
  MaxReads = 2
  MaxRefs = 5
INVARIANTS
  NoFaultUnlessMisused
  RefsCoverOutstanding
  AnchoredWhileActive
PROPERTIES
  CloseCompletes
CHECK_DEADLOCK FALSE
