SPECIFICATION FairSpec
CONSTANTS
  Kinds = {"udp", "timer", "process", "signal", "fs_watcher"}
  MaxStarts = 2
  MaxSends = 2
  MaxStrays = 1
INVARIANTS
  NoFaultUnlessMisused
  RefsSound
PROPERTIES
  ClosedIsCollected
CHECK_DEADLOCK FALSE
