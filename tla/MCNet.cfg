SPECIFICATION NetFairSpec
CONSTANTS
  MaxChunks = 3
  MaxRegs = 3
  MaxDepth = 2
  MaxEmits = 3
INVARIANTS
  SocketSound
  ListenersKept
  EachListenerOnce
PROPERTIES
  DestroyedTimerOff
  DrainFollows
  SocketsEnd
  EmissionsEnd
CHECK_DEADLOCK FALSE
