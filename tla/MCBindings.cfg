SPECIFICATION FairSpec
CONSTANTS
  Files = {"a", "b"}
  Lines = {1}
  MaxPoints = 3
  MaxConsoles = 3
  MaxCommands = 5
  MaxResults = 2
  LUAL_BUFFERSIZE = 2
  MaxInput = 3
  MaxStream = 4
  MaxGain = 3
  MaxWrites = 3
  Names = {"a", "b", "c"}
  Values = {"u", "v"}
  MaxEntries = 3
  MaxCalls = 4
INVARIANTS
  BreakpointsSound
  ConsolesBalanced
  StreamSound
  EnvironSound
PROPERTIES
  WritesEnd
CHECK_DEADLOCK FALSE
