SPECIFICATION FairSpec
CONSTANTS
  Timeouts = {t1, t2}
  Idlers = {s1}
  Durations <- MCDurations
  MaxStep = 2
INVARIANTS
  ListsSound
  NeverOverdue
PROPERTIES
  TimeoutsFire
  ExpirationEnds
CHECK_DEADLOCK FALSE
