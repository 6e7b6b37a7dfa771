SPECIFICATION Spec
CONSTANTS
  Timeouts = {t1, t2}
  Idlers = {s1}
  Lists = {l1, l2, l3}
  Durations <- MCDurations
  MaxStep = 2
SYMMETRY MCSymmetry
INVARIANTS
  LinksSound
PROPERTIES
  ImplementsTimers
CHECK_DEADLOCK FALSE
