SPECIFICATION RegistrySpec
CONSTANTS
  Ops = {"read", "write"}
  Reqs = {r1, r2}
  Parsers = {p1, p2}
  Gens = {g1}
  Conns = {c1}
  MaxSlots = 3
  MaxNested = 2
SYMMETRY Symmetry
INVARIANTS
  CallbacksSound
  FreeSlotsSound
CHECK_DEADLOCK FALSE
