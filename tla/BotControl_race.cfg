SPECIFICATION Spec
CONSTANTS
  Requests = {r1, r2}
  ReadFaults = TRUE
  MaxEvents = 3
SYMMETRY Symmetry
INVARIANTS TypeOK NeverKilledAndTrading
PROPERTIES  LiveOnlyFromLive
