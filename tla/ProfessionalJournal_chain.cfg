SPECIFICATION Spec
CONSTANTS
  r1 = r1
  r2 = r2
  Runs = {r1, r2}
  Extremes = {700}
  Window = 3
  MaxRows = 3
  MaxTurns = 2
SYMMETRY Interchangeable
INVARIANTS JournalClosed LinearChain OnePosition ReentryNeedsEvent ReviewedOnce
CHECK_DEADLOCK FALSE
