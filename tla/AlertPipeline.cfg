SPECIFICATION FairSpec
CONSTANTS
  Markets = {m1}
  EventDay <- Today
  MaxVersion = 1
  MaxInserts = 3
  MaxFaults = 1
CHECK_DEADLOCK FALSE
INVARIANTS SettledAlike NotifiedOnce
PROPERTIES  EverySettles
