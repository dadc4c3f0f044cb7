SPECIFICATION FairSpec
CONSTANTS
  Runs = {r1, r2}
  Markets = {m1}
  AlertOf <- OneAlert
  Findings <- Varied
  First <- Start
  Commits <- Later
  Study <- Strong
  Minimum <- Least
  MaxBatches = 2
  MaxDeploys = 1
  MaxFaults = 1
  DayOf <- OneDay
CHECK_DEADLOCK FALSE
INVARIANTS  SettledOnce BatchesHold
PROPERTIES FillsSettle
