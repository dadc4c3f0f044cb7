SPECIFICATION Spec
CONSTANTS
  Runs = {r1}
  Markets = {m1, m2}
  AlertOf <- TwoAlerts
  Findings <- Sound
  First <- Tracked
  Commits = {}
  Study <- Strong
  Minimum <- Least
  MaxBatches = 2
  MaxDeploys = 0
  MaxFaults = 0
  DayOf <- OneADay
CHECK_DEADLOCK FALSE
INVARIANTS CleanEvidencePasses
