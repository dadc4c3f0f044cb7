SPECIFICATION Spec
CONSTANTS
  Workers = {w1, w2}
  Markets = {1, 2}
  EventOf <- OneEach
  DateOf <- OneDay
  Prices = {40, 75}
  Probability <- Beliefs
  KellyPercent = 60
  EventCap = 1500
  DayCap = 2500
  Reserve = 1000
  TakeProfit = 50
  MaxCrashes = 1
  MaxNews = 1
SYMMETRY Interchangeable
CHECK_DEADLOCK FALSE
INVARIANTS Booked
PROPERTIES NoReentry RecordKept OpeningWithinMeans CyclesSettle
