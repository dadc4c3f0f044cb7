SPECIFICATION RecordsSpec
CONSTANTS
  Ladder <- DayLadder
  Temperatures <- DayTemperatures
  Forecasts <- DayForecasts
  MaxReadings = 3
  Results <- PnLs
  StartBankroll = 50
  LossPercent = 20
  LossLimits = {1, 2}
  MaxOpen = 2
  MaxTrades = 4
  MaxDate = 3
  EventLadder <- SmallLadder
  ModelOdds <- ModelTable
  MarketOdds <- MarketTable
  MaxDates = 7
INVARIANTS LocksHold  ActivationsExact ResearchHonest
CHECK_DEADLOCK FALSE
