SPECIFICATION FairSpec
CONSTANTS
  c1 = c1
  c2 = c2
  m1 = m1
  Cids = {c1}
  Markets = {m1}
  MarketOf <- OneMarket
  LotCost <- Cost
  Units = 2
  Scopes <- Limits
  Workers = {w1}
  Reconcilers = {}
  Killers = {k1}
  Nobody = Nobody
  NoCid = NoCid
  MaxFaults = 1
  LateDelivery = TRUE
  Overlap = FALSE
INVARIANTS ClosedIsClosed 
PROPERTIES KilledDrains AmbiguityResolved StrayFound
