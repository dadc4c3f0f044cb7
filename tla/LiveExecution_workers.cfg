SPECIFICATION Spec
CONSTANTS
  c1 = c1
  c2 = c2
  m1 = m1
  Cids = {c1, c2}
  Markets = {m1}
  MarketOf <- OneMarket
  LotCost <- Cost
  Units = 1
  Scopes <- Limits
  Workers = {w1, w2}
  Reconcilers = {r1}
  Killers = {}
  Nobody = Nobody
  NoCid = NoCid
  MaxFaults = 1
  LateDelivery = FALSE
  Overlap = FALSE
INVARIANTS TypeOK  
  
