--------------------------- MODULE EvidenceRules ---------------------------
(***************************************************************************)
(* trading_readiness: what a frozen research candidate decides on a book,  *)
(* the paper fill it is credited with, and how the fill settles            *)
(* (collector.py, execution.py, metrics.py, stream.py).  Pure functions.   *)
(*                                                                         *)
(* Prices, probabilities and money are in 1/10000; quantities in half      *)
(* contracts, so that a level may hold less than one.  A book is           *)
(* [YES |-> levels, NO |-> levels].                                        *)
(***************************************************************************)
EXTENDS MarketBook

Half             == 2             \* units in a contract
IntendedQuantity == 1 * Half
SignalThreshold  == 500

\* The model's weight, in percent, of the two predeclared candidates.
ModelWeight == [blend50 |-> 50, blend25 |-> 25]
Candidates  == DOMAIN ModelWeight

\* blend_probability
Blend(model, market, weight) == (weight * model + (100 - weight) * market) \div 100

\* taker_fee for a quantity, to the nearest 1/10000.
FeeOn(price, quantity) ==
  (7 * price * (Dollar - price) * quantity + 500000 * Half) \div (1000000 * Half)

\* The midpoint of the best bid and ask; None when one is missing.
MarketProbability(book) ==
  IF \E s \in Sides : book[s] = {} THEN None
  ELSE (BestBid(book["YES"]) + BestAsk(book["NO"])) \div 2

\* OrderbookState.diagnostics, in the order they are looked at.
CrossedOrImpossible(book) ==
  \/ \E s \in Sides : \E l \in book[s] : l.price \notin 0..Dollar \/ l.quantity <= 0
  \/ /\ \A s \in Sides : book[s] # {}
     /\ BestBid(book["YES"]) + BestBid(book["NO"]) > Dollar
Diagnosis(book, stale) ==
  CASE stale -> "STALE"
    [] ~stale /\ CrossedOrImpossible(book) -> "CROSSED_OR_IMPOSSIBLE"
    [] OTHER -> "NONE"

---------------------------------------------------------------------------
(* _decision                                                               *)

\* Faulty: all the depth counts, whatever its price.
RejectionByAnyDepth(opposing, best, limit, diagnosis) ==
  IF diagnosis # "NONE" THEN diagnosis
  ELSE IF best > limit THEN "PRICE_ABOVE_MAXIMUM"
  ELSE IF DepthThrough(opposing, Dollar) < IntendedQuantity
  THEN "INSUFFICIENT_VISIBLE_DEPTH"
  ELSE "NONE"

\* Why a decision is rejected, or "NONE".
Rejection(opposing, best, limit, diagnosis) ==
  IF diagnosis # "NONE" THEN diagnosis
  ELSE IF best > limit THEN "PRICE_ABOVE_MAXIMUM"
  ELSE IF DepthThrough(opposing, limit) < IntendedQuantity
  THEN "INSUFFICIENT_VISIBLE_DEPTH"
  ELSE "NONE"

\* The side the blended probability favours, what the side is worth, and the
\* most that may be paid for it.  A book with only one ladder has no market
\* probability, so that neither NO_EXECUTABLE_DEPTH nor the diagnosis of
\* missing levels is ever recorded.
Decide(model, weight, book, stale) ==
  LET market   == MarketProbability(book)
      final    == Blend(model, market, weight)
      side     == IF final >= market THEN "YES" ELSE "NO"
      opposing == book[Opposite(side)]
      worth    == IF side = "YES" THEN final ELSE Dollar - final
      best     == Min({l.price : l \in AsksFor(opposing)})
      limit    == worth - SignalThreshold - FeeOn(best, Half)
  IN  IF market = None
      THEN [side |-> "NONE", worth |-> None, limit |-> None,
            rejection |-> "MISSING_OPPOSING_LEVELS"]
      ELSE [side |-> side, worth |-> worth, limit |-> limit,
            rejection |-> Rejection(opposing, best, limit, Diagnosis(book, stale))]

---------------------------------------------------------------------------
(* conservative_fill                                                       *)

\* The levels an immediate order may consume.
Takeable(asks, limit) == {l \in asks : l.price <= limit /\ l.quantity > 0}

Better(asks, level) == {l \in asks : l.price < level.price}
QuantityOf(levels)  == MapThenSumSet(LAMBDA l : l.quantity, levels)

\* How much of a level is consumed when better ones go first.
Taken(asks, level, requested) ==
  Max({0, Min({level.quantity, requested - QuantityOf(Better(asks, level))})})

NoFill(reason) ==
  [type |-> "NO_FILL", filled |-> 0, price |-> None, fee |-> 0, reason |-> reason]

\* The price is the average over the levels, to the nearest 1/10000.
Fill(asks, requested) ==
  LET filled   == MapThenSumSet(LAMBDA l : Taken(asks, l, requested), asks)
      notional == MapThenSumSet(LAMBDA l : l.price * Taken(asks, l, requested), asks)
      price    == (2 * notional + filled) \div (2 * filled)
  IN [type   |-> IF filled = requested THEN "FILLED" ELSE "PARTIAL_FILL",
      filled |-> filled, price |-> price, fee |-> FeeOn(price, filled),
      reason |-> "VISIBLE_DEPTH_CONSUMED_CONSERVATIVELY"]

ConservativeFill(asks, limit, requested, fresh, active) ==
  IF ~fresh THEN NoFill("STALE_ORDERBOOK")
  ELSE IF ~active THEN NoFill("MARKET_NOT_ACTIVE")
  ELSE IF Takeable(asks, limit) = {} THEN NoFill("NO_EXECUTABLE_DEPTH_AT_LIMIT")
  ELSE Fill(Takeable(asks, limit), requested)

\* _paper_event: what is recorded for a decision.
PaperEvent(decision, stale, active) ==
  IF decision.rejection # "NONE"
  THEN [NoFill(decision.rejection) EXCEPT !.type = "INELIGIBLE"]
  ELSE ConservativeFill(AsksFor(decision.book[Opposite(decision.side)]),
                        decision.limit, IntendedQuantity, ~stale, active)

---------------------------------------------------------------------------
(* settle_paper_results                                                    *)

\* What a finalized market pays for a fill.
SettledFill(side, fill, result) ==
  LET won  == side = result
      paid == (fill.filled * fill.price) \div Half
  IN [type |-> IF won THEN "SETTLED_WIN" ELSE "SETTLED_LOSS",
      pnl  |-> (IF won THEN (fill.filled * Dollar) \div Half ELSE 0)
                 - paid - fill.fee]
=============================================================================
