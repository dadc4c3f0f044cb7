--------------------------- MODULE PositionSizing ---------------------------
(***************************************************************************)
(* sizing/kelly.py, kalshi_client/fees.py and edge/calculator.py: what a   *)
(* bracket costs to buy, whether its edge clears the fee, and how much of  *)
(* the bankroll to stake on it.  Pure functions.                           *)
(*                                                                         *)
(* Prices and probabilities are in whole cents of a one-dollar contract,   *)
(* fractions of the bankroll in 1/10000, money in 1/10000 dollar.  The     *)
(* code's floating-point fractions are rounded down here.                  *)
(***************************************************************************)
EXTENDS Integers, FiniteSets, FiniteSetsExt

Cent   == 100            \* in 1/10000 dollar
Whole  == 10000          \* the whole bankroll; one dollar

SafetyMargin  == 2       \* cents
PositionLimit == 25000   \* dollars

Abs(x) == IF x < 0 THEN -x ELSE x

\* taker_fee: 7% * price * (1 - price) a contract, to the nearest 1/10000.
TakerFee(price, contracts) ==
  (7 * price * (100 - price) * contracts + 50) \div 100

\* compute_edge: the side an edge is on, and whether it clears the fee on one
\* contract and a margin.
Edge(probability, price) == probability - price
EdgeSide(edge) ==
  IF edge > 0 THEN "YES" ELSE IF edge < 0 THEN "NO" ELSE "FLAT"
Actionable(probability, price) ==
  Abs(Edge(probability, price)) * Cent > TakerFee(price, 1) + SafetyMargin * Cent

\* bracket_sum_deviation of an event's prices, a function of its brackets.
BracketSumDeviation(prices) ==
  MapThenSumSet(LAMBDA b : prices[b], DOMAIN prices) - 100

\* The price of the side a bracket is bought on.
SidePrice(price, side) == IF side = "YES" THEN price ELSE 100 - price

\* single_bracket_kelly: edge over the price of the other side.
SingleBracketKelly(probability, price, side) ==
  LET edge == IF side = "YES" THEN probability - price ELSE price - probability
      left == 100 - SidePrice(price, side)
  IN IF side = "FLAT" \/ left <= 0 \/ edge <= 0 THEN 0
     ELSE (edge * Whole) \div left

\* size_event: the stake on each bracket of one event, a fraction of full
\* Kelly, scaled down together where they exceed the event's cap.  brackets is
\* a function to [probability, price, side, actionable].
ScaledKelly(b, kellyPercent) ==
  IF b.actionable
  THEN (SingleBracketKelly(b.probability, b.price, b.side) * kellyPercent) \div 100
  ELSE 0

SizeEvent(brackets, kellyPercent, eventCap) ==
  LET scaled == [m \in DOMAIN brackets |-> ScaledKelly(brackets[m], kellyPercent)]
      total  == MapThenSumSet(LAMBDA m : scaled[m], DOMAIN brackets)
  IN [m \in DOMAIN brackets |->
        IF total <= eventCap THEN scaled[m]
        ELSE (scaled[m] * eventCap) \div total]

\* A fraction of an amount of money.
Share(fraction, money) == (fraction * (money \div Cent)) \div 100

\* recommended_dollars, up to the exchange's limit on a position.
RecommendedMoney(fraction, bankroll) ==
  Min({Share(fraction, bankroll), PositionLimit * Whole})
=============================================================================
