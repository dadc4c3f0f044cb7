----------------------------- MODULE MarketBook -----------------------------
(***************************************************************************)
(* kalshi_client/models.py, MarketOrderbook: a market's order book.  The   *)
(* exchange lists only bids, one ladder for each outcome; an ask of one    *)
(* outcome is a bid of the other.  A side is a set of levels [price,       *)
(* quantity], no two of one price; prices are in 1/10000 dollar.           *)
(***************************************************************************)
EXTENDS FixedLimits, FiniteSets, FiniteSetsExt

\* A missing value.
None  == -1
Sides == {"YES", "NO"}

Opposite(side) == IF side = "YES" THEN "NO" ELSE "YES"

\* A side as the exchange lists it.
BidLadder(levels) ==
  /\ IsFiniteSet(levels)
  /\ \A k, l \in levels : k.price = l.price => k = l

\* best_yes_bid and best_no_bid of a side's levels; best_yes_ask and
\* best_no_ask of the opposing side's.
BestBid(levels) == IF levels = {} THEN None ELSE Max({l.price : l \in levels})
BestAsk(opposing) ==
  IF opposing = {} THEN None ELSE Dollar - BestBid(opposing)

\* asks_for: what can be bought of an outcome, from the opposing side's bids.
AsksFor(opposing) ==
  {[price |-> Dollar - l.price, quantity |-> l.quantity] : l \in opposing}

\* How much of it there is up to a limit price.
DepthThrough(opposing, limit) ==
  MapThenSumSet(LAMBDA l : l.quantity,
                {l \in AsksFor(opposing) : l.price <= limit})
=============================================================================
