---------------------------- MODULE LiveOrders ----------------------------
(***************************************************************************)
(* The rows of the table live_orders, what one reconciliation does to a    *)
(* row, and the worst-case dollars a row stands for.  Everything here is a *)
(* function of one row and one answer of the exchange; who applies it and  *)
(* when is LiveExecution.                                                  *)
(*                                                                         *)
(* A count is a whole number of lots (Units lots make the one contract an  *)
(* order asks for; the exchange fills fractions of a contract), and a      *)
(* price is the cost of one lot with its estimated fee.                    *)
(***************************************************************************)
EXTENDS Integers, FiniteSets, FiniteSetsExt

CONSTANTS
  Cids,        \* client order ids: one per decision, market and price
  Markets,
  MarketOf,    \* the market each order trades
  LotCost,     \* what one lot of an order commits, estimated fee included
  Units,       \* lots requested by an order
  Scopes       \* the exposure limits: the orders of a market, of an event
               \* and date, or of the account, and the most they may commit

ASSUME MarketOfAssumption == MarketOf \in [Cids -> Markets]
ASSUME LotCostAssumption  == LotCost \in [Cids -> Nat]
ASSUME UnitsAssumption    == Units \in Nat \ {0}
ASSUME ScopesAssumption   == Scopes \subseteq [orders : SUBSET Cids, max : Nat]
ASSUME FiniteAssumption   == \A scope \in Scopes : IsFiniteSet(scope.orders)

Lots == 0..Units

\* "NONE" stands for the absence of a row.
Statuses == {"NONE", "PENDING", "SUBMITTING", "UNKNOWN", "RESTING", "PARTIAL",
             "FILLED", "CANCELED", "REJECTED", "SETTLED"}

Row == [status : Statuses, kid : BOOLEAN, filled : Lots, remaining : Lots]

NoRow     == [status |-> "NONE", kid |-> FALSE, filled |-> 0, remaining |-> 0]
NewIntent == [status |-> "PENDING", kid |-> FALSE,
              filled |-> 0, remaining |-> Units]

\* An order as the exchange lists it; "none" when it has never arrived.
Remote   == [status : {"none", "resting", "executed", "canceled"}, filled : Lots]
NoRemote == [status |-> "none", filled |-> 0]

\* Faulty: rows a reconciliation would forget, or reopen.
ReconcilableNotInFlight(row) ==
  row.status \notin {"NONE", "REJECTED", "SETTLED", "SUBMITTING"}
ReconcilableNotPending(row) ==
  row.status \notin {"NONE", "REJECTED", "SETTLED", "PENDING"}
ReconcilableSettled(row) == row.status \notin {"NONE", "REJECTED"}

\* Rows a reconciliation reads, and rows cancel_bot_orders may cancel.
Reconcilable(row) == row.status \notin {"NONE", "REJECTED", "SETTLED"}
Cancelable(row)   == row.status \in {"RESTING", "PARTIAL"} /\ row.kid

\* Statuses risk_state counts.
Counted == {"SUBMITTING", "UNKNOWN", "RESTING", "PARTIAL", "FILLED", "CANCELED"}

WithStatus(row, s) == [row EXCEPT !.status = s]

\* settle_order, whatever the row has become since it was read.
SettledRow(row) == WithStatus(row, "SETTLED")

\* update_mark_to_market: the status of the row held is written back with the
\* new figure.
MarkedRow(row, held) == WithStatus(row, held.status)

\* The status an exchange order gives its row.
StatusOf(rem) ==
  CASE rem.status = "resting" -> IF rem.filled > 0 THEN "PARTIAL" ELSE "RESTING"
    [] rem.status = "executed" -> "FILLED"
    [] rem.status = "canceled" -> "CANCELED"

\* apply_remote_order: the listed order overwrites the row.
ApplyRemote(row, rem) ==
  [status |-> StatusOf(rem), kid |-> TRUE, filled |-> rem.filled,
   remaining |-> IF rem.status = "resting" THEN Units - rem.filled ELSE 0]

\* Rows that must be listed: their absence is a mismatch.
MissingRemote(row) == row.status \in {"RESTING", "PARTIAL", "FILLED"}

\* refresh_fill_totals: the status of a row whose fills persisted in
\* live_order_fills sum up to `total` ...
RefreshedStatus(row, total) ==
  CASE total >= Units -> "FILLED"
    [] total < Units /\ row.status \in {"RESTING", "PARTIAL"} -> "PARTIAL"
    [] OTHER -> row.status

\* Faulty: the lots persisted are added to those the row has.
AddFills(row, total) ==
  IF total = 0 THEN row
  ELSE [status |-> RefreshedStatus(row, total), kid |-> row.kid,
        filled |-> row.filled + total, remaining |-> 0]

\* ... what the held row becomes, and the columns written to the table.
RefreshFills(row, total) ==
  LET status == RefreshedStatus(row, total) IN
  IF total = 0 THEN row
  ELSE [status |-> status, kid |-> row.kid, filled |-> total,
        remaining |-> IF status \in {"FILLED", "CANCELED"}
                      THEN 0 ELSE Units - total]

WithFills(row, fresh) ==
  [row EXCEPT !.status = fresh.status, !.filled = fresh.filled,
              !.remaining = fresh.remaining]

\* The acknowledgement of create_order with f lots filled at once.
Acknowledged(f) ==
  [status |-> IF f = Units THEN "FILLED" ELSE IF f > 0 THEN "PARTIAL"
              ELSE "RESTING",
   kid |-> TRUE, filled |-> f, remaining |-> Units - f]

\* The acknowledgement of cancel_order; what was filled meanwhile is not read.
CanceledRow(row) == [row EXCEPT !.status = "CANCELED", !.remaining = 0]

MaxOf(a, b) == IF a > b THEN a ELSE b

\* Faulty: what rests is not at risk before it is filled.
LotsFilled(row) == IF row.status \in Counted THEN row.filled ELSE 0

\* _order_exposure, in lots.
LotsAtRisk(row) ==
  CASE row.status \in {"SUBMITTING", "UNKNOWN"} ->
         MaxOf(Units, row.filled + row.remaining)
    [] row.status \in {"RESTING", "PARTIAL"} -> row.filled + row.remaining
    [] row.status \in {"FILLED", "CANCELED"} -> row.filled
    [] OTHER -> 0

\* risk_state: the exposure of the rows of a scope.
Exposure(table, scope) ==
  MapThenSumSet(LAMBDA c : LotCost[c] * LotsAtRisk(table[c]), scope.orders)

\* validate_fixed_limits: order c may be added in each of its scopes
\* (MAX_MARKET_EXPOSURE, MAX_EVENT_DATE_EXPOSURE, MAX_TOTAL_EXPOSURE).
WithinLimits(table, c) ==
  \A scope \in Scopes :
    c \in scope.orders =>
      Exposure(table, scope) + LotCost[c] * Units <= scope.max

\* What the account has really committed to an order: resting lots can still
\* fill, filled lots are held until the market settles.
LotsCommitted(rem) ==
  CASE rem.status = "resting" -> Units
    [] rem.status \in {"executed", "canceled"} -> rem.filled
    [] OTHER -> 0

Committed(exchange, orders) ==
  MapThenSumSet(LAMBDA c : LotCost[c] * LotsCommitted(exchange[c]), orders)
=============================================================================
