---------------------------- MODULE TradeHistory ----------------------------
(***************************************************************************)
(* An account's trades as they are opened and closed, with what the loss   *)
(* breakers (Breakers) say at each moment and what the report says after.  *)
(***************************************************************************)
EXTENDS Breakers

CONSTANTS Results,        \* what a trade may gain
          StartBankroll,
          LossPercent,    \* the daily limit
          LossLimits,     \* how many losses in a row may be the limit
          MaxOpen,        \* bound
          MaxTrades,      \* bound
          MaxDate         \* bound

ASSUME AccountAssumption ==
  /\ Results \subseteq Int
  /\ StartBankroll \in Nat \ {0}
  /\ LossPercent \in 1..100
  /\ LossLimits \subseteq Nat \ {0}
  /\ {MaxOpen, MaxTrades, MaxDate} \subseteq Nat

VARIABLES trades,  \* by id, see Breakers
          today
historyVars == <<trades, today>>

HistoryInit == trades = <<>> /\ today = 1

Open == {i \in DOMAIN trades : trades[i].status = "open"}

OpenTrade == /\ Len(trades) < MaxTrades
             /\ Cardinality(Open) < MaxOpen
             /\ trades' = Append(trades, [id |-> Len(trades) + 1, status |-> "open",
                                          date |-> 0, at |-> 0, pnl |-> 0])
             /\ UNCHANGED today

CloseTrade == \E i \in Open, pnl \in Results :
                /\ trades' = [trades EXCEPT
                     ![i] = [@ EXCEPT !.status = "closed", !.date = today, !.pnl = pnl,
                             !.at = Len(trades) - Cardinality(Open) + 1]]
                /\ UNCHANGED today

Midnight == /\ today < MaxDate
            /\ today' = today + 1
            /\ UNCHANGED trades

HistoryNext == OpenTrade \/ CloseTrade \/ Midnight

HistorySpec == HistoryInit /\ [][HistoryNext]_historyVars

---------------------------------------------------------------------------
Bankroll(closed) == StartBankroll + PnL(closed)

\* The trades of one date, of those in the order of their closing, and the
\* trades up to it.
UpTo(closed, d) == SubSeq(closed, 1, Cardinality({i \in DOMAIN closed : closed[i].date <= d}))
OfDate(closed, d) == SubSeq(closed, Len(UpTo(closed, d - 1)) + 1, Len(UpTo(closed, d)))

\* The losses in a row that end with the i-th closed trade.
LossRun(closed, i) ==
  Max({n \in 0..i : \A j \in (i - n + 1)..i : closed[j].pnl < 0})

\* The report has one row for each streak of losses, at the trade that made
\* it as long as the limit, and one for each day that lost more than its
\* share of what the account then held.
RowsExact(closed, rows, limit) ==
  /\ {<<r.trade, r.losses>> : r \in {x \in Range(rows) : x.type = "consecutive_loss"}}
       = {<<closed[i].id, limit>> : i \in {j \in DOMAIN closed : LossRun(closed, j) = limit}}
  /\ {r.date : r \in {x \in Range(rows) : x.type = "daily_loss"}}
       = {d \in 1..today :
            /\ OfDate(closed, d) # <<>>
            /\ Bankroll(UpTo(closed, d)) > 0
            /\ 100 * PnL(OfDate(closed, d)) <= -LossPercent * Bankroll(UpTo(closed, d))}
  /\ \A i, j \in DOMAIN rows : i < j => rows[i].at <= rows[j].at /\ rows[i] # rows[j]

\* Dropping duplicated rows loses no halted day and no kind of halt.
DuplicatesDropped(rows) ==
  LET kept == Deduped(rows \o rows)
  IN  /\ kept = Deduped(rows)
      /\ Summary(kept).halts = Summary(rows).halts
      /\ Summary(kept).daily = Summary(rows).daily
      /\ Summary(kept).consecutive > 0 <=> Summary(rows).consecutive > 0

\* What the breakers say now: an account that may trade has something left,
\* no streak at the limit and no row for today's losses.
VerdictAgrees(closed, rows, limit) ==
  LET cash == Bankroll(closed)
  IN  Verdict(OfDate(closed, today), closed, cash, LossPercent, limit, cash) = "none"
      => /\ cash > 0
         /\ closed # <<>> => LossRun(closed, Len(closed)) < limit
         /\ \A r \in Range(rows) : ~(r.type = "daily_loss" /\ r.date = today)

\* The replay of a history, trade by trade and day by day, finds exactly the
\* halts the limits define, whatever the order trades were opened in.
ActivationsExact ==
  LET closed == Closed(trades)
  IN  \A limit \in LossLimits :
        LET rows == BuildActivationReport(trades, LossPercent, limit, StartBankroll)
        IN  /\ RowsExact(closed, rows, limit)
            /\ DuplicatesDropped(rows)
            /\ VerdictAgrees(closed, rows, limit)
=============================================================================
