------------------------------ MODULE Breakers ------------------------------
(***************************************************************************)
(* risk/circuit_breakers.py and risk/circuit_breaker_report.py: when the   *)
(* loss limits of real-money trading trip, and the report that replays     *)
(* them over a trade history.  Pure functions.                             *)
(*                                                                         *)
(* A trade is [id, status, date, at, pnl]; at orders the closing times and *)
(* is unique.  Money is in whole units, a fraction of it in percent, and   *)
(* what an activation row only displays (names, thresholds, the bankroll)  *)
(* is left out.                                                            *)
(***************************************************************************)
EXTENDS Integers, Sequences, SequencesExt, FiniteSetsExt

IsLoss(t) == t.status = "closed" /\ t.pnl < 0

PnL(trades) == MapThenSumSet(LAMBDA i : trades[i].pnl, DOMAIN trades)

---------------------------------------------------------------------------
(* The predicates                                                          *)

\* daily_loss_breached: the day lost the given share of the bankroll; with
\* nothing left the percentage cannot say.
DailyLossBreached(today, bankroll, percent) ==
  /\ today # <<>>
  /\ bankroll > 0
  /\ 100 * PnL(today) <= -percent * bankroll

\* consecutive_loss_breached: the most recent trades, as many as the limit,
\* are all closed losses.
ConsecutiveLossBreached(trades, limit) ==
  /\ limit > 0
  /\ Len(trades) >= limit
  /\ \A i \in (Len(trades) - limit + 1)..Len(trades) : IsLoss(trades[i])

\* solvency_breached
SolvencyBreached(cash, bankroll) == cash <= 0 \/ bankroll <= 0

\* circuit_breaker_verdict, as a caller asks it who knows the account's
\* cash: the first breaker that trips, or "none".
Verdict(today, trades, bankroll, percent, limit, cash) ==
  IF SolvencyBreached(cash, bankroll) THEN "solvency_breached"
  ELSE IF DailyLossBreached(today, bankroll, percent) THEN "daily_loss_breached"
  ELSE IF ConsecutiveLossBreached(trades, limit) THEN "consecutive_loss_breached"
  ELSE "none"

---------------------------------------------------------------------------
(* The report over a history                                               *)

\* The closed trades in the order of their closing, as the report sorts them
\* and fetch_paper_trades selects them.
Closed(trades) ==
  LET done == {t \in Range(trades) : t.status = "closed"}
      Rank(t) == Cardinality({u \in done : u.at <= t.at})
  IN  [k \in 1..Cardinality(done) |-> CHOOSE t \in done : Rank(t) = k]

\* Faulty: a win does not arm the breaker again.
StreakStepNeverRearmed(s, t, limit) ==
  LET seen    == Append(s.seen, t)
      fires   == ConsecutiveLossBreached(seen, limit) /\ ~s.activated
  IN  [seen      |-> seen,
       streak    |-> IF t.pnl < 0 THEN s.streak + 1 ELSE 0,
       activated |-> s.activated \/ fires,
       rows      |-> IF fires
                     THEN Append(s.rows, [type |-> "consecutive_loss",
                                          date |-> t.date, at |-> t.at,
                                          trade |-> t.id,
                                          losses |-> s.streak + 1,
                                          blocks |-> TRUE])
                     ELSE s.rows]

\* One trade of the consecutive-loss pass: the streak is only displayed, and
\* an unbroken streak activates once.
StreakStep(s, t, limit) ==
  LET streak == IF t.pnl < 0 THEN s.streak + 1 ELSE 0
      armed  == t.pnl >= 0 \/ ~s.activated
      seen   == Append(s.seen, t)
      fires  == ConsecutiveLossBreached(seen, limit) /\ armed
  IN  [seen      |-> seen,
       streak    |-> streak,
       activated |-> fires \/ ~armed,
       rows      |-> IF fires
                     THEN Append(s.rows, [type |-> "consecutive_loss",
                                          date |-> t.date, at |-> t.at,
                                          trade |-> t.id, losses |-> streak,
                                          blocks |-> TRUE])
                     ELSE s.rows]

StreakPass(closed, limit) ==
  FoldLeft(LAMBDA s, t : StreakStep(s, t, limit),
           [seen |-> <<>>, streak |-> 0, activated |-> FALSE, rows |-> <<>>],
           closed).rows

\* _check_day: the row of a day, judged with the bankroll it ended with.
DayRow(s, percent) ==
  IF DailyLossBreached(s.today, s.bankroll, percent)
  THEN <<[type |-> "daily_loss", date |-> s.date, at |-> Last(s.today).at,
          trade |-> 0, losses |-> 0, blocks |-> TRUE]>>
  ELSE <<>>

\* One trade of the daily pass: a new date settles the account of the last.
DayStep(s, t, percent) ==
  LET rolled == IF t.date # s.date
                THEN [s EXCEPT !.rows = @ \o DayRow(s, percent),
                               !.date = t.date, !.today = <<>>]
                ELSE s
  IN  [rolled EXCEPT !.bankroll = @ + t.pnl, !.today = Append(@, t)]

\* No date: before the first trade.
DailyPass(closed, percent, start) ==
  LET last == FoldLeft(LAMBDA s, t : DayStep(s, t, percent),
                       [date |-> 0, today |-> <<>>, bankroll |-> start,
                        rows |-> <<>>], closed)
  IN  last.rows \o DayRow(last, percent)

\* Rows in the order of their moments; rows of one moment keep theirs.
Sorted(rows) ==
  LET Rank(i) == Cardinality({j \in DOMAIN rows :
                   rows[j].at < rows[i].at \/ (rows[j].at = rows[i].at /\ j <= i)})
  IN  [k \in DOMAIN rows |-> rows[CHOOSE i \in DOMAIN rows : Rank(i) = k]]

\* build_activation_report: both passes, the streaks' rows first.
BuildActivationReport(trades, percent, limit, start) ==
  LET closed == Closed(trades)
  IN  Sorted(StreakPass(closed, limit) \o DailyPass(closed, percent, start))

\* dedupe_activations: the first row of each date and type.
Deduped(rows) ==
  FoldLeft(LAMBDA kept, row :
             IF \E i \in 1..Len(kept) : /\ kept[i].date = row.date
                                        /\ kept[i].type = row.type
             THEN kept ELSE Append(kept, row), <<>>, rows)

\* summarize_activations
OfType(rows, type) == Cardinality({i \in DOMAIN rows : rows[i].type = type})
Summary(rows) ==
  [days        |-> Cardinality({row.date : row \in Range(rows)}),
   daily       |-> OfType(rows, "daily_loss"),
   consecutive |-> OfType(rows, "consecutive_loss"),
   halts       |-> Cardinality({row.date : row \in {r \in Range(rows) : r.blocks}})]
=============================================================================
