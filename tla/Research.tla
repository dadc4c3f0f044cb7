------------------------------ MODULE Research ------------------------------
(***************************************************************************)
(* How past markets become rows, and how rows are split, fitted and scored *)
(* without looking ahead: backtest/harness.py, strategy_research/          *)
(* investigation.py and trading_readiness/metrics.py.  Pure functions.     *)
(*                                                                         *)
(* A market of the archive is [date, index, suffix, b, result]; index      *)
(* orders an event's tickers.  A research row adds the alert's decision:   *)
(* [date, index, b, city, decided, quoted, captured, settled, winner,      *)
(* model, market, observed], probabilities in percent, observed a set of   *)
(* at most one reading.  Rows are sets: a ticker occurs once.              *)
(***************************************************************************)
EXTENDS Brackets, SequencesExt

\* Python's round of a quotient: a half goes to the even neighbour.
RoundedRatio(num, den) ==
  LET below == num \div den
      twice == 2 * (num % den)
  IN  IF twice > den \/ (twice = den /\ below % 2 = 1) THEN below + 1 ELSE below

\* The numbers of a set in rising order.
Ascending(S) ==
  LET Rank(x) == Cardinality({y \in S : y <= x})
  IN  [i \in 1..Cardinality(S) |-> CHOOSE x \in S : Rank(x) = i]

Dates(rows) == Ascending({row.date : row \in rows})
OnDates(rows, D) == {row \in rows : row.date \in D}
DatesFrom(dates, first, last) == {dates[i] : i \in first..last}

---------------------------------------------------------------------------
(* Rows from the exchange's archive                                        *)

\* The pages of the historical tier, newest first, until the start date is
\* covered, the last page is read or 20 pages are.
HistoricalMarkets(history, start, size) ==
  LET Page(p)  == {history[i] : i \in ((p - 1) * size + 1)..Smaller(p * size, Len(history))}
      Stops(p) == \/ p * size >= Len(history)
                  \/ p = 20
                  \/ \E m \in Page(p) : m.date <= start
      read     == Min({p \in 1..20 : Stops(p)})
  IN  UNION {Page(p) : p \in 1..read}

\* collect_rows: the live tier and the historical one; an event needs two
\* forecasts, a market a result.  approx is twice the middle of a bounded
\* winner, in a set of at most one.
CollectRows(live, history, forecasts, start, end, size) ==
  LET settled   == live \cup HistoricalMarkets(history, start, size)
      Event(d)  == {m \in settled : m.date = d}
      Whole(d)  == {[m EXCEPT !.b = Repaired(m, Event(d))] : m \in Event(d)}
      Actual(d) == {m.b.floor + m.b.cap :
                      m \in {w \in Whole(d) : w.result = "yes" /\ w.b.kind = "between"}}
      dates     == {d \in {m.date : m \in settled} :
                      d \in start..end /\ Cardinality(DOMAIN forecasts[d]) >= 2}
  IN  UNION {{[date |-> d, index |-> m.index, b |-> m.b, outcome |-> m.result = "yes",
               approx |-> Actual(d), forecasts |-> forecasts[d]] :
                m \in {w \in Whole(d) : w.result \in {"yes", "no"}}} : d \in dates}

\* collect_dated_residuals: one per day with a usable temperature, the
\* forecast being the models' mean; here as twice the models' number times
\* the residual.
DatedResiduals(rows) ==
  {LET n == Cardinality(DOMAIN row.forecasts)
       sum == MapThenSumSet(LAMBDA k : row.forecasts[k], DOMAIN row.forecasts)
   IN  [date |-> row.date, residual |-> n * Max(row.approx) - 2 * sum] :
     row \in {r \in rows : r.approx # {}}}

---------------------------------------------------------------------------
(* Splits                                                                  *)

\* split_by_date
SplitByDate(rows, percent) ==
  LET dates == Dates(rows)
      fit   == DatesFrom(dates, 1, RoundedRatio(percent * Len(dates), 100))
  IN  [fit |-> OnDates(rows, fit), eval |-> {row \in rows : row.date \notin fit}]

\* Faulty: equal slices, the remainder of the division left over.
RollingSplitsEqual(rows, folds, percent) ==
  LET dates     == Dates(rows)
      initial   == RoundedRatio(percent * Len(dates), 100)
      remaining == Len(dates) - initial
      Bound(i)  == initial + i * (remaining \div folds)
  IN  IF remaining < folds THEN <<>>
      ELSE [i \in 1..folds |->
              [fit  |-> OnDates(rows, DatesFrom(dates, 1, Bound(i - 1))),
               eval |-> OnDates(rows, DatesFrom(dates, Bound(i - 1) + 1, Bound(i)))]]

\* rolling_splits: expanding windows; no folds when the dates left after
\* the initial window are too few (the code raises).
RollingSplits(rows, folds, percent) ==
  LET dates     == Dates(rows)
      initial   == RoundedRatio(percent * Len(dates), 100)
      remaining == Len(dates) - initial
      Bound(i)  == initial + RoundedRatio(remaining * i, folds)
  IN  IF remaining < folds THEN <<>>
      ELSE [i \in 1..folds |->
              [fit  |-> OnDates(rows, DatesFrom(dates, 1, Bound(i - 1))),
               eval |-> OnDates(rows, DatesFrom(dates, Bound(i - 1) + 1, Bound(i)))]]

\* The newest dates are held out, at least one.
HeldOutCount(dates, percent) == Greater(1, RoundedRatio(percent * Len(dates), 100))
HeldOut(dates, percent) ==
  DatesFrom(dates, Len(dates) - HeldOutCount(dates, percent) + 1, Len(dates))

\* chronological_partitions, from three dates on.
Partitions(rows, percent) ==
  LET dates == Dates(rows)
      held  == HeldOut(dates, percent)
      before == SubSeq(dates, 1, Len(dates) - HeldOutCount(dates, percent))
  IN  [preholdout |-> OnDates(rows, Range(before)),
       holdout    |-> OnDates(rows, held),
       folds      |-> [i \in 1..(Len(before) - 1) |->
                         [fit  |-> OnDates(rows, DatesFrom(before, 1, i)),
                          eval |-> OnDates(rows, {before[i + 1]})]]]

\* run_investigation: candidates are compared on the newest 30% of the dates
\* before the holdout and confirmed on the holdout.
InvestigationSplit(rows) ==
  LET p == Partitions(rows, 20)
      validation == HeldOut(Dates(p.preholdout), 30)
  IN  [fit        |-> {row \in p.preholdout : row.date \notin validation},
       validation |-> OnDates(p.preholdout, validation),
       train      |-> p.preholdout,
       holdout    |-> p.holdout]

\* validate_no_lookahead: the rows decided with data from later, or after
\* their settlement.
LookaheadViolations(rows) ==
  {row \in rows : \/ row.quoted > row.decided
                  \/ row.captured > row.decided
                  \/ row.settled <= row.decided}

\* fetch_rows: the first alert of each market that has settled, of the
\* current model version.
FetchRows(alerts, version) ==
  LET settled == {a \in alerts : a.settled # 0 /\ a.version = version}
      first   == {a \in settled : \A o \in settled :
                    (o.date = a.date /\ o.index = a.index) => a.decided <= o.decided}
  IN  {[date |-> a.date, index |-> a.index, b |-> a.b, city |-> a.city,
        decided |-> a.decided, quoted |-> a.decided, captured |-> a.decided,
        settled |-> a.settled, winner |-> a.winner, model |-> a.model,
        market |-> a.market, observed |-> a.observed] : a \in first}

---------------------------------------------------------------------------
(* Isotonic calibration                                                    *)

\* _group_outcomes_by_probability: [upper, wins, n] by rising probability.
Groups(train) ==
  LET values == Ascending({row.model : row \in train})
      At(p)  == {row \in train : row.model = p}
  IN  [i \in 1..Len(values) |->
         [upper |-> values[i],
          wins  |-> Cardinality({row \in At(values[i]) : row.winner}),
          n     |-> Cardinality(At(values[i]))]]

Merged(g, i) ==
  [j \in 1..(Len(g) - 1) |->
     IF j < i THEN g[j]
     ELSE IF j > i THEN g[j + 1]
     ELSE [upper |-> g[i + 1].upper, wins |-> g[i].wins + g[i + 1].wins,
           n |-> g[i].n + g[i + 1].n]]

RisesAt(g, i) == g[i].wins * g[i + 1].n <= g[i + 1].wins * g[i].n

\* The loop of _fit_isotonic: violators of the order are merged, and the
\* group before is looked at again.  It ends within two rounds a group.
PoolStep(s) ==
  IF s.i >= Len(s.g) THEN s
  ELSE IF RisesAt(s.g, s.i) THEN [s EXCEPT !.i = @ + 1]
  ELSE [g |-> Merged(s.g, s.i), i |-> Greater(1, s.i - 1)]

Pool(g) == FoldLeft(LAMBDA s, round : PoolStep(s), [g |-> g, i |-> 1],
                    [round \in 1..(2 * Len(g)) |-> round]).g

FitIsotonic(train) == Pool(Groups(train))

\* _isotonic_predict: the group whose value is used.
Predicted(fitted, p) ==
  LET covering == {i \in 1..Len(fitted) : p <= fitted[i].upper}
  IN  IF covering = {} THEN fitted[Len(fitted)] ELSE fitted[Min(covering)]

---------------------------------------------------------------------------
(* Candidates and their scores                                             *)

\* blend_probability, the model's weight in quarters; in 1/400.
Blend(row, quarters) == quarters * row.model + (4 - quarters) * row.market

\* fit_candidate, for the methods without numerical optimisation (fitted is
\* FitIsotonic of the training rows); values are cut to the percent.
Prediction(method, fitted, row) ==
  CASE method = "blend"    -> Blend(row, 1) \div 4
    [] method = "isotonic" -> LET g == Predicted(fitted, row.model)
                              IN  (100 * g.wins) \div g.n
    [] OTHER               -> row.model

Distance(x, y) == IF x < y THEN y - x ELSE x - y
Square(x) == x * x

\* _candidate_trade_filter
Considered(method, row, metric) ==
  CASE method = "conservative" -> /\ Distance(row.model, row.market) >= 10
                                  /\ row.market \in 5..95
    [] method = "impossible"   -> ObservationState(metric, row.observed, row.b)
                                    = "yes_impossible"
    [] OTHER                   -> TRUE

\* The edge pays the threshold (5%) and the taker fee, 7% of p(1 - p).
PaysOff(prediction, market) ==
  10000 * Distance(prediction, market) >= 50000 + 7 * market * (100 - market)

\* matched_brier_comparison: both forecasters are scored on the rows that
\* have a model value, a market value and an outcome, each in a set of at
\* most one.
Matched(rows, model, market, outcome) ==
  LET common == {r \in rows : model[r] # {} /\ market[r] # {} /\ outcome[r] # {}}
      Score(p) == MapThenSumSet(LAMBDA r :
                    Square(Max(p[r]) - 100 * Max(outcome[r])), common)
  IN  [modelEvents  |-> Cardinality({r \in rows : model[r] # {}}),
       marketEvents |-> Cardinality({r \in rows : market[r] # {}}),
       common       |-> Cardinality(common),
       modelScore   |-> Score(model), marketScore |-> Score(market)]

\* evaluate_candidate: each event contributes at most one signal, on its row
\* farthest from the market (the first ticker of equals); executed trades
\* there are none.
Evaluate(method, train, evaluation, metric) ==
  LET fitted == FitIsotonic(train)
      P == [row \in evaluation |-> Prediction(method, fitted, row)]
      Events == {row.date : row \in evaluation}
      Gap(row) == Distance(P[row], row.market)
      Candidates(d) == {row \in evaluation : row.date = d /\ Considered(method, row, metric)}
      Best(d) == LET far == {row \in Candidates(d) :
                               \A o \in Candidates(d) : Gap(o) <= Gap(row)}
                 IN  CHOOSE row \in far : \A o \in far : row.index <= o.index
      signals == {Best(d) : d \in {e \in Events :
                    Candidates(e) # {} /\ PaysOff(P[Best(e)], Best(e).market)}}
      won     == {row \in signals : row.winner <=> (P[row] > row.market)}
      scores  == Matched(evaluation, [row \in evaluation |-> {P[row]}],
                         [row \in evaluation |-> {row.market}],
                         [row \in evaluation |-> {IF row.winner THEN 1 ELSE 0}])
  IN  [eligible |-> Cardinality(signals), directionalWins |-> Cardinality(won),
       directionalLosses |-> Cardinality(signals) - Cardinality(won),
       directionalVoids |-> 0, clusters |-> Cardinality(Events),
       noTrade |-> Cardinality(Events) - Cardinality(signals),
       settled |-> 0, wins |-> 0, losses |-> 0, voids |-> 0,
       scores |-> scores]

\* validate_candidate_populations, without the quotients.
PopulationViolations(r) ==
  UNION {IF r.wins + r.losses + r.voids # r.settled
         THEN {"execution_win_loss_void_denominator"} ELSE {},
         IF r.directionalWins + r.directionalLosses + r.directionalVoids # r.eligible
         THEN {"directional_signal_denominator"} ELSE {},
         IF r.scores.common > Smaller(r.scores.modelEvents, r.scores.marketEvents)
         THEN {"brier_common_population"} ELSE {}}

---------------------------------------------------------------------------
(* Stability of a blend's advantage over the market                        *)

\* _row_difference: the blend's squared error less the market's, in (1/400)^2.
RowDifference(row, quarters) ==
  LET outcome == IF row.winner THEN 400 ELSE 0
  IN  Square(Blend(row, quarters) - outcome) - Square(4 * row.market - outcome)

\* The sum of _cluster_differences, which has the sign of their mean; the
\* mean of an event's rows is scaled to stay whole up to three brackets.
ClusterSum(rows, quarters) ==
  LET Events == {<<row.date, row.city>> : row \in rows}
      Of(e)  == {row \in rows : <<row.date, row.city>> = e}
      Mean(e) == (6 * MapThenSumSet(LAMBDA row : RowDifference(row, quarters), Of(e)))
                   \div Cardinality(Of(e))
  IN  MapThenSumSet(Mean, Events)

\* What leave_one_group_out concludes of each group left out (nothing when
\* no row is retained), and chronological_comparisons of each date but the
\* first.
LeftOutDate(rows, quarters) ==
  {ClusterSum(kept, quarters) < 0 :
     kept \in {{row \in rows : row.date # d} : d \in {r.date : r \in rows}} \ {{}}}
LeftOutCity(rows, quarters) ==
  {ClusterSum(kept, quarters) < 0 :
     kept \in {{row \in rows : row.city # c} : c \in {r.city : r \in rows}} \ {{}}}
Chronological(rows, quarters) ==
  LET dates == Dates(rows)
  IN  {ClusterSum(OnDates(rows, {dates[i]}), quarters) < 0 : i \in 2..Len(dates)}

\* stability_analyses: every sensitivity result favours the candidate.
AllFavorCandidate(rows, quarters) ==
  UNION {LeftOutDate(rows, quarters), LeftOutCity(rows, quarters),
         Chronological(rows, quarters)} = {TRUE}
=============================================================================
