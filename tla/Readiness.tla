----------------------------- MODULE Readiness -----------------------------
(***************************************************************************)
(* trading_readiness/readiness.py and report.py: what the collected        *)
(* evidence comes to, and the gates it has to pass before anyone reviews   *)
(* real trading.  Pure functions of the committed rows                     *)
(*                                                                         *)
(*   decisions  [id, candidate, market, city, lead, day, observed, ...]    *)
(*   events     [decision, candidate, type, pnl, at, ...]                  *)
(*   snapshots  [book, gap, ...]                                           *)
(*                                                                         *)
(* and of a study, a record of Booleans with what the backtest found.      *)
(***************************************************************************)
EXTENDS EvidenceRules, SequencesExt

CONSTANT Minimum  \* ReadinessConfig: [days, events, settled, cities, horizons]

\* The largest drawdown of a candidate that passes: three dollars.
MaxDrawdown == 3 * Dollar

Outcomes == {"SETTLED_WIN", "SETTLED_LOSS", "VOID"}
Orders   == {"NO_FILL", "PARTIAL_FILL", "FILLED"}

---------------------------------------------------------------------------
(* _forward_status                                                         *)

OfType(events, types) == {e \in events : e.type \in types}

\* A snapshot that may be used, and one that counts against the evidence.  A
\* snapshot is taken as it is received, so that none is stale or delayed.
MissingLevels(book) == \E s \in Sides : book[s] = {}
Valid(s)   == ~CrossedOrImpossible(s.book) /\ ~MissingLevels(s.book)
Suspect(s) == ~Valid(s) \/ s.gap

ForwardStatus(frozen, decisions, events, snapshots) ==
  [frozen    |-> frozen,
   decisions |-> Cardinality(decisions),
   days      |-> IF decisions = {} THEN 0
                 ELSE Max({d.day : d \in decisions})
                        - Min({d.day : d \in decisions}) + 1,
   events    |-> Cardinality({d.market : d \in decisions}),
   cities    |-> Cardinality({d.city : d \in decisions}),
   horizons  |-> Cardinality({d.lead : d \in decisions}),
   observed  |-> decisions # {} /\ \A d \in decisions : d.lead # 0 \/ d.observed,
   settled   |-> Cardinality(OfType(events, Outcomes)),
   orders    |-> Cardinality(OfType(events, Orders \cup Outcomes)),
   noFills   |-> Cardinality(OfType(events, {"NO_FILL"})),
   valid     |-> Cardinality({s \in snapshots : Valid(s)}),
   violations |-> Cardinality({s \in snapshots : Suspect(s)})]

---------------------------------------------------------------------------
(* _execution_rows and the performance gate                                *)

\* The settled results of a candidate, in the order they were recorded.
Results(events, candidate) ==
  LET mine == {e \in OfType(events, Outcomes) : e.candidate = candidate}
      order == SetToSortSeq(mine, LAMBDA e, f : e.at < f.at)
  IN [k \in DOMAIN order |-> order[k].pnl]

Equity(results) == FoldLeft(+, 0, results)
Drawdown(results) ==
  FoldLeft(LAMBDA a, x : LET equity == a.equity + x
                             peak == Max({a.peak, equity})
                         IN [equity |-> equity, peak |-> peak,
                             worst |-> Max({a.worst, peak - equity})],
           [equity |-> 0, peak |-> 0, worst |-> 0], results).worst

\* A candidate that never lost has no profit factor, and does not pass.
Performs(results) ==
  LET lost == Equity(SelectSeq(results, LAMBDA x : x < 0)) IN
  /\ Len(results) >= Minimum.settled
  /\ Equity(results) > 0
  /\ lost < 0
  /\ Equity(results) - lost > -lost
  /\ Drawdown(results) <= MaxDrawdown

---------------------------------------------------------------------------
(* build_readiness_report                                                  *)

\* _gate: the worst status of its checks.
Gate(statuses) ==
  CASE "FAIL" \in statuses -> "FAIL"
    [] /\ "FAIL" \notin statuses
       /\ "NOT_AVAILABLE" \in statuses -> "NOT_AVAILABLE"
    [] /\ statuses \cap {"FAIL", "NOT_AVAILABLE"} = {}
       /\ "INSUFFICIENT_EVIDENCE" \in statuses -> "INSUFFICIENT_EVIDENCE"
    [] OTHER -> "PASS"

PassOr(otherwise, complete) == IF complete THEN "PASS" ELSE otherwise

\* prospective_status and forward_threshold_status.
Prospective(forward, complete) ==
  IF forward.decisions = 0 THEN "NOT_AVAILABLE"
  ELSE PassOr("INSUFFICIENT_EVIDENCE", complete)

Reached(forward) ==
  {forward.days >= Minimum.days, forward.events >= Minimum.events,
   forward.settled >= Minimum.settled, forward.cities >= Minimum.cities,
   forward.horizons >= Minimum.horizons}

\* The gates of the deployed schema.  The two checks given as constants by the
\* caller and the operational checks are the study's.
Gates(study, forward, performs) ==
  LET P(complete) == Prospective(forward, complete) IN
  [DATA_INTEGRITY |->
     Gate({P(forward.decisions > 0), P(forward.observed), P(forward.valid > 0),
           PassOr("FAIL", study.populations)}),
   FORECAST_SKILL |->
     Gate({PassOr("FAIL", study.beatsModel), PassOr("FAIL", study.calibrated),
           PassOr("INSUFFICIENT_EVIDENCE", study.stable)}),
   MARKET_INCREMENTAL_VALUE |->
     Gate({PassOr("FAIL", study.addsValue), PassOr("FAIL", study.beatsMarket),
           PassOr("FAIL", study.confident)}),
   EXECUTION_EVIDENCE |->
     Gate({P(forward.valid > 0), P(forward.orders > 0),
           P(forward.orders > 0 /\ forward.noFills > 0)}),
   FORWARD_CONFIRMATION |->
     Gate({PassOr("NOT_AVAILABLE", forward.frozen),
           P(forward.violations = 0), P(performs), P(forward.orders > 0)}
            \cup {P(reached) : reached \in Reached(forward)}),
   OPERATIONAL_SAFETY |-> Gate({PassOr("FAIL", study.operational)})]

Conclusion(gates) ==
  IF \A g \in DOMAIN gates : gates[g] = "PASS"
  THEN "READY_FOR_EXPLICIT_REVIEW" ELSE "NOT_READY_FOR_REAL_TRADING"
=============================================================================
