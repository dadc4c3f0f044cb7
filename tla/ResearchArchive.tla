-------------------------- MODULE ResearchArchive --------------------------
(***************************************************************************)
(* An archive of settled events that grows day by day, and the research    *)
(* done on it (Research): rows, splits, fitted candidates and scores.      *)
(***************************************************************************)
EXTENDS Research

CONSTANTS EventLadder,  \* the brackets of every event
          ModelOdds,    \* model and market probabilities (percent) of an
          MarketOdds,   \*   event's brackets, one of each in turn by date
          MaxDates      \* bound

\* The backtest asks for rows from StartDate on; older events than
\* LiveFrom are in the historical tier, where the winners up to GapUntil
\* have lost their strikes.  Four markets make a page.
StartDate == 2
LiveFrom  == 5
GapUntil  == 3
PageSize  == 4

\* A tail below, brackets of two whole degrees and a tail above, without gaps;
\* 20 pages reach back to the start date.
ASSUME ArchiveAssumption ==
  LET n == Len(EventLadder) IN
  /\ EventLadder \in Seq([kind : {"below", "above", "between"}, floor : Int, cap : Int])
  /\ n >= 3 /\ n * (LiveFrom - StartDate - 1) <= 20 * PageSize
  /\ EventLadder[1].kind = "below" /\ EventLadder[1].floor = 0
  /\ EventLadder[n].kind = "above" /\ EventLadder[n].cap = 0
  /\ \A i \in 2..(n - 1) : /\ EventLadder[i].kind = "between"
                           /\ EventLadder[i].cap = EventLadder[i].floor + 1
  /\ \A i \in 1..(n - 1) : HighEnd(EventLadder[i]) = LowEnd(EventLadder[i + 1])
  /\ \A table \in {ModelOdds, MarketOdds} :
       table # <<>> /\ table \in Seq([1..n -> 0..100])
  /\ MaxDates \in Nat

VARIABLE winners  \* by date: the winning bracket, 0 while nothing settled
archiveVars == winners

ArchiveInit == winners = <<>>

\* One more event is settled, or is left without a result.
NextEvent == /\ Len(winners) < MaxDates
             /\ \E w \in {0} \cup DOMAIN EventLadder : winners' = Append(winners, w)

ArchiveNext == NextEvent

ArchiveSpec == ArchiveInit /\ [][ArchiveNext]_archiveVars

---------------------------------------------------------------------------
(* What the exchange and the database return of it                         *)

Result(d, i) == IF winners[d] = 0 THEN "" ELSE IF winners[d] = i THEN "yes" ELSE "no"

MarketOf(d, i) ==
  [date |-> d, index |-> i, suffix |-> TickerSuffix(EventLadder[i]),
   b |-> IF d <= GapUntil /\ winners[d] = i THEN NoStrikes ELSE EventLadder[i],
   result |-> Result(d, i)]

Live == {MarketOf(d, i) : d \in {x \in DOMAIN winners : x >= LiveFrom},
                          i \in DOMAIN EventLadder}

\* Newest first.
History ==
  LET n == Len(EventLadder)
      oldest == Smaller(Len(winners), LiveFrom - 1)
  IN  [k \in 1..(n * oldest) |-> MarketOf(oldest - ((k - 1) \div n), ((k - 1) % n) + 1)]

\* On every fourth date one of the two forecast models is missing.
Forecast(d) == [x \in {"gfs"} \cup (IF d % 4 = 0 THEN {} ELSE {"ecmwf"}) |->
                  IF x = "gfs" THEN 79 ELSE 80 + d]

Rows == CollectRows(Live, History, [d \in DOMAIN winners |-> Forecast(d)],
                    StartDate, Len(winners), PageSize)

Turn(table, d) == table[(d % Len(table)) + 1]

\* Every market is alerted twice, the day before and on the day; odd dates
\* and even ones are two cities'.
AlertOf(d, i, lead) ==
  [date |-> d, index |-> i, b |-> EventLadder[i], city |-> d % 2,
   decided |-> 2 * d + 1 - lead, settled |-> IF winners[d] = 0 THEN 0 ELSE 2 * d + 2,
   version |-> IF d = 1 /\ lead = 1 THEN "v3" ELSE "v4", winner |-> winners[d] = i,
   model |-> Turn(ModelOdds, d)[i], market |-> Turn(MarketOdds, d)[i],
   observed |-> IF lead = 1 THEN {} ELSE {EventLadder[1].cap * Degree}]

Alerts == {AlertOf(d, i, lead) : d \in DOMAIN winners, i \in DOMAIN EventLadder,
                                 lead \in {0, 1}}
Studied == FetchRows(Alerts, "v4")

---------------------------------------------------------------------------
DatesOf(rows) == {row.date : row \in rows}
Before(rows, others) == \A d \in DatesOf(rows), e \in DatesOf(others) : d < e

\* Every event after the start date is there with its whole ladder, the
\* winner's lost strikes recovered; unsettled events and those without a
\* second forecast are not.
LaddersWhole(rows) ==
  \A d \in (StartDate + 1)..Len(winners) :
    {<<row.index, row.b, row.outcome>> : row \in {r \in rows : r.date = d}}
      = IF winners[d] = 0 \/ d % 4 = 0 THEN {}
        ELSE {<<i, EventLadder[i], winners[d] = i>> : i \in DOMAIN EventLadder}

\* A day counts once among the residuals, and only when a bounded bracket won
\* it: then its temperature is known to half a degree.
ResidualsOnce(rows) ==
  LET pooled == DatedResiduals(rows)
  IN  /\ {x.date : x \in pooled}
           = {row.date : row \in {r \in rows : r.outcome /\ r.b.kind = "between"}}
      /\ Cardinality(pooled) = Cardinality({x.date : x \in pooled})

\* A window in which no row of a later date is fitted on, and none of an
\* event is both fitted on and evaluated.
InOrder(split) == split.eval # {} /\ Before(split.fit, split.eval)

FoldsInOrder(folds, rows) ==
  /\ \A i \in DOMAIN folds : InOrder(folds[i])
  /\ \A i \in DOMAIN folds : i > 1 => folds[i].fit = folds[i - 1].fit \cup folds[i - 1].eval
  /\ folds # <<>> => Last(folds).fit \cup Last(folds).eval = rows

BacktestInOrder(rows) ==
  /\ LET halves == SplitByDate(rows, 70)
     IN  /\ Before(halves.fit, halves.eval)
         /\ halves.fit \cup halves.eval = rows
  /\ \A n \in 2..3 : FoldsInOrder(RollingSplits(rows, n, 40), rows)

InvestigationInOrder(studied) ==
  /\ LookaheadViolations(studied) = {}
  /\ Cardinality(DatesOf(studied)) >= 3 =>
       LET p == Partitions(studied, 20)
           s == InvestigationSplit(studied)
       IN  /\ FoldsInOrder(p.folds, p.preholdout)
           /\ s.fit # {} /\ InOrder([fit |-> s.fit, eval |-> s.validation])
           /\ InOrder([fit |-> s.train, eval |-> s.holdout])
           /\ s.fit \cup s.validation = s.train
           /\ s.train \cup s.holdout = studied

\* The value of an isotonic fit at a group of equal probabilities: the
\* largest over the groups up to it of the smallest mean, over the groups
\* from it on, of what lies between; as <<wins, rows>>.
AtMost(x, y) == x[1] * y[2] <= y[1] * x[2]
MaxMin(g, j) ==
  LET Mean(a, b) == <<MapThenSumSet(LAMBDA k : g[k].wins, a..b),
                      MapThenSumSet(LAMBDA k : g[k].n, a..b)>>
      Least(a) == CHOOSE m \in {Mean(a, b) : b \in j..Len(g)} :
                    \A b \in j..Len(g) : AtMost(m, Mean(a, b))
  IN  CHOOSE m \in {Least(a) : a \in 1..j} : \A a \in 1..j : AtMost(Least(a), m)

\* Pooling, however the violators are met, gives the isotonic regression.
IsotonicExact(studied) ==
  studied # {} =>
    LET g == Groups(studied)
        fitted == FitIsotonic(studied)
    IN  \A j \in DOMAIN g :
          LET p == Predicted(fitted, g[j].upper)
              m == MaxMin(g, j)
          IN  p.wins * m[2] = m[1] * p.n

\* Every candidate's numbers speak of one population: at most one signal an
\* event, each won or lost, and both scores over the same rows.
PopulationsAgree(studied) ==
  Cardinality(DatesOf(studied)) >= 3 =>
    LET s == InvestigationSplit(studied)
    IN  \A method \in {"current", "blend", "isotonic", "conservative", "impossible"} :
          LET r == Evaluate(method, s.fit, s.validation, "max")
          IN  /\ PopulationViolations(r) = {}
              /\ r.eligible + r.noTrade = r.clusters
              /\ r.scores.common = Cardinality(s.validation)

\* A blend that beats the market in every sensitivity analysis beats it.
StabilityMeansSkill(studied) ==
  Cardinality(DatesOf(studied)) >= 2 =>
    \A quarters \in 1..3 :
      AllFavorCandidate(studied, quarters) => ClusterSum(studied, quarters) < 0

\* The research is done on what was known: whole ladders, windows in order,
\* an exact fit, and verdicts that follow from their own numbers.
ResearchHonest ==
  LET rows == Rows
      studied == Studied
  IN  /\ LaddersWhole(rows)
      /\ ResidualsOnce(rows)
      /\ BacktestInOrder(rows)
      /\ InvestigationInOrder(studied)
      /\ IsotonicExact(studied)
      /\ PopulationsAgree(studied)
      /\ StabilityMeansSkill(studied)
=============================================================================
