--------------------------- MODULE SettlementDay ---------------------------
(***************************************************************************)
(* One city's day, from the first reading to the settlement of its ladder  *)
(* of brackets.  The station and the settlement are the environment; what  *)
(* the code says of the day meanwhile (Brackets) is judged in the end.     *)
(***************************************************************************)
EXTENDS Brackets

CONSTANTS Ladder,        \* the event's brackets, in order
          Temperatures,  \* what the air may come to, in 1/10 degree Celsius
          Forecasts,     \* see Brackets
          MaxReadings    \* bound: reports of a day

\* The brackets of an event partition the temperatures: a tail below, bounded
\* brackets and a tail above, each from where the one before it ends.
LadderWhole ==
  LET n == Len(Ladder) IN
  /\ Ladder \in Seq([kind : {"below", "above", "between"}, floor : Nat, cap : Nat])
  /\ n > 1 /\ Ladder[1].kind = "below" /\ Ladder[n].kind = "above"
  /\ \A i \in 2..(n - 1) : Ladder[i].kind = "between" /\ Ladder[i].floor <= Ladder[i].cap
  /\ \A i \in 1..(n - 1) : HighEnd(Ladder[i]) = LowEnd(Ladder[i + 1])

ASSUME LadderCovers ==
  /\ Temperatures \subseteq Int
  /\ \A c \in Temperatures : ~Tie(Fahrenheit(c))
  /\ LadderWhole
  /\ \A dist \in Forecasts : /\ DOMAIN dist \subseteq Int /\ IsFiniteSet(DOMAIN dist)
                              /\ dist \in [DOMAIN dist -> Nat]

VARIABLES metric,    \* is the market about the day's maximum or minimum?
          forecast,  \* the distribution the day is priced with
          readings,  \* what the station has published today
          extreme,   \* the day's true extreme so far; a set of at most one
          final      \* the settled whole degree; a set of at most one
dayVars == <<metric, forecast, readings, extreme, final>>

DayInit == /\ metric \in Metrics
           /\ forecast \in Forecasts
           /\ readings = <<>>
           /\ extreme = {}
           /\ final = {}

\* The air comes to a temperature and the station publishes it: in the
\* hourly report, in a special one at any minute, in the 5-minute feed, or
\* not at all.
Published(c) == {<<[c |-> c, minute |-> 53]>>, <<[c |-> c, minute |-> 15]>>,
                 <<[c |-> FiveMinute(c), minute |-> 15]>>, <<>>}

Weather == /\ final = {}
           /\ \E c \in Temperatures : \E report \in Published(c) :
                /\ Len(readings) + Len(report) <= MaxReadings
                /\ readings' = readings \o report
                /\ extreme' = Extreme(metric, extreme \cup {Fahrenheit(c)})
           /\ UNCHANGED <<metric, forecast, final>>

\* The day ends: its extreme is settled as a whole degree.
Settle == /\ final = {}
          /\ extreme # {}
          /\ final' = {NearestDegree(f) : f \in extreme}
          /\ UNCHANGED <<metric, forecast, readings, extreme>>

DayNext == Weather \/ Settle

DaySpec == DayInit /\ [][DayNext]_dayVars

---------------------------------------------------------------------------
\* What the code knew of the day's extreme after its first n readings.
SeenAfter(n) == TodayExtreme({readings[i] : i \in 1..n}, metric)
Seen         == SeenAfter(Len(readings))

\* Nothing the day's readings were taken to decide (which bracket is won,
\* which is lost) is contradicted by the settlement.
LocksHold ==
  \A t \in final, n \in 0..Len(readings), i \in DOMAIN Ladder :
    LET status == LockStatus(metric, SeenAfter(n), Ladder[i])
    IN  /\ status = "LOCKED_TRUE"  => InBracket(t, Ladder[i])
        /\ status = "LOCKED_FALSE" => ~InBracket(t, Ladder[i])

\* At every moment the ladder's prices share out exactly the whole
\* probability; a bracket that is decided is priced as decided, although
\* price and decision are computed apart.
LadderPriced ==
  LET prices == [i \in DOMAIN Ladder |-> Price(forecast, Ladder[i], metric, Seen)]
  IN  /\ Total(prices) = Total(forecast)
      /\ \A i \in DOMAIN Ladder :
           LET status == LockStatus(metric, Seen, Ladder[i])
           IN  /\ status = "LOCKED_FALSE" => prices[i] = 0
               /\ status = "LOCKED_TRUE"  => prices[i] = Total(forecast)

\* A forecast is called hot or cold against the winning bracket exactly when
\* it would itself have been settled in a later or an earlier one.
ForecastsJudged ==
  \A t \in final, f \in DOMAIN forecast, i \in DOMAIN Ladder :
    (InBracket(t, Ladder[i]) /\ ~Tie(f)) =>
      LET side     == ForecastSide(f, Ladder[i])
          Meets(j) == InBracket(NearestDegree(f), Ladder[j])
      IN  /\ side = "hot"    => \E j \in DOMAIN Ladder : j > i /\ Meets(j)
          /\ side = "cold"   => \E j \in DOMAIN Ladder : j < i /\ Meets(j)
          /\ side = "inside" => Meets(i)

\* What the day is worth, and was thought worth, at every moment of it.
PricesHold == LadderPriced /\ ForecastsJudged

LOCAL Trader == INSTANCE ProfessionalDecision

\* "between 79 and 80" includes both ends (temperature_in_bracket), so a
\* bracket the professional trader calls impossible, or a research row is
\* filed as impossible for, is never the one that wins.
ImpossibleNeverWins ==
  \A t \in final, i \in DOMAIN Ladder, f \in Seen :
    LET b == Ladder[i]
    IN  \/ Trader!BracketImpossible(metric, f,
             IF HasFloor(b) THEN b.floor * Degree ELSE Trader!None,
             IF HasCap(b) THEN b.cap * Degree ELSE Trader!None)
        \/ ObservationState(metric, Seen, b) = "yes_impossible"
        => ~InBracket(t, b)
=============================================================================
