------------------------------ MODULE Brackets ------------------------------
(***************************************************************************)
(* What a temperature market asks and what is known of it during its day:  *)
(* weather/probability.py (price of a bracket, with and without the day's  *)
(* observations), weather/nws_observations.py (the extreme observed so     *)
(* far), classify_lock_status of scripts/investigate_market_edge.py, and   *)
(* two helpers of backtest/harness.py.  Pure functions.                    *)
(*                                                                         *)
(* A bracket is [kind, floor, cap] with strikes in whole degrees: a tail   *)
(* "below" has only a cap, a tail "above" only a floor (the unused field   *)
(* is 0), "unknown" has neither.  Readings and forecasts are in 1/100      *)
(* degree Fahrenheit.                                                      *)
(***************************************************************************)
EXTENDS Integers, Sequences, FiniteSets, FiniteSetsExt

Degree == 100
Half   == 50

Metrics == {"max", "min"}
HasFloor(b) == b.kind \in {"above", "between"}
HasCap(b)   == b.kind \in {"below", "between"}

\* The whole degree a temperature is reported as.
NearestDegree(f) == (f + Half) \div Degree

\* A temperature on which rounding depends on the instrument's convention.
Tie(f) == f % Degree = Half

---------------------------------------------------------------------------
(* Boundaries                                                              *)

\* temperature_in_bracket: the tails exclude their strike, the bounded
\* bracket includes both ends.
InBracket(t, b) ==
  CASE b.kind = "below"   -> t < b.cap
    [] b.kind = "above"   -> t > b.floor
    [] b.kind = "between" -> b.floor <= t /\ t <= b.cap

\* The half-degree continuity correction: where a bracket starts and ends
\* on the continuous scale.
LowEnd(b)  == b.floor * Degree + (IF b.kind = "above" THEN Half ELSE -Half)
HighEnd(b) == b.cap * Degree + (IF b.kind = "below" THEN -Half ELSE Half)

Within(f, b) == (HasFloor(b) => f >= LowEnd(b)) /\ (HasCap(b) => f <= HighEnd(b))

\* classify_forecast_vs_bracket: on which side of the winning bracket a
\* point forecast was.
ForecastSide(f, b) ==
  CASE HasCap(b)   /\ f > HighEnd(b) -> "hot"
    [] HasFloor(b) /\ f < LowEnd(b)  -> "cold"
    [] OTHER                         -> "inside"

\* classify_lock_status: what the extreme observed so far already decides.
\* seen is the set holding it, or empty.
LockStatus(metric, seen, b) ==
  IF \E f \in seen :
       IF metric = "max"
       THEN b.kind = "above" /\ f > LowEnd(b)
       ELSE b.kind = "below" /\ f < HighEnd(b)
  THEN "LOCKED_TRUE"
  ELSE IF \E f \in seen :
            IF metric = "max"
            THEN HasCap(b)   /\ f >= HighEnd(b)
            ELSE HasFloor(b) /\ f <= LowEnd(b)
  THEN "LOCKED_FALSE"
  ELSE "UNDETERMINED"

\* _impossible_yes of the research rows: the same question, asked of the
\* strike itself.
ImpossibleYes(metric, seen, b) ==
  \E f \in seen : IF metric = "max"
                  THEN HasCap(b)   /\ f >= b.cap * Degree
                  ELSE HasFloor(b) /\ f <= b.floor * Degree

ObservationState(metric, seen, b) ==
  IF seen = {} THEN "unobserved"
  ELSE IF ImpossibleYes(metric, seen, b) THEN "yes_impossible"
  ELSE "observed_possible"

---------------------------------------------------------------------------
(* Probabilities.  A forecast is a function giving each of finitely many   *)
(* temperatures a weight; a probability is the weight out of the total.    *)

WeightOf(dist, T) == MapThenSumSet(LAMBDA f : dist[f], T)
Total(dist)  == WeightOf(dist, DOMAIN dist)
Cdf(dist, x) == WeightOf(dist, {f \in DOMAIN dist : f <= x})
Sf(dist, x)  == WeightOf(dist, {f \in DOMAIN dist : f > x})

\* bracket_probability
BracketProbability(dist, b) ==
  CASE b.kind = "below"   -> Cdf(dist, HighEnd(b))
    [] b.kind = "above"   -> Sf(dist, LowEnd(b))
    [] b.kind = "between" -> Cdf(dist, HighEnd(b)) - Cdf(dist, LowEnd(b))

\* The mass below a bracket's upper and lower end; a tail is open.
MassToHigh(dist, b) == IF HasCap(b) THEN Cdf(dist, HighEnd(b)) ELSE Total(dist)
MassToLow(dist, b)  == IF HasFloor(b) THEN Cdf(dist, LowEnd(b)) ELSE 0

AtLeastZero(x) == IF x < 0 THEN 0 ELSE x
Smaller(x, y)  == IF x < y THEN x ELSE y
Greater(x, y)  == IF x < y THEN y ELSE x

\* Faulty: the mass the observation already realised is forgotten.
ConditionedNoAtom(dist, b, metric, f) ==
  IF metric = "max"
  THEN AtLeastZero(MassToHigh(dist, b) - Greater(MassToLow(dist, b), Cdf(dist, f)))
  ELSE AtLeastZero(Smaller(MassToHigh(dist, b), Cdf(dist, f)) - MassToLow(dist, b))

\* observation_conditioned_bracket_probability: the final extreme is the
\* observed one or the forecast's, whichever is more extreme; the mass on
\* the wrong side of the observation collapses onto it.  The cdf being
\* monotone, the bound moved to the observation is the mass moved there.
Conditioned(dist, b, metric, f) ==
  LET continuous ==
        IF metric = "max"
        THEN MassToHigh(dist, b) - Greater(MassToLow(dist, b), Cdf(dist, f))
        ELSE Smaller(MassToHigh(dist, b), Cdf(dist, f)) - MassToLow(dist, b)
      atom == IF ~Within(f, b) THEN 0
              ELSE IF metric = "max" THEN Cdf(dist, f) ELSE Sf(dist, f)
  IN  AtLeastZero(continuous) + atom

\* calibrated_observation_conditioned_probability: without an observation
\* the unconditional price.  The forecast comes with its bias corrected.
Price(dist, b, metric, seen) ==
  IF seen = {} THEN BracketProbability(dist, b)
  ELSE Conditioned(dist, b, metric, CHOOSE f \in seen : TRUE)

---------------------------------------------------------------------------
(* The station's readings: [c, minute] with c in tenths of a degree        *)
(* Celsius and the minute of the hour of its timestamp.                    *)

Fahrenheit(c) == 18 * c + 3200

\* What the station's 5-minute feed reports of a temperature: whole degrees
\* Celsius, at minutes that are multiples of five.
FiveMinute(c) == 10 * ((c + 5) \div 10)

\* Faulty: every reading counts.
AnyReading(r) == r.minute \in 0..59

\* _is_metar: an hourly or special report rather than the rounded feed, by
\* its minute or by its precision.
IsMetar(r) == r.minute % 5 # 0 \/ r.c % 10 # 0

\* The extreme of a set of temperatures: a set of one, or empty if it is.
Extreme(metric, F) ==
  {f \in F : \A g \in F : IF metric = "max" THEN g <= f ELSE f <= g}

\* fetch_today_extreme, of the set of the readings published so far.
TodayExtreme(readings, metric) ==
  Extreme(metric, {Fahrenheit(r.c) : r \in {x \in readings : IsMetar(x)}})

---------------------------------------------------------------------------
(* The archive's gaps: a settled market is a bracket with its ticker's     *)
(* suffix, <<"B", twice the middle>> or <<"T", twice the strike>>.         *)

TickerSuffix(b) ==
  CASE b.kind = "below"   -> <<"T", 2 * b.cap>>
    [] b.kind = "above"   -> <<"T", 2 * b.floor>>
    [] b.kind = "between" -> <<"B", b.floor + b.cap>>

NoStrikes == [kind |-> "unknown", floor |-> 0, cap |-> 0]

Known(markets) ==
  UNION {IF m.b.kind = "unknown" THEN {}
         ELSE (IF HasFloor(m.b) THEN {m.b.floor} ELSE {})
              \cup (IF HasCap(m.b) THEN {m.b.cap} ELSE {}) : m \in markets}

\* _repair_missing_strikes: a market without strikes gets them back from its
\* ticker; a tail is told from its siblings' strikes, and is left alone when
\* it lies among them.  A bounded bracket spans one degree.
Repaired(m, markets) ==
  LET value == m.suffix[2]
      known == Known(markets)
  IN  IF m.b.kind # "unknown" \/ known = {} THEN m.b
      ELSE IF m.suffix[1] = "B"
      THEN [kind |-> "between", floor |-> (value - 1) \div 2, cap |-> (value + 1) \div 2]
      ELSE IF value >= 2 * Max(known)
      THEN [kind |-> "above", floor |-> value \div 2, cap |-> 0]
      ELSE IF value <= 2 * Min(known)
      THEN [kind |-> "below", floor |-> 0, cap |-> value \div 2]
      ELSE m.b
=============================================================================
