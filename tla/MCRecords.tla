----------------------------- MODULE MCRecords -----------------------------
(* Values for the model checker.                                           *)
EXTENDS Records

TailOf(kind, strike) == [kind |-> kind, floor |-> IF kind = "above" THEN strike ELSE 0,
                       cap |-> IF kind = "below" THEN strike ELSE 0]
Bounded(low, high) == [kind |-> "between", floor |-> low, cap |-> high]

DayLadder == <<TailOf("below", 79), Bounded(79, 80), Bounded(81, 82), TailOf("above", 82)>>

\* 78.44, 79.52, 80.06, 80.96, 82.40 and 82.94 degrees Fahrenheit; the
\* 5-minute feed reports the third as 80.6 and the fourth as 80.6.
DayTemperatures == {258, 264, 267, 272, 280, 283}

DayForecasts ==
  LET At(T) == [f \in T |-> 1]
  IN  {At({7844, 7952, 8006, 8096, 8240, 8294}),
       At({7700, 7844}) @@ At({8006}), (8090 :> 3) @@ (8120 :> 5) @@ (8360 :> 2)}

SmallLadder == <<TailOf("below", 79), Bounded(79, 80), TailOf("above", 80)>>
ModelTable  == <<<<20, 50, 30>>, <<50, 40, 10>>, <<20, 40, 40>>>>
MarketTable == <<<<30, 40, 30>>, <<60, 30, 10>>>>

PnLs == {-30, -10, 15}
=============================================================================
