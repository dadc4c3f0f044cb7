-------------------------- MODULE MCPaperTrading --------------------------
(* PaperTrading for TLC: two cities' markets of one day, whose stakes      *)
(* together exceed the day's share of the bankroll: at 40 and 75 cents the *)
(* first is bought YES and takes its profit, the second is bought on       *)
(* either side and loses its edge.                                         *)
EXTENDS PaperTrading, TLC

OneEach == [m \in Markets |-> m]
Beliefs == [m \in Markets |-> IF m = 1 THEN 80 ELSE 55]
OneDay  == [e \in Markets |-> "day"]
Interchangeable == Permutations(Workers)
=============================================================================
