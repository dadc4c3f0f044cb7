--------------------------- MODULE MCBotControl ---------------------------
(* Model-checking instance of BotControl: interchangeable requests.        *)
EXTENDS BotControl, TLC

Symmetry == Permutations(Requests)
=============================================================================
