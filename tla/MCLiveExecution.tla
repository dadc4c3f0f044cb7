-------------------------- MODULE MCLiveExecution --------------------------
(* Model-checking instances of LiveExecution: two orders of one market,    *)
(* the same signal at two prices (70 and 80 cents a contract, fee          *)
(* included), whose limit one contract fits and two do not.                *)
EXTENDS LiveExecution, TLC

CONSTANTS c1, c2, m1

OneMarket == [c \in Cids |-> m1]
Cost      == [c \in Cids |-> (IF c = c1 THEN 70 ELSE 80) \div Units]
Limits    == {[orders |-> Cids, max |-> 100]}
=============================================================================
