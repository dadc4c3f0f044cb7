-------------------------- MODULE MCAlertPipeline --------------------------
(* AlertPipeline for TLC: the markets' events are on the second day.       *)
EXTENDS AlertPipeline

Today == [m \in Markets |-> 1]
=============================================================================
