--------------------------- MODULE ControlSwitch ---------------------------
(***************************************************************************)
(* What the operator is promised by the bot-control API: one switchboard   *)
(* with an execution mode, an enabled flag and a kill switch, on which     *)
(* every request takes effect at once.  BotControl is the implementation:  *)
(* a read of the latest event row followed by an insert of a new one.      *)
(***************************************************************************)

VARIABLES
  mode,      \* effective_mode: "OFF", "PAPER" or "LIVE"
  enabled,   \* may the worker open positions?
  killed,    \* the persistent kill switch
  last       \* the request that took effect last

switch == <<mode, enabled, killed, last>>

Init == mode = "OFF" /\ enabled = FALSE /\ killed = FALSE /\ last = "none"

\* Start in PAPER, or in OFF, which amounts to a stop; never while killed.
Start(m) ==
  /\ ~killed
  /\ mode' = m
  /\ enabled' = (m # "OFF")
  /\ last' = IF m = "OFF" THEN "start_off" ELSE "start_paper"
  /\ UNCHANGED killed

EnableLive ==
  /\ ~killed
  /\ mode' = "LIVE"
  /\ enabled' = TRUE
  /\ last' = "live_enable"
  /\ UNCHANGED killed

\* Stop and disable: trading off, kill switch untouched.
Stop ==
  /\ mode' = "OFF"
  /\ enabled' = FALSE
  /\ last' \in {"stop", "live_disable"}
  /\ UNCHANGED killed

Kill ==
  /\ mode' = "OFF"
  /\ enabled' = FALSE
  /\ killed' = TRUE
  /\ last' = "kill"

\* The only request that clears the kill switch.
Reset ==
  /\ mode' = "OFF"
  /\ enabled' = FALSE
  /\ killed' = FALSE
  /\ last' = "kill_reset"

\* Audit events leave the switchboard as it is; a start in a mode without
\* an execution path is one of them, refused like any start while killed.
Record ==
  /\ last' \in {"start_rejected", "run_once", "reconcile", "refresh_balance"}
  /\ last' = "start_rejected" => ~killed
  /\ UNCHANGED <<mode, enabled, killed>>

Next ==
  \/ \E m \in {"OFF", "PAPER"} : Start(m)
  \/ EnableLive
  \/ Stop
  \/ Kill
  \/ Reset
  \/ Record

Spec == Init /\ [][Next]_switch
=============================================================================
