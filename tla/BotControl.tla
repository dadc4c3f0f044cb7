---------------------------- MODULE BotControl ----------------------------
(***************************************************************************)
(* bot_control/state.py and the dashboard endpoints that call it.          *)
(*                                                                         *)
(* The control state is the newest row of the append-only table            *)
(* bot_control_events; every row is a full snapshot.  A request opens one  *)
(* connection to read the newest row and another to insert its own row.    *)
(* Nothing orders the two: another request may commit in between, and the  *)
(* row a request inserts carries the values it READ.  created_at is the    *)
(* time the inserting transaction began, so a row may also become visible  *)
(* after a row with a later created_at.                                    *)
(***************************************************************************)
EXTENDS Naturals, FiniteSets

CONSTANTS
  Requests,      \* request slots: the dashboard's server processes
  ReadFaults,    \* may get_bot_state fail and fall back to its safe default?
  MaxEvents      \* bound on the rows inserted

ASSUME ReadFaultsAssumption == ReadFaults \in BOOLEAN
ASSUME MaxEventsAssumption  == MaxEvents \in Nat

VARIABLES
  latest,   \* the visible row with the greatest created_at
  clock,    \* created_at of the last row inserted
  pc,       \* where each request is
  op,       \* what each request does
  cur,      \* the state each request has read (its local `current`)
  stamp     \* created_at of the row each request has inserted, uncommitted

vars == <<latest, clock, pc, op, cur, stamp>>

Modes == {"OFF", "PAPER", "LIVE"}

\* The event types a request can insert; start_rejected is the audit row of
\* a mode with no execution path.
Ops == {"start_off", "start_paper", "start_rejected", "stop", "live_enable",
        "live_disable", "kill", "kill_reset", "run_once", "reconcile",
        "refresh_balance"}

\* Requests that insert a copy of the state they read.
Copies == {"start_rejected", "run_once", "reconcile", "refresh_balance"}

\* Faulty: the check of enable_live is left to the endpoint's gates.
GuardedStartsOnly == {"start_off", "start_paper", "start_rejected"}

\* Requests refused when the state they read has the kill switch set.
Guarded == {"start_off", "start_paper", "start_rejected", "live_enable"}

Row == [mode : Modes, enabled : BOOLEAN, kill : BOOLEAN,
        type : Ops \cup {"none"}, at : Nat]

\* Faulty: no mode.
ModelessDefault == [mode |-> "", enabled |-> FALSE, kill |-> FALSE,
                    type |-> "none", at |-> 0]

\* _SAFE_DEFAULT, as a row older than any other.
SafeDefault == [mode |-> "OFF", enabled |-> FALSE, kill |-> FALSE,
                type |-> "none", at |-> 0]

Killed(s)  == s.kill
Live(s)    == s.mode = "LIVE" /\ s.enabled

\* Faulty: the audit row of a rejected start records the mode asked for.
ModeAskedFor(o, s) ==
  CASE o = "start_paper" -> "PAPER"
    [] o \in {"live_enable", "start_rejected"} -> "LIVE"
    [] o \in Copies -> s.mode
    [] OTHER -> "OFF"

\* Faulty: the kill row copies the enabled flag.
EnabledThroughKill(o, s) ==
  CASE o \in {"start_paper", "live_enable"} -> TRUE
    [] o \in Copies \cup {"kill"} -> s.enabled
    [] OTHER -> FALSE

\* Faulty: a stop clears the kill switch.
KillClearedByStop(o, s) ==
  CASE o = "kill" -> TRUE
    [] o \in Copies \cup {"live_disable"} -> s.kill
    [] OTHER -> FALSE

\* What request kind o writes after reading s: into the mode ...
ModeOf(o, s) ==
  CASE o = "start_paper" -> "PAPER"
    [] o = "live_enable" -> "LIVE"
    [] o \in Copies -> s.mode
    [] OTHER -> "OFF"

\* ... into the enabled flag ...
EnabledOf(o, s) ==
  CASE o \in {"start_paper", "live_enable"} -> TRUE
    [] o \in Copies -> s.enabled
    [] OTHER -> FALSE

\* ... and into the kill switch, which the others found off or turn off.
KillOf(o, s) ==
  CASE o = "kill" -> TRUE
    [] o \in Copies \cup {"stop", "live_disable"} -> s.kill
    [] OTHER -> FALSE

RowFor(o, s, t) ==
  [mode |-> ModeOf(o, s), enabled |-> EnabledOf(o, s), kill |-> KillOf(o, s),
   type |-> o, at |-> t]

Init ==
  /\ latest = SafeDefault
  /\ clock  = 0
  /\ pc     = [r \in Requests |-> "idle"]
  /\ op     = [r \in Requests |-> "stop"]
  /\ cur    = [r \in Requests |-> SafeDefault]
  /\ stamp  = [r \in Requests |-> 0]

---------------------------------------------------------------------------
(* An endpoint is called.  live_enable first evaluates its gates against a *)
(* state of its own (dashboard/app.py api_bot_live_enable).                *)

Arrive(r, o) ==
  /\ pc[r] = "idle"
  /\ op' = [op EXCEPT ![r] = o]
  /\ pc' = [pc EXCEPT ![r] = IF o = "live_enable" THEN "gate" ELSE "read"]
  /\ UNCHANGED <<latest, clock, cur, stamp>>

\* The request is over; its local state is gone.
Leave(r) ==
  /\ pc'    = [pc EXCEPT ![r] = "idle"]
  /\ op'    = [op EXCEPT ![r] = "stop"]
  /\ cur'   = [cur EXCEPT ![r] = SafeDefault]
  /\ stamp' = [stamp EXCEPT ![r] = 0]

\* What get_bot_state may return now.
Readable == {latest} \cup (IF ReadFaults THEN {SafeDefault} ELSE {})

\* The gates of live_enable: KILL_SWITCH_ACTIVE among them, the others
\* (capital, reconciliation, data age, worker, exchange) either way.
Gate(r) ==
  /\ pc[r] = "gate"
  /\ UNCHANGED <<latest, clock>>
  /\ \/ Leave(r)
     \/ /\ \E s \in Readable : ~Killed(s)
        /\ pc' = [pc EXCEPT ![r] = "read"]
        /\ UNCHANGED <<op, cur, stamp>>

\* current = get_bot_state(), and the refusal when it is killed.
ReadState(r) ==
  /\ pc[r] = "read"
  /\ UNCHANGED <<latest, clock>>
  /\ \E s \in Readable :
       \/ /\ op[r] \in Guarded /\ Killed(s)
          /\ Leave(r)
       \/ /\ ~(op[r] \in Guarded /\ Killed(s))
          /\ pc'  = [pc EXCEPT ![r] = "insert"]
          /\ cur' = [cur EXCEPT ![r] = s]
          /\ UNCHANGED <<op, stamp>>

\* The insert of _record_event: created_at is fixed, the row not yet visible.
Insert(r) ==
  /\ pc[r] = "insert"
  /\ clock < MaxEvents
  /\ clock' = clock + 1
  /\ stamp' = [stamp EXCEPT ![r] = clock + 1]
  /\ pc'    = [pc EXCEPT ![r] = "commit"]
  /\ UNCHANGED <<latest, op, cur>>

\* Its commit: the row is visible, and newest unless a later one already is.
Commit(r) ==
  /\ pc[r] = "commit"
  /\ latest' = IF stamp[r] > latest.at
               THEN RowFor(op[r], cur[r], stamp[r]) ELSE latest
  /\ Leave(r)
  /\ UNCHANGED clock

\* The connection, the insert or the commit fails, or the process dies:
\* BotControlError, nothing written.
Fail(r) ==
  /\ pc[r] # "idle"
  /\ Leave(r)
  /\ UNCHANGED <<latest, clock>>

Next ==
  \E r \in Requests :
    \/ \E o \in Ops : Arrive(r, o)
    \/ Gate(r)
    \/ ReadState(r)
    \/ Insert(r)
    \/ Commit(r)
    \/ Fail(r)

Spec == Init /\ [][Next]_vars

---------------------------------------------------------------------------
(* Properties                                                              *)

\* Types of the rows and of every request's local state.
TypeOK ==
  /\ latest \in Row
  /\ clock \in Nat
  /\ pc \in [Requests -> {"idle", "gate", "read", "insert", "commit"}]
  /\ op \in [Requests -> Ops]
  /\ cur \in [Requests -> Row]
  /\ stamp \in [Requests -> Nat]

\* However requests interleave and reads fail, the state the worker reads
\* (get_bot_state) is never killed and trading at once: a row whose values
\* came from two different rows would be.
NeverKilledAndTrading ==
  Killed(latest) => latest.mode = "OFF" /\ ~latest.enabled

\* The kill switch is cleared by a reset, or by a request that read its
\* state before the kill row became the newest (a stale or failed read):
\* a request that begins after the kill cannot lose it.
KillLostOnlyToStaleRead ==
  [][Killed(latest) /\ ~Killed(latest') =>
       \E r \in Requests : /\ pc[r] = "commit"
                           /\ \/ op[r] = "kill_reset"
                              \/ cur[r].at < latest.at]_vars

\* A LIVE state is never conjured: when trading goes live, the row is a
\* live_enable, or a copy of a row that was already live when it was read.
LiveOnlyFromLive ==
  [][Live(latest') /\ ~Live(latest) =>
       \E r \in Requests : /\ pc[r] = "commit"
                           /\ \/ op[r] = "live_enable"
                              \/ op[r] \in Copies /\ Live(cur[r])]_vars

\* Served one at a time and with no failed read, the requests implement the
\* switchboard of ControlSwitch.
Switch == INSTANCE ControlSwitch
  WITH mode <- latest.mode, enabled <- latest.enabled, killed <- latest.kill,
       last <- latest.type

ImplementsSwitch == Switch!Spec
=============================================================================
