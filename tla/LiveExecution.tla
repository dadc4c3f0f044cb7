--------------------------- MODULE LiveExecution ---------------------------
(***************************************************************************)
(* live_trading/service.py: the execution cycles of the workers, the       *)
(* dashboard's reconciliations and its kill request, the exchange they     *)
(* talk to, and the crashes, timeouts and lost answers in between.         *)
(*                                                                         *)
(* One action is one statement that reads or writes the database or calls  *)
(* the exchange; every transition of repository.py commits on its own, so  *)
(* between any two of them another process, the exchange or a crash may    *)
(* step.  A worker holds the cycle lock (a PostgreSQL session lock) from   *)
(* Lock to Finish; reconcile and cancel_bot_orders called by the dashboard *)
(* take no lock.                                                           *)
(***************************************************************************)
EXTENDS LiveOrders

CONSTANTS
  Workers,       \* processes that run run_cycle: scheduled jobs, run-once
  Reconcilers,   \* dashboard requests that call reconcile
  Killers,       \* dashboard requests that call emergency-stop
  Nobody,        \* holder of a free lock
  NoCid,         \* no target order
  MaxFaults,     \* bound on crashes, lost answers and failed calls
  LateDelivery,  \* may a create the client gave up on arrive afterwards?
  Overlap        \* may a dashboard reconciliation overlap a cycle?

Procs == Workers \cup Reconcilers \cup Killers

ASSUME NobodyAssumption == Nobody \notin Procs
ASSUME NoCidAssumption  == NoCid \notin Cids
ASSUME KindsAssumption  ==
  /\ Workers \cap Reconcilers = {}
  /\ Workers \cap Killers = {}
  /\ Reconcilers \cap Killers = {}
ASSUME MaxFaultsAssumption == MaxFaults \in Nat
ASSUME FlagsAssumption == LateDelivery \in BOOLEAN /\ Overlap \in BOOLEAN

VARIABLES
  control,    \* the newest bot-control row: "OFF", "LIVE" or "KILLED"
  lock,       \* holder of the cycle lock
  local,      \* table live_orders
  persisted,  \* table live_order_fills: lots recorded per order
  healthy,    \* newest row of live_reconciliation_runs
  orphans,    \* orders that row reports REMOTE_BOT_ORDER_MISSING_LOCAL
  exch,       \* the exchange's orders
  settled,    \* markets with a published result
  late,       \* creates still on their way though their caller gave up
  faults,     \* faults so far
  pc,         \* next statement of each process
  view,       \* control state each process read
  after,      \* what follows a process's reconcile or cancel_bot_orders
  remote,     \* each process's list_orders answer
  fills,      \* each process's list_fills answer
  results,    \* each process's get_settlements answer
  seen,       \* rows each process has read or got back from an update
  todo,       \* orders left in each process's loop
  clean,      \* has each process's reconciliation met no mismatch?
  target,     \* order each process submits or cancels
  answer      \* lots filled, in the acknowledgement each process got

tables   == <<local, persisted, healthy, orphans>>
exchange == <<exch, settled, late>>
snapshot == <<remote, fills, results>>
cursors  == <<seen, todo, clean>>
order    == <<target, answer>>
vars == <<control, lock, tables, exchange, faults,
          pc, view, after, snapshot, cursors, order>>

Phases == {"idle", "lock", "orders", "fills", "locals", "apply", "persist",
           "refresh", "settle", "record", "scan", "cancel", "canceled",
           "cancelUnknown", "gate", "choose", "intent", "submit", "create", "ack",
           "ambiguous", "rejected", "enable", "finish"}

\* Where a reconcile or a cancel_bot_orders returns to.
Returns == {"cycle", "ambiguous", "request", "stop"}

NoRows    == [c \in Cids |-> NoRow]
NoRemotes == [c \in Cids |-> NoRemote]
NoFills   == [c \in Cids |-> 0]

Init ==
  /\ control \in {"OFF", "LIVE"}
  /\ lock = Nobody
  /\ local = NoRows
  /\ persisted = NoFills
  /\ healthy = FALSE
  /\ orphans = {}
  /\ exch = NoRemotes
  /\ settled = {}
  /\ late = {}
  /\ faults = 0
  /\ pc = [p \in Procs |-> "idle"]
  /\ view = [p \in Procs |-> "OFF"]
  /\ after = [p \in Procs |-> "cycle"]
  /\ remote = [p \in Procs |-> NoRemotes]
  /\ fills = [p \in Procs |-> NoFills]
  /\ results = [p \in Procs |-> {}]
  /\ seen = [p \in Procs |-> NoRows]
  /\ todo = [p \in Procs |-> {}]
  /\ clean = [p \in Procs |-> TRUE]
  /\ target = [p \in Procs |-> NoCid]
  /\ answer = [p \in Procs |-> 0]

Goto(p, s) == pc' = [pc EXCEPT ![p] = s]

Fault == faults < MaxFaults /\ faults' = faults + 1
NoFault == UNCHANGED faults

\* A process whose local state no longer matters.
Forget(p) ==
  /\ view'    = [view EXCEPT ![p] = "OFF"]
  /\ after'   = [after EXCEPT ![p] = "cycle"]
  /\ remote'  = [remote EXCEPT ![p] = NoRemotes]
  /\ fills'   = [fills EXCEPT ![p] = NoFills]
  /\ results' = [results EXCEPT ![p] = {}]
  /\ seen'    = [seen EXCEPT ![p] = NoRows]
  /\ todo'    = [todo EXCEPT ![p] = {}]
  /\ clean'   = [clean EXCEPT ![p] = TRUE]
  /\ target'  = [target EXCEPT ![p] = NoCid]
  /\ answer'  = [answer EXCEPT ![p] = 0]

\* The session lock is released explicitly, or with the connection.
Unlock(p) == lock' = IF lock = p THEN Nobody ELSE lock

---------------------------------------------------------------------------
(* The operator, and what is left of the dashboard's requests (the control *)
(* rows themselves are BotControl's).                                      *)

\* stop, live/disable and reset-kill-switch leave the bot OFF; stop and
\* disable keep the kill switch.
OperatorStops ==
  /\ control \in {"LIVE", "KILLED"}
  /\ control' = "OFF"
  /\ UNCHANGED <<lock, tables, exchange, faults, pc, view, after, snapshot,
                 cursors, order>>

\* emergency-stop: the kill row, then cancel_bot_orders(force=True).
OperatorKills(p) ==
  /\ p \in Killers
  /\ pc[p] = "idle"
  /\ control' = "KILLED"
  /\ Goto(p, "scan")
  /\ view'  = [view EXCEPT ![p] = "KILLED"]
  /\ after' = [after EXCEPT ![p] = "request"]
  /\ UNCHANGED <<lock, tables, exchange, faults, snapshot, cursors, order>>

\* reconcile, live/preflight and live/enable begin with a reconciliation.
RequestReconcile(p) ==
  /\ p \in Reconcilers
  /\ pc[p] = "idle"
  /\ Overlap \/ lock = Nobody
  /\ lock' = IF Overlap THEN lock ELSE p
  /\ Goto(p, "orders")
  /\ after' = [after EXCEPT ![p] = "request"]
  /\ UNCHANGED <<control, tables, exchange, faults, view, snapshot, cursors,
                 order>>

---------------------------------------------------------------------------
(* run_live_cycle_from_env: the state is read first (OFF when the read     *)
(* fails), the lock is taken afterwards.                                   *)

BeginCycle(p) ==
  /\ p \in Workers
  /\ pc[p] = "idle"
  /\ \/ view' = [view EXCEPT ![p] = control] /\ NoFault
     \/ view' = [view EXCEPT ![p] = "OFF"] /\ Fault
  /\ Goto(p, "lock")
  /\ UNCHANGED <<control, lock, tables, exchange, after, snapshot, cursors,
                 order>>

\* Faulty: a lock every process gets.
LockForAll(p) ==
  /\ pc[p] = "lock"
  /\ lock' = p
  /\ Goto(p, "orders")
  /\ after' = [after EXCEPT ![p] = "cycle"]
  /\ UNCHANGED <<control, tables, exchange, faults, view, snapshot, cursors,
                 order>>

\* pg_try_advisory_lock does not wait: CYCLE_ALREADY_RUNNING.
TryLock(p) ==
  /\ pc[p] = "lock"
  /\ \/ /\ lock = Nobody
        /\ lock' = p
        /\ Goto(p, "orders")
        /\ after' = [after EXCEPT ![p] = "cycle"]
        /\ UNCHANGED <<view, snapshot, cursors, order>>
     \/ /\ lock # Nobody
        /\ Goto(p, "idle")
        /\ Forget(p)
        /\ UNCHANGED lock
  /\ UNCHANGED <<control, tables, exchange, faults>>

\* finish_cycle and release_cycle_lock; a request just returns.
Finish(p) ==
  /\ pc[p] = "finish"
  /\ Goto(p, "idle")
  /\ Unlock(p)
  /\ Forget(p)
  /\ UNCHANGED <<control, tables, exchange, faults>>

\* A read of the exchange or a database call raises (the cycle records
\* ERROR), or the process dies: what it has committed stays, its connection
\* and its lock go.
Abort(p) ==
  /\ pc[p] \notin {"idle", "finish"}
  /\ Fault
  /\ Goto(p, "idle")
  /\ Unlock(p)
  /\ Forget(p)
  /\ UNCHANGED <<control, tables, exchange>>

---------------------------------------------------------------------------
(* reconcile                                                               *)

ListOrders(p) ==
  /\ pc[p] = "orders"
  /\ remote' = [remote EXCEPT ![p] = exch]
  /\ clean'  = [clean EXCEPT ![p] = TRUE]
  /\ Goto(p, "fills")
  /\ UNCHANGED <<control, lock, tables, exchange, faults, view, after,
                 fills, results, seen, todo, order>>

\* list_fills, get_positions and get_settlements, one step: a result is
\* published hours after the last fill, so not both fall between two calls.
ListFills(p) ==
  /\ pc[p] = "fills"
  /\ fills'   = [fills EXCEPT ![p] = [c \in Cids |-> exch[c].filled]]
  /\ results' = [results EXCEPT ![p] = settled]
  /\ Goto(p, "locals")
  /\ UNCHANGED <<control, lock, tables, exchange, faults, view, after,
                 remote, cursors, order>>

\* list_reconcilable_orders; the rows it leaves out are "NONE" in seen.
ListLocals(p) ==
  LET listed == {c \in Cids : Reconcilable(local[c])} IN
  /\ pc[p] = "locals"
  /\ seen' = [seen EXCEPT ![p] =
                [c \in Cids |-> IF c \in listed THEN local[c] ELSE NoRow]]
  /\ todo' = [todo EXCEPT ![p] = listed]
  /\ Goto(p, "apply")
  /\ UNCHANGED <<control, lock, tables, exchange, faults, view, after,
                 snapshot, clean, order>>

\* The rows process p is reconciling (updated_locals).
Held(p) == {c \in Cids : seen[p][c].status # "NONE"}

\* One row is handled: process p keeps the row the update returned.
Handled(p, c, row) ==
  /\ seen' = [seen EXCEPT ![p][c] = row]
  /\ todo' = [todo EXCEPT ![p] = @ \ {c}]

\* The loop is over; the next one runs over every held row.
NextLoop(p, s) ==
  /\ todo[p] = {}
  /\ todo' = [todo EXCEPT ![p] = Held(p)]
  /\ Goto(p, s)

\* First loop: apply_remote_order, ambiguous_submission_proven_absent, or a
\* LOCAL_..._ORDER_MISSING_REMOTE mismatch, decided on the rows read before.
ApplyOne(p, c) ==
  /\ pc[p] = "apply"
  /\ c \in todo[p]
  /\ IF remote[p][c].status # "none"
     THEN /\ local' = [local EXCEPT ![c] = ApplyRemote(@, remote[p][c])]
          /\ Handled(p, c, local'[c])
          /\ UNCHANGED clean
     ELSE IF seen[p][c].status \in {"SUBMITTING", "UNKNOWN"}
     THEN /\ local' = [local EXCEPT ![c] = WithStatus(@, "PENDING")]
          /\ Handled(p, c, local'[c])
          /\ UNCHANGED clean
     ELSE /\ clean' = [clean EXCEPT ![p] = @ /\ ~MissingRemote(seen[p][c])]
          /\ Handled(p, c, seen[p][c])
          /\ UNCHANGED local
  /\ UNCHANGED <<control, lock, persisted, healthy, orphans, exchange, faults,
                 pc, view, after, snapshot, order>>

ApplyDone(p) ==
  /\ pc[p] = "apply"
  /\ NextLoop(p, "persist")
  /\ UNCHANGED <<control, lock, tables, exchange, faults, view, after,
                 snapshot, seen, clean, order>>

\* Faulty: the first fills recorded for an order are the only ones.
PersistFirst(p, c) ==
  /\ pc[p] = "persist"
  /\ c \in todo[p]
  /\ persisted' = [persisted EXCEPT ![c] =
                     IF seen[p][c].kid /\ @ = 0 THEN fills[p][c] ELSE @]
  /\ todo' = [todo EXCEPT ![p] = @ \ {c}]
  /\ UNCHANGED <<control, lock, local, healthy, orphans, exchange, faults, pc,
                 view, after, snapshot, seen, clean, order>>

\* record_fill, for the listed fills of one order: each is recorded once.
PersistOne(p, c) ==
  /\ pc[p] = "persist"
  /\ c \in todo[p]
  /\ persisted' = [persisted EXCEPT ![c] =
                     IF seen[p][c].kid THEN MaxOf(@, fills[p][c]) ELSE @]
  /\ todo' = [todo EXCEPT ![p] = @ \ {c}]
  /\ UNCHANGED <<control, lock, local, healthy, orphans, exchange, faults, pc,
                 view, after, snapshot, seen, clean, order>>

PersistDone(p) ==
  /\ pc[p] = "persist"
  /\ NextLoop(p, "refresh")
  /\ UNCHANGED <<control, lock, tables, exchange, faults, view, after,
                 snapshot, seen, clean, order>>

\* refresh_fill_totals: no update when the held row says the same already,
\* unless the average price or the fees (left out here) differ.
RefreshOne(p, c) ==
  LET held  == seen[p][c]
      fresh == RefreshFills(held, persisted[c])
  IN
  /\ pc[p] = "refresh"
  /\ c \in todo[p]
  /\ \/ /\ persisted[c] > 0
        /\ local' = [local EXCEPT ![c] = WithFills(@, fresh)]
        /\ Handled(p, c, local'[c])
     \/ /\ fresh = held
        /\ Handled(p, c, held)
        /\ UNCHANGED local
  /\ UNCHANGED <<control, lock, persisted, healthy, orphans, exchange, faults,
                 pc, view, after, snapshot, clean, order>>

RefreshDone(p) ==
  /\ pc[p] = "refresh"
  /\ NextLoop(p, "settle")
  /\ UNCHANGED <<control, lock, tables, exchange, faults, view, after,
                 snapshot, seen, clean, order>>

\* settle_order, or update_mark_to_market, which rewrites the status it
\* holds, or its MARK_TO_MARKET_UNAVAILABLE mismatch; nothing when nothing
\* is filled or the market has no bid.
SettleOne(p, c) ==
  /\ pc[p] = "settle"
  /\ c \in todo[p]
  /\ todo' = [todo EXCEPT ![p] = @ \ {c}]
  /\ \/ /\ seen[p][c].filled > 0
        /\ MarketOf[c] \in results[p]
        /\ local' = [local EXCEPT ![c] = SettledRow(@)]
        /\ UNCHANGED <<clean, faults>>
     \/ /\ seen[p][c].filled > 0
        /\ MarketOf[c] \notin results[p]
        /\ \/ /\ local' = [local EXCEPT ![c] = MarkedRow(@, seen[p][c])]
              /\ UNCHANGED <<clean, faults>>
           \/ /\ Fault
              /\ clean' = [clean EXCEPT ![p] = FALSE]
              /\ UNCHANGED local
     \/ /\ seen[p][c].filled = 0 \/ MarketOf[c] \notin results[p]
        /\ UNCHANGED <<local, clean, faults>>
  /\ UNCHANGED <<control, lock, persisted, healthy, orphans, exchange,
                 pc, view, after, snapshot, seen, order>>

SettleDone(p) ==
  /\ pc[p] = "settle"
  /\ todo[p] = {}
  /\ Goto(p, "record")
  /\ UNCHANGED <<control, lock, tables, exchange, faults, view, after,
                 snapshot, cursors, order>>

\* Bot orders on the exchange without a row in local_orders.
OrphansOf(p) == {c \in Cids : remote[p][c].status # "none" /\ c \notin Held(p)}

\* record_reconciliation, and the return to the caller: run_cycle goes on,
\* submit_one's own reconciliation ends the cycle, a request may enable.
RecordReconciliation(p) ==
  LET ok == clean[p] /\ OrphansOf(p) = {} IN
  /\ pc[p] = "record"
  /\ orphans' = OrphansOf(p)
  /\ healthy' = ok
  /\ Goto(p, CASE after[p] = "cycle"     -> "scan"
               [] after[p] = "ambiguous" -> "finish"
               [] after[p] = "request"   -> "enable")
  /\ clean'   = [clean EXCEPT ![p] = ok]
  /\ remote'  = [remote EXCEPT ![p] = NoRemotes]
  /\ fills'   = [fills EXCEPT ![p] = NoFills]
  /\ results' = [results EXCEPT ![p] = {}]
  /\ seen'    = [seen EXCEPT ![p] = NoRows]
  /\ UNCHANGED <<control, lock, local, persisted, exchange, faults, view,
                 after, todo, order>>

\* enablement_blockers finds none, as far as the model tells: the environment,
\* capital, data ages, the worker and the exchange may block besides.
MayEnable(p) == clean[p] /\ control # "KILLED"

\* live/enable after its reconciliation: LIVE when no gate blocks; a plain
\* reconcile or preflight request, or any other blocker, leaves it alone.
RequestEnable(p) ==
  /\ pc[p] = "enable"
  /\ control' \in {control} \cup
       (IF MayEnable(p) THEN {"LIVE"} ELSE {})
  /\ Goto(p, "finish")
  /\ UNCHANGED <<lock, tables, exchange, faults, view, after, snapshot,
                 cursors, order>>

---------------------------------------------------------------------------
(* cancel_bot_orders                                                       *)

\* list_active_orders, and the rows among them that may be canceled.
ListActive(p) ==
  /\ pc[p] = "scan"
  /\ seen' = [seen EXCEPT ![p] = local]
  /\ todo' = [todo EXCEPT ![p] = {c \in Cids : Cancelable(local[c])}]
  /\ Goto(p, "cancel")
  /\ UNCHANGED <<control, lock, tables, exchange, faults, view, after,
                 snapshot, clean, order>>

\* Faulty: a kill alone does not force the cancellations.
ForcedByStop(p) == after[p] = "stop"

\* Kill and automatic stops cancel every order; otherwise an order stays
\* while it has not expired and its price and edge are still acceptable.
Forced(p) == view[p] = "KILLED" \/ after[p] = "stop"

KeepOne(p, c) ==
  /\ pc[p] = "cancel"
  /\ c \in todo[p]
  /\ ~Forced(p)
  /\ todo' = [todo EXCEPT ![p] = @ \ {c}]
  /\ UNCHANGED <<control, lock, tables, exchange, faults, pc, view, after,
                 snapshot, seen, clean, order>>

\* client.cancel_order: the exchange cancels what rests and refuses the rest
\* (the loop goes on); an answer may be lost before or after it took effect.
CancelOne(p, c) ==
  LET exec == [exch EXCEPT ![c].status = "canceled"] IN
  /\ pc[p] = "cancel"
  /\ c \in todo[p]
  /\ todo' = [todo EXCEPT ![p] = @ \ {c}]
  /\ \/ /\ exch[c].status = "resting"
        /\ exch' = exec
        /\ Goto(p, "canceled")
        /\ target' = [target EXCEPT ![p] = c]
        /\ NoFault
     \/ /\ exch[c].status # "resting"
        /\ UNCHANGED <<exch, pc, target>>
        /\ NoFault
     \/ /\ exch' \in {exch} \cup
              (IF exch[c].status = "resting" THEN {exec} ELSE {})
        /\ Goto(p, "cancelUnknown")
        /\ target' = [target EXCEPT ![p] = c]
        /\ Fault
  /\ UNCHANGED <<control, lock, tables, settled, late, view, after, snapshot,
                 seen, clean, answer>>

\* Faulty: a cancellation without an answer has worked.
CancelPresumed(p) ==
  LET c == target[p] IN
  /\ pc[p] \in {"canceled", "cancelUnknown"}
  /\ local' = [local EXCEPT ![c] = CanceledRow(@)]
  /\ target' = [target EXCEPT ![p] = NoCid]
  /\ Goto(p, "cancel")
  /\ UNCHANGED <<control, lock, persisted, healthy, orphans, exchange, faults,
                 view, after, snapshot, cursors, answer>>

\* The row follows: CANCELED, or UNKNOWN after an ambiguous answer.
CancelRecorded(p) ==
  LET c == target[p] IN
  /\ pc[p] \in {"canceled", "cancelUnknown"}
  /\ local' = [local EXCEPT ![c] = IF pc[p] = "canceled"
                                  THEN CanceledRow(@)
                                  ELSE WithStatus(@, "UNKNOWN")]
  /\ target' = [target EXCEPT ![p] = NoCid]
  /\ Goto(p, "cancel")
  /\ UNCHANGED <<control, lock, persisted, healthy, orphans, exchange, faults,
                 view, after, snapshot, cursors, answer>>

\* The kill request and the automatic stop end here, and so does a cycle
\* that is killed or not LIVE; a LIVE cycle goes on to its gates.
CancelDone(p) ==
  /\ pc[p] = "cancel"
  /\ todo[p] = {}
  /\ seen' = [seen EXCEPT ![p] = NoRows]
  /\ Goto(p, IF after[p] = "cycle" /\ view[p] = "LIVE"
             THEN "gate" ELSE "finish")
  /\ UNCHANGED <<control, lock, tables, exchange, faults, view, after,
                 snapshot, todo, clean, order>>

---------------------------------------------------------------------------
(* enablement_blockers, global_risk_blockers and submit_one                *)

UnknownExists == \E c \in Cids : local[c].status = "UNKNOWN"

\* A blocker (capital, data age, worker, exchange and loss limits either
\* way) cancels every order and ends the cycle; PRODUCTION_ENVIRONMENT_
\* REQUIRED ends it alone; with none, the signals are tried.  The exposure
\* of the account, which submit_one looks at again, may block here too.
Gate(p) ==
  /\ pc[p] = "gate"
  /\ \/ /\ Goto(p, "scan")
        /\ after' = [after EXCEPT ![p] = "stop"]
        /\ UNCHANGED todo
     \/ /\ Goto(p, "finish")
        /\ UNCHANGED <<after, todo>>
     \/ /\ clean[p] /\ healthy /\ ~UnknownExists
        /\ Goto(p, "choose")
        /\ todo' = [todo EXCEPT ![p] = Cids]
        /\ UNCHANGED after
  /\ UNCHANGED <<control, lock, tables, exchange, faults, view, snapshot, seen,
                 clean, order>>

\* The next signal passes every check of submit_one, its price giving the
\* order c; validate_fixed_limits reads the whole table again.
SignalPasses(p, c) ==
  /\ pc[p] = "choose"
  /\ c \in todo[p]
  /\ MarketOf[c] \notin settled
  /\ healthy /\ ~UnknownExists
  /\ WithinLimits(local, c)
  /\ target' = [target EXCEPT ![p] = c]
  /\ todo' = [todo EXCEPT ![p] = @ \ {c}]
  /\ Goto(p, "intent")
  /\ UNCHANGED <<control, lock, tables, exchange, faults, view, after,
                 snapshot, seen, clean, answer>>

\* No signal passes, or the fresh balance is not eligible.
NoSignal(p) ==
  /\ pc[p] = "choose"
  /\ todo' = [todo EXCEPT ![p] = {}]
  /\ Goto(p, "finish")
  /\ UNCHANGED <<control, lock, tables, exchange, faults, view, after,
                 snapshot, seen, clean, order>>

\* create_intent: a new row, or the row of the same order, which is resumed
\* when it is PENDING and passed over otherwise.
CreateIntent(p) ==
  LET c == target[p] IN
  /\ pc[p] = "intent"
  /\ local' = IF local[c].status = "NONE"
              THEN [local EXCEPT ![c] = NewIntent] ELSE local
  /\ Goto(p, IF local[c].status \in {"NONE", "PENDING"}
             THEN "submit" ELSE "choose")
  /\ UNCHANGED <<control, lock, persisted, healthy, orphans, exchange, faults,
                 view, after, snapshot, cursors, order>>

\* submission_started
StartSubmission(p) ==
  /\ pc[p] = "submit"
  /\ local' = [local EXCEPT ![target[p]] = WithStatus(@, "SUBMITTING")]
  /\ Goto(p, "create")
  /\ UNCHANGED <<control, lock, persisted, healthy, orphans, exchange, faults,
                 view, after, snapshot, cursors, order>>

\* An accepted order rests after f lots filled at once.
Placed(f) == [status |-> IF f = Units THEN "executed" ELSE "resting",
              filled |-> f]

\* Faulty: a create without an answer is taken to be refused.
CreateOrRefuse(p) ==
  LET c == target[p] IN
  /\ pc[p] = "create"
  /\ exch[c].status = "none"
  /\ exch' \in {exch} \cup {[exch EXCEPT ![c] = Placed(f)] : f \in Lots}
  /\ Goto(p, "rejected")
  /\ Fault
  /\ UNCHANGED <<control, lock, tables, settled, late, view, after, snapshot,
                 cursors, order>>

\* client.create_order.  The exchange refuses a client order id it has (409,
\* an ambiguous answer) and, at will, any other (a closed market always); an
\* answer may be lost before or after the order was accepted.
CreateOrder(p) ==
  LET c == target[p] IN
  /\ pc[p] = "create"
  /\ \/ /\ exch[c].status # "none"
        /\ Goto(p, "ambiguous")
        /\ UNCHANGED <<exch, late, answer, faults>>
     \/ /\ exch[c].status = "none"
        /\ Goto(p, "rejected")
        /\ UNCHANGED <<exch, late, answer, faults>>
     \/ /\ exch[c].status = "none"
        /\ MarketOf[c] \notin settled
        /\ \E f \in Lots :
             /\ exch' = [exch EXCEPT ![c] = Placed(f)]
             /\ \/ /\ Goto(p, "ack")
                   /\ answer' = [answer EXCEPT ![p] = f]
                   /\ NoFault
                \/ Goto(p, "ambiguous") /\ UNCHANGED answer /\ Fault
        /\ UNCHANGED late
     \/ /\ Fault
        /\ Goto(p, "ambiguous")
        /\ late' = IF LateDelivery /\ exch[c].status = "none"
                   THEN late \cup {c} ELSE late
        /\ UNCHANGED <<exch, answer>>
  /\ UNCHANGED <<control, lock, tables, settled, view, after, snapshot, cursors,
                 target>>

\* submission_acknowledged; at most one submission per cycle.
Acknowledge(p) ==
  /\ pc[p] = "ack"
  /\ local' = [local EXCEPT ![target[p]] = Acknowledged(answer[p])]
  /\ Goto(p, "finish")
  /\ UNCHANGED <<control, lock, persisted, healthy, orphans, exchange, faults,
                 view, after, snapshot, cursors, order>>

\* submission_ambiguous, followed by an immediate reconcile.
AmbiguousRecorded(p) ==
  /\ pc[p] = "ambiguous"
  /\ local' = [local EXCEPT ![target[p]] = WithStatus(@, "UNKNOWN")]
  /\ after' = [after EXCEPT ![p] = "ambiguous"]
  /\ todo'  = [todo EXCEPT ![p] = {}]
  /\ Goto(p, "orders")
  /\ target' = [target EXCEPT ![p] = NoCid]
  /\ UNCHANGED <<control, lock, persisted, healthy, orphans, exchange, faults,
                 view, snapshot, seen, clean, answer>>

\* submission_rejected
RejectedRecorded(p) ==
  /\ pc[p] = "rejected"
  /\ local' = [local EXCEPT ![target[p]] = WithStatus(@, "REJECTED")]
  /\ Goto(p, "finish")
  /\ UNCHANGED <<control, lock, persisted, healthy, orphans, exchange, faults,
                 view, after, snapshot, cursors, order>>

---------------------------------------------------------------------------
(* The exchange                                                            *)

ExchangeOnly ==
  UNCHANGED <<control, lock, tables, faults, pc, view, after, snapshot, cursors,
              order>>

Fill(c) ==
  /\ exch[c].status = "resting"
  /\ exch' = [exch EXCEPT ![c] = Placed(exch[c].filled + 1)]
  /\ UNCHANGED <<settled, late>>
  /\ ExchangeOnly

\* Expiration time, close of the market, cancel_order_on_pause, the owner.
Expire(c) ==
  /\ exch[c].status = "resting"
  /\ exch' = [exch EXCEPT ![c].status = "canceled"]
  /\ UNCHANGED <<settled, late>>
  /\ ExchangeOnly

\* The result of a closed market is published.
Settle(m) ==
  /\ m \notin settled
  /\ \A c \in Cids : MarketOf[c] = m => exch[c].status # "resting"
  /\ settled' = settled \cup {m}
  /\ UNCHANGED <<exch, late>>
  /\ ExchangeOnly

\* A create its client gave up on arrives after all.
Deliver(c) ==
  /\ c \in late
  /\ late' = late \ {c}
  /\ exch' = IF exch[c].status = "none" /\ MarketOf[c] \notin settled
             THEN [exch EXCEPT ![c] = Placed(0)] ELSE exch
  /\ UNCHANGED settled
  /\ ExchangeOnly

---------------------------------------------------------------------------
Reconcile(p) ==
  \/ ListOrders(p)
  \/ ListFills(p)
  \/ ListLocals(p)
  \/ \E c \in Cids : ApplyOne(p, c)
  \/ ApplyDone(p)
  \/ \E c \in Cids : PersistOne(p, c)
  \/ PersistDone(p)
  \/ \E c \in Cids : RefreshOne(p, c)
  \/ RefreshDone(p)
  \/ \E c \in Cids : SettleOne(p, c)
  \/ SettleDone(p)
  \/ RecordReconciliation(p)

CancelBotOrders(p) ==
  \/ ListActive(p)
  \/ \E c \in Cids : KeepOne(p, c)
  \/ \E c \in Cids : CancelOne(p, c)
  \/ CancelRecorded(p)
  \/ CancelDone(p)

SubmitOne(p) ==
  \/ Gate(p)
  \/ \E c \in Cids : SignalPasses(p, c)
  \/ NoSignal(p)
  \/ CreateIntent(p)
  \/ StartSubmission(p)
  \/ CreateOrder(p)
  \/ Acknowledge(p)
  \/ AmbiguousRecorded(p)
  \/ RejectedRecorded(p)

\* What a process does once it has begun.
Continue(p) ==
  \/ TryLock(p)
  \/ Reconcile(p)
  \/ RequestEnable(p)
  \/ CancelBotOrders(p)
  \/ SubmitOne(p)
  \/ Finish(p)

ExchangeStep ==
  \/ \E c \in Cids : Fill(c) \/ Expire(c) \/ Deliver(c)
  \/ \E m \in Markets : Settle(m)

Next ==
  \/ OperatorStops
  \/ ExchangeStep
  \/ \E p \in Procs :
       \/ OperatorKills(p)
       \/ RequestReconcile(p)
       \/ BeginCycle(p)
       \/ Continue(p)
       \/ Abort(p)

Spec == Init /\ [][Next]_vars

\* The scheduler starts a cycle again and again, and what has begun runs on
\* until it ends or dies; nothing is owed by the operator or the exchange.
Fairness ==
  \A p \in Workers : WF_vars(BeginCycle(p)) /\ WF_vars(Continue(p))

FairSpec == Spec /\ Fairness

---------------------------------------------------------------------------
(* Properties                                                              *)

\* Types of the tables, the exchange and every process's local state.
TypeOK ==
  /\ control \in {"OFF", "LIVE", "KILLED"}
  /\ lock \in Procs \cup {Nobody}
  /\ local \in [Cids -> Row]
  /\ persisted \in [Cids -> Lots]
  /\ healthy \in BOOLEAN
  /\ orphans \subseteq Cids
  /\ exch \in [Cids -> Remote]
  /\ settled \subseteq Markets
  /\ late \subseteq Cids
  /\ faults \in Nat
  /\ pc \in [Procs -> Phases]
  /\ view \in [Procs -> {"OFF", "LIVE", "KILLED"}]
  /\ after \in [Procs -> Returns]
  /\ remote \in [Procs -> [Cids -> Remote]]
  /\ fills \in [Procs -> [Cids -> Lots]]
  /\ results \in [Procs -> SUBSET Markets]
  /\ seen \in [Procs -> [Cids -> Row]]
  /\ todo \in [Procs -> SUBSET Cids]
  /\ clean \in [Procs -> BOOLEAN]
  /\ target \in [Procs -> Cids \cup {NoCid}]
  /\ answer \in [Procs -> Lots]

\* Whatever crashes or gets lost, an order the exchange has is never one the
\* risk limits overlook: its row is in a status risk_state counts, or
\* settled - not absent, PENDING (retried later, worth nothing) or REJECTED.
Covered ==
  \A c \in Cids :
    exch[c].status # "none" => local[c].status \in Counted \cup {"SETTLED"}

\* A new order reaches the exchange only from the holder of the cycle lock,
\* in a cycle that read LIVE, while no other submission's fate is open -
\* not even that of a cycle that died between SUBMITTING and its answer.
SubmissionDiscipline ==
  [][\A c \in Cids :
       exch[c].status = "none" /\ exch'[c].status # "none" =>
         /\ lock \in Workers
         /\ view[lock] = "LIVE"
         /\ \A d \in Cids : local[d].status = "SUBMITTING" <=> d = c]_vars

\* An order that arrived after the failure of its submission was recorded as a
\* rejection: nothing the bot does looks at it again.
RejectedStray(c) == LateDelivery /\ local[c].status = "REJECTED"

\* A row the bot regards as over is not still resting on the exchange, where
\* no emergency stop would look for it.
ClosedIsClosed ==
  \A c \in Cids :
    local[c].status \in {"FILLED", "CANCELED", "REJECTED", "SETTLED"}
      => exch[c].status # "resting" \/ RejectedStray(c)

\* A position is settled on all the lots it really holds: reconcile reads
\* orders, fills and results one after the other, and books once.
SettledInFull ==
  \A c \in Cids :
    local[c].status = "SETTLED" =>
      local[c].filled = exch[c].filled /\ MarketOf[c] \in settled

\* Cycles never reopen a settled row: only the cycle lock keeps one worker's
\* unconditional update off a row another has settled since it was read.  The
\* emergency stop, which has no lock, may record its cancellation over it.
SettledIsFinal ==
  [][\A c \in Cids :
       local[c].status = "SETTLED" /\ local'[c].status # "SETTLED" =>
         \E k \in Killers : /\ pc[k] \in {"canceled", "cancelUnknown"}
                            /\ target[k] = c]_vars

\* "maximum $1.00 bot exposure per market; $2.00 per event/date; $5.00 total"
\* (DECISIONS.md), of what the account really commits.
Unsettled(orders) == {c \in orders : MarketOf[c] \notin settled}

ExposureWithinLimits ==
  \A scope \in Scopes : Committed(exch, Unsettled(scope.orders)) <= scope.max

\* Once killed, and unless the kill is reset, the bot's resting orders end:
\* also those whose acknowledgement or cancellation got lost, and those a
\* cycle that began before the kill still submits.
KilledDrains ==
  control = "KILLED" ~>
    \/ control # "KILLED"
    \/ \A c \in Cids : exch[c].status # "resting" \/ RejectedStray(c)

\* An order the exchange has is found by a reconciliation sooner or later,
\* even one that arrived after its submission was taken to have failed and
\* its row went back to PENDING; a row taken to be REJECTED is not looked at.
StrayFound ==
  \A c \in Cids :
    exch[c].status # "none"
      ~> local[c].status \in Counted \cup {"SETTLED", "REJECTED"}

\* The fate of every submission is established, whichever cycle died.
AmbiguityResolved ==
  \A c \in Cids :
    local[c].status \in {"SUBMITTING", "UNKNOWN"}
      ~> local[c].status \notin {"SUBMITTING", "UNKNOWN"}
=============================================================================
