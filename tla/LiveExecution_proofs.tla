----------------------- MODULE LiveExecution_proofs -----------------------
(***************************************************************************)
(* Proofs about LiveExecution, for every set of orders, markets, workers,  *)
(* requests and any number of faults: first that an order the exchange has *)
(* is covered by a row and submitted alone, then that what is settled      *)
(* stays settled, in full, and what is over is over, last that the limits  *)
(* on the exposure bound what the account commits.                         *)
(***************************************************************************)
EXTENDS LiveExecution, FoldLemmas

Reconciling == {"orders", "fills", "locals", "apply", "persist", "refresh",
                "settle", "record"}
Submitting  == {"choose", "intent", "submit", "create", "ack", "ambiguous",
                "rejected"}

\* Which statements each kind of process executes, and what it returns to.
PhaseOK ==
  \A p \in Procs :
    /\ p \in Workers =>
         /\ pc[p] # "enable"
         /\ after[p] # "request"
         /\ pc[p] \in Reconciling => after[p] \in {"cycle", "ambiguous"}
    /\ p \in Reconcilers =>
         pc[p] \in Reconciling \cup {"idle", "enable", "finish"}
    /\ p \in Killers =>
         pc[p] \in {"idle", "scan", "cancel", "canceled", "cancelUnknown",
                    "finish"}
    /\ p \notin Workers /\ pc[p] # "idle" => after[p] = "request"
    /\ pc[p] \in {"canceled", "cancelUnknown", "intent", "submit", "create",
                  "ack", "ambiguous", "rejected"} => target[p] \in Cids
    /\ pc[p] \in {"gate"} \cup Submitting => view[p] = "LIVE"

\* A resting order is not completely filled.
RestingOpen ==
  \A c \in Cids : exch[c].status = "resting" => exch[c].filled < Units

TypeInv == TypeOK /\ PhaseOK /\ RestingOpen

\* One process at a time executes a cycle or a request's reconciliation.
LockHeld ==
  \A p \in Workers \cup Reconcilers :
    pc[p] \notin {"idle", "lock"} => lock = p

\* A reconciliation's listing shows every order the exchange has: none can
\* arrive while the reconciliation holds the lock.
ListedAll ==
  /\ late = {}
  /\ \A p \in Procs, c \in Cids :
       remote[p][c].status # "none" => exch[c].status # "none"
  /\ \A p \in Procs, c \in Cids :
       /\ pc[p] \in Reconciling \ {"orders"}
       /\ exch[c].status # "none"
       => remote[p][c].status # "none"

\* A reconciliation loops over the rows it has read, and a row it has handled
\* has a status the limits count when the exchange has the order.
Looping == {"apply", "persist", "refresh", "settle"}

HandledCounted ==
  \A p \in Procs, c \in Cids :
    pc[p] \in Looping =>
      /\ c \in todo[p] => seen[p][c].status # "NONE"
      /\ (pc[p] # "apply" \/ c \notin todo[p]) /\ seen[p][c].status # "NONE" =>
           /\ seen[p][c].status # "SUBMITTING"
           /\ exch[c].status # "none"
                => seen[p][c].status \in Counted \cup {"SETTLED"}

\* The rows still SUBMITTING: those of dead cycles that this reconciliation
\* has yet to handle, or the one being submitted.
SubmittingRows ==
  \A p \in Workers, c \in Cids :
    local[c].status = "SUBMITTING" =>
      /\ pc[p] = "apply" =>
           c \in todo[p] /\ seen[p][c].status = "SUBMITTING"
      /\ pc[p] \notin {"persist", "refresh", "settle", "record", "scan",
                       "cancel", "canceled", "cancelUnknown", "gate",
                       "choose", "intent", "submit"}
      /\ pc[p] \in {"create", "ack", "ambiguous", "rejected"} => c = target[p]

\* The row of an order about to be created, and the order of an answer.
TargetRow ==
  \A p \in Workers :
    /\ pc[p] = "create" /\ exch[target[p]].status = "none"
         => local[target[p]].status = "SUBMITTING"
    /\ pc[p] = "rejected" => exch[target[p]].status = "none"
    /\ pc[p] = "ack" => exch[target[p]].status # "none"

\* A cancellation concerns an order the exchange has.
Known == {"RESTING", "PARTIAL", "CANCELED"}

CancelsKnown ==
  /\ \A c \in Cids : local[c].status \in Known => exch[c].status # "none"
  /\ \A p \in Procs, c \in Cids :
       seen[p][c].status \in Known => exch[c].status # "none"
  /\ \A p \in Procs :
       /\ pc[p] \in {"cancel", "canceled", "cancelUnknown"}
            => \A c \in todo[p] : exch[c].status # "none"
       /\ pc[p] \in {"canceled", "cancelUnknown"}
            => exch[target[p]].status # "none"

IInv ==
  /\ TypeInv
  /\ LockHeld
  /\ ListedAll
  /\ HandledCounted
  /\ SubmittingRows
  /\ TargetRow
  /\ CancelsKnown
  /\ Covered

---------------------------------------------------------------------------
(* The row operators                                                       *)

\* What the row operators return is a row of the table (LiveOrders).
LEMMA RowTypes ==
  /\ NoRow \in Row
  /\ NewIntent \in Row
  /\ \A row \in Row, s \in Statuses : WithStatus(row, s) \in Row
  /\ \A row \in Row : CanceledRow(row) \in Row
  /\ \A f \in Lots : Acknowledged(f) \in Row
<1> USE UnitsAssumption DEF Row, Lots
<1>1. NoRow \in Row
  BY DEF NoRow, Statuses
<1>2. NewIntent \in Row
  BY DEF NewIntent, Statuses
<1>3. \A row \in Row, s \in Statuses : WithStatus(row, s) \in Row
  BY DEF WithStatus
<1>4. \A row \in Row : CanceledRow(row) \in Row
  <2> SUFFICES ASSUME NEW row \in Row PROVE CanceledRow(row) \in Row
    OBVIOUS
  <2>1. "CANCELED" \in Statuses /\ 0 \in 0..Units
    BY DEF Statuses
  <2>2. QED
    BY <2>1 DEF CanceledRow
<1>5. \A f \in Lots : Acknowledged(f) \in Row
  BY DEF Acknowledged, Statuses
<1>6. QED
  BY <1>1, <1>2, <1>3, <1>4, <1>5

\* A listed order gives its row a status that the limits count.
LEMMA ApplyRemoteType ==
  ASSUME NEW row \in Row, NEW rem \in Remote, rem.status # "none"
  PROVE  /\ ApplyRemote(row, rem) \in Row
         /\ ApplyRemote(row, rem).status
              \in {"RESTING", "PARTIAL", "FILLED", "CANCELED"}
  BY UnitsAssumption
     DEF Row, Remote, ApplyRemote, StatusOf, Lots, Statuses

\* refresh_fill_totals keeps a row a row.
LEMMA RefreshFillsType ==
  ASSUME NEW row \in Row, NEW held \in Row, NEW total \in Lots
  PROVE  WithFills(row, RefreshFills(held, total)) \in Row
<1> DEFINE fresh == RefreshFills(held, total)
<1> USE UnitsAssumption
<1>1. RefreshedStatus(held, total) \in Statuses
  BY DEF RefreshedStatus, Row, Statuses
<1>2. 0 \in Lots /\ Units - total \in Lots
  BY DEF Lots
<1>3. fresh.status \in Statuses /\ fresh.filled \in Lots
        /\ fresh.remaining \in Lots
  BY <1>1, <1>2 DEF RefreshFills, Row
<1>4. QED
  BY <1>3 DEF WithFills, Row

\* What the exchange makes of a create is one of its orders.
LEMMA RemoteTypes ==
  /\ NoRemote \in Remote
  /\ \A f \in Lots : Placed(f) \in Remote /\ Placed(f).status # "none"
  /\ 0 \in Lots
  BY UnitsAssumption DEF NoRemote, Remote, Placed, Lots

---------------------------------------------------------------------------
(* Types                                                                   *)

\* A process that forgets its local state keeps it well typed.
LEMMA ForgetType ==
  ASSUME TypeOK, NEW p \in Procs, Forget(p)
  PROVE  /\ view' \in [Procs -> {"OFF", "LIVE", "KILLED"}]
         /\ after' \in [Procs -> Returns]
         /\ remote' \in [Procs -> [Cids -> Remote]]
         /\ fills' \in [Procs -> [Cids -> Lots]]
         /\ results' \in [Procs -> SUBSET Markets]
         /\ seen' \in [Procs -> [Cids -> Row]]
         /\ todo' \in [Procs -> SUBSET Cids]
         /\ clean' \in [Procs -> BOOLEAN]
         /\ target' \in [Procs -> Cids \cup {NoCid}]
         /\ answer' \in [Procs -> Lots]
<1>1. NoRemotes \in [Cids -> Remote] /\ NoFills \in [Cids -> Lots]
        /\ NoRows \in [Cids -> Row] /\ "cycle" \in Returns
  BY RowTypes, RemoteTypes DEF NoRemotes, NoFills, NoRows, Returns
<1>2. QED
  BY <1>1, RemoteTypes DEF TypeOK, Forget

\* A row handled in a loop of reconcile is kept as a row.
LEMMA HandledType ==
  ASSUME TypeOK, NEW p \in Procs, NEW c \in Cids, NEW row \in Row,
         Handled(p, c, row)
  PROVE  /\ seen' \in [Procs -> [Cids -> Row]]
         /\ todo' \in [Procs -> SUBSET Cids]
  BY DEF TypeOK, Handled

\* Every step of a reconciliation keeps the types.
LEMMA ReconcileType ==
  ASSUME TypeInv, NEW p \in Procs, Reconcile(p)
  PROVE  TypeOK'
<1> USE DEF TypeInv, TypeOK, tables, exchange, snapshot, cursors, order
<1>1. CASE ListOrders(p)
  BY <1>1 DEF ListOrders, Goto, Phases
<1>2. CASE ListFills(p)
  <2>1. [c \in Cids |-> exch[c].filled] \in [Cids -> Lots]
    BY DEF Remote
  <2>2. fills' \in [Procs -> [Cids -> Lots]]
    BY <1>2, <2>1 DEF ListFills
  <2>3. QED
    BY <1>2, <2>2 DEF ListFills, Goto, Phases
<1>3. CASE ListLocals(p)
  BY <1>3, RowTypes DEF ListLocals, Goto, Phases
<1>4. ASSUME NEW c \in Cids, ApplyOne(p, c) PROVE TypeOK'
  <2>1. local' \in [Cids -> Row]
    <3>1. CASE remote[p][c].status # "none"
      <4>1. ApplyRemote(local[c], remote[p][c]) \in Row
        BY <3>1, ApplyRemoteType
      <4>2. QED
        BY <1>4, <3>1, <4>1 DEF ApplyOne
    <3>2. CASE remote[p][c].status = "none"
      <4>1. WithStatus(local[c], "PENDING") \in Row
        BY RowTypes DEF Statuses
      <4>2. QED
        BY <1>4, <3>2, <4>1 DEF ApplyOne
    <3>3. QED
      BY <3>1, <3>2
  <2>2. local'[c] \in Row /\ seen[p][c] \in Row
    BY <2>1
  <2>3. seen' \in [Procs -> [Cids -> Row]] /\ todo' \in [Procs -> SUBSET Cids]
    BY <1>4, <2>2, HandledType DEF ApplyOne
  <2>4. clean' \in [Procs -> BOOLEAN]
    BY <1>4 DEF ApplyOne
  <2>5. QED
    BY <1>4, <2>1, <2>3, <2>4 DEF ApplyOne
<1>5. CASE ApplyDone(p)
  BY <1>5 DEF ApplyDone, NextLoop, Held, Goto, Phases
<1>6. ASSUME NEW c \in Cids, PersistOne(p, c) PROVE TypeOK'
  <2>1. persisted' \in [Cids -> Lots]
    BY <1>6 DEF PersistOne, MaxOf
  <2>2. QED
    BY <1>6, <2>1 DEF PersistOne
<1>7. CASE PersistDone(p)
  BY <1>7 DEF PersistDone, NextLoop, Held, Goto, Phases
<1>8. ASSUME NEW c \in Cids, RefreshOne(p, c) PROVE TypeOK'
  <2>1. local' \in [Cids -> Row]
    <3>1. WithFills(local[c], RefreshFills(seen[p][c], persisted[c])) \in Row
      BY RefreshFillsType
    <3>2. QED
      BY <1>8, <3>1 DEF RefreshOne
  <2>2. local'[c] \in Row /\ seen[p][c] \in Row
    BY <2>1
  <2>3. seen' \in [Procs -> [Cids -> Row]] /\ todo' \in [Procs -> SUBSET Cids]
    BY <1>8, <2>2, HandledType DEF RefreshOne
  <2>4. QED
    BY <1>8, <2>1, <2>3 DEF RefreshOne
<1>9. CASE RefreshDone(p)
  BY <1>9 DEF RefreshDone, NextLoop, Held, Goto, Phases
<1>10. ASSUME NEW c \in Cids, SettleOne(p, c) PROVE TypeOK'
  <2>1. local' \in [Cids -> Row]
    <3>1. "SETTLED" \in Statuses /\ seen[p][c].status \in Statuses
      BY DEF Row, Statuses
    <3>2. /\ WithStatus(local[c], "SETTLED") \in Row
          /\ WithStatus(local[c], seen[p][c].status) \in Row
      BY <3>1, RowTypes
    <3>3. QED
      BY <1>10, <3>2 DEF SettleOne, SettledRow, MarkedRow
  <2>2. clean' \in [Procs -> BOOLEAN]
    BY <1>10 DEF SettleOne
  <2>3. faults' \in Nat
    BY <1>10 DEF SettleOne, Fault
  <2>4. QED
    BY <1>10, <2>1, <2>2, <2>3 DEF SettleOne
<1>11. CASE SettleDone(p)
  BY <1>11 DEF SettleDone, Goto, Phases
<1>12. CASE RecordReconciliation(p)
  <2>1. after[p] \in {"cycle", "ambiguous", "request"}
    BY <1>12 DEF PhaseOK, RecordReconciliation, Reconciling
  <2>2. pc' \in [Procs -> Phases]
    BY <1>12, <2>1 DEF RecordReconciliation, Goto, Phases
  <2>3. orphans' \subseteq Cids
    BY <1>12 DEF RecordReconciliation, OrphansOf
  <2>4. healthy' \in BOOLEAN /\ clean' \in [Procs -> BOOLEAN]
    BY <1>12 DEF RecordReconciliation
  <2>5. NoRemotes \in [Cids -> Remote] /\ NoFills \in [Cids -> Lots]
          /\ NoRows \in [Cids -> Row]
    BY RowTypes, RemoteTypes DEF NoRemotes, NoFills, NoRows
  <2>6. QED
    BY <1>12, <2>2, <2>3, <2>4, <2>5 DEF RecordReconciliation
<1>13. QED
  BY <1>1, <1>2, <1>3, <1>4, <1>5, <1>6, <1>7, <1>8, <1>9, <1>10, <1>11,
     <1>12 DEF Reconcile

\* Every step of cancel_bot_orders keeps the types.
LEMMA CancelType ==
  ASSUME TypeInv, NEW p \in Procs, CancelBotOrders(p)
  PROVE  TypeOK'
<1> USE DEF TypeInv, TypeOK, tables, exchange, snapshot, cursors, order
<1>1. CASE ListActive(p)
  BY <1>1 DEF ListActive, Goto, Phases
<1>2. ASSUME NEW c \in Cids, KeepOne(p, c) PROVE TypeOK'
  BY <1>2 DEF KeepOne
<1>3. ASSUME NEW c \in Cids, CancelOne(p, c) PROVE TypeOK'
  <2>1. exch' \in [Cids -> Remote]
    <3>1. [exch EXCEPT ![c].status = "canceled"] \in [Cids -> Remote]
      BY DEF Remote
    <3>2. QED
      BY <1>3, <3>1 DEF CancelOne
  <2>2. pc' \in [Procs -> Phases]
    BY <1>3 DEF CancelOne, Goto, Phases
  <2>3. target' \in [Procs -> Cids \cup {NoCid}]
    BY <1>3 DEF CancelOne
  <2>4. todo' \in [Procs -> SUBSET Cids]
    BY <1>3 DEF CancelOne
  <2>5. faults' \in Nat
    BY <1>3 DEF CancelOne, Fault, NoFault
  <2>6. QED
    BY <1>3, <2>1, <2>2, <2>3, <2>4, <2>5 DEF CancelOne
<1>4. CASE CancelRecorded(p)
  <2>1. target[p] \in Cids
    BY <1>4 DEF CancelRecorded, PhaseOK
  <2>2. /\ CanceledRow(local[target[p]]) \in Row
        /\ WithStatus(local[target[p]], "UNKNOWN") \in Row
    BY <2>1, RowTypes DEF Statuses
  <2>3. local' \in [Cids -> Row]
    BY <1>4, <2>2 DEF CancelRecorded
  <2>4. QED
    BY <1>4, <2>3 DEF CancelRecorded, Goto, Phases
<1>5. CASE CancelDone(p)
  <2>1. NoRows \in [Cids -> Row]
    BY RowTypes DEF NoRows
  <2>2. QED
    BY <1>5, <2>1 DEF CancelDone, Goto, Phases
<1>6. QED
  BY <1>1, <1>2, <1>3, <1>4, <1>5 DEF CancelBotOrders

\* Every step of a submission keeps the types.
LEMMA SubmitType ==
  ASSUME TypeInv, NEW p \in Procs, SubmitOne(p)
  PROVE  TypeOK'
<1> USE DEF TypeInv, TypeOK, tables, exchange, snapshot, cursors, order
<1>1. CASE Gate(p)
  <2>1. pc' \in [Procs -> Phases]
    <3>1. \E s \in {"scan", "finish", "choose"} : pc' = [pc EXCEPT ![p] = s]
      BY <1>1 DEF Gate, Goto
    <3>2. QED
      BY <3>1 DEF Phases
  <2>2. after' \in [Procs -> Returns]
    BY <1>1 DEF Gate, Returns
  <2>3. todo' \in [Procs -> SUBSET Cids]
    BY <1>1 DEF Gate
  <2>4. QED
    BY <1>1, <2>1, <2>2, <2>3 DEF Gate
<1>2. ASSUME NEW c \in Cids, SignalPasses(p, c) PROVE TypeOK'
  BY <1>2 DEF SignalPasses, Goto, Phases
<1>3. CASE NoSignal(p)
  BY <1>3 DEF NoSignal, Goto, Phases
<1>4. CASE CreateIntent(p)
  BY <1>4, RowTypes DEF CreateIntent, Goto, Phases
<1>5. CASE StartSubmission(p)
  <2>1. WithStatus(local[target[p]], "SUBMITTING") \in Row
    BY <1>5, RowTypes DEF StartSubmission, PhaseOK, Statuses
  <2>2. QED
    BY <1>5, <2>1 DEF StartSubmission, Goto, Phases
<1>6. CASE CreateOrder(p)
  <2>1. exch' \in [Cids -> Remote]
    BY <1>6, RemoteTypes DEF CreateOrder
  <2>2. pc' \in [Procs -> Phases]
    <3>1. \E s \in {"ambiguous", "rejected", "ack"} : pc' = [pc EXCEPT ![p] = s]
      BY <1>6 DEF CreateOrder, Goto
    <3>2. QED
      BY <3>1 DEF Phases
  <2>3. late' \subseteq Cids
    BY <1>6 DEF CreateOrder, PhaseOK
  <2>4. answer' \in [Procs -> Lots]
    BY <1>6 DEF CreateOrder
  <2>5. faults' \in Nat
    BY <1>6 DEF CreateOrder, Fault, NoFault
  <2>6. QED
    BY <1>6, <2>1, <2>2, <2>3, <2>4, <2>5 DEF CreateOrder
<1>7. CASE Acknowledge(p)
  BY <1>7, RowTypes DEF Acknowledge, Goto, Phases
<1>8. CASE AmbiguousRecorded(p)
  <2>1. WithStatus(local[target[p]], "UNKNOWN") \in Row
    BY <1>8, RowTypes DEF AmbiguousRecorded, PhaseOK, Statuses
  <2>2. QED
    BY <1>8, <2>1 DEF AmbiguousRecorded, Goto, Phases, Returns
<1>9. CASE RejectedRecorded(p)
  <2>1. WithStatus(local[target[p]], "REJECTED") \in Row
    BY <1>9, RowTypes DEF RejectedRecorded, PhaseOK, Statuses
  <2>2. QED
    BY <1>9, <2>1 DEF RejectedRecorded, Goto, Phases
<1>10. QED
  BY <1>1, <1>2, <1>3, <1>4, <1>5, <1>6, <1>7, <1>8, <1>9 DEF SubmitOne

\* Every step of the exchange keeps the types.
LEMMA ExchangeType ==
  ASSUME TypeInv, ExchangeStep
  PROVE  TypeOK'
<1> USE DEF TypeInv, TypeOK, ExchangeOnly, tables, snapshot, cursors, order
<1>1. ASSUME NEW c \in Cids, Fill(c) PROVE TypeOK'
  <2>1. exch[c].filled + 1 \in Lots
    BY <1>1, UnitsAssumption DEF Fill, RestingOpen, Remote, Lots
  <2>2. QED
    BY <1>1, <2>1, RemoteTypes DEF Fill
<1>2. ASSUME NEW c \in Cids, Expire(c) PROVE TypeOK'
  <2>1. [exch EXCEPT ![c].status = "canceled"] \in [Cids -> Remote]
    BY DEF Remote
  <2>2. QED
    BY <1>2, <2>1 DEF Expire
<1>3. ASSUME NEW c \in Cids, Deliver(c) PROVE TypeOK'
  BY <1>3, RemoteTypes DEF Deliver
<1>4. ASSUME NEW m \in Markets, Settle(m) PROVE TypeOK'
  BY <1>4 DEF Settle
<1>5. QED
  BY <1>1, <1>2, <1>3, <1>4 DEF ExchangeStep

\* Every step keeps the types.
LEMMA TypeStep ==
  ASSUME TypeInv, [Next]_vars
  PROVE  TypeOK'
<1> USE DEF TypeInv, TypeOK, tables, exchange, snapshot, cursors, order
<1>1. CASE OperatorStops
  BY <1>1 DEF OperatorStops
<1>2. ASSUME NEW p \in Procs, OperatorKills(p) PROVE TypeOK'
  BY <1>2 DEF OperatorKills, Goto, Phases, Returns
<1>3. ASSUME NEW p \in Procs, RequestReconcile(p) PROVE TypeOK'
  BY <1>3 DEF RequestReconcile, Goto, Phases, Returns
<1>4. ASSUME NEW p \in Procs, BeginCycle(p) PROVE TypeOK'
  <2>1. view' \in [Procs -> {"OFF", "LIVE", "KILLED"}]
    BY <1>4 DEF BeginCycle
  <2>2. faults' \in Nat
    BY <1>4 DEF BeginCycle, Fault, NoFault
  <2>3. QED
    BY <1>4, <2>1, <2>2 DEF BeginCycle, Goto, Phases
<1>5. ASSUME NEW p \in Procs, TryLock(p) PROVE TypeOK'
  <2>1. CASE lock = Nobody
    BY <1>5, <2>1 DEF TryLock, Goto, Phases, Returns
  <2>2. CASE lock # Nobody
    BY <1>5, <2>2, ForgetType DEF TryLock, Goto, Phases
  <2>3. QED
    BY <2>1, <2>2
<1>6. ASSUME NEW p \in Procs, RequestEnable(p) PROVE TypeOK'
  BY <1>6 DEF RequestEnable, Goto, Phases
<1>7. ASSUME NEW p \in Procs, Finish(p) PROVE TypeOK'
  BY <1>7, ForgetType DEF Finish, Unlock, Goto, Phases
<1>8. ASSUME NEW p \in Procs, Abort(p) PROVE TypeOK'
  BY <1>8, ForgetType DEF Abort, Fault, Unlock, Goto, Phases
<1>9. CASE UNCHANGED vars
  BY <1>9 DEF vars
<1>10. QED
  BY <1>1, <1>2, <1>3, <1>4, <1>5, <1>6, <1>7, <1>8, <1>9, ReconcileType,
     CancelType, SubmitType, ExchangeType DEF Next, Continue

\* The phases stay in step with what each process is.
LEMMA PhaseStep ==
  ASSUME TypeInv, [Next]_vars
  PROVE  PhaseOK'
<1> USE KindsAssumption
    DEF TypeInv, TypeOK, PhaseOK, Reconciling, Submitting, Goto
<1>1. CASE OperatorStops
  BY <1>1 DEF OperatorStops, order
<1>2. ASSUME NEW p \in Procs, OperatorKills(p) PROVE PhaseOK'
  BY <1>2 DEF OperatorKills, order
<1>3. ASSUME NEW p \in Procs, RequestReconcile(p) PROVE PhaseOK'
  BY <1>3 DEF RequestReconcile, order
<1>4. ASSUME NEW p \in Procs, BeginCycle(p) PROVE PhaseOK'
  BY <1>4 DEF BeginCycle, order
<1>5. ASSUME NEW p \in Procs, TryLock(p) PROVE PhaseOK'
  BY <1>5 DEF TryLock, order, Forget, Procs
<1>6. ASSUME NEW p \in Procs, Reconcile(p) PROVE PhaseOK'
  BY <1>6 DEF Reconcile, ListOrders, ListFills, ListLocals, ApplyOne,
     ApplyDone, PersistOne, PersistDone, RefreshOne, RefreshDone, SettleOne,
     SettleDone, RecordReconciliation, NextLoop, order
<1>7. ASSUME NEW p \in Procs, RequestEnable(p) PROVE PhaseOK'
  BY <1>7 DEF RequestEnable, order
<1>8. ASSUME NEW p \in Procs, CancelBotOrders(p) PROVE PhaseOK'
  BY <1>8 DEF CancelBotOrders, ListActive, KeepOne, CancelOne, CancelRecorded,
     CancelDone, order
<1>9. ASSUME NEW p \in Procs, SubmitOne(p) PROVE PhaseOK'
  <2>0. p \in Workers
    BY <1>9 DEF Procs, SubmitOne, Gate, SignalPasses, NoSignal, CreateIntent,
       StartSubmission, CreateOrder, Acknowledge, AmbiguousRecorded,
       RejectedRecorded
  <2>1. CASE Gate(p)
    <3>1. pc[p] = "gate" /\ target' = target /\ view' = view
      BY <2>1 DEF Gate, order
    <3>2. CASE Goto(p, "scan") /\ after' = [after EXCEPT ![p] = "stop"]
      BY <2>0, <3>1, <3>2
    <3>3. CASE (Goto(p, "finish") \/ Goto(p, "choose")) /\ after' = after
      BY <2>0, <3>1, <3>3
    <3>4. QED
      BY <2>1, <3>2, <3>3 DEF Gate
  <2>2. ASSUME NEW c \in Cids, SignalPasses(p, c) PROVE PhaseOK'
    BY <2>2 DEF SignalPasses
  <2>3. CASE NoSignal(p) \/ CreateIntent(p) \/ StartSubmission(p)
    BY <2>3 DEF NoSignal, CreateIntent, StartSubmission, order
  <2>4. CASE CreateOrder(p)
    BY <2>4 DEF CreateOrder
  <2>5. CASE AmbiguousRecorded(p)
    BY <2>0, <2>5 DEF AmbiguousRecorded
  <2>6. CASE Acknowledge(p) \/ RejectedRecorded(p)
    BY <2>6 DEF Acknowledge, RejectedRecorded, order
  <2>7. QED
    BY <1>9, <2>1, <2>2, <2>3, <2>4, <2>5, <2>6 DEF SubmitOne
<1>10. ASSUME NEW p \in Procs, Finish(p) PROVE PhaseOK'
  BY <1>10 DEF Finish, Forget
<1>11. ASSUME NEW p \in Procs, Abort(p) PROVE PhaseOK'
  BY <1>11 DEF Abort, Forget
<1>12. CASE ExchangeStep
  BY <1>12 DEF ExchangeStep, ExchangeOnly, Fill, Expire, Deliver, Settle, order
<1>13. CASE UNCHANGED vars
  BY <1>13 DEF vars, order
<1>14. QED
  BY <1>1, <1>2, <1>3, <1>4, <1>5, <1>6, <1>7, <1>8, <1>9, <1>10, <1>11,
     <1>12, <1>13 DEF Next, Continue

\* Who changes the exchange's orders.
LEMMA ExchangeFrame ==
  ASSUME [Next]_vars
  PROVE  \/ UNCHANGED <<exch, late>>
         \/ \E p \in Procs : CreateOrder(p)
         \/ \E p \in Procs, c \in Cids : CancelOne(p, c)
         \/ \E c \in Cids : Fill(c) \/ Expire(c) \/ Deliver(c)
<1> USE DEF exchange
<1>1. ASSUME NEW p \in Procs, Reconcile(p) PROVE UNCHANGED <<exch, late>>
  BY <1>1 DEF Reconcile, ListOrders, ListFills, ListLocals, ApplyOne,
     ApplyDone, PersistOne, PersistDone, RefreshOne, RefreshDone, SettleOne,
     SettleDone, RecordReconciliation
<1>2. ASSUME NEW p \in Procs, CancelBotOrders(p)
      PROVE UNCHANGED <<exch, late>> \/ \E c \in Cids : CancelOne(p, c)
  BY <1>2 DEF CancelBotOrders, ListActive, KeepOne, CancelRecorded, CancelDone
<1>3. ASSUME NEW p \in Procs, SubmitOne(p)
      PROVE UNCHANGED <<exch, late>> \/ CreateOrder(p)
  BY <1>3 DEF SubmitOne, Gate, SignalPasses, NoSignal, CreateIntent,
     StartSubmission, Acknowledge, AmbiguousRecorded, RejectedRecorded
<1>4. ASSUME NEW p \in Procs,
             OperatorKills(p) \/ RequestReconcile(p) \/ BeginCycle(p)
               \/ TryLock(p) \/ RequestEnable(p) \/ Finish(p) \/ Abort(p)
      PROVE UNCHANGED <<exch, late>>
  BY <1>4 DEF OperatorKills, RequestReconcile, BeginCycle, TryLock,
     RequestEnable, Finish, Abort
<1>5. ASSUME NEW m \in Markets, Settle(m) PROVE UNCHANGED <<exch, late>>
  BY <1>5 DEF Settle
<1>6. CASE OperatorStops \/ UNCHANGED vars
  BY <1>6 DEF OperatorStops, vars
<1>7. QED
  BY <1>1, <1>2, <1>3, <1>4, <1>5, <1>6 DEF Next, Continue, ExchangeStep

\* Whoever steps, a resting order is not completely filled.
LEMMA RestingStep ==
  ASSUME TypeInv, [Next]_vars
  PROVE  RestingOpen'
<1> USE DEF TypeInv, TypeOK, RestingOpen
<1>0. \A f \in Lots : Placed(f).status = "resting" => Placed(f).filled < Units
  BY UnitsAssumption DEF Placed, Lots
<1>1. ASSUME NEW p \in Procs, CreateOrder(p) PROVE RestingOpen'
  <2>1. \/ UNCHANGED exch
        \/ \E f \in Lots : exch' = [exch EXCEPT ![target[p]] = Placed(f)]
    BY <1>1 DEF CreateOrder
  <2>2. QED
    BY <1>0, <2>1
<1>2. ASSUME NEW p \in Procs, NEW c \in Cids, CancelOne(p, c)
      PROVE RestingOpen'
  <2>1. \/ UNCHANGED exch
        \/ exch' = [exch EXCEPT ![c].status = "canceled"]
    BY <1>2 DEF CancelOne
  <2>2. QED
    BY <2>1 DEF Remote
<1>3. ASSUME NEW c \in Cids, Fill(c) \/ Expire(c) \/ Deliver(c)
      PROVE RestingOpen'
  <2>1. CASE Fill(c)
    <3>1. exch[c].filled + 1 \in Lots
      BY <2>1, UnitsAssumption DEF Fill, Remote, Lots
    <3>2. QED
      BY <1>0, <2>1, <3>1 DEF Fill
  <2>2. CASE Expire(c)
    BY <2>2 DEF Expire, Remote
  <2>3. CASE Deliver(c)
    BY <1>0, <2>3, RemoteTypes DEF Deliver
  <2>4. QED
    BY <1>3, <2>1, <2>2, <2>3
<1>4. CASE UNCHANGED exch
  BY <1>4
<1>5. QED
  BY <1>1, <1>2, <1>3, <1>4, ExchangeFrame

\* The initial state is well typed, and every process is idle in it.
LEMMA InitTypes ==
  ASSUME Init
  PROVE  TypeInv
<1>1. NoRows \in [Cids -> Row] /\ NoRemotes \in [Cids -> Remote]
        /\ NoFills \in [Cids -> Lots]
  BY RowTypes, RemoteTypes DEF NoRows, NoRemotes, NoFills
<1>2. TypeOK
  BY <1>1, RemoteTypes DEF Init, TypeOK, Phases, Returns
<1>3. PhaseOK
  BY DEF Init, PhaseOK, Reconciling, Submitting, Procs
<1>4. RestingOpen
  BY DEF Init, RestingOpen, NoRemotes, NoRemote
<1>5. QED
  BY <1>2, <1>3, <1>4 DEF TypeInv

\* Types, phases and resting orders together are inductive.
LEMMA TypeInvariant == Spec => []TypeInv
<1>1. Init => TypeInv
  BY InitTypes
<1>2. TypeInv /\ [Next]_vars => TypeInv'
  BY TypeStep, PhaseStep, RestingStep DEF TypeInv
<1>3. QED
  BY <1>1, <1>2, PTL DEF Spec

\* Every state of the live system is well typed: whatever the number of
\* processes and faults, no count leaves 0..Units and no status its domain.
THEOREM TypeCorrect == Spec => []TypeOK
  BY TypeInvariant, PTL DEF TypeInv

---------------------------------------------------------------------------
(* Who changes what                                                        *)

\* The steps of process p.
StepOf(p) ==
  OperatorKills(p) \/ RequestReconcile(p) \/ BeginCycle(p) \/ Continue(p)
    \/ Abort(p)

\* A process's step leaves the local state of the others alone.
LEMMA OthersKeep ==
  ASSUME TypeOK, NEW p \in Procs, StepOf(p), NEW q \in Procs, q # p
  PROVE  /\ pc'[q] = pc[q]
         /\ view'[q] = view[q]
         /\ remote'[q] = remote[q]
         /\ seen'[q] = seen[q]
         /\ todo'[q] = todo[q]
         /\ target'[q] = target[q]
<1> USE DEF TypeOK, Goto, snapshot, cursors, order
<1>1. CASE OperatorKills(p) \/ RequestReconcile(p) \/ BeginCycle(p)
             \/ RequestEnable(p)
  BY <1>1 DEF OperatorKills, RequestReconcile, BeginCycle, RequestEnable
<1>2. CASE TryLock(p) \/ Finish(p) \/ Abort(p)
  BY <1>2 DEF TryLock, Finish, Abort, Forget
<1>3. CASE Reconcile(p)
  BY <1>3 DEF Reconcile, ListOrders, ListFills, ListLocals, ApplyOne,
     ApplyDone, PersistOne, PersistDone, RefreshOne, RefreshDone, SettleOne,
     SettleDone, RecordReconciliation, NextLoop, Handled
<1>4. CASE CancelBotOrders(p)
  BY <1>4 DEF CancelBotOrders, ListActive, KeepOne, CancelOne, CancelRecorded,
     CancelDone
<1>5. CASE SubmitOne(p)
  BY <1>5 DEF SubmitOne, Gate, SignalPasses, NoSignal, CreateIntent,
     StartSubmission, CreateOrder, Acknowledge, AmbiguousRecorded,
     RejectedRecorded
<1>6. QED
  BY <1>1, <1>2, <1>3, <1>4, <1>5 DEF StepOf, Continue

\* The exchange and the operator leave every process's local state alone.
LEMMA AllKeep ==
  ASSUME OperatorStops \/ ExchangeStep \/ UNCHANGED vars
  PROVE  UNCHANGED <<pc, view, remote, seen, todo, target, local, lock>>
  BY DEF OperatorStops, ExchangeStep, ExchangeOnly, Fill, Expire, Deliver,
     Settle, vars, tables, snapshot, cursors, order

\* A step is the operator's, the exchange's or some process's.
LEMMA SomeStep ==
  ASSUME [Next]_vars
  PROVE  \/ OperatorStops \/ ExchangeStep \/ UNCHANGED vars
         \/ \E p \in Procs : StepOf(p)
  BY DEF Next, StepOf

\* Whoever reconciles or submits is no kill request, and holds the lock.
LEMMA Holder ==
  ASSUME TypeInv, LockHeld, NEW p \in Procs,
         pc[p] \in Reconciling \cup Submitting \cup {"gate", "enable"}
  PROVE  p \in Workers \cup Reconcilers /\ lock = p
  BY DEF TypeInv, PhaseOK, LockHeld, Procs, Reconciling, Submitting

\* Only workers submit.
LEMMA Submitter ==
  ASSUME TypeInv, NEW p \in Procs, pc[p] \in Submitting \cup {"gate"}
  PROVE  p \in Workers
  BY DEF TypeInv, PhaseOK, Procs, Reconciling, Submitting

\* Cycles and requests take the lock in turns.
LEMMA LockStep ==
  ASSUME TypeInv, LockHeld, Overlap = FALSE, [Next]_vars
  PROVE  LockHeld'
<1> USE DEF TypeInv, TypeOK, LockHeld
<1>1. CASE OperatorStops \/ ExchangeStep \/ UNCHANGED vars
  BY <1>1, AllKeep
<1>2. ASSUME NEW p \in Procs, StepOf(p) PROVE LockHeld'
  <2> SUFFICES ASSUME NEW q \in Workers \cup Reconcilers,
                      pc'[q] \notin {"idle", "lock"}
               PROVE  lock' = q
    OBVIOUS
  <2>0. q \in Procs /\ q # Nobody
    BY NobodyAssumption DEF Procs
  <2>1. CASE OperatorKills(p) \/ BeginCycle(p)
    <3>1. q # p /\ lock' = lock
      BY <2>0, <2>1, KindsAssumption DEF OperatorKills, BeginCycle, Goto
    <3>2. QED
      BY <1>2, <2>0, <3>1, OthersKeep
  <2>2. CASE RequestReconcile(p)
    BY <2>0, <2>2, KindsAssumption, NobodyAssumption DEF RequestReconcile, Goto
  <2>3. CASE TryLock(p)
    BY <2>0, <2>3, NobodyAssumption DEF TryLock, Goto
  <2>4. CASE Finish(p) \/ Abort(p)
    BY <2>0, <2>4 DEF Finish, Abort, Goto, Unlock
  <2>5. CASE Reconcile(p) \/ RequestEnable(p) \/ CancelBotOrders(p)
               \/ SubmitOne(p)
    <3>1. lock' = lock /\ pc[p] \notin {"idle", "lock"}
      <4>1. CASE Reconcile(p) \/ RequestEnable(p)
        BY <4>1 DEF Reconcile, ListOrders, ListFills, ListLocals, ApplyOne,
           ApplyDone, PersistOne, PersistDone, RefreshOne, RefreshDone,
           SettleOne, SettleDone, RecordReconciliation, RequestEnable
      <4>2. CASE CancelBotOrders(p)
        BY <4>2 DEF CancelBotOrders, ListActive, KeepOne, CancelOne,
           CancelRecorded, CancelDone
      <4>3. CASE SubmitOne(p)
        BY <4>3 DEF SubmitOne, Gate, SignalPasses, NoSignal, CreateIntent,
           StartSubmission, CreateOrder, Acknowledge, AmbiguousRecorded,
           RejectedRecorded
      <4>4. QED
        BY <2>5, <4>1, <4>2, <4>3
    <3>2. CASE q = p
      BY <3>1, <3>2
    <3>3. CASE q # p
      BY <1>2, <2>0, <3>1, <3>3, OthersKeep
    <3>4. QED
      BY <3>2, <3>3
  <2>6. QED
    BY <1>2, <2>1, <2>2, <2>3, <2>4, <2>5 DEF StepOf, Continue
<1>3. QED
  BY <1>1, <1>2, SomeStep

---------------------------------------------------------------------------
(* The invariant behind the submission properties                          *)

\* Without late deliveries an order arrives only in the lock holder's create,
\* and no order ever disappears.
LEMMA Arrivals ==
  ASSUME IInv, LateDelivery = FALSE, [Next]_vars
  PROVE  /\ late' = {}
         /\ \A c \in Cids : exch[c].status # "none" => exch'[c].status # "none"
         /\ \/ \A c \in Cids : exch'[c].status # "none"
                                 => exch[c].status # "none"
            \/ \E p \in Workers :
                 /\ CreateOrder(p)
                 /\ lock = p
                 /\ exch[target[p]].status = "none"
                 /\ pc'[p] \in {"ack", "ambiguous"}
                 /\ \A c \in Cids : exch'[c].status # "none"
                      => exch[c].status # "none" \/ c = target[p]
<1> USE DEF IInv, TypeInv, TypeOK, ListedAll
<1>1. ASSUME NEW p \in Procs, CreateOrder(p)
      PROVE  /\ late' = {}
             /\ \/ UNCHANGED exch
                \/ /\ \E f \in Lots :
                        exch' = [exch EXCEPT ![target[p]] = Placed(f)]
                   /\ exch[target[p]].status = "none"
                   /\ pc'[p] \in {"ack", "ambiguous"}
             /\ p \in Workers /\ lock = p /\ target[p] \in Cids
  <2>1. p \in Workers /\ lock = p
    BY <1>1, Holder, Submitter DEF CreateOrder, Submitting
  <2>2. target[p] \in Cids
    BY <1>1 DEF CreateOrder, PhaseOK
  <2>3. late' = {}
    BY <1>1 DEF CreateOrder
  <2>4. QED
    BY <1>1, <2>1, <2>2, <2>3 DEF CreateOrder, Goto
<1>2. ASSUME NEW p \in Procs, NEW c \in Cids, CancelOne(p, c)
      PROVE  /\ late' = {}
             /\ \A d \in Cids : exch'[d].status # "none"
                                  <=> exch[d].status # "none"
  <2>1. CASE exch[c].status = "resting"
    <3>1. \/ UNCHANGED exch
          \/ exch' = [exch EXCEPT ![c].status = "canceled"]
      BY <1>2 DEF CancelOne
    <3>2. late' = late
      BY <1>2 DEF CancelOne
    <3>3. CASE exch' = [exch EXCEPT ![c].status = "canceled"]
      <4>1. exch'[c].status = "canceled"
        BY <3>3 DEF Remote
      <4>2. \A d \in Cids : d # c => exch'[d] = exch[d]
        BY <3>3
      <4>3. QED
        BY <2>1, <3>2, <4>1, <4>2
    <3>4. QED
      BY <3>1, <3>2, <3>3
  <2>2. CASE exch[c].status # "resting"
    BY <1>2, <2>2 DEF CancelOne
  <2>3. QED
    BY <2>1, <2>2
<1>3. ASSUME NEW c \in Cids, Fill(c) \/ Expire(c) \/ Deliver(c)
      PROVE  /\ late' = {}
             /\ \A d \in Cids : exch'[d].status # "none"
                                  <=> exch[d].status # "none"
  <2>1. CASE Fill(c)
    BY <2>1 DEF Fill, Placed
  <2>2. CASE Expire(c)
    BY <2>2 DEF Expire, Remote
  <2>3. CASE Deliver(c)
    BY <2>3 DEF Deliver
  <2>4. QED
    BY <1>3, <2>1, <2>2, <2>3
<1>4. CASE UNCHANGED <<exch, late>>
  BY <1>4
<1>5. CASE \E p \in Procs : CreateOrder(p)
  <2>1. PICK p \in Procs : CreateOrder(p)
    BY <1>5
  <2>2. CASE UNCHANGED exch
    BY <1>1, <2>1, <2>2
  <2>3. CASE exch' # exch
    <3>1. PICK f \in Lots : exch' = [exch EXCEPT ![target[p]] = Placed(f)]
      BY <1>1, <2>1, <2>3
    <3>2. Placed(f).status # "none"
      BY RemoteTypes
    <3>3. QED
      BY <1>1, <2>1, <2>3, <3>1, <3>2
  <2>4. QED
    BY <2>2, <2>3
<1>6. QED
  BY <1>2, <1>3, <1>4, <1>5, ExchangeFrame

\* Nothing arrives while a process reconciles.
LEMMA NoArrival ==
  ASSUME IInv, LateDelivery = FALSE, [Next]_vars,
         NEW q \in Procs, pc[q] \in Reconciling
  PROVE  \A c \in Cids : exch'[c].status # "none" => exch[c].status # "none"
<1>1. lock = q
  BY Holder DEF IInv
<1>2. \A p \in Procs : CreateOrder(p) => pc[p] = "create"
  BY DEF CreateOrder
<1>3. QED
  BY <1>1, <1>2, Arrivals DEF Procs, Reconciling

\* A listing stays complete: no order arrives during a reconciliation.
LEMMA ListedStep ==
  ASSUME IInv, LateDelivery = FALSE, [Next]_vars
  PROVE  ListedAll'
<1> USE DEF IInv, TypeInv, TypeOK, ListedAll
<1>1. late' = {}
  BY Arrivals
<1>2. ASSUME NEW q \in Procs, NEW c \in Cids
      PROVE  /\ remote'[q][c].status # "none" => exch'[c].status # "none"
             /\ (/\ pc'[q] \in Reconciling \ {"orders"}
                 /\ exch'[c].status # "none")
                => remote'[q][c].status # "none"
  <2>1. CASE pc'[q] = pc[q] /\ remote'[q] = remote[q]
    BY <2>1, Arrivals, NoArrival
  <2>2. CASE ListOrders(q)
    <3>1. remote'[q] = exch /\ exch' = exch
      BY <2>2 DEF ListOrders, exchange
    <3>2. QED
      BY <3>1
  <2>3. CASE StepOf(q) /\ ~ListOrders(q)
    <3>1. \/ remote'[q] = remote[q]
             /\ \/ pc'[q] \notin Reconciling \ {"orders"}
                \/ pc[q] \in Reconciling \ {"orders"}
          \/ remote'[q] = NoRemotes /\ pc'[q] \notin Reconciling \ {"orders"}
      <4> USE DEF Reconciling, Goto, snapshot, cursors, order
      <4>1. CASE OperatorKills(q) \/ RequestReconcile(q) \/ BeginCycle(q)
                   \/ RequestEnable(q)
        BY <4>1 DEF OperatorKills, RequestReconcile, BeginCycle, RequestEnable
      <4>2. CASE TryLock(q) \/ Finish(q) \/ Abort(q)
        BY <4>2 DEF TryLock, Finish, Abort, Forget
      <4>3. CASE RecordReconciliation(q)
        <5>1. after[q] \in {"cycle", "ambiguous", "request"}
          BY <4>3 DEF PhaseOK, RecordReconciliation
        <5>2. QED
          BY <4>3, <5>1 DEF RecordReconciliation
      <4>4. CASE Reconcile(q) /\ ~ListOrders(q) /\ ~RecordReconciliation(q)
        BY <4>4 DEF Reconcile, ListFills, ListLocals, ApplyOne, ApplyDone,
           PersistOne, PersistDone, RefreshOne, RefreshDone, SettleOne,
           SettleDone, NextLoop
      <4>5. CASE CancelBotOrders(q)
        BY <4>5 DEF CancelBotOrders, ListActive, KeepOne, CancelOne,
           CancelRecorded, CancelDone
      <4>6. CASE SubmitOne(q)
        BY <4>6 DEF SubmitOne, Gate, SignalPasses, NoSignal, CreateIntent,
           StartSubmission, CreateOrder, Acknowledge, AmbiguousRecorded,
           RejectedRecorded
      <4>7. QED
        BY <2>3, <4>1, <4>2, <4>3, <4>4, <4>5, <4>6 DEF StepOf, Continue
    <3>2. CASE remote'[q] = NoRemotes /\ pc'[q] \notin Reconciling \ {"orders"}
      BY <3>2 DEF NoRemotes, NoRemote
    <3>3. CASE remote'[q] = remote[q]
      BY <3>1, <3>2, <3>3, Arrivals, NoArrival
    <3>4. QED
      BY <3>1, <3>2, <3>3
  <2>4. QED
    BY <2>1, <2>2, <2>3, SomeStep, AllKeep, OthersKeep
<1>3. QED
  BY <1>1, <1>2

\* The status refresh_fill_totals gives a handled row.
LEMMA RefreshedRow ==
  ASSUME IInv, NEW p \in Procs, NEW c \in Cids, RefreshOne(p, c)
  PROVE  LET s == RefreshFills(seen[p][c], persisted[c]).status IN
         /\ s \notin {"SUBMITTING", "NONE"}
         /\ exch[c].status # "none" => s \in Counted \cup {"SETTLED"}
         /\ s \in Known => exch[c].status # "none"
<1> DEFINE held == seen[p][c]
<1>1. /\ held.status \notin {"SUBMITTING", "NONE"}
      /\ exch[c].status # "none" => held.status \in Counted \cup {"SETTLED"}
      /\ held.status \in Known => exch[c].status # "none"
  BY DEF IInv, HandledCounted, Looping, CancelsKnown, RefreshOne
<1>2. RefreshFills(held, persisted[c]).status
        \in {held.status, "FILLED"}
              \cup (IF held.status \in {"RESTING", "PARTIAL"}
                    THEN {"PARTIAL"} ELSE {})
  BY DEF RefreshFills, RefreshedStatus
<1> HIDE DEF held
<1>3. QED
  BY <1>1, <1>2 DEF Counted, Known, held

\* The rows a step changes: never to SUBMITTING but by submission_started,
\* never out of the limits' sight when the exchange has the order, and only
\* by the lock holder when it does not.
SafeChange(c) ==
  /\ local'[c].status # "SUBMITTING"
  /\ exch[c].status # "none" => local'[c].status \in Counted \cup {"SETTLED"}
  /\ local'[c].status \in Known => exch[c].status # "none"
  /\ \/ exch[c].status # "none"
     \/ \E p \in Procs :
          pc[p] \in Reconciling \cup (Submitting \ {"create"})

\* A step changes each row safely, or starts its submission.
LEMMA LocalChange ==
  ASSUME IInv, [Next]_vars, NEW c \in Cids
  PROVE  \/ local'[c].status = local[c].status
         \/ SafeChange(c)
         \/ \E p \in Workers : StartSubmission(p) /\ c = target[p]
<1> USE DEF IInv, TypeInv, TypeOK
<1>1. CASE OperatorStops \/ ExchangeStep \/ UNCHANGED vars
  BY <1>1, AllKeep
<1>2. ASSUME NEW p \in Procs, StepOf(p)
      PROVE  \/ local'[c].status = local[c].status
             \/ SafeChange(c)
             \/ p \in Workers /\ StartSubmission(p) /\ c = target[p]
  <2>1. ASSUME NEW d \in Cids, ApplyOne(p, d), local' # local
        PROVE  local'[c].status = local[c].status \/ SafeChange(c)
    <3>1. CASE c # d
      BY <2>1, <3>1 DEF ApplyOne
    <3>2. CASE c = d /\ remote[p][c].status # "none"
      <4>1. local'[c].status \in {"RESTING", "PARTIAL", "FILLED", "CANCELED"}
        BY <2>1, <3>2, ApplyRemoteType DEF ApplyOne
      <4>2. exch[c].status # "none" /\ pc[p] = "apply"
        BY <2>1, <3>2 DEF ListedAll, ApplyOne
      <4>3. QED
        BY <4>1, <4>2 DEF SafeChange, Counted
    <3>3. CASE c = d /\ remote[p][c].status = "none"
      <4>1. local'[c].status = "PENDING" /\ pc[p] = "apply"
        BY <2>1, <3>3 DEF ApplyOne, WithStatus, Row
      <4>2. exch[c].status = "none"
        BY <3>3, <4>1 DEF ListedAll, Reconciling
      <4>3. QED
        BY <4>1, <4>2 DEF SafeChange, Known, Reconciling
    <3>4. QED
      BY <3>1, <3>2, <3>3
  <2>2. ASSUME NEW d \in Cids, RefreshOne(p, d), local' # local
        PROVE  local'[c].status = local[c].status \/ SafeChange(c)
    <3>1. CASE c # d
      BY <2>2, <3>1 DEF RefreshOne
    <3>2. CASE c = d
      <4>1. local'[c].status = RefreshFills(seen[p][c], persisted[c]).status
              /\ pc[p] = "refresh"
        <5> DEFINE fresh == RefreshFills(seen[p][c], persisted[c])
        <5>1. WithFills(local[c], fresh).status = fresh.status
          BY DEF WithFills, Row
        <5>2. local' = [local EXCEPT ![c] = WithFills(@, fresh)]
                /\ pc[p] = "refresh"
          BY <2>2, <3>2 DEF RefreshOne
        <5> HIDE DEF fresh
        <5>3. local'[c].status = fresh.status
          BY <5>1, <5>2
        <5>4. QED
          BY <5>2, <5>3 DEF fresh
      <4>2. QED
        BY <2>2, <3>2, <4>1, RefreshedRow DEF SafeChange, Reconciling
    <3>3. QED
      BY <3>1, <3>2
  <2>3. ASSUME NEW d \in Cids, SettleOne(p, d), local' # local
        PROVE  local'[c].status = local[c].status \/ SafeChange(c)
    <3>1. CASE c # d
      BY <2>3, <3>1 DEF SettleOne
    <3>2. CASE c = d
      <4>1. local'[c].status \in {"SETTLED", seen[p][c].status}
              /\ pc[p] = "settle"
        BY <2>3, <3>2 DEF SettleOne, SettledRow, MarkedRow, WithStatus, Row
      <4>2. /\ seen[p][c].status \notin {"SUBMITTING", "NONE"}
            /\ exch[c].status # "none"
                 => seen[p][c].status \in Counted \cup {"SETTLED"}
            /\ seen[p][c].status \in Known => exch[c].status # "none"
        BY <2>3, <3>2 DEF SettleOne, HandledCounted, Looping, CancelsKnown
      <4>3. QED
        BY <4>1, <4>2 DEF SafeChange, Known, Counted, Reconciling
    <3>3. QED
      BY <3>1, <3>2
  <2>4. CASE CancelRecorded(p)
    <3>1. \/ local'[c].status = local[c].status
          \/ c = target[p] /\ local'[c].status \in {"CANCELED", "UNKNOWN"}
      BY <2>4 DEF CancelRecorded, CanceledRow, WithStatus, Row
    <3>2. exch[target[p]].status # "none"
      BY <2>4 DEF CancelRecorded, CancelsKnown
    <3>3. QED
      BY <3>1, <3>2 DEF SafeChange, Counted
  <2>5. CASE CreateIntent(p)
    <3>1. \/ local'[c].status = local[c].status
          \/ /\ c = target[p]
             /\ local[c].status = "NONE"
             /\ local'[c].status = "PENDING"
      BY <2>5 DEF CreateIntent, NewIntent
    <3>2. local[c].status = "NONE" => exch[c].status = "none"
      BY DEF Covered, Counted
    <3>3. pc[p] = "intent"
      BY <2>5 DEF CreateIntent
    <3>4. QED
      BY <3>1, <3>2, <3>3 DEF SafeChange, Known, Submitting
  <2>6. CASE StartSubmission(p)
    <3>1. p \in Workers
      BY <2>6, Submitter DEF StartSubmission, Submitting
    <3>2. QED
      BY <2>6, <3>1 DEF StartSubmission
  <2>7. CASE Acknowledge(p)
    <3>1. \/ local'[c].status = local[c].status
          \/ c = target[p] /\ local'[c].status \in {"FILLED", "PARTIAL", "RESTING"}
      BY <2>7 DEF Acknowledge, Acknowledged
    <3>2. exch[target[p]].status # "none"
      BY <2>7, Submitter DEF Acknowledge, TargetRow, Submitting
    <3>3. QED
      BY <3>1, <3>2 DEF SafeChange, Counted
  <2>8. CASE AmbiguousRecorded(p)
    <3>1. \/ local'[c].status = local[c].status
          \/ local'[c].status = "UNKNOWN"
      BY <2>8 DEF AmbiguousRecorded, WithStatus, Row
    <3>2. pc[p] = "ambiguous"
      BY <2>8 DEF AmbiguousRecorded
    <3>3. QED
      BY <3>1, <3>2 DEF SafeChange, Counted, Known, Submitting
  <2>9. CASE RejectedRecorded(p)
    <3>1. \/ local'[c].status = local[c].status
          \/ c = target[p] /\ local'[c].status = "REJECTED"
      BY <2>9 DEF RejectedRecorded, WithStatus, Row
    <3>2. exch[target[p]].status = "none" /\ pc[p] = "rejected"
      BY <2>9, Submitter DEF RejectedRecorded, TargetRow, Submitting
    <3>3. QED
      BY <3>1, <3>2 DEF SafeChange, Known, Submitting
  <2>10. \/ local' = local
         \/ \E d \in Cids : ApplyOne(p, d) \/ RefreshOne(p, d) \/ SettleOne(p, d)
         \/ CancelRecorded(p) \/ CreateIntent(p) \/ StartSubmission(p)
         \/ Acknowledge(p) \/ AmbiguousRecorded(p) \/ RejectedRecorded(p)
    <3> USE DEF tables
    <3>1. CASE OperatorKills(p) \/ RequestReconcile(p) \/ BeginCycle(p)
                 \/ TryLock(p) \/ RequestEnable(p) \/ Finish(p) \/ Abort(p)
      BY <3>1 DEF OperatorKills, RequestReconcile, BeginCycle, TryLock,
         RequestEnable, Finish, Abort
    <3>2. CASE Reconcile(p)
      BY <3>2 DEF Reconcile, ListOrders, ListFills, ListLocals, ApplyDone,
         PersistOne, PersistDone, RefreshDone, SettleDone,
         RecordReconciliation
    <3>3. CASE CancelBotOrders(p)
      BY <3>3 DEF CancelBotOrders, ListActive, KeepOne, CancelOne, CancelDone
    <3>4. CASE SubmitOne(p)
      BY <3>4 DEF SubmitOne, Gate, SignalPasses, NoSignal, CreateOrder
    <3>5. QED
      BY <1>2, <3>1, <3>2, <3>3, <3>4 DEF StepOf, Continue
  <2>11. QED
    BY <2>1, <2>2, <2>3, <2>4, <2>5, <2>6, <2>7, <2>8, <2>9, <2>10
<1>3. QED
  BY <1>1, <1>2, SomeStep

\* A row a process holds was read from the table, or returned by its update.
LEMMA SeenChange ==
  ASSUME TypeOK, [Next]_vars, NEW q \in Procs, NEW c \in Cids
  PROVE  seen'[q][c] \in {seen[q][c], NoRow, local[c], local'[c]}
<1> USE DEF TypeOK
<1>1. CASE StepOf(q)
  <2> USE DEF cursors
  <2>1. CASE OperatorKills(q) \/ RequestReconcile(q) \/ BeginCycle(q)
               \/ RequestEnable(q)
    BY <2>1 DEF OperatorKills, RequestReconcile, BeginCycle, RequestEnable
  <2>2. CASE TryLock(q) \/ Finish(q) \/ Abort(q)
    BY <2>2 DEF TryLock, Finish, Abort, Forget, NoRows
  <2>3. CASE Reconcile(q)
    BY <2>3 DEF Reconcile, ListOrders, ListFills, ListLocals, ApplyOne,
       ApplyDone, PersistOne, PersistDone, RefreshOne, RefreshDone, SettleOne,
       SettleDone, RecordReconciliation, Handled, NoRows
  <2>4. CASE CancelBotOrders(q)
    BY <2>4 DEF CancelBotOrders, ListActive, KeepOne, CancelOne,
       CancelRecorded, CancelDone, NoRows
  <2>5. CASE SubmitOne(q)
    BY <2>5 DEF SubmitOne, Gate, SignalPasses, NoSignal, CreateIntent,
       StartSubmission, CreateOrder, Acknowledge, AmbiguousRecorded,
       RejectedRecorded
  <2>6. QED
    BY <1>1, <2>1, <2>2, <2>3, <2>4, <2>5 DEF StepOf, Continue
<1>2. CASE seen'[q] = seen[q]
  BY <1>2
<1>3. QED
  BY <1>1, <1>2, SomeStep, AllKeep, OthersKeep

\* What is canceled, and every row that says an order rests, exists.
LEMMA CancelsStep ==
  ASSUME IInv, LateDelivery = FALSE, [Next]_vars
  PROVE  CancelsKnown'
<1> USE DEF IInv, TypeInv, TypeOK, CancelsKnown
<1>1. ASSUME NEW c \in Cids, local'[c].status \in Known
      PROVE  exch'[c].status # "none"
  <2>1. ASSUME NEW p \in Workers, StartSubmission(p), c = target[p]
        PROVE  FALSE
    <3>1. local'[c].status = "SUBMITTING"
      BY <2>1 DEF StartSubmission, WithStatus, Row
    <3>2. QED
      BY <1>1, <3>1 DEF Known
  <2>2. QED
    BY <1>1, <2>1, LocalChange, Arrivals DEF SafeChange
<1>2. ASSUME NEW p \in Procs, NEW c \in Cids, seen'[p][c].status \in Known
      PROVE  exch'[c].status # "none"
  <2>1. CASE seen'[p][c] \in {seen[p][c], local[c]}
    BY <1>2, <2>1, Arrivals
  <2>2. CASE seen'[p][c] = NoRow
    BY <1>2, <2>2 DEF NoRow, Known
  <2>3. CASE seen'[p][c] = local'[c]
    BY <1>1, <1>2, <2>3
  <2>4. QED
    BY <2>1, <2>2, <2>3, SeenChange
<1>3. ASSUME NEW p \in Procs,
             pc'[p] \in {"cancel", "canceled", "cancelUnknown"}
      PROVE  /\ \A c \in todo'[p] : exch'[c].status # "none"
             /\ pc'[p] \in {"canceled", "cancelUnknown"}
                  => exch'[target'[p]].status # "none"
  <2>1. CASE pc'[p] = pc[p] /\ todo'[p] = todo[p] /\ target'[p] = target[p]
    <3>1. pc[p] \in {"canceled", "cancelUnknown"} => target[p] \in Cids
      BY DEF PhaseOK
    <3>2. QED
      BY <1>3, <2>1, <3>1, Arrivals
  <2>2. CASE ListActive(p)
    <3>1. todo'[p] = {c \in Cids : Cancelable(local[c])} /\ pc'[p] = "cancel"
      BY <2>2 DEF ListActive, Goto
    <3>2. QED
      BY <3>1, Arrivals DEF Cancelable, Known
  <2>3. ASSUME NEW c \in Cids, KeepOne(p, c)
        PROVE  /\ \A d \in todo'[p] : exch'[d].status # "none"
               /\ pc'[p] = "cancel"
    BY <2>3, Arrivals DEF KeepOne
  <2>4. ASSUME NEW c \in Cids, CancelOne(p, c)
        PROVE  /\ \A d \in todo'[p] : exch'[d].status # "none"
               /\ pc'[p] \in {"canceled", "cancelUnknown"}
                    => exch'[target'[p]].status # "none"
    <3>1. pc[p] = "cancel" /\ c \in todo[p] /\ todo'[p] = todo[p] \ {c}
      BY <2>4 DEF CancelOne
    <3>2. pc'[p] \in {"canceled", "cancelUnknown"} => target'[p] = c
      BY <2>4, <3>1 DEF CancelOne, Goto
    <3>3. QED
      BY <3>1, <3>2, Arrivals
  <2>5. CASE CancelRecorded(p)
    <3>1. todo'[p] = todo[p] /\ pc'[p] = "cancel"
            /\ pc[p] \in {"canceled", "cancelUnknown"}
      BY <2>5 DEF CancelRecorded, Goto, cursors
    <3>2. QED
      BY <3>1, Arrivals
  <2>6. CASE StepOf(p) /\ ~CancelBotOrders(p)
    <3> USE DEF Goto
    <3>0. pc'[p] \in {"canceled", "cancelUnknown", "cancel"}
      BY <1>3
    <3>1. CASE RequestReconcile(p) \/ BeginCycle(p) \/ RequestEnable(p)
                 \/ OperatorKills(p) \/ TryLock(p) \/ Finish(p) \/ Abort(p)
      <4>1. pc'[p] \in {"orders", "lock", "finish", "scan", "idle"}
        BY <3>1 DEF RequestReconcile, BeginCycle, RequestEnable,
           OperatorKills, TryLock, Finish, Abort
      <4>2. QED
        BY <3>0, <4>1
    <3>2. CASE Reconcile(p)
      <4>1. pc'[p] = pc[p] \/ pc'[p] \in Phases \ {"cancel", "canceled",
                                                   "cancelUnknown"}
        BY <3>2 DEF Reconcile, ListOrders, ListFills, ListLocals, ApplyOne,
           ApplyDone, PersistOne, PersistDone, RefreshOne, RefreshDone,
           SettleOne, SettleDone, RecordReconciliation, NextLoop, PhaseOK,
           Reconciling, Phases
      <4>2. pc[p] \in Reconciling
        BY <3>2 DEF Reconcile, ListOrders, ListFills, ListLocals, ApplyOne,
           ApplyDone, PersistOne, PersistDone, RefreshOne, RefreshDone,
           SettleOne, SettleDone, RecordReconciliation, NextLoop, Reconciling
      <4>3. QED
        BY <3>0, <4>1, <4>2 DEF Reconciling
    <3>3. CASE SubmitOne(p)
      <4>1. pc'[p] \notin {"cancel", "canceled", "cancelUnknown"}
        BY <3>3 DEF SubmitOne, Gate, SignalPasses, NoSignal, CreateIntent,
           StartSubmission, CreateOrder, Acknowledge, AmbiguousRecorded,
           RejectedRecorded
      <4>2. QED
        BY <3>0, <4>1
    <3>4. QED
      BY <2>6, <3>1, <3>2, <3>3 DEF StepOf, Continue
  <2>7. CASE CancelDone(p)
    BY <1>3, <2>7 DEF CancelDone, Goto
  <2>8. QED
    BY <2>1, <2>2, <2>3, <2>4, <2>5, <2>6, <2>7, SomeStep, AllKeep, OthersKeep
       DEF CancelBotOrders
<1>4. QED
  BY <1>1, <1>2, <1>3

\* No step leaves an order the exchange has to an uncounted row.
LEMMA CoveredStep ==
  ASSUME IInv, LateDelivery = FALSE, [Next]_vars
  PROVE  Covered'
<1> USE DEF IInv, TypeInv, TypeOK
<1> SUFFICES ASSUME NEW c \in Cids, exch'[c].status # "none"
             PROVE  local'[c].status \in Counted \cup {"SETTLED"}
  BY DEF Covered
<1>1. CASE exch[c].status # "none"
  <2>1. CASE \E p \in Workers : StartSubmission(p) /\ c = target[p]
    BY <2>1 DEF StartSubmission, WithStatus, Row, Counted
  <2>2. QED
    BY <1>1, <2>1, LocalChange DEF Covered, SafeChange
<1>2. CASE exch[c].status = "none"
  <2>1. PICK p \in Workers : CreateOrder(p) /\ c = target[p]
    BY <1>2, Arrivals
  <2>2. local[c].status = "SUBMITTING" /\ local' = local
    BY <1>2, <2>1 DEF TargetRow, CreateOrder, tables
  <2>3. QED
    BY <2>2 DEF Counted
<1>3. QED
  BY <1>1, <1>2

\* Every loop of a reconciliation keeps its held rows counted.
LEMMA HandledStep ==
  ASSUME IInv, LateDelivery = FALSE, [Next]_vars
  PROVE  HandledCounted'
<1> USE DEF IInv, TypeInv, TypeOK
<1> DEFINE Good(row, rem) ==
      /\ row.status # "SUBMITTING"
      /\ rem.status # "none" => row.status \in Counted \cup {"SETTLED"}
<1> SUFFICES ASSUME NEW p \in Procs, NEW c \in Cids, pc'[p] \in Looping
             PROVE  /\ c \in todo'[p] => seen'[p][c].status # "NONE"
                    /\ (pc'[p] # "apply" \/ c \notin todo'[p])
                         /\ seen'[p][c].status # "NONE"
                       => Good(seen'[p][c], exch'[c])
  BY DEF HandledCounted
<1>0. pc[p] \in Looping =>
        /\ exch'[c].status # "none" => exch[c].status # "none"
        /\ c \in todo[p] => seen[p][c].status # "NONE"
        /\ (pc[p] # "apply" \/ c \notin todo[p]) /\ seen[p][c].status # "NONE"
             => Good(seen[p][c], exch'[c])
  BY NoArrival DEF HandledCounted, Looping, Reconciling
<1>1. CASE pc'[p] = pc[p] /\ seen'[p] = seen[p] /\ todo'[p] = todo[p]
  BY <1>0, <1>1
<1>2. CASE ListLocals(p)
  <2>1. /\ pc'[p] = "apply"
        /\ todo'[p] = {d \in Cids : Reconcilable(local[d])}
        /\ seen'[p][c] = IF c \in todo'[p] THEN local[c] ELSE NoRow
    BY <1>2 DEF ListLocals, Goto
  <2>2. QED
    BY <2>1 DEF Reconcilable, NoRow
<1>3. ASSUME NEW d \in Cids, ApplyOne(p, d)
      PROVE  /\ c \in todo'[p] => seen'[p][c].status # "NONE"
             /\ c \notin todo'[p] /\ seen'[p][c].status # "NONE"
                  => Good(seen'[p][c], exch'[c])
  <2>1. pc[p] = "apply" /\ d \in todo[p] /\ todo'[p] = todo[p] \ {d}
    BY <1>3 DEF ApplyOne, Handled
  <2>2. CASE c # d
    <3>1. seen'[p][c] = seen[p][c]
      BY <1>3, <2>2 DEF ApplyOne, Handled
    <3>2. QED
      BY <1>0, <2>1, <2>2, <3>1 DEF Looping
  <2>3. CASE c = d /\ remote[p][c].status # "none"
    <3>1. seen'[p][c] = ApplyRemote(local[c], remote[p][c])
      BY <1>3, <2>3 DEF ApplyOne, Handled
    <3>2. seen'[p][c].status \in {"RESTING", "PARTIAL", "FILLED", "CANCELED"}
      BY <2>3, <3>1, ApplyRemoteType
    <3>3. QED
      BY <2>1, <2>3, <3>2 DEF Counted
  <2>4. CASE c = d /\ remote[p][c].status = "none"
    <3>1. exch'[c].status = "none"
      BY <1>0, <2>1, <2>4 DEF ListedAll, Reconciling, Looping
    <3>2. \/ seen'[p][c].status = "PENDING"
          \/ /\ seen'[p][c] = seen[p][c]
             /\ seen[p][c].status \notin {"SUBMITTING", "UNKNOWN"}
      <4>1. CASE seen[p][c].status \in {"SUBMITTING", "UNKNOWN"}
        <5>1. seen'[p][c] = WithStatus(local[c], "PENDING")
          BY <1>3, <2>4, <4>1 DEF ApplyOne, Handled
        <5>2. QED
          BY <5>1 DEF WithStatus, Row
      <4>2. CASE seen[p][c].status \notin {"SUBMITTING", "UNKNOWN"}
        BY <1>3, <2>4, <4>2 DEF ApplyOne, Handled
      <4>3. QED
        BY <4>1, <4>2
    <3>3. QED
      BY <2>1, <2>4, <3>1, <3>2
  <2>5. QED
    BY <2>2, <2>3, <2>4
<1>4. CASE ApplyDone(p) \/ PersistDone(p) \/ RefreshDone(p)
  <2>1. pc[p] \in Looping /\ todo[p] = {} /\ seen'[p] = seen[p]
          /\ todo'[p] = Held(p)
    BY <1>4 DEF ApplyDone, PersistDone, RefreshDone, NextLoop, Looping
  <2>2. QED
    BY <1>0, <2>1 DEF Held
<1>5. ASSUME NEW d \in Cids, PersistOne(p, d) \/ SettleOne(p, d)
      PROVE  /\ c \in todo'[p] => seen'[p][c].status # "NONE"
             /\ seen'[p][c].status # "NONE" => Good(seen'[p][c], exch'[c])
  <2>1. pc[p] \in {"persist", "settle"} /\ seen'[p] = seen[p]
          /\ todo'[p] = todo[p] \ {d}
    BY <1>5 DEF PersistOne, SettleOne
  <2>2. QED
    BY <1>0, <2>1 DEF Looping
<1>6. ASSUME NEW d \in Cids, RefreshOne(p, d)
      PROVE  /\ c \in todo'[p] => seen'[p][c].status # "NONE"
             /\ seen'[p][c].status # "NONE" => Good(seen'[p][c], exch'[c])
  <2>1. pc[p] = "refresh" /\ d \in todo[p] /\ todo'[p] = todo[p] \ {d}
    BY <1>6 DEF RefreshOne, Handled
  <2>2. CASE c # d
    <3>1. seen'[p][c] = seen[p][c]
      BY <1>6, <2>2 DEF RefreshOne, Handled
    <3>2. QED
      BY <1>0, <2>1, <2>2, <3>1 DEF Looping
  <2>3. CASE c = d
    <3> DEFINE fresh == RefreshFills(seen[p][c], persisted[c])
    <3>1. seen'[p][c] \in {WithFills(local[c], fresh), seen[p][c]}
      BY <1>6, <2>3 DEF RefreshOne, Handled
    <3>2. WithFills(local[c], fresh).status = fresh.status
      BY DEF WithFills, Row
    <3>3. fresh.status # "SUBMITTING"
            /\ (exch[c].status # "none"
                  => fresh.status \in Counted \cup {"SETTLED"})
      BY <1>6, <2>3, RefreshedRow
    <3> HIDE DEF fresh
    <3>4. QED
      BY <1>0, <2>1, <2>3, <3>1, <3>2, <3>3 DEF Looping
  <2>4. QED
    BY <2>2, <2>3
<1>7. CASE SettleDone(p) \/ RecordReconciliation(p) \/ ListOrders(p)
             \/ ListFills(p)
  <2>1. pc'[p] \in {"record", "fills", "locals", "scan", "finish", "enable"}
    BY <1>7 DEF SettleDone, RecordReconciliation, ListOrders, ListFills, Goto,
       PhaseOK, Reconciling
  <2>2. QED
    BY <2>1 DEF Looping
<1>8. CASE StepOf(p) /\ ~Reconcile(p)
  <2> USE DEF Goto, Looping
  <2>1. CASE OperatorKills(p) \/ RequestReconcile(p) \/ BeginCycle(p)
               \/ RequestEnable(p) \/ TryLock(p) \/ Finish(p) \/ Abort(p)
    BY <2>1 DEF OperatorKills, RequestReconcile, BeginCycle, RequestEnable,
       TryLock, Finish, Abort
  <2>2. CASE CancelBotOrders(p)
    BY <2>2 DEF CancelBotOrders, ListActive, KeepOne, CancelOne,
       CancelRecorded, CancelDone
  <2>3. CASE SubmitOne(p)
    <3>1. pc'[p] \notin Looping
      BY <2>3 DEF SubmitOne, Gate, SignalPasses, NoSignal, CreateIntent,
         StartSubmission, CreateOrder, Acknowledge, AmbiguousRecorded,
         RejectedRecorded
    <3>2. QED
      BY <3>1
  <2>4. QED
    BY <1>8, <2>1, <2>2, <2>3 DEF StepOf, Continue
<1>9. CASE Reconcile(p)
  <2>1. ASSUME NEW d \in Cids, ApplyOne(p, d) PROVE pc'[p] = "apply"
    BY <1>3, <2>1 DEF ApplyOne
  <2>2. QED
    BY <1>2, <1>3, <1>4, <1>5, <1>6, <1>7, <1>9, <2>1 DEF Reconcile
<1>10. CASE ~StepOf(p)
  <2>1. pc'[p] = pc[p] /\ seen'[p] = seen[p] /\ todo'[p] = todo[p]
    BY <1>10, SomeStep, AllKeep, OthersKeep
  <2>2. QED
    BY <1>1, <2>1
<1>11. QED
  BY <1>8, <1>9, <1>10

\* The phases of a worker in which no row is SUBMITTING.
Quiet == {"persist", "refresh", "settle", "record", "scan", "cancel",
          "canceled", "cancelUnknown", "gate", "choose", "intent", "submit"}

\* A worker enters the quiet phases when the first loop of its
\* reconciliation is over, and leaves them by submission_started.
LEMMA WorkerMoves ==
  ASSUME TypeInv, NEW p \in Workers, StepOf(p)
  PROVE  /\ pc'[p] \in Quiet =>
              \/ pc[p] \in Quiet
              \/ pc[p] = "apply" /\ todo[p] = {}
         /\ pc'[p] = "apply" =>
              \/ ListLocals(p)
              \/ \E c \in Cids : ApplyOne(p, c)
         /\ pc'[p] = "create" => StartSubmission(p)
         /\ pc'[p] \in {"ack", "ambiguous", "rejected"} => CreateOrder(p)
<1> USE DEF TypeInv, TypeOK, Goto, Quiet
<1>0. p \in Procs /\ p \notin Killers
  BY KindsAssumption DEF Procs
<1>1. CASE OperatorKills(p) \/ RequestReconcile(p) \/ BeginCycle(p)
             \/ RequestEnable(p) \/ TryLock(p) \/ Finish(p) \/ Abort(p)
  <2>1. pc'[p] \in {"orders", "lock", "finish", "idle"}
    BY <1>0, <1>1 DEF OperatorKills, RequestReconcile, BeginCycle,
       RequestEnable, TryLock, Finish, Abort
  <2>2. QED
    BY <2>1
<1>2. CASE Reconcile(p)
  <2>1. CASE ListOrders(p) \/ ListFills(p)
    BY <1>0, <2>1 DEF ListOrders, ListFills
  <2>2. CASE ListLocals(p) \/ \E c \in Cids : ApplyOne(p, c)
    BY <1>0, <2>2 DEF ListLocals, ApplyOne
  <2>3. CASE ApplyDone(p)
    BY <1>0, <2>3 DEF ApplyDone, NextLoop
  <2>4. CASE \/ \E c \in Cids : \/ PersistOne(p, c) \/ RefreshOne(p, c)
                                \/ SettleOne(p, c)
             \/ PersistDone(p) \/ RefreshDone(p) \/ SettleDone(p)
    BY <1>0, <2>4 DEF PersistOne, RefreshOne, SettleOne, PersistDone,
       RefreshDone, SettleDone, NextLoop
  <2>5. CASE RecordReconciliation(p)
    <3>1. after[p] \in {"cycle", "ambiguous"}
      BY <1>0, <2>5 DEF RecordReconciliation, PhaseOK, Reconciling
    <3>2. QED
      BY <1>0, <2>5, <3>1 DEF RecordReconciliation
  <2>6. QED
    BY <1>2, <2>1, <2>2, <2>3, <2>4, <2>5 DEF Reconcile
<1>3. CASE CancelBotOrders(p)
  BY <1>0, <1>3 DEF CancelBotOrders, ListActive, KeepOne, CancelOne,
     CancelRecorded, CancelDone
<1>4. CASE SubmitOne(p)
  <2>1. CASE Gate(p)
    BY <1>0, <2>1 DEF Gate
  <2>2. CASE \E c \in Cids : SignalPasses(p, c)
    BY <1>0, <2>2 DEF SignalPasses
  <2>3. CASE NoSignal(p)
    BY <1>0, <2>3 DEF NoSignal
  <2>4. CASE CreateIntent(p)
    BY <1>0, <2>4 DEF CreateIntent
  <2>5. CASE StartSubmission(p)
    BY <1>0, <2>5 DEF StartSubmission
  <2>6. CASE CreateOrder(p)
    BY <1>0, <2>6 DEF CreateOrder
  <2>7. CASE Acknowledge(p) \/ AmbiguousRecorded(p) \/ RejectedRecorded(p)
    BY <1>0, <2>7 DEF Acknowledge, AmbiguousRecorded, RejectedRecorded
  <2>8. QED
    BY <1>4, <2>1, <2>2, <2>3, <2>4, <2>5, <2>6, <2>7 DEF SubmitOne
<1>5. QED
  BY <1>1, <1>2, <1>3, <1>4 DEF StepOf, Continue

\* A reconciliation leaves no row SUBMITTING, and a cycle adds one.
LEMMA SubmittingStep ==
  ASSUME IInv, LateDelivery = FALSE, Overlap = FALSE, [Next]_vars
  PROVE  SubmittingRows'
<1> USE DEF IInv, TypeInv, TypeOK
<1> SUFFICES ASSUME NEW p \in Workers, NEW c \in Cids,
                    local'[c].status = "SUBMITTING"
             PROVE  /\ pc'[p] = "apply" =>
                         c \in todo'[p] /\ seen'[p][c].status = "SUBMITTING"
                    /\ pc'[p] \notin Quiet
                    /\ pc'[p] \in {"create", "ack", "ambiguous", "rejected"}
                         => c = target'[p]
  BY DEF SubmittingRows, Quiet
<1>0. p \in Procs
  BY DEF Procs
<1>1. CASE \E q \in Workers : StartSubmission(q) /\ c = target[q]
  <2>1. PICK q \in Workers : StartSubmission(q) /\ c = target[q]
    BY <1>1
  <2>2. CASE q = p
    <3>1. pc'[p] = "create" /\ target' = target
      BY <1>0, <2>1, <2>2 DEF StartSubmission, Goto, order
    <3>2. QED
      BY <2>1, <2>2, <3>1 DEF Quiet
  <2>3. CASE q # p
    <3>1. lock = q /\ pc'[p] = pc[p]
      BY <1>0, <2>1, <2>3, Holder
         DEF StartSubmission, Goto, Submitting, Procs
    <3>2. pc[p] \in {"idle", "lock"}
      BY <2>3, <3>1 DEF LockHeld
    <3>3. QED
      BY <3>1, <3>2 DEF Quiet
  <2>4. QED
    BY <2>2, <2>3
<1>2. CASE ~\E q \in Workers : StartSubmission(q) /\ c = target[q]
  <2>1. local[c].status = "SUBMITTING"
    BY <1>2, LocalChange DEF SafeChange
  <2>2. /\ pc[p] = "apply" =>
             c \in todo[p] /\ seen[p][c].status = "SUBMITTING"
        /\ pc[p] \notin Quiet
        /\ pc[p] \in {"create", "ack", "ambiguous", "rejected"}
             => c = target[p]
    BY <2>1 DEF SubmittingRows, Quiet
  <2>3. CASE ~StepOf(p)
    <3>1. pc'[p] = pc[p] /\ seen'[p] = seen[p] /\ todo'[p] = todo[p]
            /\ target'[p] = target[p]
      BY <1>0, <2>3, SomeStep, AllKeep, OthersKeep
    <3>2. QED
      BY <2>2, <3>1
  <2>4. CASE StepOf(p)
    <3>1. pc'[p] \notin Quiet
      BY <2>2, <2>4, WorkerMoves
    <3>2. CASE pc'[p] = "apply"
      <4>1. CASE ListLocals(p)
        <5>1. Reconcilable(local[c])
          BY <2>1 DEF Reconcilable
        <5>2. todo'[p] = {d \in Cids : Reconcilable(local[d])}
          BY <1>0, <4>1 DEF ListLocals
        <5>3. seen'[p][c] = IF c \in {d \in Cids : Reconcilable(local[d])}
                            THEN local[c] ELSE NoRow
          BY <1>0, <4>1 DEF ListLocals
        <5>4. QED
          BY <2>1, <3>2, <5>1, <5>2, <5>3 DEF Quiet
      <4>2. ASSUME NEW d \in Cids, ApplyOne(p, d)
            PROVE  c \in todo'[p] /\ seen'[p][c].status = "SUBMITTING"
        <5>1. pc[p] = "apply" /\ todo'[p] = todo[p] \ {d}
          BY <1>0, <4>2 DEF ApplyOne, Handled
        <5>2. c # d
          <6>1. ASSUME c = d PROVE FALSE
            <7>1. CASE remote[p][c].status # "none"
              <8>1. local'[c] = ApplyRemote(local[c], remote[p][c])
                BY <4>2, <6>1, <7>1 DEF ApplyOne
              <8>2. QED
                BY <1>0, <7>1, <8>1, ApplyRemoteType
            <7>2. CASE remote[p][c].status = "none"
              <8>1. local'[c] = WithStatus(local[c], "PENDING")
                BY <2>2, <4>2, <5>1, <6>1, <7>2 DEF ApplyOne
              <8>2. QED
                BY <8>1 DEF WithStatus, Row
            <7>3. QED
              BY <7>1, <7>2
          <6>2. QED
            BY <6>1
        <5>3. seen'[p][c] = seen[p][c]
          BY <1>0, <4>2, <5>2 DEF ApplyOne, Handled
        <5>4. QED
          BY <2>2, <5>1, <5>2, <5>3
      <4>3. QED
        BY <2>4, <3>2, <4>1, <4>2, WorkerMoves DEF Quiet
    <3>3. CASE pc'[p] = "create"
      <4>1. StartSubmission(p)
        BY <2>4, <3>3, WorkerMoves
      <4>2. QED
        BY <2>2, <4>1 DEF StartSubmission, Quiet
    <3>4. CASE pc'[p] \in {"ack", "ambiguous", "rejected"}
      <4>1. CreateOrder(p)
        BY <2>4, <3>4, WorkerMoves
      <4>2. pc[p] = "create" /\ target' = target
        BY <4>1 DEF CreateOrder
      <4>3. QED
        BY <2>2, <3>1, <3>4, <4>2
    <3>5. QED
      BY <3>1, <3>2, <3>3, <3>4
  <2>5. QED
    BY <2>3, <2>4
<1>3. QED
  BY <1>1, <1>2

\* The row of a create is SUBMITTING until its answer is recorded.
LEMMA TargetStep ==
  ASSUME IInv, LateDelivery = FALSE, Overlap = FALSE, [Next]_vars
  PROVE  TargetRow'
<1> USE DEF IInv, TypeInv, TypeOK
<1> SUFFICES ASSUME NEW p \in Workers
             PROVE  /\ pc'[p] = "create" /\ exch'[target'[p]].status = "none"
                         => local'[target'[p]].status = "SUBMITTING"
                    /\ pc'[p] = "rejected"
                         => exch'[target'[p]].status = "none"
                    /\ pc'[p] = "ack" => exch'[target'[p]].status # "none"
  BY DEF TargetRow
<1>0. p \in Procs
  BY DEF Procs
<1>1. CASE StepOf(p)
  <2>1. CASE pc'[p] = "create"
    <3>1. StartSubmission(p) /\ target[p] \in Cids
      BY <1>0, <1>1, <2>1, WorkerMoves DEF StartSubmission, PhaseOK
    <3>2. local'[target[p]] = WithStatus(local[target[p]], "SUBMITTING")
            /\ target' = target
      BY <3>1 DEF StartSubmission, order
    <3>3. QED
      BY <2>1, <3>1, <3>2 DEF WithStatus, Row
  <2>2. CASE pc'[p] \in {"rejected", "ack"}
    <3>1. CreateOrder(p) /\ target[p] \in Cids /\ target' = target
      BY <1>0, <1>1, <2>2, WorkerMoves DEF CreateOrder, PhaseOK
    <3>2. CASE pc'[p] = "rejected"
      BY <1>0, <3>1, <3>2 DEF CreateOrder, Goto
    <3>3. CASE pc'[p] = "ack"
      <4>1. \E f \in Lots : exch' = [exch EXCEPT ![target[p]] = Placed(f)]
        BY <1>0, <3>1, <3>3 DEF CreateOrder, Goto
      <4>2. QED
        BY <3>1, <3>3, <4>1, RemoteTypes
    <3>4. QED
      BY <2>2, <3>2, <3>3
  <2>3. QED
    BY <2>1, <2>2
<1>2. CASE ~StepOf(p)
  <2> DEFINE c == target[p]
  <2>1. pc'[p] = pc[p] /\ target'[p] = c
    BY <1>0, <1>2, SomeStep, AllKeep, OthersKeep
  <2> SUFFICES ASSUME pc[p] \in {"create", "rejected", "ack"}
               PROVE  /\ pc[p] = "create" /\ exch'[c].status = "none"
                           => local'[c].status = "SUBMITTING"
                      /\ pc[p] = "rejected" => exch'[c].status = "none"
                      /\ pc[p] = "ack" => exch'[c].status # "none"
    BY <2>1
  <2>2. c \in Cids
    BY <1>0 DEF PhaseOK
  <2>3. lock = p
    BY <1>0, Holder DEF Submitting
  <2>4. exch'[c].status # "none" <=> exch[c].status # "none"
    <3>1. ~CreateOrder(p)
      BY <1>2 DEF StepOf, Continue, SubmitOne
    <3>2. QED
      BY <2>2, <2>3, <3>1, Arrivals
  <2>5. CASE pc[p] = "create" /\ exch[c].status = "none"
    <3>1. local[c].status = "SUBMITTING"
      BY <2>5 DEF TargetRow
    <3>2. ~SafeChange(c)
      <4>1. ASSUME NEW q \in Procs,
                   pc[q] \in Reconciling \cup (Submitting \ {"create"})
            PROVE FALSE
        BY <2>3, <2>5, <4>1, Holder DEF Reconciling, Submitting
      <4>2. QED
        BY <2>5, <4>1 DEF SafeChange
    <3>3. ASSUME NEW q \in Workers, StartSubmission(q), c = target[q]
          PROVE  FALSE
      <4>1. q \in Procs /\ pc[q] = "submit"
        BY <3>3 DEF StartSubmission, Procs
      <4>2. QED
        BY <2>3, <2>5, <4>1, Holder DEF Submitting
    <3>4. QED
      BY <2>2, <2>4, <2>5, <3>1, <3>2, <3>3, LocalChange
  <2>6. QED
    BY <2>4, <2>5 DEF TargetRow
<1>3. QED
  BY <1>1, <1>2
---------------------------------------------------------------------------
(* The invariant and what follows from it.  LateDelivery is FALSE: a create *)
(* whose caller gave up has either arrived by then or never will.  Overlap  *)
(* is FALSE: the dashboard's reconciliations do not overlap a cycle.        *)

\* IInv holds when the system starts.
LEMMA InvariantInit ==
  ASSUME Init
  PROVE  IInv
<1>1. TypeInv
  BY InitTypes
<1>2. LockHeld
  BY DEF Init, LockHeld, Procs
<1>3. ListedAll
  BY DEF Init, ListedAll, NoRemotes, NoRemote, Reconciling
<1>4. HandledCounted
  BY DEF Init, HandledCounted, Looping
<1>5. SubmittingRows
  BY DEF Init, SubmittingRows, NoRows, NoRow
<1>6. TargetRow
  BY DEF Init, TargetRow, Procs
<1>7. CancelsKnown
  BY DEF Init, CancelsKnown, Known, NoRows, NoRow
<1>8. Covered
  BY DEF Init, Covered, NoRemotes, NoRemote
<1>9. QED
  BY <1>1, <1>2, <1>3, <1>4, <1>5, <1>6, <1>7, <1>8 DEF IInv

\* IInv holds always.
LEMMA Invariant ==
  ASSUME LateDelivery = FALSE, Overlap = FALSE
  PROVE  Spec => []IInv
<1>1. Init => IInv
  BY InvariantInit
<1>2. IInv /\ [Next]_vars => IInv'
  <2> SUFFICES ASSUME IInv, [Next]_vars PROVE IInv'
    OBVIOUS
  <2>1. TypeInv'
    BY TypeStep, PhaseStep, RestingStep DEF IInv, TypeInv
  <2>2. LockHeld'
    BY LockStep DEF IInv
  <2>3. ListedAll'
    BY ListedStep DEF IInv
  <2>4. HandledCounted'
    BY HandledStep
  <2>5. SubmittingRows'
    BY SubmittingStep
  <2>6. TargetRow'
    BY TargetStep
  <2>7. CancelsKnown'
    BY CancelsStep
  <2>8. Covered'
    BY CoveredStep
  <2>9. QED
    BY <2>1, <2>2, <2>3, <2>4, <2>5, <2>6, <2>7, <2>8 DEF IInv
<1>3. QED
  BY <1>1, <1>2, PTL DEF Spec

\* An order the exchange has is never one the risk limits overlook,
\* whatever crashes, call failures and lost answers occur (service.py:
\* reconcile, submit_one, cancel_bot_orders).
THEOREM OrdersCovered ==
  ASSUME LateDelivery = FALSE, Overlap = FALSE
  PROVE  Spec => []Covered
<1>1. IInv => Covered
  BY DEF IInv
<1>2. QED
  BY <1>1, Invariant, PTL

\* A new order reaches the exchange only from the holder of the cycle lock,
\* in a cycle that read LIVE, while the fate of no other submission is open
\* (service.py: run_cycle, submit_one).
THEOREM OneSubmission ==
  ASSUME LateDelivery = FALSE, Overlap = FALSE
  PROVE  Spec => SubmissionDiscipline
<1> DEFINE Placing(c) ==
             exch[c].status = "none" /\ exch'[c].status # "none" =>
               /\ lock \in Workers
               /\ view[lock] = "LIVE"
               /\ \A d \in Cids : local[d].status = "SUBMITTING" <=> d = c
<1>1. IInv /\ [Next]_vars => [\A c \in Cids : Placing(c)]_vars
  <2> SUFFICES ASSUME IInv, Next, NEW c \in Cids,
                      exch[c].status = "none", exch'[c].status # "none"
               PROVE  /\ lock \in Workers
                      /\ view[lock] = "LIVE"
                      /\ \A d \in Cids :
                           local[d].status = "SUBMITTING" <=> d = c
    OBVIOUS
  <2>1. PICK p \in Workers : CreateOrder(p) /\ lock = p /\ target[p] = c
    BY Arrivals
  <2>2. pc[p] = "create" /\ lock = p
    BY <2>1 DEF CreateOrder
  <2>3. view[p] = "LIVE"
    BY <2>2 DEF IInv, TypeInv, PhaseOK, Submitting, Procs
  <2>4. local[c].status = "SUBMITTING"
    BY <2>1, <2>2 DEF IInv, TargetRow
  <2>5. \A d \in Cids : local[d].status = "SUBMITTING" => d = c
    BY <2>1, <2>2 DEF IInv, SubmittingRows
  <2>6. QED
    BY <2>2, <2>3, <2>4, <2>5
<1>2. QED
  BY <1>1, Invariant, PTL DEF Spec, SubmissionDiscipline

---------------------------------------------------------------------------
(***************************************************************************)
(* Settlement: what is settled stays settled, and is settled in full       *)
(***************************************************************************)

Cancelling == {"cancel", "canceled", "cancelUnknown"}
Aimed      == {"canceled", "cancelUnknown", "submit", "create", "ack",
               "ambiguous", "rejected"}

\* The rows the holder of the cycle lock is going to write are not settled:
\* those it holds in its loops, those left to settle or to cancel, and the
\* one it submits or cancels.
OpenRows ==
  \A p \in Workers \cup Reconcilers, c \in Cids :
    /\ pc[p] \in Looping => seen[p][c].status # "SETTLED"
    /\ pc[p] \in Looping \ {"settle"} /\ seen[p][c].status # "NONE"
         => local[c].status # "SETTLED"
    /\ pc[p] \in {"settle"} \cup Cancelling /\ c \in todo[p]
         => local[c].status # "SETTLED"
    /\ pc[p] \in Aimed /\ c = target[p] => local[c].status # "SETTLED"

---------------------------------------------------------------------------
(* Which steps write a row                                                 *)

\* The statements that write the table.
Writes(p, c) ==
  \/ ApplyOne(p, c) \/ RefreshOne(p, c) \/ SettleOne(p, c)
  \/ c = target[p] /\ \/ CancelRecorded(p) \/ CreateIntent(p)
                      \/ StartSubmission(p) \/ Acknowledge(p)
                      \/ AmbiguousRecorded(p) \/ RejectedRecorded(p)

\* A row changes only where it is written.
LEMMA Written ==
  ASSUME TypeInv, [Next]_vars, NEW c \in Cids, local'[c] # local[c]
  PROVE  \E p \in Procs : StepOf(p) /\ Writes(p, c)
<1> USE DEF TypeInv, TypeOK
<1>1. PICK p \in Procs : StepOf(p)
  BY SomeStep, AllKeep
<1>2. \/ local' = local
      \/ \E d \in Cids : ApplyOne(p, d) \/ RefreshOne(p, d) \/ SettleOne(p, d)
      \/ CancelRecorded(p) \/ CreateIntent(p) \/ StartSubmission(p)
      \/ Acknowledge(p) \/ AmbiguousRecorded(p) \/ RejectedRecorded(p)
  <2> USE DEF tables
  <2>1. CASE OperatorKills(p) \/ RequestReconcile(p) \/ BeginCycle(p)
               \/ TryLock(p) \/ RequestEnable(p) \/ Finish(p) \/ Abort(p)
    BY <2>1 DEF OperatorKills, RequestReconcile, BeginCycle, TryLock,
       RequestEnable, Finish, Abort
  <2>2. CASE Reconcile(p)
    BY <2>2 DEF Reconcile, ListOrders, ListFills, ListLocals, ApplyDone,
       PersistOne, PersistDone, RefreshDone, SettleDone, RecordReconciliation
  <2>3. CASE CancelBotOrders(p)
    BY <2>3 DEF CancelBotOrders, ListActive, KeepOne, CancelOne, CancelDone
  <2>4. CASE SubmitOne(p)
    BY <2>4 DEF SubmitOne, Gate, SignalPasses, NoSignal, CreateOrder
  <2>5. QED
    BY <1>1, <2>1, <2>2, <2>3, <2>4 DEF StepOf, Continue
<1>3. ASSUME NEW d \in Cids, ApplyOne(p, d) \/ RefreshOne(p, d) \/ SettleOne(p, d)
      PROVE  c = d
  BY <1>3 DEF ApplyOne, RefreshOne, SettleOne
<1>4. ASSUME CancelRecorded(p) \/ CreateIntent(p) \/ StartSubmission(p)
               \/ Acknowledge(p) \/ AmbiguousRecorded(p) \/ RejectedRecorded(p)
      PROVE  c = target[p]
  BY <1>4 DEF CancelRecorded, CreateIntent, StartSubmission, Acknowledge,
     AmbiguousRecorded, RejectedRecorded
<1>5. QED
  BY <1>1, <1>2, <1>3, <1>4 DEF Writes

\* Whoever writes in a loop of reconcile or submits holds the lock; a
\* cancellation is recorded by its holder or by a kill request.
LEMMA Writer ==
  ASSUME IInv, NEW p \in Procs, NEW c \in Cids, Writes(p, c)
  PROVE  \/ p \in Workers \cup Reconcilers /\ lock = p
         \/ /\ p \in Killers /\ CancelRecorded(p)
            /\ pc[p] \in {"canceled", "cancelUnknown"} /\ c = target[p]
<1> USE DEF IInv
<1>1. CASE CancelRecorded(p)
  BY <1>1 DEF CancelRecorded, LockHeld, Procs, Writes, ApplyOne, RefreshOne,
     SettleOne, CreateIntent, StartSubmission, Acknowledge, AmbiguousRecorded,
     RejectedRecorded
<1>2. CASE ~CancelRecorded(p)
  <2>1. pc[p] \in Reconciling \cup Submitting
    BY <1>2 DEF Writes, ApplyOne, RefreshOne, SettleOne, CreateIntent,
       StartSubmission, Acknowledge, AmbiguousRecorded, RejectedRecorded,
       Reconciling, Submitting
  <2>2. QED
    BY <2>1, Holder
<1>3. QED
  BY <1>1, <1>2

\* The row written is not settled before.
LEMMA OpenWritten ==
  ASSUME IInv, OpenRows, NEW p \in Workers \cup Reconcilers, NEW c \in Cids,
         Writes(p, c), local'[c] # local[c]
  PROVE  local[c].status # "SETTLED"
<1> USE DEF OpenRows, Aimed, Cancelling, Looping
<1>0. p \in Procs
  BY DEF Procs
<1>1. CASE ApplyOne(p, c) \/ RefreshOne(p, c)
  <2>1. pc[p] \in {"apply", "refresh"} /\ c \in todo[p]
    BY <1>1 DEF ApplyOne, RefreshOne
  <2>2. seen[p][c].status # "NONE"
    BY <1>0, <2>1 DEF IInv, HandledCounted
  <2>3. QED
    BY <2>1, <2>2
<1>2. CASE SettleOne(p, c)
  BY <1>2 DEF SettleOne
<1>3. CASE c = target[p] /\ CancelRecorded(p)
  BY <1>3 DEF CancelRecorded
<1>4. CASE c = target[p] /\ CreateIntent(p)
  BY <1>4 DEF CreateIntent
<1>5. CASE c = target[p] /\ StartSubmission(p)
  BY <1>5 DEF StartSubmission
<1>6. CASE c = target[p] /\ \/ Acknowledge(p) \/ AmbiguousRecorded(p)
                            \/ RejectedRecorded(p)
  BY <1>6 DEF Acknowledge, AmbiguousRecorded, RejectedRecorded
<1>7. QED
  BY <1>1, <1>2, <1>3, <1>4, <1>5, <1>6 DEF Writes

\* A row becomes settled by settle_order alone.
LEMMA SettledBy ==
  ASSUME IInv, OpenRows, [Next]_vars, NEW c \in Cids,
         local[c].status # "SETTLED", local'[c].status = "SETTLED"
  PROVE  \E p \in Workers \cup Reconcilers : StepOf(p) /\ SettleOne(p, c) /\ lock = p
<1> USE DEF IInv, TypeInv, TypeOK
<1>1. PICK p \in Procs : StepOf(p) /\ Writes(p, c)
  BY Written
<1>2. ASSUME ApplyOne(p, c) PROVE FALSE
  <2>1. CASE remote[p][c].status # "none"
    <3>1. local'[c] = ApplyRemote(local[c], remote[p][c])
      BY <1>2, <2>1 DEF ApplyOne
    <3>2. QED
      BY <2>1, <3>1, ApplyRemoteType
  <2>2. CASE remote[p][c].status = "none"
    <3>1. local' = local \/ local'[c] = WithStatus(local[c], "PENDING")
      BY <1>2, <2>2 DEF ApplyOne
    <3>2. QED
      BY <3>1 DEF WithStatus, Row
  <2>3. QED
    BY <2>1, <2>2
<1>3. ASSUME RefreshOne(p, c) PROVE FALSE
  <2>1. p \in Workers \cup Reconcilers /\ pc[p] = "refresh"
    BY <1>3, Holder DEF RefreshOne, Reconciling
  <2>2. seen[p][c].status # "SETTLED"
    BY <2>1 DEF OpenRows, Looping
  <2> DEFINE fresh == RefreshFills(seen[p][c], persisted[c])
  <2>3. fresh.status # "SETTLED"
    BY <2>2 DEF RefreshFills, RefreshedStatus
  <2>4. WithFills(local[c], fresh).status = fresh.status
    BY DEF WithFills, Row
  <2>5. local' = local \/ local' = [local EXCEPT ![c] = WithFills(@, fresh)]
    BY <1>3 DEF RefreshOne
  <2> HIDE DEF fresh
  <2>6. QED
    BY <2>3, <2>4, <2>5
<1>4. ASSUME c = target[p],
             \/ CancelRecorded(p) \/ CreateIntent(p) \/ StartSubmission(p)
             \/ Acknowledge(p) \/ AmbiguousRecorded(p) \/ RejectedRecorded(p)
      PROVE  FALSE
  <2>1. CASE CancelRecorded(p)
    BY <1>4, <2>1 DEF CancelRecorded, CanceledRow, WithStatus, Row
  <2>2. CASE CreateIntent(p)
    BY <1>4, <2>2 DEF CreateIntent, NewIntent
  <2>3. CASE StartSubmission(p) \/ AmbiguousRecorded(p) \/ RejectedRecorded(p)
    BY <1>4, <2>3 DEF StartSubmission, AmbiguousRecorded, RejectedRecorded,
       WithStatus, Row
  <2>4. CASE Acknowledge(p)
    BY <1>4, <2>4 DEF Acknowledge, Acknowledged
  <2>5. QED
    BY <1>4, <2>1, <2>2, <2>3, <2>4
<1>5. SettleOne(p, c)
  BY <1>1, <1>2, <1>3, <1>4 DEF Writes
<1>6. p \in Workers \cup Reconcilers /\ lock = p
  BY <1>5, Holder DEF SettleOne, Reconciling
<1>7. QED
  BY <1>1, <1>5, <1>6

---------------------------------------------------------------------------
(* What is settled stays settled                                           *)

\* A step of the holder itself keeps its rows open.
LEMMA OwnOpen ==
  ASSUME IInv, OpenRows, NEW p \in Workers \cup Reconcilers, StepOf(p),
         NEW c \in Cids
  PROVE  /\ pc'[p] \in Looping => seen'[p][c].status # "SETTLED"
         /\ pc'[p] \in Looping \ {"settle"} /\ seen'[p][c].status # "NONE"
              => local'[c].status # "SETTLED"
         /\ pc'[p] \in {"settle"} \cup Cancelling /\ c \in todo'[p]
              => local'[c].status # "SETTLED"
         /\ pc'[p] \in Aimed /\ c = target'[p] => local'[c].status # "SETTLED"
<1> USE DEF IInv, TypeInv, TypeOK, OpenRows, Aimed, Cancelling, Looping, Goto,
        tables, exchange, snapshot, cursors, order
<1>0. p \in Procs /\ p \notin Killers
  BY KindsAssumption DEF Procs
<1>1. CASE OperatorKills(p) \/ RequestReconcile(p) \/ BeginCycle(p)
             \/ RequestEnable(p) \/ TryLock(p) \/ Finish(p) \/ Abort(p)
  <2>1. pc'[p] \in {"orders", "lock", "finish", "idle"}
    BY <1>0, <1>1 DEF OperatorKills, RequestReconcile, BeginCycle,
       RequestEnable, TryLock, Finish, Abort
  <2>2. QED
    BY <2>1
<1>2. CASE ListOrders(p) \/ ListFills(p) \/ SettleDone(p) \/ RecordReconciliation(p)
  <2>1. CASE ListOrders(p) \/ ListFills(p) \/ SettleDone(p)
    BY <1>0, <2>1 DEF ListOrders, ListFills, SettleDone
  <2>2. CASE RecordReconciliation(p)
    <3>1. after[p] \in {"cycle", "ambiguous", "request"}
      BY <1>0, <2>2 DEF PhaseOK, RecordReconciliation, Reconciling, Procs
    <3>2. QED
      BY <1>0, <2>2, <3>1 DEF RecordReconciliation
  <2>3. QED
    BY <1>2, <2>1, <2>2
<1>3. CASE ListLocals(p)
  <2>1. /\ pc'[p] = "apply" /\ local' = local
        /\ seen'[p][c] = IF Reconcilable(local[c]) THEN local[c] ELSE NoRow
    BY <1>0, <1>3 DEF ListLocals
  <2>2. QED
    BY <2>1 DEF Reconcilable, NoRow
<1>4. ASSUME NEW d \in Cids, ApplyOne(p, d) \/ RefreshOne(p, d) PROVE
         /\ pc'[p] \in {"apply", "refresh"}
         /\ seen'[p][c].status # "SETTLED"
         /\ seen'[p][c].status # "NONE" => local'[c].status # "SETTLED"
  <2>1. /\ pc'[p] = pc[p] /\ pc[p] \in {"apply", "refresh"}
        /\ \A e \in Cids : e # d => /\ local'[e] = local[e]
                                    /\ seen'[p][e] = seen[p][e]
        /\ local' = local \/ seen'[p][d] = local'[d]
        /\ local' = local => seen'[p][d] \in {seen[p][d], local'[d]}
    BY <1>0, <1>4 DEF ApplyOne, RefreshOne, Handled
  <2>2. d \in todo[p]
    BY <1>4 DEF ApplyOne, RefreshOne
  <2>3. seen[p][d].status # "NONE"
    BY <1>0, <2>1, <2>2 DEF HandledCounted
  <2>4. local[d].status # "SETTLED"
    BY <2>1, <2>3
  <2>5. [Next]_vars
    BY <1>0, <1>4 DEF Next, Continue, Reconcile
  <2>6. local'[d].status # "SETTLED"
    <3>1. ASSUME local'[d].status = "SETTLED" PROVE FALSE
      <4>1. PICK q \in Workers \cup Reconcilers : SettleOne(q, d) /\ lock = q
        BY <2>4, <2>5, <3>1, SettledBy
      <4>2. lock = p
        BY <2>1 DEF LockHeld
      <4>3. QED
        BY <2>1, <4>1, <4>2 DEF SettleOne
    <3>2. QED
      BY <3>1
  <2>7. QED
    BY <2>1, <2>4, <2>6
<1>5. CASE \/ ApplyDone(p) \/ PersistDone(p) \/ RefreshDone(p)
           \/ \E d \in Cids : PersistOne(p, d)
  <2>1. /\ local' = local /\ seen' = seen
        /\ pc[p] \in Looping \ {"settle"}
        /\ \/ pc'[p] \in {"persist", "refresh"}
           \/ pc'[p] = "settle" /\ todo'[p] = Held(p)
    BY <1>0, <1>5 DEF ApplyDone, PersistDone, RefreshDone, PersistOne, NextLoop
  <2>2. QED
    BY <2>1 DEF Held
<1>6. ASSUME NEW d \in Cids, SettleOne(p, d) PROVE
         /\ pc'[p] = "settle"
         /\ seen'[p][c].status # "SETTLED"
         /\ c \in todo'[p] => local'[c].status # "SETTLED"
  BY <1>0, <1>6 DEF SettleOne
<1>7. CASE ListActive(p)
  BY <1>0, <1>7 DEF ListActive, Cancelable
<1>8. CASE \E d \in Cids : KeepOne(p, d) \/ CancelOne(p, d)
  BY <1>0, <1>8 DEF KeepOne, CancelOne
<1>9. CASE CancelRecorded(p)
  <2>1. /\ pc'[p] = "cancel" /\ todo' = todo
        /\ \A e \in Cids : \/ local'[e] = local[e]
                           \/ local'[e].status \in {"CANCELED", "UNKNOWN"}
    BY <1>0, <1>9 DEF CancelRecorded, CanceledRow, WithStatus, Row
  <2>2. pc[p] \in {"canceled", "cancelUnknown"}
    BY <1>9 DEF CancelRecorded
  <2>3. QED
    BY <2>1, <2>2
<1>10. CASE CancelDone(p) \/ Gate(p) \/ NoSignal(p)
              \/ \E d \in Cids : SignalPasses(p, d)
  <2>1. pc'[p] \in {"gate", "finish", "scan", "choose", "intent"}
    BY <1>0, <1>10 DEF CancelDone, Gate, NoSignal, SignalPasses
  <2>2. QED
    BY <2>1
<1>11. CASE CreateIntent(p)
  <2>1. /\ pc'[p] \in {"submit", "choose"} /\ target' = target
        /\ pc'[p] = "submit" => local'[target[p]].status = "PENDING"
    BY <1>0, <1>11 DEF CreateIntent, NewIntent, PhaseOK
  <2>2. QED
    BY <2>1
<1>12. CASE StartSubmission(p)
  <2>1. /\ pc'[p] = "create" /\ target' = target
        /\ local'[target[p]].status = "SUBMITTING"
    BY <1>0, <1>12 DEF StartSubmission, WithStatus, Row, PhaseOK
  <2>2. QED
    BY <2>1
<1>13. CASE CreateOrder(p)
  <2>1. /\ pc'[p] \in {"ack", "ambiguous", "rejected"} /\ target' = target
        /\ local' = local /\ pc[p] = "create"
    BY <1>0, <1>13 DEF CreateOrder
  <2>2. QED
    BY <2>1
<1>14. CASE Acknowledge(p) \/ AmbiguousRecorded(p) \/ RejectedRecorded(p)
  <2>1. pc'[p] \in {"finish", "orders"}
    BY <1>0, <1>14 DEF Acknowledge, AmbiguousRecorded, RejectedRecorded
  <2>2. QED
    BY <2>1
<1>15. QED
  <2>1. CASE Reconcile(p)
    BY <2>1, <1>2, <1>3, <1>4, <1>5, <1>6 DEF Reconcile
  <2>2. CASE CancelBotOrders(p)
    BY <2>2, <1>7, <1>8, <1>9, <1>10 DEF CancelBotOrders
  <2>3. CASE SubmitOne(p)
    BY <2>3, <1>10, <1>11, <1>12, <1>13, <1>14 DEF SubmitOne
  <2>4. QED
    BY <1>1, <2>1, <2>2, <2>3 DEF StepOf, Continue

\* Nobody settles a row the lock holder is going to write.
LEMMA OpenRowsStep ==
  ASSUME IInv, OpenRows, [Next]_vars
  PROVE  OpenRows'
<1> SUFFICES ASSUME NEW q \in Workers \cup Reconcilers, NEW c \in Cids
             PROVE  /\ pc'[q] \in Looping => seen'[q][c].status # "SETTLED"
                    /\ pc'[q] \in Looping \ {"settle"} /\ seen'[q][c].status # "NONE"
                         => local'[c].status # "SETTLED"
                    /\ pc'[q] \in {"settle"} \cup Cancelling /\ c \in todo'[q]
                         => local'[c].status # "SETTLED"
                    /\ pc'[q] \in Aimed /\ c = target'[q]
                         => local'[c].status # "SETTLED"
  BY DEF OpenRows
<1>0. q \in Procs
  BY DEF Procs
<1>1. CASE StepOf(q)
  BY <1>1, OwnOpen
<1>2. CASE ~StepOf(q)
  <2>1. pc'[q] = pc[q] /\ seen'[q] = seen[q] /\ todo'[q] = todo[q]
          /\ target'[q] = target[q]
    BY <1>0, <1>2, SomeStep, AllKeep, OthersKeep DEF IInv, TypeInv
  <2>2. CASE pc[q] \in {"idle", "lock"}
    BY <2>1, <2>2 DEF Looping, Cancelling, Aimed
  <2>3. CASE pc[q] \notin {"idle", "lock"}
    <3>1. lock = q
      BY <2>3 DEF IInv, LockHeld
    <3>2. local[c].status # "SETTLED" => local'[c].status # "SETTLED"
      BY <1>2, <3>1, SettledBy
    <3>3. QED
      BY <2>1, <3>2 DEF OpenRows
  <2>4. QED
    BY <2>2, <2>3
<1>3. QED
  BY <1>1, <1>2

\* The lock holder's rows are open always.
LEMMA OpenInvariant ==
  ASSUME LateDelivery = FALSE, Overlap = FALSE
  PROVE  Spec => [](IInv /\ OpenRows)
<1>1. Init => OpenRows
  BY DEF Init, OpenRows, Looping, Cancelling, Aimed, Procs
<1>2. IInv /\ OpenRows /\ [Next]_vars => OpenRows'
  BY OpenRowsStep
<1>3. QED
  BY <1>1, <1>2, Invariant, PTL DEF Spec

\* No cycle and no reconciliation reopens a settled row, though their updates
\* are unconditional: the cycle lock keeps a worker off the rows another has
\* settled.  Only the emergency stop may (repository.py: settle_order,
\* order_canceled, apply_remote_order).
THEOREM SettledStays ==
  ASSUME LateDelivery = FALSE, Overlap = FALSE
  PROVE  Spec => SettledIsFinal
<1> DEFINE Reopens(c) == local[c].status = "SETTLED" /\ local'[c].status # "SETTLED"
           ByStop(c)  == \E k \in Killers : /\ pc[k] \in {"canceled", "cancelUnknown"}
                                            /\ target[k] = c
<1>1. IInv /\ OpenRows /\ [Next]_vars
        => [\A c \in Cids : Reopens(c) => ByStop(c)]_vars
  <2> SUFFICES ASSUME IInv, OpenRows, [Next]_vars, NEW c \in Cids, Reopens(c)
               PROVE  ByStop(c)
    OBVIOUS
  <2>1. PICK p \in Procs : Writes(p, c)
    BY Written DEF IInv
  <2>2. p \notin Workers \cup Reconcilers
    BY <2>1, OpenWritten
  <2>3. QED
    BY <2>1, <2>2, Writer
<1>2. QED
  BY <1>1, OpenInvariant, PTL DEF Spec, SettledIsFinal

---------------------------------------------------------------------------
(* What is over is over on the exchange                                    *)

\* The exchange is done with an order it had.
Over(c) == exch[c].status \in {"executed", "canceled"}

\* Orders the exchange never had are not filled; full ones and those of a
\* market with a result are not resting.
ExchangeSound ==
  \A c \in Cids :
    /\ exch[c].status = "none" => exch[c].filled = 0
    /\ MarketOf[c] \in settled => exch[c].status # "resting"

\* What has been read of the exchange lags behind it.
Lagging ==
  /\ \A c \in Cids : persisted[c] <= exch[c].filled
  /\ \A p \in Procs : results[p] \subseteq settled
  /\ \A p \in Procs, c \in Cids :
       /\ fills[p][c] <= exch[c].filled
       /\ remote[p][c].filled <= exch[c].filled
       /\ remote[p][c].status \in {"executed", "canceled"} => Over(c)
  /\ \A p \in Procs :
       /\ pc[p] = "canceled" => Over(target[p])
       /\ pc[p] = "ack" => /\ answer[p] <= exch[target[p]].filled
                           /\ answer[p] = Units => Over(target[p])

\* A row says that an order is over only when the exchange is done with it,
\* or never had it.
SaysOver(row) == row.status \in {"FILLED", "CANCELED"}

RowsOver ==
  /\ \A c \in Cids :
       /\ SaysOver(local[c]) => Over(c)
       /\ local[c].status = "REJECTED" => exch[c].status = "none"
       /\ local[c].status = "SETTLED" => MarketOf[c] \in settled
  /\ \A p \in Procs, c \in Cids :
       /\ SaysOver(seen[p][c]) => Over(c)
       /\ pc[p] \in Looping => seen[p][c].status # "REJECTED"

\* A row counts no lot the exchange has not filled; a reconciliation that
\* knows the result of a market has its orders' fills in full, from the second
\* loop on in the table of fills and from the third in the rows it settles.
Counts ==
  \A c \in Cids :
    /\ local[c].filled <= exch[c].filled
    /\ local[c].filled > 0 \/ persisted[c] > 0 => local[c].kid
    /\ local[c].status = "NONE" => ~local[c].kid
    /\ local[c].status = "SETTLED" => local[c].filled = exch[c].filled

InFullOf(p, c) ==
  /\ pc[p] \in Looping /\ seen[p][c].status # "NONE" =>
       /\ seen[p][c].filled = local[c].filled
       /\ seen[p][c].kid = local[c].kid
       /\ /\ seen[p][c].kid
          /\ MarketOf[c] \in results[p]
          /\ \/ pc[p] = "persist" /\ c \notin todo[p]
             \/ pc[p] \in {"refresh", "settle"}
          => persisted[c] = exch[c].filled
       /\ /\ seen[p][c].filled > 0
          /\ MarketOf[c] \in results[p]
          /\ \/ pc[p] = "refresh" /\ c \notin todo[p]
             \/ pc[p] = "settle"
          => seen[p][c].filled = exch[c].filled
  /\ pc[p] \in Looping \cup {"locals"} /\ MarketOf[c] \in results[p]
       => fills[p][c] = exch[c].filled

InFull == \A p \in Procs, c \in Cids : InFullOf(p, c)

\* Whoever steps: fills only grow, what is over does not change, and neither
\* does an order of a market with a result.
LEMMA ExchangeMoves ==
  ASSUME TypeInv, ExchangeSound, [Next]_vars, NEW c \in Cids
  PROVE  /\ exch[c].filled <= exch'[c].filled
         /\ Over(c) => exch'[c] = exch[c]
         /\ MarketOf[c] \in settled => exch'[c] = exch[c]
<1> USE DEF TypeInv, TypeOK, ExchangeSound, Over, exchange
<1>0. /\ \A f \in Lots : Placed(f).filled = f /\ 0 <= f
      /\ exch[c].filled \in Lots /\ exch[c].filled \in Int
  BY UnitsAssumption DEF Placed, Lots, Remote
<1>1. ASSUME NEW p \in Procs, CreateOrder(p), exch'[c] # exch[c]
      PROVE  /\ exch[c].status = "none" /\ MarketOf[c] \notin settled
             /\ exch[c].filled <= exch'[c].filled
  <2>1. PICK f \in Lots : /\ exch' = [exch EXCEPT ![target[p]] = Placed(f)]
                          /\ exch[target[p]].status = "none"
                          /\ MarketOf[target[p]] \notin settled
    BY <1>1 DEF CreateOrder
  <2>2. c = target[p] /\ exch'[c] = Placed(f)
    BY <1>1, <2>1
  <2>3. QED
    BY <1>0, <2>1, <2>2
<1>2. ASSUME NEW p \in Procs, NEW d \in Cids, CancelOne(p, d), exch'[c] # exch[c]
      PROVE  exch[c].status = "resting" /\ exch[c].filled <= exch'[c].filled
  <2>1. /\ exch' = [exch EXCEPT ![d].status = "canceled"]
        /\ exch[d].status = "resting"
    BY <1>2 DEF CancelOne
  <2>2. c = d /\ exch'[c].filled = exch[c].filled
    BY <1>2, <2>1 DEF Remote
  <2>3. QED
    BY <1>0, <2>1, <2>2
<1>3. ASSUME NEW d \in Cids, Fill(d) \/ Expire(d), exch'[c] # exch[c]
      PROVE  exch[c].status = "resting" /\ exch[c].filled <= exch'[c].filled
  <2>1. CASE Fill(d)
    <3>1. exch[d].status = "resting" /\ c = d
            /\ exch'[c] = Placed(exch[c].filled + 1)
      BY <1>3, <2>1 DEF Fill
    <3>2. QED
      BY <1>0, <3>1 DEF Placed
  <2>2. CASE Expire(d)
    <3>1. /\ exch' = [exch EXCEPT ![d].status = "canceled"]
          /\ exch[d].status = "resting"
      BY <2>2 DEF Expire
    <3>2. c = d /\ exch'[c].filled = exch[c].filled
      BY <1>3, <3>1 DEF Remote
    <3>3. QED
      BY <1>0, <3>1, <3>2
  <2>3. QED
    BY <1>3, <2>1, <2>2
<1>4. ASSUME NEW d \in Cids, Deliver(d), exch'[c] # exch[c]
      PROVE  /\ exch[c].status = "none" /\ MarketOf[c] \notin settled
             /\ exch[c].filled <= exch'[c].filled
  <2>1. /\ exch' = [exch EXCEPT ![d] = Placed(0)]
        /\ exch[d].status = "none" /\ MarketOf[d] \notin settled
    BY <1>4 DEF Deliver
  <2>2. c = d /\ exch'[c] = Placed(0)
    BY <1>4, <2>1
  <2>3. QED
    BY <1>0, <2>1, <2>2, RemoteTypes
<1>5. CASE exch'[c] = exch[c]
  BY <1>0, <1>5
<1>6. QED
  BY <1>1, <1>2, <1>3, <1>4, <1>5, ExchangeFrame

\* Results are only ever added, each when nothing of its market rests.
LEMMA ResultsMove ==
  ASSUME [Next]_vars
  PROVE  \/ settled' = settled
         \/ \E m \in Markets : Settle(m)
<1> USE DEF exchange
<1>1. ASSUME NEW p \in Procs, StepOf(p) PROVE settled' = settled
  <2>1. CASE OperatorKills(p) \/ RequestReconcile(p) \/ BeginCycle(p)
               \/ TryLock(p) \/ RequestEnable(p) \/ Finish(p) \/ Abort(p)
    BY <2>1 DEF OperatorKills, RequestReconcile, BeginCycle, TryLock,
       RequestEnable, Finish, Abort
  <2>2. CASE Reconcile(p)
    BY <2>2 DEF Reconcile, ListOrders, ListFills, ListLocals, ApplyOne,
       ApplyDone, PersistOne, PersistDone, RefreshOne, RefreshDone, SettleOne,
       SettleDone, RecordReconciliation
  <2>3. CASE CancelBotOrders(p)
    BY <2>3 DEF CancelBotOrders, ListActive, KeepOne, CancelOne,
       CancelRecorded, CancelDone
  <2>4. CASE SubmitOne(p)
    BY <2>4 DEF SubmitOne, Gate, SignalPasses, NoSignal, CreateIntent,
       StartSubmission, CreateOrder, Acknowledge, AmbiguousRecorded,
       RejectedRecorded
  <2>5. QED
    BY <1>1, <2>1, <2>2, <2>3, <2>4 DEF StepOf, Continue
<1>2. CASE OperatorStops \/ UNCHANGED vars
  BY <1>2 DEF OperatorStops, vars
<1>3. ASSUME NEW c \in Cids, Fill(c) \/ Expire(c) \/ Deliver(c)
      PROVE  settled' = settled
  BY <1>3 DEF Fill, Expire, Deliver
<1>4. QED
  BY <1>1, <1>2, <1>3, SomeStep DEF ExchangeStep

LEMMA ExchangeSoundStep ==
  ASSUME TypeInv, ExchangeSound, [Next]_vars
  PROVE  ExchangeSound' /\ settled \subseteq settled'
<1> USE DEF TypeInv, TypeOK, ExchangeSound
<1>1. CASE \E m \in Markets : Settle(m)
  BY <1>1 DEF Settle
<1>2. CASE settled' = settled
  <2>1. ASSUME NEW c \in Cids, exch'[c].status = "none"
        PROVE  exch'[c].filled = 0
    <3>1. exch'[c] = exch[c]
      <4>1. ASSUME NEW p \in Procs, CreateOrder(p)
            PROVE  exch'[c] = exch[c]
        BY <2>1, <4>1, RemoteTypes DEF CreateOrder
      <4>2. ASSUME NEW p \in Procs, NEW d \in Cids, CancelOne(p, d)
            PROVE  exch'[c] = exch[c]
        <5>1. exch' = exch \/ exch' = [exch EXCEPT ![d].status = "canceled"]
          BY <4>2 DEF CancelOne
        <5>2. QED
          BY <2>1, <5>1 DEF Remote
      <4>3. ASSUME NEW d \in Cids, Fill(d) \/ Expire(d) \/ Deliver(d)
            PROVE  exch'[c] = exch[c]
        <5>1. CASE Fill(d)
          BY <2>1, <5>1 DEF Fill, Placed
        <5>2. CASE Expire(d)
          BY <2>1, <5>2 DEF Expire, Remote
        <5>3. CASE Deliver(d)
          BY <2>1, <5>3, RemoteTypes DEF Deliver
        <5>4. QED
          BY <4>3, <5>1, <5>2, <5>3
      <4>4. QED
        BY <4>1, <4>2, <4>3, ExchangeFrame
    <3>2. QED
      BY <2>1, <3>1
  <2>2. ASSUME NEW c \in Cids, MarketOf[c] \in settled'
        PROVE  exch'[c].status # "resting"
    BY <1>2, <2>2, ExchangeMoves
  <2>3. QED
    BY <1>2, <2>1, <2>2
<1>3. QED
  BY <1>1, <1>2, ResultsMove

\* A process's step leaves what the others have read alone.
LEMMA OthersKeepReads ==
  ASSUME TypeOK, NEW p \in Procs, StepOf(p), NEW q \in Procs, q # p
  PROVE  fills'[q] = fills[q] /\ results'[q] = results[q] /\ answer'[q] = answer[q]
<1> USE DEF TypeOK, snapshot, order
<1>1. CASE OperatorKills(p) \/ RequestReconcile(p) \/ BeginCycle(p)
             \/ RequestEnable(p)
  BY <1>1 DEF OperatorKills, RequestReconcile, BeginCycle, RequestEnable
<1>2. CASE TryLock(p) \/ Finish(p) \/ Abort(p)
  BY <1>2 DEF TryLock, Finish, Abort, Forget
<1>3. CASE Reconcile(p)
  BY <1>3 DEF Reconcile, ListOrders, ListFills, ListLocals, ApplyOne,
     ApplyDone, PersistOne, PersistDone, RefreshOne, RefreshDone, SettleOne,
     SettleDone, RecordReconciliation
<1>4. CASE CancelBotOrders(p)
  BY <1>4 DEF CancelBotOrders, ListActive, KeepOne, CancelOne, CancelRecorded,
     CancelDone
<1>5. CASE SubmitOne(p)
  BY <1>5 DEF SubmitOne, Gate, SignalPasses, NoSignal, CreateIntent,
     StartSubmission, CreateOrder, Acknowledge, AmbiguousRecorded,
     RejectedRecorded
<1>6. QED
  BY <1>1, <1>2, <1>3, <1>4, <1>5 DEF StepOf, Continue

LEMMA AllKeepReads ==
  ASSUME OperatorStops \/ ExchangeStep \/ UNCHANGED vars
  PROVE  UNCHANGED <<fills, results, answer, persisted>>
  BY DEF OperatorStops, ExchangeStep, ExchangeOnly, Fill, Expire, Deliver,
     Settle, vars, tables, snapshot, order

\* A process reads the exchange as it is, or forgets what it read.
LEMMA Reads ==
  ASSUME TypeOK, [Next]_vars, NEW q \in Procs
  PROVE  /\ results'[q] \in {results[q], {}, settled}
         /\ \A c \in Cids :
              /\ fills'[q][c] \in {fills[q][c], 0, exch[c].filled}
              /\ remote'[q][c] \in {remote[q][c], NoRemote, exch[c]}
<1> USE DEF TypeOK, snapshot
<1>1. CASE StepOf(q)
  <2>1. CASE OperatorKills(q) \/ RequestReconcile(q) \/ BeginCycle(q)
               \/ RequestEnable(q)
    BY <2>1 DEF OperatorKills, RequestReconcile, BeginCycle, RequestEnable
  <2>2. CASE TryLock(q) \/ Finish(q) \/ Abort(q)
    BY <2>2 DEF TryLock, Finish, Abort, Forget, NoRemotes, NoFills
  <2>3. CASE Reconcile(q)
    BY <2>3 DEF Reconcile, ListOrders, ListFills, ListLocals, ApplyOne,
       ApplyDone, PersistOne, PersistDone, RefreshOne, RefreshDone, SettleOne,
       SettleDone, RecordReconciliation, NoRemotes, NoFills
  <2>4. CASE CancelBotOrders(q)
    BY <2>4 DEF CancelBotOrders, ListActive, KeepOne, CancelOne,
       CancelRecorded, CancelDone
  <2>5. CASE SubmitOne(q)
    BY <2>5 DEF SubmitOne, Gate, SignalPasses, NoSignal, CreateIntent,
       StartSubmission, CreateOrder, Acknowledge, AmbiguousRecorded,
       RejectedRecorded
  <2>6. QED
    BY <1>1, <2>1, <2>2, <2>3, <2>4, <2>5 DEF StepOf, Continue
<1>2. CASE ~StepOf(q)
  BY <1>2, SomeStep, AllKeep, AllKeepReads, OthersKeep, OthersKeepReads
<1>3. QED
  BY <1>1, <1>2

\* Fills are recorded by record_fill alone.
LEMMA Recorded ==
  ASSUME TypeOK, [Next]_vars, NEW c \in Cids, persisted'[c] # persisted[c]
  PROVE  \E p \in Procs : /\ StepOf(p) /\ PersistOne(p, c)
                          /\ seen[p][c].kid
                          /\ persisted'[c] = fills[p][c]
<1> USE DEF TypeOK, tables
<1>1. PICK p \in Procs : StepOf(p)
  BY SomeStep, AllKeepReads
<1>2. \/ persisted' = persisted
      \/ \E d \in Cids : PersistOne(p, d)
  <2>1. CASE OperatorKills(p) \/ RequestReconcile(p) \/ BeginCycle(p)
               \/ TryLock(p) \/ RequestEnable(p) \/ Finish(p) \/ Abort(p)
    BY <2>1 DEF OperatorKills, RequestReconcile, BeginCycle, TryLock,
       RequestEnable, Finish, Abort
  <2>2. CASE Reconcile(p)
    BY <2>2 DEF Reconcile, ListOrders, ListFills, ListLocals, ApplyOne,
       ApplyDone, PersistDone, RefreshOne, RefreshDone, SettleOne, SettleDone,
       RecordReconciliation
  <2>3. CASE CancelBotOrders(p)
    BY <2>3 DEF CancelBotOrders, ListActive, KeepOne, CancelOne,
       CancelRecorded, CancelDone
  <2>4. CASE SubmitOne(p)
    BY <2>4 DEF SubmitOne, Gate, SignalPasses, NoSignal, CreateIntent,
       StartSubmission, CreateOrder, Acknowledge, AmbiguousRecorded,
       RejectedRecorded
  <2>5. QED
    BY <1>1, <2>1, <2>2, <2>3, <2>4 DEF StepOf, Continue
<1>3. PICK d \in Cids : PersistOne(p, d)
  BY <1>2
<1>4. d = c
  BY <1>3 DEF PersistOne
<1>5. persisted'[c] = IF seen[p][c].kid THEN MaxOf(persisted[c], fills[p][c])
                      ELSE persisted[c]
  BY <1>3, <1>4 DEF PersistOne
<1>6. seen[p][c].kid /\ persisted'[c] = fills[p][c]
  BY <1>5 DEF MaxOf
<1>7. QED
  BY <1>1, <1>3, <1>4, <1>6

LEMMA LaggingStep ==
  ASSUME IInv, ExchangeSound, Lagging, [Next]_vars
  PROVE  Lagging'
<1> USE DEF IInv, TypeInv, TypeOK, Lagging
<1>0. \A c \in Cids : /\ exch[c].filled \in Nat /\ exch'[c].filled \in Nat
                      /\ exch[c].filled <= exch'[c].filled
                      /\ Over(c) => Over(c)'
  <2>1. TypeOK'
    BY TypeStep DEF IInv
  <2>2. QED
    BY <2>1, ExchangeMoves, UnitsAssumption DEF Remote, Lots, Over
<1>1. ASSUME NEW c \in Cids PROVE persisted'[c] <= exch'[c].filled
  <2>1. persisted'[c] <= exch[c].filled
    BY Recorded
  <2>2. persisted'[c] \in Nat
    BY TypeStep, UnitsAssumption DEF Lots
  <2>3. QED
    BY <1>0, <2>1, <2>2
<1>2. ASSUME NEW q \in Procs PROVE results'[q] \subseteq settled'
  BY Reads, ExchangeSoundStep
<1>3. ASSUME NEW q \in Procs, NEW c \in Cids
      PROVE  /\ fills'[q][c] <= exch'[c].filled
             /\ remote'[q][c].filled <= exch'[c].filled
             /\ remote'[q][c].status \in {"executed", "canceled"} => Over(c)'
  <2>1. /\ fills'[q][c] \in {fills[q][c], 0, exch[c].filled}
        /\ remote'[q][c] \in {remote[q][c], NoRemote, exch[c]}
    BY Reads
  <2>2. fills[q][c] \in Nat /\ remote[q][c].filled \in Nat
    BY UnitsAssumption DEF Remote, Lots
  <2>3. QED
    BY <1>0, <2>1, <2>2 DEF NoRemote, Over
<1>4. ASSUME NEW q \in Procs, pc'[q] = "canceled" PROVE Over(target[q])'
  <2>1. CASE pc[q] = "canceled" /\ target'[q] = target[q]
    BY <1>0, <2>1 DEF PhaseOK, Over
  <2>2. CASE \E c \in Cids : CancelOne(q, c)
    <3>1. PICK c \in Cids : CancelOne(q, c)
      BY <2>2
    <3>2. exch' = [exch EXCEPT ![c].status = "canceled"] /\ target'[q] = c
      BY <1>4, <3>1 DEF CancelOne, Goto
    <3>3. QED
      BY <3>2 DEF Over, Remote
  <2>3. CASE StepOf(q) /\ ~\E c \in Cids : CancelOne(q, c)
    <3>1. FALSE
      <4> USE <1>4 DEF Goto
      <4>1. CASE OperatorKills(q) \/ RequestReconcile(q) \/ BeginCycle(q)
                   \/ TryLock(q) \/ RequestEnable(q) \/ Finish(q) \/ Abort(q)
        BY <4>1 DEF OperatorKills, RequestReconcile, BeginCycle, TryLock,
           RequestEnable, Finish, Abort
      <4>2. CASE RecordReconciliation(q)
        <5>1. after[q] \in {"cycle", "ambiguous", "request"}
          BY <4>2 DEF PhaseOK, RecordReconciliation, Reconciling
        <5>2. QED
          BY <4>2, <5>1 DEF RecordReconciliation
      <4>3. CASE Reconcile(q) /\ ~RecordReconciliation(q)
        BY <4>3 DEF Reconcile, ListOrders, ListFills, ListLocals, ApplyOne,
           ApplyDone, PersistOne, PersistDone, RefreshOne, RefreshDone,
           SettleOne, SettleDone, NextLoop
      <4>4. CASE CancelBotOrders(q)
        BY <2>3, <4>4 DEF CancelBotOrders, ListActive, KeepOne,
           CancelRecorded, CancelDone
      <4>5. CASE SubmitOne(q)
        BY <4>5 DEF SubmitOne, Gate, SignalPasses, NoSignal, CreateIntent,
           StartSubmission, CreateOrder, Acknowledge, AmbiguousRecorded,
           RejectedRecorded
      <4>6. QED
        BY <2>3, <4>1, <4>2, <4>3, <4>4, <4>5 DEF StepOf, Continue
    <3>2. QED
      BY <3>1
  <2>4. CASE ~StepOf(q)
    <3>1. pc'[q] = pc[q] /\ target'[q] = target[q]
      BY <2>4, SomeStep, AllKeep, OthersKeep
    <3>2. QED
      BY <1>4, <2>1, <3>1
  <2>5. QED
    BY <2>2, <2>3, <2>4
<1>5. ASSUME NEW q \in Procs, pc'[q] = "ack"
      PROVE  /\ answer'[q] <= exch'[target'[q]].filled
             /\ answer'[q] = Units => Over(target[q])'
  <2>1. CASE StepOf(q)
    <3>1. q \in Workers
      BY <1>5, <2>1, PhaseStep DEF PhaseOK, Procs, Reconciling
    <3>2. CreateOrder(q) /\ target[q] \in Cids /\ target' = target
      BY <1>5, <2>1, <3>1, WorkerMoves DEF CreateOrder, PhaseOK
    <3>3. PICK f \in Lots : /\ exch' = [exch EXCEPT ![target[q]] = Placed(f)]
                            /\ answer'[q] = f
      BY <1>5, <3>2 DEF CreateOrder, Goto
    <3>4. f <= f /\ exch'[target[q]] = Placed(f)
      BY <3>2, <3>3, UnitsAssumption DEF Lots
    <3>5. QED
      BY <3>2, <3>3, <3>4 DEF Placed, Over
  <2>2. CASE ~StepOf(q)
    <3>1. pc'[q] = pc[q] /\ target'[q] = target[q] /\ answer'[q] = answer[q]
      BY <2>2, SomeStep, AllKeep, AllKeepReads, OthersKeep, OthersKeepReads
    <3>2. target[q] \in Cids
      BY <1>5, <3>1 DEF PhaseOK
    <3>3. answer[q] \in Nat
      BY UnitsAssumption DEF Lots
    <3>4. answer[q] <= exch[target[q]].filled
            /\ (answer[q] = Units => Over(target[q]))
      BY <1>5, <3>1
    <3>5. /\ exch[target[q]].filled \in Nat /\ exch'[target[q]].filled \in Nat
          /\ exch[target[q]].filled <= exch'[target[q]].filled
      BY <1>0, <3>2
    <3>6. answer[q] <= exch'[target[q]].filled
      BY <3>3, <3>4, <3>5
    <3>7. Over(target[q]) => exch'[target[q]] = exch[target[q]]
      BY <3>2, ExchangeMoves
    <3>8. QED
      BY <3>1, <3>4, <3>6, <3>7 DEF Over
  <2>3. QED
    BY <2>1, <2>2
<1>6. QED
  BY <1>1, <1>2, <1>3, <1>4, <1>5 DEF Over

LEMMA AllRecorded ==
  ASSUME NEW m \in Lots, NEW n \in Lots, m <= n, m >= Units
  PROVE  n = Units
  BY UnitsAssumption DEF Lots

\* The status a written row gets.
LEMMA WrittenStatus ==
  ASSUME IInv, OpenRows, ExchangeSound, Lagging, RowsOver,
         NEW p \in Procs, NEW c \in Cids, Writes(p, c)
  PROVE  /\ SaysOver(local'[c]) => Over(c)
         /\ local'[c].status = "REJECTED" /\ local'[c] # local[c]
              => exch[c].status = "none" /\ exch' = exch /\ pc[p] = "rejected"
<1> USE DEF IInv, TypeInv, TypeOK, SaysOver
<1>1. CASE ApplyOne(p, c)
  <2>1. CASE remote[p][c].status # "none"
    <3>1. local'[c] = ApplyRemote(local[c], remote[p][c])
      BY <1>1, <2>1 DEF ApplyOne
    <3>2. SaysOver(local'[c]) => remote[p][c].status \in {"executed", "canceled"}
      BY <2>1, <3>1 DEF ApplyRemote, StatusOf, Remote
    <3>3. QED
      BY <2>1, <3>1, <3>2, ApplyRemoteType DEF Lagging
  <2>2. CASE remote[p][c].status = "none"
    <3>1. local' = local \/ local'[c] = WithStatus(local[c], "PENDING")
      BY <1>1, <2>2 DEF ApplyOne
    <3>2. QED
      BY <3>1 DEF WithStatus, Row, RowsOver
  <2>3. QED
    BY <2>1, <2>2
<1>2. CASE RefreshOne(p, c)
  <2> DEFINE held  == seen[p][c]
             fresh == RefreshFills(held, persisted[c])
  <2>1. local' = local \/ local'[c].status = fresh.status
    <3>1. WithFills(local[c], fresh).status = fresh.status
      BY DEF WithFills, Row
    <3>2. local' = local \/ local' = [local EXCEPT ![c] = WithFills(@, fresh)]
      BY <1>2 DEF RefreshOne
    <3> HIDE DEF fresh
    <3>3. QED
      BY <3>1, <3>2
  <2>2. held.status # "REJECTED" /\ (SaysOver(held) => Over(c))
    BY <1>2 DEF RefreshOne, RowsOver, Looping
  <2>3. persisted[c] >= Units => Over(c)
    <3>1. persisted[c] \in Lots /\ exch[c].filled \in Lots
      BY DEF Remote
    <3>2. persisted[c] <= exch[c].filled
      BY DEF Lagging
    <3>3. persisted[c] >= Units => exch[c].filled = Units
      BY <3>1, <3>2, AllRecorded
    <3>4. exch[c].filled = Units => exch[c].status \notin {"resting", "none"}
      BY UnitsAssumption DEF RestingOpen, ExchangeSound
    <3>5. QED
      BY <3>3, <3>4 DEF Over, Remote
  <2>4. /\ fresh.status # "REJECTED"
        /\ fresh.status \in {"FILLED", "CANCELED"} => Over(c)
    BY <2>2, <2>3 DEF RefreshFills, RefreshedStatus
  <2> HIDE DEF held, fresh
  <2>5. QED
    BY <2>1, <2>4 DEF RowsOver
<1>3. CASE SettleOne(p, c)
  <2>1. local' = local \/ local'[c].status \in {"SETTLED", seen[p][c].status}
    BY <1>3 DEF SettleOne, SettledRow, MarkedRow, WithStatus, Row
  <2>2. seen[p][c].status # "REJECTED" /\ (SaysOver(seen[p][c]) => Over(c))
    BY <1>3 DEF SettleOne, RowsOver, Looping
  <2>3. QED
    BY <2>1, <2>2 DEF RowsOver
<1>4. CASE c = target[p] /\ CancelRecorded(p)
  <2>1. \/ pc[p] = "canceled" /\ local'[c].status = "CANCELED"
        \/ local'[c].status = "UNKNOWN"
    BY <1>4 DEF CancelRecorded, CanceledRow, WithStatus, Row
  <2>2. QED
    BY <1>4, <2>1 DEF Lagging
<1>5. CASE c = target[p] /\ CreateIntent(p)
  <2>1. local' = local \/ local'[c].status = "PENDING"
    BY <1>5 DEF CreateIntent, NewIntent
  <2>2. QED
    BY <2>1 DEF RowsOver
<1>6. CASE c = target[p] /\ (StartSubmission(p) \/ AmbiguousRecorded(p))
  <2>1. local'[c].status \in {"SUBMITTING", "UNKNOWN"}
    BY <1>6 DEF StartSubmission, AmbiguousRecorded, WithStatus, Row
  <2>2. QED
    BY <2>1
<1>7. CASE c = target[p] /\ RejectedRecorded(p)
  <2>1. local'[c].status = "REJECTED" /\ pc[p] = "rejected" /\ exch' = exch
    BY <1>7 DEF RejectedRecorded, WithStatus, Row, exchange
  <2>2. exch[c].status = "none"
    BY <1>7, <2>1, Submitter DEF TargetRow, Submitting
  <2>3. QED
    BY <2>1, <2>2
<1>8. CASE c = target[p] /\ Acknowledge(p)
  <2>1. local'[c] = Acknowledged(answer[p]) /\ pc[p] = "ack"
    BY <1>8 DEF Acknowledge
  <2>2. local'[c].status = "FILLED" => answer[p] = Units
    BY <2>1 DEF Acknowledged
  <2>3. local'[c].status \notin {"CANCELED", "REJECTED"}
    BY <2>1 DEF Acknowledged
  <2>4. QED
    BY <1>8, <2>1, <2>2, <2>3 DEF Lagging
<1>9. QED
  BY <1>1, <1>2, <1>3, <1>4, <1>5, <1>6, <1>7, <1>8 DEF Writes

\* No row in a reconciliation's loops is REJECTED.
LEMMA HeldNotRejected ==
  ASSUME IInv, OpenRows, ExchangeSound, Lagging, RowsOver, [Next]_vars,
         NEW q \in Procs, NEW c \in Cids, pc'[q] \in Looping
  PROVE  seen'[q][c].status # "REJECTED"
<1> USE DEF IInv, TypeInv, TypeOK, Goto, cursors
<1>1. CASE ~StepOf(q)
  BY <1>1, SomeStep, AllKeep, OthersKeep DEF RowsOver
<1>2. CASE ListLocals(q)
  <2>1. seen'[q][c] = IF Reconcilable(local[c]) THEN local[c] ELSE NoRow
    BY <1>2 DEF ListLocals
  <2>2. QED
    BY <2>1 DEF Reconcilable, NoRow
<1>3. ASSUME NEW d \in Cids, ApplyOne(q, d) \/ RefreshOne(q, d)
      PROVE  seen'[q][c].status # "REJECTED"
  <2>1. pc[q] \in Looping /\ seen[q][d].status # "REJECTED"
    BY <1>3 DEF ApplyOne, RefreshOne, Looping, RowsOver
  <2>2. CASE ApplyOne(q, d) /\ remote[q][d].status # "none"
    <3>1. seen'[q][d] = ApplyRemote(local[d], remote[q][d])
      BY <2>2 DEF ApplyOne, Handled
    <3>2. seen'[q][d].status # "REJECTED"
      BY <2>2, <3>1, ApplyRemoteType
    <3>3. c # d => seen'[q][c] = seen[q][c]
      BY <2>2 DEF ApplyOne, Handled
    <3>4. QED
      BY <2>1, <3>2, <3>3 DEF RowsOver
  <2>3. CASE ApplyOne(q, d) /\ remote[q][d].status = "none"
    <3>1. seen'[q][d] \in {seen[q][d], WithStatus(local[d], "PENDING")}
      BY <2>3 DEF ApplyOne, Handled
    <3>2. seen'[q][d].status # "REJECTED"
      BY <2>1, <3>1 DEF WithStatus, Row
    <3>3. c # d => seen'[q][c] = seen[q][c]
      BY <2>3 DEF ApplyOne, Handled
    <3>4. QED
      BY <2>1, <3>2, <3>3 DEF RowsOver
  <2>4. CASE RefreshOne(q, d)
    <3> DEFINE fresh == RefreshFills(seen[q][d], persisted[d])
    <3>1. seen'[q][d] \in {seen[q][d], WithFills(local[d], fresh)}
      BY <2>4 DEF RefreshOne, Handled
    <3>2. WithFills(local[d], fresh).status = fresh.status
      BY DEF WithFills, Row
    <3>3. fresh.status # "REJECTED"
      BY <2>1 DEF RefreshFills, RefreshedStatus
    <3>4. c # d => seen'[q][c] = seen[q][c]
      BY <2>4 DEF RefreshOne, Handled
    <3> HIDE DEF fresh
    <3>5. QED
      BY <2>1, <3>1, <3>2, <3>3, <3>4 DEF RowsOver
  <2>5. QED
    BY <1>3, <2>2, <2>3, <2>4
<1>4. CASE \/ \E d \in Cids : PersistOne(q, d) \/ SettleOne(q, d)
           \/ ApplyDone(q) \/ PersistDone(q) \/ RefreshDone(q)
  <2>1. seen' = seen /\ pc[q] \in Looping
    BY <1>4 DEF PersistOne, SettleOne, ApplyDone, PersistDone, RefreshDone, Looping
  <2>2. QED
    BY <2>1 DEF RowsOver
<1>5. CASE RecordReconciliation(q)
  <2>1. after[q] \in {"cycle", "ambiguous", "request"}
    BY <1>5 DEF PhaseOK, RecordReconciliation, Reconciling
  <2>2. QED
    BY <1>5, <2>1 DEF RecordReconciliation, Looping
<1>6. CASE \/ OperatorKills(q) \/ RequestReconcile(q) \/ BeginCycle(q)
           \/ TryLock(q) \/ RequestEnable(q) \/ Finish(q) \/ Abort(q)
           \/ ListOrders(q) \/ ListFills(q) \/ SettleDone(q)
  BY <1>6 DEF OperatorKills, RequestReconcile, BeginCycle, TryLock,
     RequestEnable, Finish, Abort, ListOrders, ListFills, SettleDone, Looping
<1>7. CASE CancelBotOrders(q)
  BY <1>7 DEF CancelBotOrders, ListActive, KeepOne, CancelOne, CancelRecorded,
     CancelDone, Looping
<1>8. CASE SubmitOne(q)
  BY <1>8 DEF SubmitOne, Gate, SignalPasses, NoSignal, CreateIntent,
     StartSubmission, CreateOrder, Acknowledge, AmbiguousRecorded,
     RejectedRecorded, Looping
<1>9. QED
  BY <1>1, <1>2, <1>3, <1>4, <1>5, <1>6, <1>7, <1>8
     DEF StepOf, Continue, Reconcile

LEMMA RowsOverStep ==
  ASSUME LateDelivery = FALSE, IInv, OpenRows, ExchangeSound, Lagging,
         RowsOver, [Next]_vars
  PROVE  RowsOver'
<1> USE DEF IInv, TypeInv, TypeOK
<1>1. \A c \in Cids : Over(c) => Over(c)'
  BY ExchangeMoves DEF Over
<1>2. ASSUME NEW c \in Cids PROVE SaysOver(local'[c]) => Over(c)
  BY Written, WrittenStatus DEF RowsOver
<1>3. ASSUME NEW c \in Cids, local'[c].status = "REJECTED"
      PROVE  exch'[c].status = "none"
  <2>1. CASE local'[c] # local[c]
    BY <1>3, <2>1, Written, WrittenStatus
  <2>2. CASE local'[c] = local[c]
    <3>1. exch[c].status = "none"
      BY <1>3, <2>2 DEF RowsOver
    <3>2. ASSUME exch'[c].status # "none" PROVE FALSE
      <4>1. PICK p \in Workers : CreateOrder(p) /\ c = target[p]
        BY <3>1, <3>2, Arrivals
      <4>2. QED
        BY <1>3, <2>2, <3>1, <4>1 DEF TargetRow, CreateOrder
    <3>3. QED
      BY <3>2
  <2>3. QED
    BY <2>1, <2>2
<1>4. ASSUME NEW c \in Cids, local'[c].status = "SETTLED"
      PROVE  MarketOf[c] \in settled'
  <2>1. CASE local[c].status = "SETTLED"
    BY <2>1, ExchangeSoundStep DEF RowsOver
  <2>2. CASE local[c].status # "SETTLED"
    <3>1. PICK p \in Workers \cup Reconcilers : SettleOne(p, c)
      BY <1>4, <2>2, SettledBy
    <3>2. pc[p] = "settle" /\ c \in todo[p] /\ p \in Procs
      BY <3>1 DEF SettleOne, Procs
    <3>3. seen[p][c].status # "SETTLED"
      BY <3>2 DEF OpenRows, Looping
    <3>4. MarketOf[c] \in results[p]
      BY <1>4, <2>2, <3>1, <3>3 DEF SettleOne, MarkedRow, WithStatus, Row
    <3>5. QED
      BY <3>2, <3>4, ExchangeSoundStep DEF Lagging
  <2>3. QED
    BY <2>1, <2>2
<1>5. ASSUME NEW q \in Procs, NEW c \in Cids, SaysOver(seen'[q][c])
      PROVE  Over(c)
  <2>1. seen'[q][c] \in {seen[q][c], NoRow, local[c], local'[c]}
    BY SeenChange
  <2>2. /\ SaysOver(seen[q][c]) => Over(c)
        /\ SaysOver(local[c]) => Over(c)
        /\ ~SaysOver(NoRow)
    BY DEF RowsOver, NoRow, SaysOver
  <2>3. QED
    BY <1>2, <1>5, <2>1, <2>2
<1>6. QED
  BY <1>1, <1>2, <1>3, <1>4, <1>5, HeldNotRejected DEF RowsOver

---------------------------------------------------------------------------
(* What is settled is settled in full                                      *)

SettleInv == ExchangeSound /\ Lagging /\ RowsOver /\ Counts /\ InFull

\* The row operators keep or tell the lots filled and the exchange's id.
LEMMA RowFacts ==
  ASSUME NEW row \in Row
  PROVE  /\ \A s \in Statuses : /\ WithStatus(row, s).filled = row.filled
                                /\ WithStatus(row, s).kid = row.kid
                                /\ WithStatus(row, s).status = s
         /\ CanceledRow(row).filled = row.filled
         /\ CanceledRow(row).kid = row.kid
         /\ CanceledRow(row).status = "CANCELED"
         /\ \A fresh : /\ WithFills(row, fresh).filled = fresh.filled
                       /\ WithFills(row, fresh).kid = row.kid
                       /\ WithFills(row, fresh).status = fresh.status
  BY DEF Row, WithStatus, CanceledRow, WithFills

\* Total lots persisted are the lots of the refreshed row.
LEMMA RefreshedLots ==
  ASSUME NEW row \in Row, NEW total \in Lots
  PROVE  RefreshFills(row, total).filled = IF total > 0 THEN total ELSE row.filled
  BY UnitsAssumption DEF RefreshFills, Lots

\* What a written row counts.
LEMMA WrittenCounts ==
  ASSUME IInv, OpenRows, SettleInv, NEW p \in Procs, NEW c \in Cids, Writes(p, c)
  PROVE  /\ local'[c].filled <= exch[c].filled
         /\ local'[c].filled > 0 => local'[c].kid
         /\ local[c].kid => local'[c].kid
         /\ local'[c].status = "NONE" => ~local'[c].kid
<1> USE DEF IInv, TypeInv, TypeOK, SettleInv, Counts
<1>0. /\ local[c].filled \in Nat /\ exch[c].filled \in Nat /\ local[c] \in Row
      /\ \A q \in Procs : answer[q] \in Nat /\ seen[q][c] \in Row
  BY UnitsAssumption DEF Row, Remote, Lots
<1>1. CASE ApplyOne(p, c)
  <2>1. CASE remote[p][c].status # "none"
    <3>1. local'[c] = ApplyRemote(local[c], remote[p][c])
      BY <1>1, <2>1 DEF ApplyOne
    <3>2. local'[c].filled = remote[p][c].filled /\ local'[c].kid
      BY <3>1 DEF ApplyRemote
    <3>3. local'[c].status # "NONE"
      BY <1>0, <2>1, <3>1, ApplyRemoteType
    <3>4. QED
      BY <3>2, <3>3 DEF Lagging
  <2>2. CASE remote[p][c].status = "none"
    <3>1. local' = local \/ local'[c] = WithStatus(local[c], "PENDING")
      BY <1>1, <2>2 DEF ApplyOne
    <3>2. QED
      BY <1>0, <3>1, RowFacts DEF Statuses
  <2>3. QED
    BY <2>1, <2>2
<1>2. CASE RefreshOne(p, c)
  <2> DEFINE fresh == RefreshFills(seen[p][c], persisted[c])
  <2>1. fresh.status # "NONE"
    BY <1>2, RefreshedRow
  <2>2. persisted[c] > 0 => fresh.filled = persisted[c]
    BY <1>0, RefreshedLots
  <2>3. \/ local' = local
        \/ local'[c] = WithFills(local[c], fresh) /\ persisted[c] > 0
    BY <1>2 DEF RefreshOne
  <2> HIDE DEF fresh
  <2>4. CASE local' = local
    BY <2>4
  <2>5. CASE local'[c] = WithFills(local[c], fresh) /\ persisted[c] > 0
    <3>1. /\ local'[c].filled = persisted[c]
          /\ local'[c].kid = local[c].kid
          /\ local'[c].status # "NONE"
      BY <1>0, <2>1, <2>2, <2>5, RowFacts
    <3>2. QED
      BY <2>5, <3>1 DEF Lagging
  <2>6. QED
    BY <2>3, <2>4, <2>5
<1>3. CASE SettleOne(p, c)
  <2>1. /\ seen[p][c].status # "NONE" /\ seen[p][c].status \in Statuses
        /\ "SETTLED" \in Statuses
    BY <1>0, <1>3 DEF SettleOne, HandledCounted, Looping, Row, Statuses
  <2>2. \/ local' = local
        \/ local'[c] = WithStatus(local[c], "SETTLED")
        \/ local'[c] = WithStatus(local[c], seen[p][c].status)
    BY <1>3 DEF SettleOne, SettledRow, MarkedRow
  <2>3. QED
    BY <1>0, <2>1, <2>2, RowFacts
<1>4. CASE c = target[p] /\ CancelRecorded(p)
  <2>1. local'[c] \in {CanceledRow(local[c]), WithStatus(local[c], "UNKNOWN")}
    BY <1>4 DEF CancelRecorded
  <2>2. QED
    BY <1>0, <2>1, RowFacts DEF Statuses
<1>5. CASE c = target[p] /\ CreateIntent(p)
  <2>1. \/ local' = local
        \/ local[c].status = "NONE" /\ local'[c] = NewIntent
    BY <1>5 DEF CreateIntent
  <2>2. QED
    BY <1>0, <2>1 DEF NewIntent
<1>6. CASE c = target[p] /\ \/ StartSubmission(p) \/ AmbiguousRecorded(p)
                            \/ RejectedRecorded(p)
  <2>1. \E s \in Statuses \ {"NONE"} : local'[c] = WithStatus(local[c], s)
    BY <1>6 DEF StartSubmission, AmbiguousRecorded, RejectedRecorded, Statuses
  <2>2. QED
    BY <1>0, <2>1, RowFacts
<1>7. CASE c = target[p] /\ Acknowledge(p)
  <2>1. local'[c] = Acknowledged(answer[p]) /\ pc[p] = "ack"
    BY <1>7 DEF Acknowledge
  <2>2. /\ local'[c].filled = answer[p] /\ local'[c].kid
        /\ local'[c].status # "NONE"
    BY <2>1 DEF Acknowledged
  <2>3. QED
    BY <1>7, <2>1, <2>2 DEF Lagging
<1>8. QED
  BY <1>1, <1>2, <1>3, <1>4, <1>5, <1>6, <1>7 DEF Writes

\* A row settled now was filled in full.
LEMMA SettledNow ==
  ASSUME IInv, OpenRows, SettleInv, [Next]_vars, NEW c \in Cids,
         local[c].status # "SETTLED", local'[c].status = "SETTLED"
  PROVE  local'[c].filled = exch[c].filled /\ exch' = exch
<1> USE DEF IInv, TypeInv, TypeOK, SettleInv
<1>1. PICK p \in Workers \cup Reconcilers : SettleOne(p, c)
  BY SettledBy
<1>2. pc[p] = "settle" /\ c \in todo[p] /\ p \in Procs /\ exch' = exch
  BY <1>1 DEF SettleOne, Procs, exchange
<1>3. seen[p][c].status \notin {"NONE", "SETTLED"}
  BY <1>2 DEF OpenRows, HandledCounted, Looping
<1>4. /\ seen[p][c].filled > 0 /\ MarketOf[c] \in results[p]
      /\ local'[c] = WithStatus(local[c], "SETTLED")
  <2>1. \/ local' = local
        \/ /\ seen[p][c].filled > 0 /\ MarketOf[c] \in results[p]
           /\ local'[c] = WithStatus(local[c], "SETTLED")
        \/ local'[c] = WithStatus(local[c], seen[p][c].status)
    BY <1>1 DEF SettleOne, SettledRow, MarkedRow
  <2>2. local[c] \in Row /\ seen[p][c].status \in Statuses
    BY <1>2 DEF Row
  <2>3. QED
    BY <1>3, <2>1, <2>2, RowFacts
<1>5. local[c].filled = seen[p][c].filled /\ seen[p][c].filled = exch[c].filled
  BY <1>2, <1>3, <1>4 DEF InFull, InFullOf, Looping
<1>6. local'[c].filled = local[c].filled
  BY <1>4, RowFacts DEF Statuses
<1>7. QED
  BY <1>2, <1>5, <1>6

LEMMA CountsStep ==
  ASSUME IInv, OpenRows, SettleInv, [Next]_vars
  PROVE  Counts'
<1> USE DEF IInv, TypeInv, TypeOK, SettleInv
<1> SUFFICES ASSUME NEW c \in Cids
             PROVE  /\ local'[c].filled <= exch'[c].filled
                    /\ local'[c].filled > 0 \/ persisted'[c] > 0 => local'[c].kid
                    /\ local'[c].status = "NONE" => ~local'[c].kid
                    /\ local'[c].status = "SETTLED"
                         => local'[c].filled = exch'[c].filled
  BY DEF Counts
<1>0. /\ exch[c].filled \in Nat /\ exch'[c].filled \in Nat
      /\ local'[c].filled \in Nat /\ exch[c].filled <= exch'[c].filled
  BY TypeStep, ExchangeMoves, UnitsAssumption DEF Row, Remote, Lots
<1>1. /\ local'[c].filled <= exch[c].filled
      /\ local'[c].filled > 0 => local'[c].kid
      /\ local[c].kid => local'[c].kid
      /\ local'[c].status = "NONE" => ~local'[c].kid
  <2>1. CASE local'[c] = local[c]
    BY <2>1 DEF Counts
  <2>2. CASE local'[c] # local[c]
    BY <2>2, Written, WrittenCounts
  <2>3. QED
    BY <2>1, <2>2
<1>2. persisted'[c] > 0 => local'[c].kid
  <2>1. CASE persisted'[c] = persisted[c]
    BY <1>1, <2>1 DEF Counts
  <2>2. CASE persisted'[c] # persisted[c]
    <3>1. PICK p \in Procs : PersistOne(p, c) /\ seen[p][c].kid
      BY <2>2, Recorded
    <3>2. pc[p] \in Looping /\ seen[p][c].status # "NONE"
      BY <3>1 DEF PersistOne, HandledCounted, Looping
    <3>3. QED
      BY <1>1, <3>1, <3>2 DEF InFull, InFullOf
  <2>3. QED
    BY <2>1, <2>2
<1>3. ASSUME local'[c].status = "SETTLED"
      PROVE  local'[c].filled = exch'[c].filled
  <2>1. CASE local[c].status # "SETTLED"
    BY <1>3, <2>1, SettledNow
  <2>2. CASE local[c].status = "SETTLED"
    <3>1. local'[c] = local[c]
      <4>1. ASSUME local'[c] # local[c] PROVE FALSE
        <5>1. PICK p \in Procs : Writes(p, c)
          BY <4>1, Written
        <5>2. CancelRecorded(p) /\ c = target[p]
          BY <2>2, <4>1, <5>1, Writer, OpenWritten
        <5>3. local'[c] \in {CanceledRow(local[c]), WithStatus(local[c], "UNKNOWN")}
          BY <5>2 DEF CancelRecorded
        <5>4. QED
          BY <1>3, <5>3, RowFacts DEF Statuses
      <4>2. QED
        BY <4>1
    <3>2. exch'[c] = exch[c]
      BY <2>2, ExchangeMoves DEF RowsOver
    <3>3. QED
      BY <2>2, <3>1, <3>2 DEF Counts
  <2>3. QED
    BY <2>1, <2>2
<1>4. local'[c].filled <= exch'[c].filled
  BY <1>0, <1>1
<1>5. QED
  BY <1>1, <1>2, <1>3, <1>4

\* The lock holder's figures are disturbed by nobody else.
LEMMA OthersInFull ==
  ASSUME IInv, OpenRows, SettleInv, [Next]_vars, NEW q \in Procs, NEW c \in Cids,
         ~StepOf(q)
  PROVE  InFullOf(q, c)'
<1> USE DEF IInv, TypeInv, TypeOK, SettleInv
<1>1. /\ pc'[q] = pc[q] /\ seen'[q] = seen[q] /\ todo'[q] = todo[q]
      /\ results'[q] = results[q] /\ fills'[q] = fills[q]
  BY SomeStep, AllKeep, AllKeepReads, OthersKeep, OthersKeepReads
<1>2. CASE pc[q] \notin Looping \cup {"locals"}
  BY <1>1, <1>2 DEF InFullOf
<1>3. CASE pc[q] \in Looping \cup {"locals"}
  <2>1. lock = q
    BY <1>3, Holder DEF Looping, Reconciling
  <2>2. MarketOf[c] \in results[q] => exch'[c] = exch[c]
    BY ExchangeMoves DEF Lagging
  <2>3. persisted'[c] = persisted[c]
    <3>1. ASSUME persisted'[c] # persisted[c] PROVE FALSE
      <4>1. PICK p \in Procs : StepOf(p) /\ PersistOne(p, c)
        BY <3>1, Recorded
      <4>2. lock = p
        BY <4>1, Holder DEF PersistOne, Reconciling
      <4>3. QED
        BY <2>1, <4>1, <4>2
    <3>2. QED
      BY <3>1
  <2>4. local'[c].filled = local[c].filled /\ local'[c].kid = local[c].kid
    <3>1. CASE local'[c] # local[c]
      <4>1. PICK p \in Procs : StepOf(p) /\ Writes(p, c)
        BY <3>1, Written
      <4>2. CancelRecorded(p) /\ c = target[p]
        BY <2>1, <4>1, Writer
      <4>3. local'[c] \in {CanceledRow(local[c]), WithStatus(local[c], "UNKNOWN")}
        BY <4>2 DEF CancelRecorded
      <4>4. QED
        BY <4>3, RowFacts DEF Statuses
    <3>2. QED
      BY <3>1
  <2>5. QED
    BY <1>1, <2>2, <2>3, <2>4 DEF InFull, InFullOf
<1>4. QED
  BY <1>2, <1>3

\* A reconciliation's own steps keep its figures right.
LEMMA OwnInFull ==
  ASSUME IInv, OpenRows, SettleInv, [Next]_vars, NEW q \in Procs, NEW c \in Cids,
         StepOf(q)
  PROVE  InFullOf(q, c)'
<1> USE DEF IInv, TypeInv, TypeOK, SettleInv, Goto, Looping, exchange, snapshot,
        cursors, order, tables
<1>0. /\ local[c] \in Row /\ seen[q][c] \in Row /\ persisted[c] \in Nat
      /\ local[c].filled \in Nat /\ exch[c].filled \in Nat
      /\ persisted[c] <= exch[c].filled /\ local[c].filled <= exch[c].filled
      /\ local[c].filled > 0 \/ persisted[c] > 0 => local[c].kid
      /\ InFullOf(q, c)
  BY UnitsAssumption DEF Row, Remote, Lots, Lagging, Counts, InFull
<1>1. CASE pc'[q] \notin Looping \cup {"locals"}
  BY <1>1 DEF InFullOf
<1>2. CASE ListFills(q)
  <2>1. pc'[q] = "locals" /\ exch' = exch /\ fills'[q][c] = exch[c].filled
    BY <1>2 DEF ListFills
  <2>2. QED
    BY <2>1 DEF InFullOf
<1>3. CASE ListLocals(q)
  <2>1. /\ pc[q] = "locals" /\ pc'[q] = "apply" /\ local' = local
        /\ exch' = exch /\ fills' = fills /\ results' = results
        /\ seen'[q][c] \in {local[c], NoRow}
    BY <1>3 DEF ListLocals
  <2>2. QED
    BY <1>0, <2>1 DEF InFullOf, NoRow
<1>4. ASSUME NEW d \in Cids, ApplyOne(q, d) PROVE InFullOf(q, c)'
  <2>1. /\ pc[q] = "apply" /\ pc' = pc /\ d \in todo[q]
        /\ exch' = exch /\ fills' = fills /\ results' = results
    BY <1>4 DEF ApplyOne
  <2>2. seen[q][d].status # "NONE"
    BY <2>1 DEF HandledCounted
  <2>3. CASE c # d
    <3>1. local'[c] = local[c] /\ seen'[q][c] = seen[q][c]
      BY <1>4, <2>3 DEF ApplyOne, Handled
    <3>2. QED
      BY <1>0, <2>1, <3>1 DEF InFullOf
  <2>4. CASE c = d
    <3>1. \/ seen'[q][c] = local'[c]
          \/ local' = local /\ seen'[q][c] = seen[q][c]
      BY <1>4, <2>4 DEF ApplyOne, Handled
    <3>2. QED
      BY <1>0, <2>1, <2>2, <2>4, <3>1 DEF InFullOf
  <2>5. QED
    BY <2>3, <2>4
<1>5. CASE ApplyDone(q) \/ PersistDone(q) \/ RefreshDone(q)
  <2>1. /\ local' = local /\ seen' = seen /\ exch' = exch /\ fills' = fills
        /\ results' = results /\ persisted' = persisted
        /\ todo[q] = {} /\ todo'[q] = Held(q)
        /\ \/ pc[q] = "apply" /\ pc'[q] = "persist"
           \/ pc[q] = "persist" /\ pc'[q] = "refresh"
           \/ pc[q] = "refresh" /\ pc'[q] = "settle"
    BY <1>5 DEF ApplyDone, PersistDone, RefreshDone, NextLoop
  <2>2. seen[q][c].status # "NONE" => c \in todo'[q]
    BY <2>1 DEF Held
  <2>3. QED
    BY <1>0, <2>1, <2>2 DEF InFullOf
<1>6. ASSUME NEW d \in Cids, PersistOne(q, d) PROVE InFullOf(q, c)'
  <2>1. /\ pc[q] = "persist" /\ pc' = pc /\ d \in todo[q] /\ todo'[q] = todo[q] \ {d}
        /\ local' = local /\ seen' = seen /\ exch' = exch /\ fills' = fills
        /\ results' = results
    BY <1>6 DEF PersistOne
  <2>2. CASE c # d
    <3>1. persisted'[c] = persisted[c]
      BY <1>6, <2>2 DEF PersistOne
    <3>2. QED
      BY <1>0, <2>1, <2>2, <3>1 DEF InFullOf
  <2>3. CASE c = d
    <3>1. persisted'[c] = IF seen[q][c].kid THEN MaxOf(persisted[c], fills[q][c])
                          ELSE persisted[c]
      BY <1>6, <2>3 DEF PersistOne
    <3>2. ASSUME MarketOf[c] \in results[q], seen[q][c].kid
          PROVE  persisted'[c] = exch[c].filled
      <4>1. fills[q][c] = exch[c].filled
        BY <1>0, <2>1, <3>2 DEF InFullOf
      <4>2. QED
        BY <1>0, <3>1, <3>2, <4>1 DEF MaxOf
    <3>3. QED
      BY <1>0, <2>1, <3>2 DEF InFullOf
  <2>4. QED
    BY <2>2, <2>3
<1>7. ASSUME NEW d \in Cids, RefreshOne(q, d) PROVE InFullOf(q, c)'
  <2>1. /\ pc[q] = "refresh" /\ pc' = pc /\ d \in todo[q] /\ todo'[q] = todo[q] \ {d}
        /\ exch' = exch /\ fills' = fills /\ results' = results
        /\ persisted' = persisted
    BY <1>7 DEF RefreshOne, Handled
  <2>2. CASE c # d
    <3>1. local'[c] = local[c] /\ seen'[q][c] = seen[q][c]
      BY <1>7, <2>2 DEF RefreshOne, Handled
    <3>2. QED
      BY <1>0, <2>1, <2>2, <3>1 DEF InFullOf
  <2>3. CASE c = d
    <3> DEFINE fresh == RefreshFills(seen[q][c], persisted[c])
    <3>1. fresh.filled = IF persisted[c] > 0 THEN persisted[c] ELSE seen[q][c].filled
      BY <1>0, RefreshedLots
    <3>2. \/ /\ persisted[c] > 0
             /\ local'[c] = WithFills(local[c], fresh)
             /\ seen'[q][c] = local'[c]
          \/ /\ fresh = seen[q][c] /\ seen'[q][c] = seen[q][c]
             /\ local' = local
      BY <1>7, <2>3 DEF RefreshOne, Handled
    <3>3. seen[q][c].status # "NONE"
      BY <2>1, <2>3 DEF HandledCounted
    <3>4. /\ seen[q][c].filled = local[c].filled
          /\ seen[q][c].kid = local[c].kid
          /\ seen[q][c].kid /\ MarketOf[c] \in results[q]
               => persisted[c] = exch[c].filled
      BY <1>0, <2>1, <3>3 DEF InFullOf
    <3>5. /\ WithFills(local[c], fresh).filled = fresh.filled
          /\ WithFills(local[c], fresh).kid = local[c].kid
      BY <1>0, RowFacts
    <3> HIDE DEF fresh
    <3>6. /\ seen'[q][c].filled = local'[c].filled
          /\ seen'[q][c].kid = local'[c].kid /\ local'[c].kid = local[c].kid
      BY <3>2, <3>4, <3>5
    <3>7. ASSUME seen'[q][c].filled > 0, MarketOf[c] \in results[q]
          PROVE  seen'[q][c].filled = exch[c].filled
      <4>1. CASE persisted[c] > 0
        <5>1. persisted[c] = exch[c].filled
          BY <1>0, <3>4, <3>7, <4>1
        <5>2. seen'[q][c].filled = persisted[c]
          BY <3>1, <3>2, <3>5, <4>1
        <5>3. QED
          BY <5>1, <5>2
      <4>2. CASE ~(persisted[c] > 0)
        <5>1. seen'[q][c].filled = local[c].filled
          BY <3>2, <3>4, <4>2
        <5>2. local[c].kid
          BY <1>0, <3>7, <5>1
        <5>3. persisted[c] = exch[c].filled
          BY <3>4, <3>7, <5>2
        <5>4. QED
          BY <1>0, <3>7, <4>2, <5>1, <5>3
      <4>3. QED
        BY <4>1, <4>2
    <3>8. fills[q][c] = exch[c].filled \/ MarketOf[c] \notin results[q]
      BY <1>0, <2>1 DEF InFullOf
    <3>9. QED
      BY <2>1, <3>4, <3>6, <3>7, <3>8 DEF InFullOf
  <2>4. QED
    BY <2>2, <2>3
<1>8. ASSUME NEW d \in Cids, SettleOne(q, d) PROVE InFullOf(q, c)'
  <2>1. /\ pc[q] = "settle" /\ pc' = pc /\ seen' = seen
        /\ exch' = exch /\ fills' = fills /\ results' = results
        /\ persisted' = persisted
    BY <1>8 DEF SettleOne
  <2>2. local'[c].filled = local[c].filled /\ local'[c].kid = local[c].kid
    <3>1. seen[q][c].status \in Statuses /\ "SETTLED" \in Statuses
      BY <1>0 DEF Row, Statuses
    <3>2. \/ local'[c] = local[c]
          \/ local'[c] = WithStatus(local[c], "SETTLED")
          \/ local'[c] = WithStatus(local[c], seen[q][c].status)
      BY <1>8 DEF SettleOne, SettledRow, MarkedRow
    <3>3. QED
      BY <1>0, <3>1, <3>2, RowFacts
  <2>3. QED
    BY <1>0, <2>1, <2>2 DEF InFullOf
<1>9. QED
  <2>1. CASE RecordReconciliation(q)
    <3>1. after[q] \in {"cycle", "ambiguous", "request"}
      BY <2>1 DEF PhaseOK, RecordReconciliation, Reconciling
    <3>2. pc'[q] \notin Looping \cup {"locals"}
      BY <2>1, <3>1 DEF RecordReconciliation
    <3>3. QED
      BY <1>1, <3>2
  <2>2. CASE ListOrders(q) \/ SettleDone(q)
    <3>1. pc'[q] \in {"fills", "record"}
      BY <2>2 DEF ListOrders, SettleDone
    <3>2. QED
      BY <1>1, <3>1
  <2>3. CASE OperatorKills(q) \/ RequestReconcile(q) \/ BeginCycle(q)
               \/ TryLock(q) \/ RequestEnable(q) \/ Finish(q) \/ Abort(q)
    <3>1. pc'[q] \in {"scan", "orders", "lock", "idle", "finish"}
      BY <2>3 DEF OperatorKills, RequestReconcile, BeginCycle, TryLock,
         RequestEnable, Finish, Abort
    <3>2. QED
      BY <1>1, <3>1
  <2>4. CASE CancelBotOrders(q)
    <3>1. pc'[q] \notin Looping \cup {"locals"}
      BY <2>4 DEF CancelBotOrders, ListActive, KeepOne, CancelOne,
         CancelRecorded, CancelDone
    <3>2. QED
      BY <1>1, <3>1
  <2>5. CASE SubmitOne(q)
    <3>1. pc'[q] \notin Looping \cup {"locals"}
      BY <2>5 DEF SubmitOne, Gate, SignalPasses, NoSignal, CreateIntent,
         StartSubmission, CreateOrder, Acknowledge, AmbiguousRecorded,
         RejectedRecorded
    <3>2. QED
      BY <1>1, <3>1
  <2>6. QED
    BY <1>2, <1>3, <1>4, <1>5, <1>6, <1>7, <1>8, <2>1, <2>2, <2>3, <2>4, <2>5
       DEF StepOf, Continue, Reconcile

LEMMA SettleInit ==
  ASSUME Init
  PROVE  SettleInv
<1> USE DEF Init, NoRows, NoRow, NoRemotes, NoRemote, NoFills
<1>1. ExchangeSound
  BY DEF ExchangeSound
<1>2. Lagging
  BY DEF Lagging
<1>3. RowsOver
  BY DEF RowsOver, SaysOver, Looping
<1>4. Counts
  BY DEF Counts
<1>5. InFull
  BY DEF InFull, InFullOf, Looping
<1>6. QED
  BY <1>1, <1>2, <1>3, <1>4, <1>5 DEF SettleInv

\* What the rows say of the exchange is true always.
LEMMA SettleInvariant ==
  ASSUME LateDelivery = FALSE, Overlap = FALSE
  PROVE  Spec => [](IInv /\ SettleInv)
<1>1. Init => SettleInv
  BY SettleInit
<1>2. IInv /\ OpenRows /\ SettleInv /\ [Next]_vars => SettleInv'
  <2> SUFFICES ASSUME IInv, OpenRows, SettleInv, [Next]_vars PROVE SettleInv'
    OBVIOUS
  <2>1. ExchangeSound'
    BY ExchangeSoundStep DEF IInv, SettleInv
  <2>2. Lagging'
    BY LaggingStep DEF SettleInv
  <2>3. RowsOver'
    BY RowsOverStep DEF SettleInv
  <2>4. Counts'
    BY CountsStep
  <2>5. InFull'
    BY OwnInFull, OthersInFull DEF InFull
  <2>6. QED
    BY <2>1, <2>2, <2>3, <2>4, <2>5 DEF SettleInv
<1>3. QED
  BY <1>1, <1>2, OpenInvariant, PTL DEF Spec

\* A row the bot regards as over is not still resting on the exchange, where
\* no emergency stop would look for it (repository.py: apply_remote_order,
\* refresh_fill_totals, order_canceled; service.py: submit_one).
THEOREM OverIsOver ==
  ASSUME LateDelivery = FALSE, Overlap = FALSE
  PROVE  Spec => []ClosedIsClosed
<1>1. IInv /\ SettleInv => ClosedIsClosed
  <2> SUFFICES ASSUME IInv, SettleInv, NEW c \in Cids,
                      local[c].status \in {"FILLED", "CANCELED", "REJECTED", "SETTLED"}
               PROVE  exch[c].status # "resting"
    BY DEF ClosedIsClosed
  <2>1. CASE SaysOver(local[c])
    BY <2>1 DEF SettleInv, RowsOver, Over
  <2>2. CASE local[c].status = "REJECTED"
    BY <2>2 DEF SettleInv, RowsOver
  <2>3. CASE local[c].status = "SETTLED"
    BY <2>3 DEF SettleInv, RowsOver, ExchangeSound
  <2>4. QED
    BY <2>1, <2>2, <2>3 DEF SaysOver
<1>2. QED
  BY <1>1, SettleInvariant, PTL

\* A position is settled on all the lots it really holds, whatever is filled
\* after the orders were listed, and while rows are updated in three loops
\* (service.py: reconcile; repository.py: settle_order).
THEOREM SettlesInFull ==
  ASSUME LateDelivery = FALSE, Overlap = FALSE
  PROVE  Spec => []SettledInFull
<1>1. IInv /\ SettleInv => SettledInFull
  BY DEF SettleInv, RowsOver, Counts, SettledInFull
<1>2. QED
  BY <1>1, SettleInvariant, PTL

---------------------------------------------------------------------------
(***************************************************************************)
(* Exposure: what the account commits is within the limits                 *)
(***************************************************************************)

\* An order of one lot is filled when it is executed and only then.
Whole(rem) ==
  /\ rem.status \in {"none", "resting", "canceled"} => rem.filled = 0
  /\ rem.status = "executed" => rem.filled = 1

\* What a process knows to be canceled is canceled.
ExchangeWhole ==
  /\ \A c \in Cids : Whole(exch[c])
  /\ \A p \in Procs, c \in Cids :
       /\ Whole(remote[p][c])
       /\ remote[p][c].status = "canceled" => exch[c].status = "canceled"
  /\ \A p \in Procs : pc[p] = "canceled" => exch[target[p]].status = "canceled"

\* The lots of the rows whose risk is what they say, and the one status with
\* which a reconciliation holds the lot of a row it has handled.
WholeRow(row) ==
  /\ row.status \in {"RESTING", "PARTIAL"} => row.filled + row.remaining = 1
  /\ row.status = "FILLED" => row.filled = 1

RowsWhole ==
  /\ \A c \in Cids :
       /\ WholeRow(local[c])
       /\ local[c].status = "CANCELED" => exch[c].status = "canceled"
  /\ \A p \in Procs, c \in Cids :
       /\ pc[p] \in Looping
       /\ pc[p] # "apply" \/ c \notin todo[p]
       /\ seen[p][c].filled > 0
       => seen[p][c].status = "FILLED"

LEMMA ExchWholeStep ==
  ASSUME IInv, SettleInv, ExchangeWhole, Units = 1, [Next]_vars
  PROVE  \A c \in Cids : Whole(exch'[c])
<1> USE DEF IInv, TypeInv, TypeOK, ExchangeWhole
<1> SUFFICES ASSUME NEW c \in Cids, exch'[c] # exch[c] PROVE Whole(exch'[c])
  OBVIOUS
<1>0. \A f \in Lots : Whole(Placed(f))
  BY DEF Lots, Placed, Whole
<1>1. ASSUME NEW p \in Procs, CreateOrder(p) PROVE Whole(exch'[c])
  <2>1. PICK f \in Lots : exch' = [exch EXCEPT ![target[p]] = Placed(f)]
    BY <1>1 DEF CreateOrder
  <2>2. QED
    BY <1>0, <2>1
<1>2. ASSUME NEW d \in Cids, exch[d].status = "resting",
             exch' = [exch EXCEPT ![d].status = "canceled"]
      PROVE  Whole(exch'[c])
  <2>1. c = d /\ exch'[c].status = "canceled" /\ exch'[c].filled = exch[c].filled
    BY <1>2 DEF Remote
  <2>2. QED
    BY <1>2, <2>1 DEF Whole
<1>3. ASSUME NEW p \in Procs, NEW d \in Cids, CancelOne(p, d)
      PROVE  Whole(exch'[c])
  BY <1>2, <1>3 DEF CancelOne
<1>4. ASSUME NEW d \in Cids, Fill(d) PROVE Whole(exch'[c])
  <2>1. exch[d].filled = 0 /\ exch' = [exch EXCEPT ![d] = Placed(exch[d].filled + 1)]
    BY <1>4 DEF Fill, Whole
  <2>2. QED
    BY <1>0, <2>1 DEF Lots
<1>5. ASSUME NEW d \in Cids, Expire(d) PROVE Whole(exch'[c])
  BY <1>2, <1>5 DEF Expire
<1>6. ASSUME NEW d \in Cids, Deliver(d) PROVE Whole(exch'[c])
  <2>1. exch' = [exch EXCEPT ![d] = Placed(0)]
    BY <1>6 DEF Deliver
  <2>2. QED
    BY <1>0, <2>1 DEF Lots
<1>7. QED
  BY <1>1, <1>3, <1>4, <1>5, <1>6, ExchangeFrame

\* A cancellation is final.
LEMMA CanceledStays ==
  ASSUME IInv, SettleInv, [Next]_vars, NEW c \in Cids,
         exch[c].status = "canceled"
  PROVE  exch'[c].status = "canceled"
  BY ExchangeMoves DEF IInv, SettleInv, Over

LEMMA CancelAnswered ==
  ASSUME IInv, SettleInv, ExchangeWhole, [Next]_vars, NEW q \in Procs,
         pc'[q] = "canceled"
  PROVE  exch'[target'[q]].status = "canceled"
<1> USE DEF IInv, TypeInv, TypeOK, ExchangeWhole
<1>1. CASE pc[q] = "canceled" /\ target'[q] = target[q]
  <2>1. target[q] \in Cids
    BY <1>1 DEF PhaseOK
  <2>2. QED
    BY <1>1, <2>1, CanceledStays
<1>2. CASE StepOf(q) /\ ~(pc[q] = "canceled" /\ target'[q] = target[q])
  <2>1. \E d \in Cids : CancelOne(q, d)
    <3> USE DEF Goto
    <3>1. CASE OperatorKills(q) \/ RequestReconcile(q) \/ BeginCycle(q)
                 \/ TryLock(q) \/ RequestEnable(q) \/ Finish(q) \/ Abort(q)
      BY <3>1 DEF OperatorKills, RequestReconcile, BeginCycle, TryLock,
         RequestEnable, Finish, Abort
    <3>2. CASE RecordReconciliation(q)
      <4>1. after[q] \in {"cycle", "ambiguous", "request"}
        BY <3>2 DEF PhaseOK, RecordReconciliation, Reconciling
      <4>2. QED
        BY <3>2, <4>1 DEF RecordReconciliation
    <3>3. CASE Reconcile(q) /\ ~RecordReconciliation(q)
      BY <3>3 DEF Reconcile, ListOrders, ListFills, ListLocals, ApplyOne,
         ApplyDone, PersistOne, PersistDone, RefreshOne, RefreshDone, SettleOne,
         SettleDone, NextLoop
    <3>4. CASE CancelBotOrders(q)
      BY <1>2, <3>4 DEF CancelBotOrders, ListActive, KeepOne, CancelRecorded, CancelDone
    <3>5. CASE SubmitOne(q)
      BY <3>5 DEF SubmitOne, Gate, SignalPasses, NoSignal, CreateIntent,
         StartSubmission, CreateOrder, Acknowledge, AmbiguousRecorded,
         RejectedRecorded
    <3>6. QED
      BY <1>2, <3>1, <3>2, <3>3, <3>4, <3>5 DEF StepOf, Continue
  <2>2. PICK d \in Cids : CancelOne(q, d)
    BY <2>1
  <2>3. /\ exch' = [exch EXCEPT ![d].status = "canceled"]
        /\ target' = [target EXCEPT ![q] = d]
    BY <2>2 DEF CancelOne, Goto
  <2>4. QED
    BY <2>3 DEF Remote
<1>3. CASE ~StepOf(q)
  BY <1>1, <1>3, SomeStep, AllKeep, OthersKeep
<1>4. QED
  BY <1>1, <1>2, <1>3

LEMMA ExchangeWholeStep ==
  ASSUME IInv, SettleInv, ExchangeWhole, Units = 1, [Next]_vars
  PROVE  ExchangeWhole'
<1> USE DEF IInv, TypeInv, TypeOK
<1>1. ASSUME NEW q \in Procs, NEW c \in Cids
      PROVE  /\ Whole(remote'[q][c])
             /\ remote'[q][c].status = "canceled" => exch'[c].status = "canceled"
  <2>1. remote'[q][c] \in {remote[q][c], NoRemote, exch[c]}
    BY Reads
  <2>2. Whole(NoRemote) /\ NoRemote.status = "none"
    BY DEF Whole, NoRemote
  <2>3. QED
    BY <2>1, <2>2, CanceledStays DEF ExchangeWhole
<1>2. QED
  BY <1>1, ExchWholeStep, CancelAnswered DEF ExchangeWhole

\* What the operators make of whole rows.
LEMMA WholeRows ==
  ASSUME Units = 1, NEW row \in Row
  PROVE  /\ \A s \in Statuses \ {"RESTING", "PARTIAL", "FILLED"} :
              WholeRow(WithStatus(row, s))
         /\ row.filled > 0 => WholeRow(WithStatus(row, "FILLED"))
         /\ WholeRow(CanceledRow(row))
         /\ WholeRow(NewIntent)
         /\ \A f \in Lots : WholeRow(Acknowledged(f))
         /\ \A rem \in Remote : Whole(rem) /\ rem.status # "none" =>
              /\ WholeRow(ApplyRemote(row, rem))
              /\ ApplyRemote(row, rem).filled > 0
                   => ApplyRemote(row, rem).status = "FILLED"
              /\ ApplyRemote(row, rem).status = "CANCELED"
                   => rem.status = "canceled"
<1> USE DEF WholeRow, Lots
<1>1. /\ \A s \in Statuses \ {"RESTING", "PARTIAL", "FILLED"} :
           WholeRow(WithStatus(row, s))
      /\ row.filled > 0 => WholeRow(WithStatus(row, "FILLED"))
      /\ WholeRow(CanceledRow(row))
  <2>1. row.filled \in 0..1
    BY DEF Row
  <2>2. "FILLED" \in Statuses
    BY DEF Statuses
  <2>3. QED
    BY <2>1, <2>2, RowFacts
<1>2. WholeRow(NewIntent) /\ \A f \in Lots : WholeRow(Acknowledged(f))
  BY DEF NewIntent, Acknowledged
<1>3. ASSUME NEW rem \in Remote, Whole(rem), rem.status # "none"
      PROVE  /\ WholeRow(ApplyRemote(row, rem))
             /\ ApplyRemote(row, rem).filled > 0
                  => ApplyRemote(row, rem).status = "FILLED"
             /\ ApplyRemote(row, rem).status = "CANCELED"
                  => rem.status = "canceled"
  BY <1>3 DEF Remote, Whole, ApplyRemote, StatusOf
<1>4. QED
  BY <1>1, <1>2, <1>3

\* Lots persisted make the refreshed row FILLED.
LEMMA WholeRefresh ==
  ASSUME Units = 1, NEW row \in Row, NEW total \in Lots, total > 0
  PROVE  /\ RefreshFills(row, total).status = "FILLED"
         /\ RefreshFills(row, total).filled = 1
  BY DEF RefreshFills, RefreshedStatus, Lots

\* What a written row is.
LEMMA WrittenWhole ==
  ASSUME IInv, OpenRows, SettleInv, ExchangeWhole, RowsWhole, Units = 1,
         NEW p \in Procs, NEW c \in Cids, Writes(p, c)
  PROVE  /\ WholeRow(local'[c])
         /\ local'[c].status = "CANCELED" => exch[c].status = "canceled"
<1> USE DEF IInv, TypeInv, TypeOK, SettleInv, RowsWhole, ExchangeWhole
<1>0. local[c] \in Row /\ \A q \in Procs : seen[q][c] \in Row
  OBVIOUS
<1>s. \A s \in {"PENDING", "SUBMITTING", "UNKNOWN", "REJECTED", "SETTLED"} :
        /\ WholeRow(WithStatus(local[c], s))
        /\ WithStatus(local[c], s).status # "CANCELED"
  BY <1>0, RowFacts, WholeRows DEF Statuses
<1>1. CASE ApplyOne(p, c)
  <2>1. CASE remote[p][c].status # "none"
    <3>1. local'[c] = ApplyRemote(local[c], remote[p][c])
      BY <1>1, <2>1 DEF ApplyOne
    <3>2. remote[p][c] \in Remote /\ Whole(remote[p][c])
      OBVIOUS
    <3>3. QED
      BY <1>0, <2>1, <3>1, <3>2, WholeRows
  <2>2. CASE remote[p][c].status = "none"
    <3>1. local' = local \/ local'[c] = WithStatus(local[c], "PENDING")
      BY <1>1, <2>2 DEF ApplyOne
    <3>2. QED
      BY <1>s, <3>1
  <2>3. QED
    BY <2>1, <2>2
<1>2. CASE RefreshOne(p, c)
  <2> DEFINE fresh == RefreshFills(seen[p][c], persisted[c])
  <2>1. persisted[c] > 0 => fresh.status = "FILLED" /\ fresh.filled = 1
    BY <1>0, WholeRefresh
  <2>2. \/ local' = local
        \/ local'[c] = WithFills(local[c], fresh) /\ persisted[c] > 0
    BY <1>2 DEF RefreshOne
  <2> HIDE DEF fresh
  <2>3. QED
    BY <1>0, <2>1, <2>2, RowFacts DEF WholeRow
<1>3. CASE SettleOne(p, c)
  <2>1. \/ local' = local
        \/ local'[c] = WithStatus(local[c], "SETTLED")
        \/ local'[c] = WithStatus(local[c], seen[p][c].status)
             /\ seen[p][c].filled > 0
    BY <1>3 DEF SettleOne, SettledRow, MarkedRow
  <2>2. pc[p] = "settle" /\ seen[p][c].status # "NONE"
    BY <1>3 DEF SettleOne, HandledCounted, Looping
  <2>3. local[c].filled = seen[p][c].filled
    BY <2>2 DEF InFull, InFullOf, Looping
  <2>4. seen[p][c].filled > 0 => seen[p][c].status = "FILLED"
    BY <2>2 DEF Looping
  <2>5. QED
    BY <1>0, <2>1, <2>3, <2>4, RowFacts, WholeRows DEF Statuses
<1>4. CASE c = target[p] /\ CancelRecorded(p)
  <2>1. \/ pc[p] = "canceled" /\ local'[c] = CanceledRow(local[c])
        \/ local'[c] = WithStatus(local[c], "UNKNOWN")
    BY <1>4 DEF CancelRecorded
  <2>2. WholeRow(CanceledRow(local[c])) /\ CanceledRow(local[c]).status = "CANCELED"
    BY <1>0, RowFacts, WholeRows
  <2>3. QED
    BY <1>4, <1>s, <2>1, <2>2
<1>5. CASE c = target[p] /\ CreateIntent(p)
  <2>1. local' = local \/ local'[c] = NewIntent
    BY <1>5 DEF CreateIntent
  <2>2. QED
    BY <1>0, <2>1, WholeRows DEF NewIntent
<1>6. CASE c = target[p] /\ \/ StartSubmission(p) \/ AmbiguousRecorded(p)
                            \/ RejectedRecorded(p)
  <2>1. \E s \in {"SUBMITTING", "UNKNOWN", "REJECTED"} :
          local'[c] = WithStatus(local[c], s)
    BY <1>6 DEF StartSubmission, AmbiguousRecorded, RejectedRecorded
  <2>2. QED
    BY <1>s, <2>1
<1>7. CASE c = target[p] /\ Acknowledge(p)
  <2>1. local'[c] = Acknowledged(answer[p]) /\ answer[p] \in Lots
    BY <1>7 DEF Acknowledge
  <2>2. local'[c].status # "CANCELED"
    BY <2>1 DEF Acknowledged
  <2>3. QED
    BY <1>0, <2>1, <2>2, WholeRows
<1>8. QED
  BY <1>1, <1>2, <1>3, <1>4, <1>5, <1>6, <1>7 DEF Writes

\* A reconciliation holds the lot of a handled row as FILLED.
LEMMA HeldFilled ==
  ASSUME IInv, OpenRows, SettleInv, ExchangeWhole, RowsWhole, Units = 1,
         [Next]_vars, NEW q \in Procs, NEW c \in Cids,
         pc'[q] \in Looping, pc'[q] # "apply" \/ c \notin todo'[q],
         seen'[q][c].filled > 0
  PROVE  seen'[q][c].status = "FILLED"
<1> USE DEF IInv, TypeInv, TypeOK, SettleInv, Goto, Looping, cursors
<1>0. local[c] \in Row /\ seen[q][c] \in Row
  OBVIOUS
<1>1. ASSUME pc[q] \in Looping, seen'[q][c] = seen[q][c],
             pc[q] # "apply" \/ c \notin todo[q]
      PROVE  seen'[q][c].status = "FILLED"
  BY <1>1 DEF RowsWhole
<1>2. CASE ~StepOf(q)
  BY <1>1, <1>2, SomeStep, AllKeep, OthersKeep
<1>3. CASE ListLocals(q)
  <2>1. /\ todo' = [todo EXCEPT ![q] = {d \in Cids : Reconcilable(local[d])}]
        /\ pc'[q] = "apply"
        /\ seen'[q][c] = IF Reconcilable(local[c]) THEN local[c] ELSE NoRow
    BY <1>3 DEF ListLocals
  <2>2. QED
    BY <2>1 DEF NoRow
<1>4. ASSUME NEW d \in Cids, ApplyOne(q, d) PROVE seen'[q][c].status = "FILLED"
  <2>1. pc[q] = "apply" /\ pc' = pc /\ d \in todo[q] /\ todo'[q] = todo[q] \ {d}
    BY <1>4 DEF ApplyOne, Handled
  <2>2. CASE c # d
    <3>1. seen'[q][c] = seen[q][c]
      BY <1>4, <2>2 DEF ApplyOne, Handled
    <3>2. QED
      BY <1>1, <2>1, <2>2, <3>1
  <2>3. CASE c = d
    <3>1. CASE remote[q][c].status # "none"
      <4>1. seen'[q][c] = ApplyRemote(local[c], remote[q][c])
        BY <1>4, <2>3, <3>1 DEF ApplyOne, Handled
      <4>2. remote[q][c] \in Remote /\ Whole(remote[q][c])
        BY DEF ExchangeWhole
      <4>3. QED
        BY <1>0, <3>1, <4>1, <4>2, WholeRows
    <3>2. CASE remote[q][c].status = "none"
      <4>1. \/ seen'[q][c] = WithStatus(local[c], "PENDING")
            \/ seen'[q][c] = seen[q][c]
        BY <1>4, <2>3, <3>2 DEF ApplyOne, Handled
      <4>2. seen[q][c].status # "NONE"
        BY <2>1, <2>3 DEF HandledCounted
      <4>3. seen[q][c].filled = local[c].filled
        BY <2>1, <4>2 DEF InFull, InFullOf
      <4>4. exch[c].status = "none"
        BY <2>1, <3>2 DEF ListedAll, Reconciling
      <4>5. exch[c].filled = 0 /\ local[c].filled <= exch[c].filled
        BY <4>4 DEF ExchangeSound, Counts
      <4>6. seen'[q][c].filled = local[c].filled
        BY <1>0, <4>1, <4>3, RowFacts DEF Statuses
      <4>7. local[c].filled \in Nat
        BY <1>0 DEF Row, Lots
      <4>8. QED
        BY <4>5, <4>6, <4>7
    <3>3. QED
      BY <3>1, <3>2
  <2>4. QED
    BY <2>2, <2>3
<1>5. CASE ApplyDone(q) \/ PersistDone(q) \/ RefreshDone(q)
  <2>1. /\ seen' = seen /\ todo[q] = {}
        /\ pc[q] \in {"apply", "persist", "refresh"}
    BY <1>5 DEF ApplyDone, PersistDone, RefreshDone, NextLoop
  <2>2. QED
    BY <1>1, <2>1
<1>6. ASSUME NEW d \in Cids, PersistOne(q, d) \/ SettleOne(q, d)
      PROVE  seen'[q][c].status = "FILLED"
  <2>1. seen' = seen /\ pc' = pc /\ pc[q] \in {"persist", "settle"}
    BY <1>6 DEF PersistOne, SettleOne
  <2>2. QED
    BY <1>1, <2>1
<1>7. ASSUME NEW d \in Cids, RefreshOne(q, d) PROVE seen'[q][c].status = "FILLED"
  <2>1. pc[q] = "refresh"
    BY <1>7 DEF RefreshOne
  <2>2. CASE seen'[q][c] = seen[q][c]
    BY <1>1, <2>1, <2>2
  <2>3. CASE seen'[q][c] # seen[q][c]
    <3> DEFINE fresh == RefreshFills(seen[q][c], persisted[c])
    <3>1. c = d
      BY <1>7, <2>3 DEF RefreshOne, Handled
    <3>2. persisted[c] > 0 /\ seen'[q][c] = WithFills(local[c], fresh)
      BY <1>7, <2>3, <3>1 DEF RefreshOne, Handled
    <3>3. fresh.status = "FILLED"
      BY <1>0, <3>2, WholeRefresh
    <3> HIDE DEF fresh
    <3>4. QED
      BY <1>0, <3>2, <3>3, RowFacts
  <2>4. QED
    BY <2>2, <2>3
<1>8. CASE StepOf(q)
  <2>1. CASE RecordReconciliation(q)
    <3>1. after[q] \in {"cycle", "ambiguous", "request"}
      BY <2>1 DEF PhaseOK, RecordReconciliation, Reconciling
    <3>2. QED
      BY <2>1, <3>1 DEF RecordReconciliation
  <2>2. CASE ListOrders(q) \/ ListFills(q) \/ SettleDone(q)
    BY <2>2 DEF ListOrders, ListFills, SettleDone
  <2>3. CASE OperatorKills(q) \/ RequestReconcile(q) \/ BeginCycle(q)
               \/ TryLock(q) \/ RequestEnable(q) \/ Finish(q) \/ Abort(q)
    BY <2>3 DEF OperatorKills, RequestReconcile, BeginCycle, TryLock,
       RequestEnable, Finish, Abort
  <2>4. CASE CancelBotOrders(q)
    BY <2>4 DEF CancelBotOrders, ListActive, KeepOne, CancelOne,
       CancelRecorded, CancelDone
  <2>5. CASE SubmitOne(q)
    BY <2>5 DEF SubmitOne, Gate, SignalPasses, NoSignal, CreateIntent,
       StartSubmission, CreateOrder, Acknowledge, AmbiguousRecorded,
       RejectedRecorded
  <2>6. QED
    BY <1>3, <1>4, <1>5, <1>6, <1>7, <1>8, <2>1, <2>2, <2>3, <2>4, <2>5
       DEF StepOf, Continue, Reconcile
<1>9. QED
  BY <1>2, <1>8

LEMMA RowsWholeStep ==
  ASSUME IInv, OpenRows, SettleInv, ExchangeWhole, RowsWhole, Units = 1,
         [Next]_vars
  PROVE  RowsWhole'
<1> USE DEF IInv, TypeInv, TypeOK
<1>1. ASSUME NEW c \in Cids
      PROVE  /\ WholeRow(local'[c])
             /\ local'[c].status = "CANCELED" => exch'[c].status = "canceled"
  <2>1. CASE local'[c] = local[c]
    BY <2>1, CanceledStays DEF RowsWhole
  <2>2. CASE local'[c] # local[c]
    BY <2>2, Written, WrittenWhole, CanceledStays
  <2>3. QED
    BY <2>1, <2>2
<1>2. QED
  BY <1>1, HeldFilled DEF RowsWhole

---------------------------------------------------------------------------
(* The sums: risk_state's, over the rows, and the account's commitments    *)

RiskOf(table)   == [c \in Cids |-> LotCost[c] * LotsAtRisk(table[c])]
CommitmentOf(x) == [c \in Cids |-> LotCost[c] * LotsCommitted(x[c])]

\* The exposure of a scope is the sum of the risks of its rows.
LEMMA ExposureSum ==
  ASSUME NEW table, NEW scope, scope.orders \subseteq Cids
  PROVE  Exposure(table, scope) = Sum(RiskOf(table), scope.orders)
<1> DEFINE S    == scope.orders
           w    == RiskOf(table)
           E1(g, T) == IF T = {} THEN 0
                       ELSE LotCost[Pick(T)] * LotsAtRisk(table[Pick(T)]) + g[T \ {Pick(T)}]
           E2(g, T) == IF T = {} THEN 0 ELSE w[Pick(T)] + g[T \ {Pick(T)}]
           F1(g) == g = [T \in SUBSET S |-> E1(g, T)]
           F2(g) == g = [T \in SUBSET S |-> E2(g, T)]
<1>1. ASSUME NEW g, NEW T \in SUBSET S PROVE E1(g, T) = E2(g, T)
  <2>1. T # {} => Pick(T) \in Cids
    BY DEF Pick
  <2>2. \A c \in Cids : w[c] = LotCost[c] * LotsAtRisk(table[c])
    BY DEF RiskOf
  <2> HIDE DEF w
  <2>3. QED
    BY <2>1, <2>2
<1>2. ASSUME NEW g PROVE F1(g) <=> F2(g)
  <2> HIDE DEF E1, E2
  <2>1. [T \in SUBSET S |-> E1(g, T)] = [T \in SUBSET S |-> E2(g, T)]
    BY <1>1
  <2>2. QED
    BY <2>1
<1>3. (CHOOSE g : F1(g)) = (CHOOSE g : F2(g))
  <2> HIDE DEF F1, F2
  <2>1. QED
    BY <1>2
<1>4. Exposure(table, scope) = (CHOOSE g : F1(g))[S]
  BY DEF Exposure, MapThenSumSet, MapThenFoldSet, Pick
<1>5. Sum(w, S) = (CHOOSE g : F2(g))[S]
  <2> HIDE DEF w
  <2>1. QED
    BY DEF Sum, MapThenSumSet, MapThenFoldSet, Pick
<1>6. QED
  BY <1>3, <1>4, <1>5

LEMMA CommittedSum ==
  ASSUME NEW x, NEW S \in SUBSET Cids
  PROVE  Committed(x, S) = Sum(CommitmentOf(x), S)
<1> DEFINE w    == CommitmentOf(x)
           E1(g, T) == IF T = {} THEN 0
                       ELSE LotCost[Pick(T)] * LotsCommitted(x[Pick(T)]) + g[T \ {Pick(T)}]
           E2(g, T) == IF T = {} THEN 0 ELSE w[Pick(T)] + g[T \ {Pick(T)}]
           F1(g) == g = [T \in SUBSET S |-> E1(g, T)]
           F2(g) == g = [T \in SUBSET S |-> E2(g, T)]
<1>1. ASSUME NEW g, NEW T \in SUBSET S PROVE E1(g, T) = E2(g, T)
  <2>1. T # {} => Pick(T) \in Cids
    BY DEF Pick
  <2>2. \A c \in Cids : w[c] = LotCost[c] * LotsCommitted(x[c])
    BY DEF CommitmentOf
  <2> HIDE DEF w
  <2>3. QED
    BY <2>1, <2>2
<1>2. ASSUME NEW g PROVE F1(g) <=> F2(g)
  <2> HIDE DEF E1, E2
  <2>1. [T \in SUBSET S |-> E1(g, T)] = [T \in SUBSET S |-> E2(g, T)]
    BY <1>1
  <2>2. QED
    BY <2>1
<1>3. (CHOOSE g : F1(g)) = (CHOOSE g : F2(g))
  <2> HIDE DEF F1, F2
  <2>1. QED
    BY <1>2
<1>4. Committed(x, S) = (CHOOSE g : F1(g))[S]
  BY DEF Committed, MapThenSumSet, MapThenFoldSet, Pick
<1>5. Sum(w, S) = (CHOOSE g : F2(g))[S]
  <2> HIDE DEF w
  <2>1. QED
    BY DEF Sum, MapThenSumSet, MapThenFoldSet, Pick
<1>6. QED
  BY <1>3, <1>4, <1>5

---------------------------------------------------------------------------
(* The limits                                                              *)

\* The phases in which a worker is about to create its target.
Committing == {"intent", "submit", "create"}

\* What the account commits is within each limit, and stays so when the order
\* some worker is about to create is added.
WithinAll ==
  \A scope \in Scopes :
    /\ Sum(CommitmentOf(exch), Unsettled(scope.orders)) <= scope.max
    /\ \A p \in Workers :
         pc[p] \in Committing /\ target[p] \in scope.orders =>
           Sum(CommitmentOf(exch), Unsettled(scope.orders) \ {target[p]})
             + LotCost[target[p]] * Units <= scope.max

LEMMA Products ==
  ASSUME NEW a \in Nat, NEW m \in Nat, NEW n \in Nat, m <= n
  PROVE  a * m \in Nat /\ a * m <= a * n
<1>1. PICK d \in Nat : n = m + d
  <2>1. n - m \in Nat /\ n = m + (n - m)
    OBVIOUS
  <2>2. QED
    BY <2>1
<1>2. a * n = a * m + a * d /\ a * m \in Nat /\ a * d \in Nat
  BY <1>1
<1>3. QED
  BY <1>2

\* Both sums are sums of natural numbers.
LEMMA Weights ==
  ASSUME NEW table \in [Cids -> Row], NEW x \in [Cids -> Remote]
  PROVE  /\ \A c \in Cids : /\ LotsAtRisk(table[c]) \in Nat
                           /\ LotsCommitted(x[c]) \in 0..Units
                           /\ RiskOf(table)[c] \in Nat
                           /\ CommitmentOf(x)[c] \in Nat
         /\ \A scope \in Scopes : \A S \in SUBSET scope.orders :
              /\ IsFiniteSet(S) /\ S \subseteq Cids
              /\ Summable(RiskOf(table), S)
              /\ Summable(CommitmentOf(x), S)
<1>1. ASSUME NEW c \in Cids
      PROVE  /\ LotsAtRisk(table[c]) \in Nat
             /\ LotsCommitted(x[c]) \in 0..Units
             /\ RiskOf(table)[c] \in Nat
             /\ CommitmentOf(x)[c] \in Nat
  <2>1. LotsAtRisk(table[c]) \in Nat
    <3>1. table[c].filled \in Nat /\ table[c].remaining \in Nat /\ Units \in Nat
      BY UnitsAssumption DEF Row, Lots
    <3>2. QED
      BY <3>1 DEF LotsAtRisk, MaxOf
  <2>2. LotsCommitted(x[c]) \in 0..Units
    <3>1. x[c].filled \in 0..Units /\ Units \in Nat
      BY UnitsAssumption DEF Remote, Lots
    <3>2. QED
      BY <3>1 DEF LotsCommitted
  <2>3. LotCost[c] \in Nat
    BY LotCostAssumption
  <2>4. LotCost[c] * LotsAtRisk(table[c]) \in Nat
    BY <2>1, <2>3, Products
  <2>5. LotCost[c] * LotsCommitted(x[c]) \in Nat
    BY <2>2, <2>3, Products
  <2>6. QED
    BY <2>1, <2>2, <2>4, <2>5 DEF RiskOf, CommitmentOf
<1>2. ASSUME NEW scope \in Scopes, NEW S \in SUBSET scope.orders
      PROVE  IsFiniteSet(S) /\ S \subseteq Cids
  BY FiniteAssumption, ScopesAssumption, FS_Subset
<1>3. QED
  BY <1>1, <1>2 DEF Summable

\* An unsettled order commits no more than the limits count for its row.
LEMMA Secured ==
  ASSUME IInv, SettleInv, ExchangeWhole, RowsWhole, Units = 1,
         NEW c \in Cids, MarketOf[c] \notin settled
  PROVE  LotsCommitted(exch[c]) <= LotsAtRisk(local[c])
<1> USE DEF IInv, TypeInv, TypeOK, SettleInv, RowsWhole, ExchangeWhole
<1>0. /\ local[c].filled \in Nat /\ local[c].remaining \in Nat
      /\ exch[c] \in Remote
  <2>1. local[c] \in Row /\ exch[c] \in Remote
    OBVIOUS
  <2>2. QED
    BY <2>1, UnitsAssumption DEF Row, Lots
<1>w. LotsAtRisk(local[c]) \in Nat
  BY Weights
<1>1. CASE exch[c].status \in {"none", "canceled"}
  <2>1. LotsCommitted(exch[c]) = 0
    BY <1>1 DEF LotsCommitted, Whole
  <2>2. QED
    BY <1>w, <2>1
<1>2. CASE exch[c].status \in {"resting", "executed"}
  <2>1. LotsCommitted(exch[c]) = 1
    BY <1>2 DEF LotsCommitted, Whole
  <2>2. local[c].status \in Counted
    BY <1>2 DEF Covered, RowsOver
  <2>3. local[c].status # "CANCELED"
    BY <1>2
  <2>4. WholeRow(local[c])
    OBVIOUS
  <2>5. LotsAtRisk(local[c]) >= 1
    BY <1>0, <2>2, <2>3, <2>4 DEF Counted, WholeRow, LotsAtRisk, MaxOf
  <2>6. QED
    BY <1>w, <2>1, <2>5
<1>3. QED
  BY <1>0, <1>1, <1>2 DEF Remote

\* Only the arrival of an order commits more.
LEMMA CommitmentsShrink ==
  ASSUME IInv, SettleInv, ExchangeWhole, Units = 1, [Next]_vars,
         NEW c \in Cids, exch[c].status # "none" \/ exch'[c].status = "none"
  PROVE  CommitmentOf(exch')[c] <= CommitmentOf(exch)[c]
<1>1. exch \in [Cids -> Remote] /\ exch' \in [Cids -> Remote]
        /\ local \in [Cids -> Row]
  BY TypeStep DEF IInv, TypeInv, TypeOK
<1>2. LotsCommitted(exch'[c]) <= LotsCommitted(exch[c])
  <2>1. CASE Over(c)
    <3>1. exch'[c] = exch[c]
      BY <2>1, ExchangeMoves DEF IInv, SettleInv
    <3>2. QED
      BY <1>1, <3>1, Weights, UnitsAssumption
  <2>2. CASE exch[c].status = "resting"
    <3>1. LotsCommitted(exch[c]) = 1
      BY <2>2 DEF LotsCommitted
    <3>2. LotsCommitted(exch'[c]) \in 0..1
      BY <1>1, Weights
    <3>3. QED
      BY <3>1, <3>2
  <2>3. CASE exch[c].status = "none"
    <3>1. LotsCommitted(exch'[c]) = 0
      BY <2>3 DEF LotsCommitted
    <3>2. QED
      BY <1>1, <3>1, Weights
  <2>4. QED
    BY <1>1, <2>1, <2>2, <2>3 DEF Remote, Over
<1>3. /\ LotsCommitted(exch'[c]) \in Nat /\ LotsCommitted(exch[c]) \in Nat
      /\ LotCost[c] \in Nat
  BY <1>1, Weights, LotCostAssumption
<1>4. QED
  BY <1>2, <1>3, Products DEF CommitmentOf

\* A signal passes only when what the account commits leaves room for it.
LEMMA RoomLeft ==
  ASSUME IInv, SettleInv, ExchangeWhole, RowsWhole, Units = 1,
         NEW scope \in Scopes, NEW c \in scope.orders, WithinLimits(local, c)
  PROVE  Sum(CommitmentOf(exch), Unsettled(scope.orders) \ {c})
           + LotCost[c] * Units <= scope.max
<1> DEFINE S == Unsettled(scope.orders) \ {c}
           v == CommitmentOf(exch)
           w == RiskOf(local)
<1>0. exch \in [Cids -> Remote] /\ local \in [Cids -> Row]
  BY DEF IInv, TypeInv, TypeOK
<1>1. S \in SUBSET scope.orders /\ S \subseteq Cids /\ c \in Cids
        /\ scope.orders \in SUBSET scope.orders /\ scope.orders \subseteq Cids
  BY ScopesAssumption DEF Unsettled
<1>2. Summable(v, S) /\ Summable(w, S) /\ Summable(w, scope.orders)
  BY <1>0, <1>1, Weights
<1>3. \A d \in S : v[d] <= w[d]
  <2> TAKE d \in S
  <2>1. LotsCommitted(exch[d]) <= LotsAtRisk(local[d])
    BY <1>1, Secured DEF Unsettled
  <2>2. /\ LotsCommitted(exch[d]) \in Nat /\ LotsAtRisk(local[d]) \in Nat
        /\ LotCost[d] \in Nat /\ d \in Cids
    BY <1>0, <1>1, Weights, LotCostAssumption
  <2>3. QED
    BY <2>1, <2>2, Products DEF RiskOf, CommitmentOf
<1>4. \A d \in scope.orders \ S : w[d] >= 0
  BY <1>0, <1>1, Weights
<1>5. Exposure(local, scope) + LotCost[c] * Units <= scope.max
  BY DEF WithinLimits
<1>6. Exposure(local, scope) = Sum(w, scope.orders)
  BY <1>1, ExposureSum
<1>7. LotCost[c] * Units \in Int /\ scope.max \in Int
  BY <1>1, LotCostAssumption, ScopesAssumption
<1> HIDE DEF S, v, w
<1>8. Sum(v, S) <= Sum(w, S) /\ Sum(w, S) <= Sum(w, scope.orders)
  BY <1>1, <1>2, <1>3, <1>4, SumMonotone, SumGrows
<1>9. Sum(v, S) \in Int /\ Sum(w, S) \in Int /\ Sum(w, scope.orders) \in Int
  BY <1>2, SumType
<1>10. Sum(v, S) + LotCost[c] * Units <= scope.max
  BY <1>5, <1>6, <1>7, <1>8, <1>9
<1>11. QED
  BY <1>10 DEF S, v

\* What a set of orders commits does not grow while none of them arrives.
LEMMA NoneArrives ==
  ASSUME IInv, SettleInv, ExchangeWhole, Units = 1, [Next]_vars,
         NEW scope \in Scopes, NEW S \in SUBSET scope.orders, NEW T \in SUBSET S,
         \A c \in T : exch[c].status # "none" \/ exch'[c].status = "none"
  PROVE  Sum(CommitmentOf(exch'), T) <= Sum(CommitmentOf(exch), S)
<1> DEFINE v == CommitmentOf(exch)
           w == CommitmentOf(exch')
<1>0. exch \in [Cids -> Remote] /\ exch' \in [Cids -> Remote] /\ local \in [Cids -> Row]
  BY TypeStep DEF IInv, TypeInv, TypeOK
<1>1. T \in SUBSET scope.orders /\ S \subseteq Cids
  BY ScopesAssumption
<1>2. Summable(v, T) /\ Summable(v, S) /\ Summable(w, T)
  BY <1>0, <1>1, Weights
<1>3. \A c \in T : w[c] <= v[c]
  BY <1>1, CommitmentsShrink
<1>4. \A c \in S \ T : v[c] >= 0
  BY <1>0, <1>1, Weights
<1> HIDE DEF v, w
<1>5. Sum(w, T) <= Sum(v, T) /\ Sum(v, T) <= Sum(v, S)
  BY <1>2, <1>3, <1>4, SumMonotone, SumGrows
<1>6. Sum(w, T) \in Int /\ Sum(v, T) \in Int /\ Sum(v, S) \in Int
  BY <1>2, SumType
<1>7. Sum(w, T) <= Sum(v, S)
  BY <1>5, <1>6
<1>8. QED
  BY <1>7 DEF v, w

\* A worker commits itself to an order in SignalPasses, and nobody else's order
\* arrives until it has created it.
LEMMA Commits ==
  ASSUME IInv, [Next]_vars, NEW p \in Workers, pc'[p] \in Committing
  PROVE  \/ pc[p] \in Committing /\ target'[p] = target[p]
         \/ \E c \in Cids : SignalPasses(p, c)
<1> USE DEF IInv, TypeInv, TypeOK, Committing, Goto, order
<1>0. p \in Procs
  BY DEF Procs
<1>1. CASE ~StepOf(p)
  BY <1>0, <1>1, SomeStep, AllKeep, OthersKeep
<1>2. CASE StepOf(p)
  <2>1. CASE OperatorKills(p) \/ RequestReconcile(p) \/ BeginCycle(p)
               \/ TryLock(p) \/ RequestEnable(p) \/ Finish(p) \/ Abort(p)
    BY <1>0, <2>1 DEF OperatorKills, RequestReconcile, BeginCycle, TryLock,
       RequestEnable, Finish, Abort
  <2>2. CASE RecordReconciliation(p)
    <3>1. after[p] \in {"cycle", "ambiguous", "request"}
      BY <1>0, <2>2 DEF PhaseOK, RecordReconciliation, Reconciling
    <3>2. QED
      BY <1>0, <2>2, <3>1 DEF RecordReconciliation
  <2>3. CASE Reconcile(p) /\ ~RecordReconciliation(p)
    BY <1>0, <2>3 DEF Reconcile, ListOrders, ListFills, ListLocals, ApplyOne,
       ApplyDone, PersistOne, PersistDone, RefreshOne, RefreshDone, SettleOne,
       SettleDone, NextLoop
  <2>4. CASE CancelBotOrders(p)
    BY <1>0, <2>4 DEF CancelBotOrders, ListActive, KeepOne, CancelOne,
       CancelRecorded, CancelDone
  <2>5. CASE SubmitOne(p)
    BY <1>0, <2>5 DEF SubmitOne, Gate, NoSignal, CreateIntent,
       StartSubmission, CreateOrder, Acknowledge, AmbiguousRecorded,
       RejectedRecorded
  <2>6. QED
    BY <1>2, <2>1, <2>2, <2>3, <2>4, <2>5 DEF StepOf, Continue
<1>3. QED
  BY <1>1, <1>2

LEMMA OwnArrival ==
  ASSUME IInv, LateDelivery = FALSE, [Next]_vars,
         NEW p \in Workers, pc'[p] \in Committing, NEW c \in Cids
  PROVE  exch[c].status # "none" \/ exch'[c].status = "none"
<1>1. CASE \A d \in Cids : exch'[d].status # "none" => exch[d].status # "none"
  BY <1>1
<1>2. CASE \E q \in Workers : /\ CreateOrder(q) /\ lock = q
                             /\ pc'[q] \in {"ack", "ambiguous"}
  <2>1. PICK q \in Workers : /\ CreateOrder(q) /\ lock = q
                             /\ pc'[q] \in {"ack", "ambiguous"}
    BY <1>2
  <2>2. q # p /\ p \in Procs
    BY <2>1 DEF Committing, Procs
  <2>3. pc[p] \in Submitting
    BY <2>1, Commits DEF Committing, Submitting, SignalPasses
  <2>4. lock = p
    BY <2>2, <2>3, Holder DEF IInv
  <2>5. QED
    BY <2>1, <2>2, <2>4
<1>3. QED
  BY <1>1, <1>2, Arrivals

LEMMA WithinStep ==
  ASSUME IInv, SettleInv, ExchangeWhole, RowsWhole, WithinAll, Units = 1,
         LateDelivery = FALSE, [Next]_vars
  PROVE  WithinAll'
<1> SUFFICES ASSUME NEW scope \in Scopes
             PROVE  /\ Sum(CommitmentOf(exch'), Unsettled(scope.orders)') <= scope.max
                    /\ \A p \in Workers :
                         pc'[p] \in Committing /\ target'[p] \in scope.orders =>
                           Sum(CommitmentOf(exch'), Unsettled(scope.orders)' \ {target'[p]})
                             + LotCost[target'[p]] * Units <= scope.max
  BY DEF WithinAll
<1> DEFINE S == Unsettled(scope.orders)
           T == Unsettled(scope.orders)'
           v == CommitmentOf(exch)
           w == CommitmentOf(exch')
<1>0. exch \in [Cids -> Remote] /\ exch' \in [Cids -> Remote] /\ local \in [Cids -> Row]
  BY TypeStep DEF IInv, TypeInv, TypeOK
<1>1. S \in SUBSET scope.orders /\ T \in SUBSET S /\ T \in SUBSET scope.orders
        /\ scope.orders \subseteq Cids /\ scope.max \in Int
  BY ExchangeSoundStep, ScopesAssumption DEF Unsettled, IInv, SettleInv
<1>2. \A R \in SUBSET scope.orders : Sum(v, R) \in Int /\ Sum(w, R) \in Int
  <2> HIDE DEF v, w
  <2> SUFFICES ASSUME NEW R \in SUBSET scope.orders
               PROVE  Sum(v, R) \in Int /\ Sum(w, R) \in Int
    OBVIOUS
  <2>1. Summable(v, R) /\ Summable(w, R)
    BY <1>0, Weights DEF v, w
  <2>2. QED
    BY <2>1, SumType
<1>3. \A c \in Cids : LotCost[c] * Units \in Int
  BY LotCostAssumption, UnitsAssumption
<1>4. Sum(v, S) <= scope.max
  BY DEF WithinAll
<1>5. Sum(w, T) <= scope.max
  <2>1. CASE \A c \in T : exch[c].status # "none" \/ exch'[c].status = "none"
    <3>1. Sum(w, T) <= Sum(v, S)
      BY <1>1, <2>1, NoneArrives
    <3> HIDE DEF v, w, S, T
    <3>2. QED
      BY <1>1, <1>2, <1>4, <3>1
  <2>2. CASE ~\A c \in T : exch[c].status # "none" \/ exch'[c].status = "none"
    <3>1. PICK c \in T : exch[c].status = "none" /\ exch'[c].status # "none"
      BY <2>2
    <3>2. PICK p \in Workers :
             /\ CreateOrder(p) /\ c = target[p]
             /\ \A d \in Cids : exch'[d].status # "none"
                  => exch[d].status # "none" \/ d = target[p]
      BY <1>1, <3>1, Arrivals
    <3>3. Sum(v, S \ {c}) + LotCost[c] * Units <= scope.max
      BY <1>1, <3>2 DEF WithinAll, CreateOrder, Committing
    <3>4. Sum(w, T \ {c}) <= Sum(v, S \ {c})
      <4>1. S \ {c} \in SUBSET scope.orders /\ T \ {c} \in SUBSET (S \ {c})
        BY <1>1
      <4>2. \A d \in T \ {c} : exch[d].status # "none" \/ exch'[d].status = "none"
        BY <1>1, <3>2
      <4>3. QED
        BY <4>1, <4>2, NoneArrives
    <3>5. Sum(w, T) = w[c] + Sum(w, T \ {c})
      <4>1. Summable(w, T)
        BY <1>0, <1>1, Weights
      <4> HIDE DEF w, T
      <4>2. QED
        BY <3>1, <4>1, SumRemove
    <3>6. w[c] \in Int /\ w[c] <= LotCost[c] * Units
      <4>1. c \in Cids
        BY <1>1
      <4>2. LotsCommitted(exch'[c]) \in Nat /\ LotsCommitted(exch'[c]) <= Units
        BY <1>0, <4>1, Weights, UnitsAssumption
      <4>3. LotCost[c] \in Nat /\ Units \in Nat
        BY <4>1, LotCostAssumption, UnitsAssumption
      <4>4. QED
        BY <4>1, <4>2, <4>3, Products DEF CommitmentOf
    <3>7. Sum(w, T \ {c}) \in Int /\ Sum(v, S \ {c}) \in Int
            /\ LotCost[c] * Units \in Int
      BY <1>1, <1>2, <1>3
    <3> HIDE DEF v, w, S, T
    <3>8. QED
      BY <1>1, <3>3, <3>4, <3>5, <3>6, <3>7
  <2>3. QED
    BY <2>1, <2>2
<1>6. ASSUME NEW p \in Workers, pc'[p] \in Committing, target'[p] \in scope.orders
      PROVE  Sum(w, T \ {target'[p]}) + LotCost[target'[p]] * Units <= scope.max
  <2> DEFINE c == target'[p]
  <2>0. p \in Procs
    BY DEF Procs
  <2>1. Sum(v, S \ {c}) + LotCost[c] * Units <= scope.max
    <3>1. CASE pc[p] \in Committing /\ target'[p] = target[p]
      BY <1>6, <3>1 DEF WithinAll
    <3>2. CASE SignalPasses(p, c)
      BY <1>6, <3>2, RoomLeft DEF SignalPasses
    <3>3. CASE \E d \in Cids : SignalPasses(p, d)
      <4>1. PICK d \in Cids : SignalPasses(p, d)
        BY <3>3
      <4>2. target'[p] = d
        BY <2>0, <4>1 DEF SignalPasses, IInv, TypeInv, TypeOK
      <4>3. QED
        BY <3>2, <4>1, <4>2
    <3>4. \/ pc[p] \in Committing /\ target'[p] = target[p]
          \/ \E d \in Cids : SignalPasses(p, d)
      BY <1>6, Commits
    <3>5. QED
      BY <3>1, <3>3, <3>4
  <2>2. Sum(w, T \ {c}) <= Sum(v, S \ {c})
    <3>1. S \ {c} \in SUBSET scope.orders /\ T \ {c} \in SUBSET (S \ {c})
      BY <1>1
    <3>2. \A d \in T \ {c} : exch[d].status # "none" \/ exch'[d].status = "none"
      BY <1>1, <1>6, OwnArrival
    <3>3. QED
      BY <3>1, <3>2, NoneArrives
  <2>3. Sum(w, T \ {c}) \in Int /\ Sum(v, S \ {c}) \in Int
          /\ LotCost[c] * Units \in Int
    BY <1>1, <1>2, <1>3, <1>6
  <2> HIDE DEF v, w, S, T, c
  <2>4. Sum(w, T \ {c}) + LotCost[c] * Units <= scope.max
    BY <1>1, <2>1, <2>2, <2>3
  <2>5. QED
    BY <2>4 DEF c
<1>7. QED
  BY <1>5, <1>6

ExposureInv == ExchangeWhole /\ RowsWhole /\ WithinAll

LEMMA ExposureInit ==
  ASSUME Init
  PROVE  ExposureInv
<1> USE DEF Init, NoRows, NoRow, NoRemotes, NoRemote
<1>1. ExchangeWhole
  BY DEF ExchangeWhole, Whole
<1>2. RowsWhole
  BY DEF RowsWhole, WholeRow, Looping
<1>3. WithinAll
  <2> SUFFICES ASSUME NEW scope \in Scopes
               PROVE  Sum(CommitmentOf(exch), Unsettled(scope.orders)) <= scope.max
    BY DEF WithinAll, Committing, Procs
  <2> DEFINE S == Unsettled(scope.orders)
             v == CommitmentOf(exch)
  <2>1. IsFiniteSet(S) /\ S \subseteq Cids
    BY FiniteAssumption, ScopesAssumption, FS_Subset DEF Unsettled
  <2>2. \A c \in S : v[c] = 0
    BY <2>1, LotCostAssumption DEF CommitmentOf, LotsCommitted
  <2>3. scope.max \in Nat
    BY ScopesAssumption
  <2> HIDE DEF S, v
  <2>4. Sum(v, S) = 0
    BY <2>1, <2>2, SumZero
  <2>5. Sum(v, S) <= scope.max
    BY <2>3, <2>4
  <2>6. QED
    BY <2>5 DEF S, v
<1>4. QED
  BY <1>1, <1>2, <1>3 DEF ExposureInv

\* "maximum $1.00 bot exposure per market; $2.00 per event/date; $5.00 total":
\* what the account really commits stays within every limit, through lost
\* answers, crashes, kills and results, when an order is one lot (no fraction
\* of a contract is filled), nothing arrives late and no dashboard
\* reconciliation overlaps a cycle (service.py: submit_one;
\* repository.py: risk_state; risk.py: validate_fixed_limits).
THEOREM ExposureLimited ==
  ASSUME Units = 1, LateDelivery = FALSE, Overlap = FALSE
  PROVE  Spec => []ExposureWithinLimits
<1>1. Init => ExposureInv
  BY ExposureInit
<1>2. /\ IInv /\ OpenRows /\ SettleInv /\ ExposureInv /\ [Next]_vars
      => ExposureInv'
  <2> SUFFICES ASSUME IInv, OpenRows, SettleInv, ExposureInv, [Next]_vars
               PROVE  ExposureInv'
    OBVIOUS
  <2>1. ExchangeWhole'
    BY ExchangeWholeStep DEF ExposureInv
  <2>2. RowsWhole'
    BY RowsWholeStep DEF ExposureInv
  <2>3. WithinAll'
    BY WithinStep DEF ExposureInv
  <2>4. QED
    BY <2>1, <2>2, <2>3 DEF ExposureInv
<1>3. ExposureInv => ExposureWithinLimits
  <2> SUFFICES ASSUME ExposureInv, NEW scope \in Scopes
               PROVE  Committed(exch, Unsettled(scope.orders)) <= scope.max
    BY DEF ExposureWithinLimits
  <2>1. Unsettled(scope.orders) \subseteq Cids
    BY ScopesAssumption DEF Unsettled
  <2>2. QED
    BY <2>1, CommittedSum DEF ExposureInv, WithinAll
<1>4. QED
  BY <1>1, <1>2, <1>3, OpenInvariant, SettleInvariant, PTL DEF Spec
=============================================================================
