-------------------------- MODULE BotControl_proofs --------------------------
(***************************************************************************)
(* What holds of bot_control/state.py for any number of request slots, any *)
(* interleaving of their reads and commits and any failed read, and what   *)
(* holds only when requests are served one at a time.                      *)
(***************************************************************************)
EXTENDS BotControl, TLAPS

\* A snapshot that is killed and trading at once cannot be told apart from a
\* stale one by its reader.
Coherent(s) == s.kill => s.mode = "OFF" /\ ~s.enabled

\* The rows in flight: a request holds the newest row or an older one, and
\* a guarded request holds a row without the kill switch.
HeldRows ==
  \A r \in Requests :
    /\ Coherent(cur[r])
    /\ cur[r].at <= latest.at
    /\ cur[r].at = latest.at => cur[r].kill = latest.kill
    /\ pc[r] \in {"insert", "commit"} /\ op[r] \in Guarded => ~cur[r].kill

\* The state before the first row is not a killed one.
BirthRow == latest.at = 0 => ~latest.kill

IInv == TypeOK /\ Coherent(latest) /\ HeldRows /\ BirthRow

\* Every row a request inserts is well typed, and carries its stamp.
LEMMA RowForType ==
  ASSUME NEW o \in Ops, NEW s \in Row, NEW t \in Nat
  PROVE  RowFor(o, s, t) \in Row /\ RowFor(o, s, t).at = t
  BY DEF RowFor, ModeOf, EnabledOf, KillOf, Copies, Row, Ops, Modes

\* A row inserted after reading a coherent state is coherent.
LEMMA RowForCoherent ==
  ASSUME NEW o \in Ops, NEW s \in Row, NEW t \in Nat, Coherent(s)
  PROVE  Coherent(RowFor(o, s, t))
  BY DEF RowFor, ModeOf, EnabledOf, KillOf, Copies, Row, Ops, Modes, Coherent

\* A row that does not have the kill switch comes from a reset, or from a
\* state that did not have it, or from a guarded request.
LEMMA RowForKill ==
  ASSUME NEW o \in Ops, NEW s \in Row, NEW t \in Nat, ~RowFor(o, s, t).kill
  PROVE  o = "kill_reset" \/ ~s.kill \/ o \in Guarded
  BY DEF RowFor, ModeOf, EnabledOf, KillOf, Copies, Row, Ops, Modes, Guarded

\* The safe default is a row, older than any other, with everything off.
LEMMA SafeDefaultFacts ==
  SafeDefault \in Row /\ Coherent(SafeDefault) /\ ~SafeDefault.kill
    /\ SafeDefault.at = 0
  BY DEF SafeDefault, Row, Ops, Modes, Coherent

\* Type correctness of bot_control for every number of slots.
THEOREM TypeCorrect == Spec => []TypeOK
<1>1. Init => TypeOK
  BY SafeDefaultFacts DEF Init, TypeOK, Ops
<1>2. TypeOK /\ [Next]_vars => TypeOK'
  <2> SUFFICES ASSUME TypeOK, [Next]_vars PROVE TypeOK'
    OBVIOUS
  <2> USE DEF TypeOK
  <2>1. ASSUME NEW r \in Requests, NEW o \in Ops, Arrive(r, o) PROVE TypeOK'
    BY <2>1 DEF Arrive
  <2>2. ASSUME NEW r \in Requests, Gate(r) PROVE TypeOK'
    BY <2>2, SafeDefaultFacts DEF Gate, Leave, Ops
  <2>3. ASSUME NEW r \in Requests, ReadState(r) PROVE TypeOK'
    BY <2>3, SafeDefaultFacts DEF ReadState, Leave, Ops, Readable
  <2>4. ASSUME NEW r \in Requests, Insert(r) PROVE TypeOK'
    BY <2>4 DEF Insert
  <2>5. ASSUME NEW r \in Requests, Commit(r) PROVE TypeOK'
    <3>1. RowFor(op[r], cur[r], stamp[r]) \in Row
      BY RowForType
    <3>2. latest' \in Row
      BY <2>5, <3>1 DEF Commit
    <3>3. QED
      BY <2>5, <3>2, SafeDefaultFacts DEF Commit, Leave, Ops
  <2>6. ASSUME NEW r \in Requests, Fail(r) PROVE TypeOK'
    BY <2>6, SafeDefaultFacts DEF Fail, Leave, Ops
  <2>7. CASE UNCHANGED vars
    BY <2>7 DEF vars
  <2>8. QED
    BY <2>1, <2>2, <2>3, <2>4, <2>5, <2>6, <2>7 DEF Next
<1>3. QED
  BY <1>1, <1>2, PTL DEF Spec

\* The inductive invariant behind both kill-switch theorems.
LEMMA HeldRowsInvariant == Spec => []IInv
<1>1. Init => IInv
  BY SafeDefaultFacts DEF Init, IInv, TypeOK, HeldRows, BirthRow, Ops
<1>2. IInv /\ TypeOK' /\ [Next]_vars => IInv'
  <2> SUFFICES ASSUME IInv, TypeOK', [Next]_vars PROVE IInv'
    OBVIOUS
  <2>t. TypeOK /\ latest.at \in Nat /\ \A r \in Requests : cur[r].at \in Nat
    BY DEF IInv, TypeOK, Row
  <2>1. ASSUME NEW r \in Requests, NEW o \in Ops, Arrive(r, o) PROVE IInv'
    BY <2>1, <2>t DEF Arrive, IInv, HeldRows, TypeOK, Coherent, BirthRow
  <2>l. ASSUME NEW r \in Requests, Leave(r), UNCHANGED latest PROVE IInv'
    <3>1. Coherent(latest)'
      BY <2>l DEF IInv, Coherent
    <3>2. ASSUME NEW q \in Requests PROVE
            /\ Coherent(cur'[q])
            /\ cur'[q].at <= latest'.at
            /\ cur'[q].at = latest'.at => cur'[q].kill = latest'.kill
            /\ pc'[q] \in {"insert", "commit"} /\ op'[q] \in Guarded
                 => ~cur'[q].kill
      <4>1. CASE q = r
        <5>1. cur'[q] = SafeDefault /\ pc'[q] = "idle"
          BY <4>1, <2>l, <2>t DEF Leave, TypeOK
        <5>2. latest.at = 0 => ~latest.kill
          BY DEF IInv, BirthRow
        <5>3. QED
          BY <5>1, <5>2, <2>l, <2>t, SafeDefaultFacts DEF Row, TypeOK
      <4>2. CASE q # r
        BY <4>2, <2>l, <2>t DEF Leave, TypeOK, IInv, HeldRows
      <4>3. QED BY <4>1, <4>2
    <3>3. QED
      BY <3>1, <3>2, <2>l DEF IInv, HeldRows, BirthRow
  <2>2. ASSUME NEW r \in Requests, Gate(r) PROVE IInv'
    <3>1. CASE Leave(r)
      BY <3>1, <2>2, <2>l DEF Gate
    <3>2. CASE pc' = [pc EXCEPT ![r] = "read"] /\ UNCHANGED <<op, cur, stamp>>
      BY <3>2, <2>2, <2>t DEF Gate, IInv, HeldRows, TypeOK, Coherent, BirthRow
    <3>3. QED BY <3>1, <3>2, <2>2 DEF Gate
  <2>3. ASSUME NEW r \in Requests, ReadState(r) PROVE IInv'
    <3>1. CASE Leave(r)
      BY <3>1, <2>3, <2>l DEF ReadState
    <3>2. ASSUME NEW s \in Readable, ~(op[r] \in Guarded /\ Killed(s)),
                 pc' = [pc EXCEPT ![r] = "insert"],
                 cur' = [cur EXCEPT ![r] = s], UNCHANGED <<op, stamp>>
          PROVE  IInv'
      <4>1. s \in Row /\ Coherent(s) /\ s.at <= latest.at
              /\ (s.at = latest.at => s.kill = latest.kill)
        BY <2>t, SafeDefaultFacts
        DEF Readable, IInv, TypeOK, Row, BirthRow
      <4>2. QED
        BY <4>1, <3>2, <2>3, <2>t
        DEF ReadState, IInv, HeldRows, TypeOK, Coherent, BirthRow, Killed
    <3>3. QED BY <3>1, <3>2, <2>3 DEF ReadState
  <2>4. ASSUME NEW r \in Requests, Insert(r) PROVE IInv'
    BY <2>4, <2>t DEF Insert, IInv, HeldRows, TypeOK, Coherent, BirthRow
  <2>5. ASSUME NEW r \in Requests, Commit(r) PROVE IInv'
    <3>1. CASE ~(stamp[r] > latest.at)
      BY <3>1, <2>5, <2>l DEF Commit
    <3>2. CASE stamp[r] > latest.at
      <4> DEFINE row == RowFor(op[r], cur[r], stamp[r])
      <4>1. op[r] \in Ops /\ cur[r] \in Row /\ stamp[r] \in Nat
        BY <2>t DEF TypeOK
      <4>2. row \in Row /\ row.at = stamp[r] /\ Coherent(row)
        BY <4>1, RowForType, RowForCoherent DEF IInv, HeldRows
      <4>3. latest' = row
        BY <3>2, <2>5 DEF Commit
      <4>4. row.at > latest.at
        BY <4>2, <3>2
      <4> HIDE DEF row
      <4>5. ASSUME NEW q \in Requests PROVE
              /\ Coherent(cur'[q])
              /\ cur'[q].at <= latest'.at
              /\ cur'[q].at = latest'.at => cur'[q].kill = latest'.kill
              /\ pc'[q] \in {"insert", "commit"} /\ op'[q] \in Guarded
                   => ~cur'[q].kill
        <5>1. row.at \in Nat
          BY <4>2 DEF Row
        <5>2. CASE q = r
          <6>1. cur'[q] = SafeDefault /\ pc'[q] = "idle"
            BY <5>2, <2>5, <2>t DEF Commit, Leave, TypeOK
          <6>2. QED
            BY <6>1, <4>3, <4>4, <5>1, <2>t, SafeDefaultFacts
        <5>3. CASE q # r
          <6>1. cur'[q] = cur[q] /\ pc'[q] = pc[q] /\ op'[q] = op[q]
            BY <5>3, <2>5, <2>t DEF Commit, Leave, TypeOK
          <6>2. QED
            BY <6>1, <4>3, <4>4, <5>1, <2>t DEF IInv, HeldRows
        <5>4. QED BY <5>2, <5>3
      <4>6. BirthRow'
        BY <4>2, <4>3, <4>4, <2>t DEF BirthRow, Row
      <4>7. QED
        BY <4>2, <4>3, <4>5, <4>6 DEF IInv, HeldRows
    <3>3. QED BY <3>1, <3>2
  <2>6. ASSUME NEW r \in Requests, Fail(r) PROVE IInv'
    BY <2>6, <2>l DEF Fail
  <2>7. CASE UNCHANGED vars
    BY <2>7 DEF vars, IInv, HeldRows, TypeOK, Coherent, BirthRow
  <2>8. QED
    BY <2>1, <2>2, <2>3, <2>4, <2>5, <2>6, <2>7 DEF Next
<1>3. QED
  BY <1>1, <1>2, TypeCorrect, PTL DEF Spec

\* However requests interleave and reads fail, the newest row is never killed
\* and trading at once.
THEOREM KilledNeverTrades == Spec => []NeverKilledAndTrading
<1>1. IInv => NeverKilledAndTrading
  BY DEF IInv, Coherent, NeverKilledAndTrading, Killed
<1>2. QED
  BY <1>1, HeldRowsInvariant, PTL

\* The kill switch is lost only to a reset or to a stale read.
THEOREM KillLost == Spec => KillLostOnlyToStaleRead
<1>1. IInv /\ [Next]_vars =>
        [Killed(latest) /\ ~Killed(latest') =>
           \E r \in Requests : /\ pc[r] = "commit"
                               /\ \/ op[r] = "kill_reset"
                                  \/ cur[r].at < latest.at]_vars
  <2> SUFFICES ASSUME IInv, Next, Killed(latest), ~Killed(latest')
               PROVE  \E r \in Requests : /\ pc[r] = "commit"
                                         /\ \/ op[r] = "kill_reset"
                                            \/ cur[r].at < latest.at
    BY DEF vars
  <2>1. PICK r \in Requests : Commit(r)
    BY DEF Next, Arrive, Gate, ReadState, Insert, Fail
  <2>2. pc[r] = "commit" /\ op[r] \in Ops /\ cur[r] \in Row
          /\ stamp[r] \in Nat /\ latest \in Row
    BY <2>1 DEF Commit, IInv, TypeOK
  <2>3. ~RowFor(op[r], cur[r], stamp[r]).kill
    BY <2>1 DEF Commit, Killed
  <2>4. op[r] = "kill_reset" \/ ~cur[r].kill
    BY <2>2, <2>3, RowForKill DEF IInv, HeldRows
  <2>5. ~cur[r].kill => cur[r].at < latest.at
    <3>1. cur[r].at \in Nat /\ latest.at \in Nat /\ cur[r].at <= latest.at
      BY <2>2 DEF IInv, HeldRows, Row
    <3>2. ~cur[r].kill => cur[r].at # latest.at
      BY DEF IInv, HeldRows, Killed
    <3>3. QED
      BY <3>1, <3>2
  <2>6. QED
    BY <2>2, <2>4, <2>5
<1>2. QED
  BY <1>1, HeldRowsInvariant, PTL DEF Spec, KillLostOnlyToStaleRead

\* Trading goes live only through live_enable or a copy of a live row.
THEOREM LiveNotConjured == Spec => LiveOnlyFromLive
<1>1. TypeOK /\ [Next]_vars =>
        [Live(latest') /\ ~Live(latest) =>
           \E r \in Requests : /\ pc[r] = "commit"
                               /\ \/ op[r] = "live_enable"
                                  \/ op[r] \in Copies /\ Live(cur[r])]_vars
  <2> SUFFICES ASSUME TypeOK, Next, Live(latest'), ~Live(latest)
               PROVE  \E r \in Requests :
                         /\ pc[r] = "commit"
                         /\ \/ op[r] = "live_enable"
                            \/ op[r] \in Copies /\ Live(cur[r])
    BY DEF vars
  <2>1. PICK r \in Requests : Commit(r)
    BY DEF Next, Arrive, Gate, ReadState, Insert, Fail
  <2>2. pc[r] = "commit" /\ op[r] \in Ops
    BY <2>1 DEF Commit, TypeOK
  <2>3. Live(RowFor(op[r], cur[r], stamp[r]))
    BY <2>1 DEF Commit
  <2>4. op[r] = "live_enable" \/ (op[r] \in Copies /\ Live(cur[r]))
    BY <2>2, <2>3
       DEF RowFor, ModeOf, EnabledOf, KillOf, Live, Ops, Copies
  <2>5. QED
    BY <2>2, <2>4
<1>2. QED
  BY <1>1, TypeCorrect, PTL DEF Spec, LiveOnlyFromLive

---------------------------------------------------------------------------
(* One request at a time.                                                  *)

\* What the switchboard shows.
Switched == <<latest.mode, latest.enabled, latest.kill, latest.type>>

\* A request in flight still holds the newest row.
Fresh(r) ==
  pc[r] \in {"insert", "commit"} =>
    /\ cur[r] = latest
    /\ op[r] \in Guarded => ~latest.kill

\* The lone commit is a step of the switchboard, or leaves it alone.
LEMMA CommitRefines ==
  ASSUME NEW r \in Requests, TypeOK, Commit(r), Fresh(r)
  PROVE  Switch!Next \/ UNCHANGED Switched
<1> DEFINE row == RowFor(op[r], latest, stamp[r])
<1>1. op[r] \in Ops /\ (op[r] \in Guarded => ~latest.kill)
        /\ latest' \in {latest, row} /\ latest.kill \in BOOLEAN
  BY DEF Commit, Fresh, TypeOK, Row
<1>2. CASE latest' = latest
  BY <1>2 DEF Switched
<1>3. CASE latest' = row
  <2>1. CASE op[r] \in Copies
    BY <1>1, <1>3, <2>1
       DEF RowFor, ModeOf, EnabledOf, KillOf, Copies, Guarded,
           Switch!Record, Switch!Next
  <2>2. CASE op[r] \in {"start_off", "start_paper"}
    <3>1. latest.kill = FALSE
      BY <1>1, <2>2 DEF Guarded
    <3>2. CASE op[r] = "start_off"
      BY <1>3, <3>1, <3>2
         DEF RowFor, ModeOf, EnabledOf, KillOf, Copies, Switch!Start,
             Switch!Next
    <3>3. CASE op[r] = "start_paper"
      BY <1>3, <3>1, <3>3
         DEF RowFor, ModeOf, EnabledOf, KillOf, Copies, Switch!Start,
             Switch!Next
    <3>4. QED BY <2>2, <3>2, <3>3
  <2>3. CASE op[r] = "live_enable"
    <3>1. latest.kill = FALSE
      BY <1>1, <2>3 DEF Guarded
    <3>2. QED
      BY <1>3, <2>3, <3>1
         DEF RowFor, ModeOf, EnabledOf, KillOf, Copies, Switch!EnableLive,
             Switch!Next
  <2>4. CASE op[r] \in {"stop", "live_disable"}
    BY <1>3, <2>4
       DEF RowFor, ModeOf, EnabledOf, KillOf, Copies, Switch!Stop, Switch!Next
  <2>5. CASE op[r] = "kill"
    BY <1>3, <2>5
       DEF RowFor, ModeOf, EnabledOf, KillOf, Copies, Switch!Kill, Switch!Next
  <2>6. CASE op[r] = "kill_reset"
    BY <1>3, <2>6
       DEF RowFor, ModeOf, EnabledOf, KillOf, Copies, Switch!Reset,
           Switch!Next
  <2>7. QED
    BY <1>1, <2>1, <2>2, <2>3, <2>4, <2>5, <2>6 DEF Ops, Copies
<1>4. QED
  BY <1>1, <1>2, <1>3

\* Served one at a time and with no failed read, the requests implement the
\* switchboard the operator is promised.
THEOREM SerialImplementsSwitch ==
  ASSUME NEW r0, Requests = {r0}, ReadFaults = FALSE
  PROVE  Spec => ImplementsSwitch
<1>1. Init => Switch!Init /\ Fresh(r0)
  BY DEF Init, SafeDefault, Switch!Init, Fresh
<1>2. TypeOK /\ Fresh(r0) /\ [Next]_vars => Fresh(r0)'
  <2> SUFFICES ASSUME TypeOK, Fresh(r0), [Next]_vars PROVE Fresh(r0)'
    OBVIOUS
  <2>1. ASSUME NEW o \in Ops, Arrive(r0, o) PROVE Fresh(r0)'
    BY <2>1 DEF Arrive, Fresh, TypeOK
  <2>2. CASE Gate(r0)
    BY <2>2 DEF Gate, Leave, Fresh, TypeOK
  <2>3. CASE ReadState(r0)
    BY <2>3 DEF ReadState, Readable, Leave, Fresh, TypeOK, Killed
  <2>4. CASE Insert(r0)
    BY <2>4 DEF Insert, Fresh, TypeOK
  <2>5. CASE Commit(r0)
    BY <2>5 DEF Commit, Leave, Fresh, TypeOK
  <2>6. CASE Fail(r0)
    BY <2>6 DEF Fail, Leave, Fresh, TypeOK
  <2>7. CASE UNCHANGED vars
    BY <2>7 DEF vars, Fresh
  <2>8. QED
    BY <2>1, <2>2, <2>3, <2>4, <2>5, <2>6, <2>7 DEF Next
<1>3. TypeOK /\ Fresh(r0) /\ [Next]_vars =>
        [Switch!Next]_Switched
  <2> SUFFICES ASSUME TypeOK, Fresh(r0), Next, ~(UNCHANGED latest)
               PROVE  Switch!Next \/ UNCHANGED Switched
    BY DEF vars, Switched
  <2>1. Commit(r0)
    BY DEF Next, Arrive, Gate, ReadState, Insert, Fail
  <2>2. QED
    BY <2>1, CommitRefines
<1>4. QED
  BY <1>1, <1>2, <1>3, TypeCorrect, PTL
  DEF Spec, ImplementsSwitch, Switch!Spec, Switch!switch, Switched
=============================================================================
