------------------------ MODULE ProfessionalJournal ------------------------
(***************************************************************************)
(* The forward-evidence collector in its "once" mode                       *)
(* (scripts/run_forward_evidence_collector.py): it settles paper fills,    *)
(* records a decision row and a simulated order for the market's alert,    *)
(* and then lets ProfessionalJournalCollector judge every row not yet      *)
(* judged and review what settled, all in one database transaction.  The   *)
(* scheduler starts a run four times a day and takes no lock; a run can    *)
(* last for hours, so two may overlap, and any failure rolls back all a    *)
(* run has written.                                                        *)
(*                                                                         *)
(* One market and one candidate; the row's judgement is that of            *)
(* ProfessionalDecision.  Runs see what is committed and what they wrote   *)
(* themselves (READ COMMITTED).                                            *)
(***************************************************************************)
EXTENDS ProfessionalDecision

CONSTANTS Runs,       \* runs that may overlap
          Extremes,   \* the day's highs an observation may report
          Window,     \* how many decisions position_state looks back at
          MaxRows,    \* bound: decision rows ever recorded
          MaxTurns    \* bound: changes outside, runs that fail and runs
                      \* started while another is open, together

ASSUME JournalAssumption ==
  /\ Window \in Nat \ {0}
  /\ Extremes \subseteq Nat
  /\ {MaxRows, MaxTurns} \subseteq Nat

VARIABLES
  world,       \* what is outside: observation, quote, kill switch, result
  db,          \* what is committed
  tx,          \* what each run has written in its open transaction
  pc,          \* where each run is
  lastRow,     \* the sequence of the decision rows' ids
  turns,       \* what MaxTurns bounds, so far
  overlapped   \* history: have two runs ever been open at once?

vars == <<world, db, tx, pc, lastRow, turns, overlapped>>

Prices  == {"low", "high"}
Ask     == [low |-> [YES |-> 4000, NO |-> 6100], high |-> [YES |-> 6500, NO |-> 3600]]
Bid     == [low |-> [YES |-> 3900, NO |-> 6000], high |-> [YES |-> 6400, NO |-> 3500]]
Fair     == 6000        \* the candidate's YES probability

Empty == [rows |-> {}, paper |-> {}, decisions |-> {}, events |-> {},
          journal |-> {}, alerts |-> {}, reviews |-> {}]

Visible(r) == [t \in DOMAIN db |-> db[t] \cup tx[r][t]]

\* Another open transaction holds this key: an insert of it has to wait.
HeldElsewhere(r, table, ids) ==
  \E q \in Runs \ {r} : \E x \in tx[q][table] : x \in ids

---------------------------------------------------------------------------
(* What is read back                                                       *)

Before(k, l) == k[1] < l[1] \/ (k[1] = l[1] /\ k[2] < l[2])

\* The newest of a set of decisions.
Newest(ds) == CHOOSE d \in ds : \A e \in ds \ {d} : Before(e.key, d.key)

\* latest_basis and position_state order by decision_time and id.
Recent(ds) ==
  {d \in ds : Cardinality({e \in ds : Before(d.key, e.key)}) < Window}

\* The paper event of a row that position_state and the settlement see.
LatestPaper(v, n) ==
  LET of == {e \in v.paper : e.row = n} IN
  IF \E e \in of : e.type # "FILLED"
  THEN (CHOOSE e \in of : e.type # "FILLED").type
  ELSE "FILLED"

\* Faulty: the simulated order of the newest row, not that of the entry's.
HeldByNewest(v, entry, exits) ==
  /\ exits = {} \/ Before(Newest(exits).key, entry.key)
  /\ LatestPaper(v, Max({row.n : row \in v.rows})) = "FILLED"

\* The newest entry was filled and no exit came after it.
Held(v, entry, exits) ==
  /\ exits = {} \/ Before(Newest(exits).key, entry.key)
  /\ LatestPaper(v, entry.key[1]) = "FILLED"

\* PostgresProfessionalRepository.position_state
PositionState(v) ==
  LET recent  == Recent(v.decisions)
      exits   == {d \in recent : d.action = "EXIT"}
      entries == {d \in recent : d.action \in TradeActions}
      entry   == Newest(entries)
      exit    == Newest(exits)
  IN IF entries = {} THEN Flat
     ELSE IF Held(v, entry, exits)
     THEN [Flat EXCEPT !.side = SideOf(entry.action), !.contracts = 1,
                       !.entry = entry.key, !.entryEvent = entry.trigger.id]
     ELSE IF exits = {}
     THEN [Flat EXCEPT !.entry = entry.key, !.entryEvent = entry.trigger.id]
     ELSE [Flat EXCEPT !.entry = entry.key, !.entryEvent = entry.trigger.id,
                       !.exit = exit.key, !.exitEvent = exit.trigger.id,
                       !.exitReason = exit.reason]

\* _current_basis of a row, and when its facts became known.
Basis(row) ==
  [fact |-> [forecast |-> 690, observation |-> row.extreme,
             extreme |-> row.extreme, disagreement |-> 20,
             price |-> Ask[row.price]["YES"], quantity |-> 500,
             spread |-> 100],
   impossible |-> FALSE, status |-> "active"]

Stamp(row) ==
  [f \in Range(Facts) |->
     IF f \in {"observation", "extreme"} THEN row.stamp
     ELSE IF f \in {"price", "quantity", "spread"} THEN row.n ELSE 0]

\* The material events a row brings, in order, against the basis of the
\* newest decision; a row without any is judged once all the same.
Triggers(v, row) ==
  LET first == v.decisions = {}
      old   == IF first THEN NoBasis
               ELSE LET n == Newest(v.decisions).key[1] IN
                    Basis(CHOOSE o \in v.rows : o.n = n)
      Acted(all) == LET some == Among(all, {e \in Range(all) : e.material}) IN
        IF some = <<>> THEN <<NoEvent>>
        ELSE [i \in DOMAIN some |-> [type |-> some[i].type, id |-> some[i].id]]
  IN CHOOSE found \in {[all |-> all, act |-> Acted(all)] :
                         all \in {DetectedEvents(old, ~first, Basis(row),
                                                 Stamp(row), "max")}} : TRUE

\* The DecisionContext collect() builds.
Context(row, position, trigger, first) ==
  [issues |-> {}, status |-> "active", now |-> row.n,
   forecastAt |-> 0, observationAt |-> 0, quoteAt |-> row.n,
   weatherStale |-> FALSE, quoteStale |-> FALSE, impossible |-> FALSE,
   crossed |-> FALSE, trading |-> TRUE,
   ask |-> Ask[row.price], bid |-> Bid[row.price],
   depth |-> [YES |-> 5, NO |-> 5], spread |-> 100,
   model |-> Fair, working |-> Fair,
   market |-> (Ask[row.price]["YES"] + Bid[row.price]["YES"]) \div 2,
   cash |-> 50 * Dollar, kill |-> world.kill, unknown |-> FALSE,
   healthy |-> TRUE, openOrders |-> 0, holds |-> "NONE",
   evidence |-> FALSE, trigger |-> trigger, first |-> first,
   position |-> position, average |-> 0, risk |-> {}, paperOnly |-> TRUE]

---------------------------------------------------------------------------
(* Judging a row                                                           *)

Record(kind, id, parent) == [kind |-> kind, id |-> id, parent |-> parent]
Derived(name, key) == <<name, key[1], key[2]>>

\* Faulty: a fill without the simulated order it fills.
FillsWithoutOrder(d, paper) ==
  {Record("DECISION_SNAPSHOT", d.key,
          IF d.trigger = NoEvent THEN <<>>
          ELSE <<"INFORMATION_EVENT", d.trigger.id>>)}
  \cup (IF d.action \notin TradeActions \/ paper # "FILLED" THEN {}
        ELSE {Record("FILL", Derived("fill", d.key),
                     <<"ACTUAL_ORDER", Derived("actual", d.key)>>)})

\* The journal records of a decision: itself, what its action asks for, and
\* for an entry the intended order and the row's simulated order and fill.
DecisionRecords(d, paper) ==
  LET decision == <<"DECISION_SNAPSHOT", d.key>>
      intent   == <<"INTENDED_ORDER", Derived("intent", d.key)>>
      actual   == <<"ACTUAL_ORDER", Derived("actual", d.key)>>
      kind     == CASE d.action = "HOLD"   -> {"POSITION_REVIEW"}
                    [] d.action = "EXIT"   -> {"EXIT"}
                    [] d.action \in Rebuys -> {"REENTRY"}
                    [] OTHER               -> {}
  IN {Record(decision[1], decision[2],
             IF d.trigger = NoEvent THEN <<>>
             ELSE <<"INFORMATION_EVENT", d.trigger.id>>)}
     \cup {Record(k, Derived(k, d.key), decision) : k \in kind}
     \cup (IF d.action \notin TradeActions THEN {}
           ELSE {Record(intent[1], intent[2], decision),
                 Record(actual[1], actual[2], intent)}
                \cup (IF paper # "FILLED" THEN {}
                      ELSE {Record("FILL", Derived("fill", d.key), actual)}))

\* Faulty: every decision of the row hangs off the basis.
Forked(row, i, before, c) ==
  [key |-> <<row.n, i>>, action |-> Action(c),
   reason |-> IF IsOpen(c.position) THEN ExitReason(c) ELSE "NONE",
   trigger |-> c.trigger, correct |-> ProcessCorrect(c), alert |-> AlertOf(c),
   parent |-> before]

\* The decision on one trigger; its parent is the one before it.
Decided(row, i, before, c) ==
  [key |-> <<row.n, i>>, action |-> Action(c),
   reason |-> IF IsOpen(c.position) THEN ExitReason(c) ELSE "NONE",
   trigger |-> c.trigger, correct |-> ProcessCorrect(c), alert |-> AlertOf(c),
   parent |-> IF i = 1 THEN before ELSE <<row.n, i - 1>>]

\* One decision for each trigger, all on the position read before the first.
DecisionsOn(v, row, triggers, position) ==
  LET first  == v.decisions = {}
      before == IF first THEN NoId ELSE Newest(v.decisions).key
  IN UNION {{Decided(row, i, before, c) :
               c \in {Context(row, position, triggers[i], first)}} :
            i \in DOMAIN triggers}

\* Everything collect() appends for a row.
Judged(v, row, told, decided) ==
  LET paper == (CHOOSE e \in v.paper : e.row = row.n).type IN
  [Empty EXCEPT
     !.decisions = decided,
     !.events  = told,
     !.journal = {Record("INFORMATION_EVENT", i, <<>>) : i \in told \ v.events}
                 \cup UNION {DecisionRecords(d, paper) : d \in decided},
     !.alerts  = {<<d.key, d.alert>> : d \in {x \in decided : x.alert # "NONE"}}]

---------------------------------------------------------------------------
(* Reviewing settlements                                                   *)

\* The settlements of a row; two overlapping runs may both have recorded one.
Settlements(v, n) ==
  {e \in v.paper : e.row = n /\ e.type \in {"SETTLED_WIN", "SETTLED_LOSS"}}

Unreviewed(v) ==
  {d \in v.decisions : /\ d.action \in TradeActions
                       /\ Settlements(v, d.key[1]) # {}
                       /\ \A w \in v.reviews : w.decision # d.key}

\* The review of a decision on one of its row's settlements, whose id is that
\* of the decision, the outcome and the settlement's time.
ReviewOf(d, settlement) ==
  [decision |-> d.key, by |-> settlement.by,
   verdict |-> Classification(d.action, d.correct, world.result)]

ReviewRecords(w) ==
  LET settlement == <<"SETTLEMENT", <<"settlement", w.decision, w.by>>>> IN
  {Record(settlement[1], settlement[2], <<"DECISION_SNAPSHOT", w.decision>>),
   Record("POST_TRADE_REVIEW", <<"review", w.decision, w.by>>, settlement)}

---------------------------------------------------------------------------
(* A run                                                                   *)

Init ==
  /\ world \in [extreme : Extremes \cup {None}, stamp : {0}, price : Prices,
                kill : {FALSE}, result : {"none"}]
  /\ db = Empty
  /\ tx = [r \in Runs |-> Empty]
  /\ pc = [r \in Runs |-> "idle"]
  /\ lastRow = 0
  /\ turns = 0
  /\ overlapped = FALSE

Write(r, written) ==
  tx' = [tx EXCEPT ![r] = [t \in DOMAIN db |-> tx[r][t] \cup written[t]]]

Goto(r, at) == pc' = [pc EXCEPT ![r] = at]

Begin(r) ==
  LET another == \E q \in Runs \ {r} : pc[q] # "idle" IN
  /\ pc[r] = "idle"
  /\ another => turns < MaxTurns
  /\ turns' = IF another THEN turns + 1 ELSE turns
  /\ overlapped' = (overlapped \/ another)
  /\ Goto(r, "settle")
  /\ UNCHANGED <<world, db, tx, lastRow>>

\* Faulty: fills, whether settled or not.
EverFilled(v) ==
  {n \in {row.n : row \in v.rows} :
     \E e \in v.paper : e.row = n /\ e.type = "FILLED"}

\* unsettled_paper_fills: the rows whose newest paper event is a fill.
UnsettledFills(v) ==
  {n \in {row.n : row \in v.rows} :
     /\ \E e \in v.paper : e.row = n
     /\ LatestPaper(v, n) = "FILLED"}

\* settle_paper_results: every fill whose market has a result; a market that
\* cannot be fetched is left for a later run.
SettlePaper(r) ==
  LET v == Visible(r)
      Settled(n) == [row |-> n, by |-> r,
                     type |-> IF world.result = "YES" THEN "SETTLED_WIN"
                              ELSE "SETTLED_LOSS"]
  IN /\ pc[r] = "settle"
     /\ Goto(r, "decide")
     /\ IF world.result = "none" THEN tx' = tx
        ELSE Write(r, [Empty EXCEPT !.paper = {Settled(n) : n \in UnsettledFills(v)}])
     /\ UNCHANGED <<world, db, lastRow, turns, overlapped>>

\* collect_decisions for the market's alert: a decision row and its simulated
\* order.  At the high price the candidate sees too little edge.
DecideRow(r) ==
  /\ pc[r] = "decide"
  /\ world.result = "none"
  /\ lastRow < MaxRows
  /\ lastRow' = lastRow + 1
  /\ \E status \in IF world.price = "low" THEN {"FILLED", "NO_FILL"}
                   ELSE {"INELIGIBLE"} :
       Write(r, [Empty EXCEPT
         !.rows  = {[n |-> lastRow + 1, extreme |-> world.extreme,
                     stamp |-> world.stamp, price |-> world.price]},
         !.paper = {[row |-> lastRow + 1, by |-> r, type |-> status]}])
  /\ Goto(r, "judge")
  /\ UNCHANGED <<world, db, turns, overlapped>>

\* No alert for the market (closed, or not generated), or its book failed.
NoAlert(r) ==
  /\ pc[r] = "decide"
  /\ Goto(r, "judge")
  /\ UNCHANGED <<world, db, tx, lastRow, turns, overlapped>>

\* pending_inputs: rows without a decision.
Pending(v) ==
  {row \in v.rows : \A d \in v.decisions : d.key[1] # row.n}

JudgeRow(r) ==
  /\ pc[r] = "judge"
  /\ UNCHANGED <<world, db, pc, lastRow, turns, overlapped>>
  /\ \E v \in {Visible(r)} : \E row \in Pending(v) :
       /\ \A other \in Pending(v) : row.n <= other.n
       /\ \E found \in {Triggers(v, row)}, position \in {PositionState(v)} :
          \E decided \in {DecisionsOn(v, row, found.act, position)},
             told \in {{e.id : e \in Range(found.all)}} :
            /\ ~HeldElsewhere(r, "events", told)
            /\ Write(r, Judged(v, row, told, decided))

\* Two settlements of a row: the one recorded last counts, either of the two.
Review(r) ==
  LET v == Visible(r)
      Ids(w) == <<w.decision, w.by>>
  IN /\ pc[r] = "judge"
     /\ Goto(r, "commit")
     /\ UNCHANGED <<world, db, lastRow, turns, overlapped>>
     /\ Pending(v) = {}
     /\ \E last \in [{d.key[1] : d \in Unreviewed(v)} -> v.paper] :
          /\ \A n \in DOMAIN last : last[n] \in Settlements(v, n)
          /\ LET new == {ReviewOf(d, last[d.key[1]]) : d \in Unreviewed(v)} IN
             /\ ~HeldElsewhere(r, "reviews", new)
             /\ Write(r, [Empty EXCEPT
                  !.reviews = new,
                  !.journal = UNION {ReviewRecords(w) : w \in new},
                  !.alerts  = {<<w.decision, "SETTLED_REVIEW_READY">> : w \in new}])

Commit(r) ==
  /\ pc[r] = "commit"
  /\ db' = Visible(r)
  /\ tx' = [tx EXCEPT ![r] = Empty]
  /\ Goto(r, "idle")
  /\ UNCHANGED <<world, lastRow, turns, overlapped>>

\* An exception, a lost connection, a killed process: nothing is kept.
Abort(r) ==
  /\ pc[r] # "idle"
  /\ turns < MaxTurns
  /\ turns' = turns + 1
  /\ tx' = [tx EXCEPT ![r] = Empty]
  /\ Goto(r, "idle")
  /\ UNCHANGED <<world, db, lastRow, overlapped>>

---------------------------------------------------------------------------
(* Outside                                                                 *)

Turn(to) ==
  /\ world.result = "none"
  /\ turns < MaxTurns
  /\ turns' = turns + 1
  /\ world' = to
  /\ UNCHANGED <<db, tx, pc, lastRow, overlapped>>

\* A new observation, of the same value more often than not.
Observe ==
  \E x \in {y \in Extremes : y >= world.extreme} :
    Turn([world EXCEPT !.extreme = x, !.stamp = @ + 1])

MovePrice == \E p \in Prices \ {world.price} : Turn([world EXCEPT !.price = p])

SwitchKill == Turn([world EXCEPT !.kill = ~@])

\* The market closes with a result.
Finalize == \E result \in Sides : Turn([world EXCEPT !.result = result])

RunStep(r) ==
  \/ SettlePaper(r) \/ DecideRow(r) \/ NoAlert(r) \/ JudgeRow(r)
  \/ Review(r) \/ Commit(r)

Next ==
  \/ \E r \in Runs : Begin(r) \/ RunStep(r) \/ Abort(r)
  \/ Observe \/ MovePrice \/ SwitchKill \/ Finalize

Spec == Init /\ [][Next]_vars

---------------------------------------------------------------------------
(* Properties                                                              *)

Ids == (1..MaxRows) \X (1..9)

\* Type correctness.
TypeOK ==
  /\ world \in [extreme : Extremes \cup {None}, stamp : 0..MaxTurns,
                price : Prices, kill : BOOLEAN, result : Sides \cup {"none"}]
  /\ pc \in [Runs -> {"idle", "settle", "decide", "judge", "commit"}]
  /\ lastRow \in 0..MaxRows /\ turns \in 0..MaxTurns /\ overlapped \in BOOLEAN
  /\ \A v \in {db} \cup Range(tx) :
       /\ {row.n : row \in v.rows} \subseteq 1..lastRow
       /\ {d.key : d \in v.decisions} \subseteq Ids
       /\ {d.action : d \in v.decisions} \subseteq Actions
       /\ {w.decision : w \in v.reviews} \subseteq Ids

\* Whatever a reader finds in the journal, it also finds what that refers to:
\* every committed record's parent, every decision's triggering event, every
\* alert's and every review's decision, even when runs overlap or fail.  (Its
\* records have the values the code allows.)
JournalClosed ==
  LET records == {<<j.kind, j.id>> : j \in db.journal}
      keys    == {d.key : d \in db.decisions}
  IN /\ TypeOK
     /\ \A j \in db.journal : j.parent = <<>> \/ j.parent \in records
     /\ \A d \in db.decisions : d.trigger = NoEvent \/ d.trigger.id \in db.events
     /\ \A e \in db.events : <<"INFORMATION_EVENT", e>> \in records
     /\ {a[1] : a \in db.alerts} \subseteq keys
     /\ {w.decision : w \in db.reviews} \subseteq keys
     /\ {d.key[1] : d \in db.decisions} = {row.n : row \in db.rows}

\* Runs that do not overlap leave one chain: the parent of every decision is
\* the one before it (parent_decision_id).
LinearChain ==
  ~overlapped =>
    \A d \in db.decisions :
      LET earlier == {e \in db.decisions : Before(e.key, d.key)} IN
      d.parent = IF earlier = {} THEN NoId ELSE Newest(earlier).key

\* The decisions position_state saw when it judged d's row.
SeenBy(d) == Recent({e \in db.decisions : e.key[1] < d.key[1]})
FilledEntries(ds) ==
  {e \in ds : /\ e.action \in TradeActions
              /\ \E x \in db.paper : x.row = e.key[1] /\ x.type = "FILLED"}
ExitsAfter(ds, e) == {x \in ds : x.action = "EXIT" /\ Before(e.key, x.key)}

\* A filled entry that is still among the decisions looked back at is not
\* doubled by another row: a later entry comes after an exit.
OnePosition ==
  ~overlapped =>
    \A d \in db.decisions : d.action \in TradeActions =>
      \A e \in FilledEntries(SeenBy(d)) : ExitsAfter(SeenBy(d), e) # {}

\* After an exit, as far as it is looked back at, a position is reopened only
\* on an event that is not a price and that neither the last exit nor the
\* last entry had acted on.
ReentryNeedsEvent ==
  ~overlapped =>
    \A d \in db.decisions :
      LET exits   == {x \in SeenBy(d) : x.action = "EXIT"}
          entries == {x \in SeenBy(d) : x.action \in TradeActions}
      IN d.action \in TradeActions /\ exits # {} /\ entries # {} =>
           /\ d.trigger.type \notin PriceEvents \cup {"NONE"}
           /\ d.trigger.id \notin {Newest(exits).trigger.id,
                                   Newest(entries).trigger.id}

\* Runs that do not overlap settle a simulated fill once and review each of
\* its entries once.
ReviewedOnce ==
  ~overlapped =>
    /\ \A row \in db.rows : Cardinality(Settlements(db, row.n)) <= 1
    /\ \A d \in db.decisions :
         Cardinality({w \in db.reviews : w.decision = d.key}) <= 1

=============================================================================
