------------------------ MODULE PaperTrading_proofs ------------------------
(***************************************************************************)
(* What holds of the paper-trading ledger for any number of cycles that    *)
(* overlap or die, any markets, prices and settings: first what becomes of *)
(* the rows (PaperInv), then of the money (MoneyInv).                      *)
(***************************************************************************)
EXTENDS PaperTrading, FoldLemmas

\* A row of paper_trades.
Row(t) == /\ t = [status |-> t.status, side |-> t.side, contracts |-> t.contracts,
                  cost |-> t.cost, reason |-> t.reason, pnl |-> t.pnl]
          /\ t.status \in {"open", "closed"}

\* What a cycle holds.
Fields == {"skip", "positions", "plan", "quotes", "traded", "cash", "bankroll",
           "exposure"}
Held(l) == l = [f \in Fields |-> l[f]]

Entered == {m \in Markets : trades[m] # NoTrade}

Shape ==
  /\ \A m \in Markets : trades[m] = NoTrade \/ Row(trades[m])
  /\ alerts \in [Markets -> Alert]
  /\ DOMAIN pc = Workers /\ DOMAIN local = Workers
  /\ DOMAIN alone = Workers /\ DOMAIN due = Workers

\* A cycle settles and exits only what has been entered.
PlanEntered(w) ==
  /\ Held(local[w])
  /\ local[w].positions \subseteq Entered
  /\ \A c \in local[w].plan : c.market \in Entered
  /\ pc[w] = "idle" => local[w].plan = {}

\* While a cycle is alone the positions it read are still open, and those it
\* is about to close are not among those it goes on with.
PlanOpen(w) ==
  alone[w] /\ pc[w] # "idle" =>
    /\ \A v \in Workers \ {w} : pc[v] = "idle"
    /\ local[w].positions \subseteq Open
    /\ \A c \in local[w].plan : c.market \in Open /\ c.market \notin local[w].positions

\* What was due when a cycle began is among the positions it looks at, and
\* then among those it settles.
DuePlanned(w) ==
  /\ due[w] \subseteq Markets
  /\ pc[w] = "outcomes" =>
       /\ due[w] \subseteq local[w].positions
       /\ \A m \in due[w] : alerts[m].result # "none"
  /\ pc[w] = "settle" => \A m \in due[w] : \E c \in local[w].plan : c.market = m

CycleInv(w) == PlanEntered(w) /\ PlanOpen(w) /\ DuePlanned(w)

PaperInv == Shape /\ \A w \in Workers : CycleInv(w)

---------------------------------------------------------------------------
(* Rows and plans                                                          *)

LEMMA RowFacts ==
  ASSUME NEW t, Row(t) PROVE t # NoTrade
  BY DEF Row, NoTrade

LEMMA NoTradeFacts == NoTrade.status = "none"
  BY DEF NoTrade

LEMMA OpenEntered ==
  ASSUME Shape
  PROVE  /\ Open \subseteq Entered /\ Closed \subseteq Entered
         /\ \A m \in Entered : m \in Open \/ m \in Closed
         /\ Open \cap Closed = {}
  BY NoTradeFacts DEF Open, Closed, Entered, Shape, Row

\* _apply_closes: the planned rows are closed on the terms they have, the
\* others are left alone.
LEMMA ClosesKeepTerms ==
  ASSUME Shape, NEW plan, \A c \in plan : c.market \in Entered, ApplyCloses(plan),
         NEW m \in Markets
  PROVE  /\ (\E c \in plan : c.market = m) =>
              /\ Row(trades[m]) /\ Row(trades'[m]) /\ trades'[m].status = "closed"
              /\ trades'[m].side = trades[m].side
              /\ trades'[m].contracts = trades[m].contracts
              /\ trades'[m].cost = trades[m].cost
         /\ (~\E c \in plan : c.market = m) => trades'[m] = trades[m]
<1>1. CASE \E c \in plan : c.market = m
  <2>1. Row(trades[m])
    BY <1>1 DEF Entered, Shape
  <2>2. \E reason, pnl : trades'[m] = [trades[m] EXCEPT !.status = "closed", !.reason = reason, !.pnl = pnl]
    BY <1>1 DEF ApplyCloses
  <2>3. PICK reason, pnl : trades'[m] = [trades[m] EXCEPT !.status = "closed", !.reason = reason, !.pnl = pnl]
    BY <2>2
  <2>4. trades'[m] = [status |-> "closed", side |-> trades[m].side,
                      contracts |-> trades[m].contracts, cost |-> trades[m].cost,
                      reason |-> reason, pnl |-> pnl]
    BY <2>1, <2>3 DEF Row
  <2>5. QED
    BY <1>1, <2>1, <2>4 DEF Row
<1>2. CASE ~\E c \in plan : c.market = m
  BY <1>2 DEF ApplyCloses
<1>3. QED
  BY <1>1, <1>2

\* A transaction of inserts adds rows where there was none.
LEMMA InsertsAdd ==
  ASSUME Shape, NEW bought, trades' = Inserted(bought), NEW m \in Markets
  PROVE  /\ trades[m] # NoTrade => trades'[m] = trades[m]
         /\ trades'[m] = NoTrade \/ Row(trades'[m])
<1>1. CASE \E b \in bought : trades[b.market] # NoTrade
  BY <1>1 DEF Inserted, Shape
<1>2. CASE ~\E b \in bought : trades[b.market] # NoTrade
  <2>1. CASE \E b \in bought : b.market = m
    <3>1. trades[m] = NoTrade
      BY <1>2, <2>1
    <3>2. \E b : trades'[m] = Bought(b)
      BY <1>2, <2>1 DEF Inserted
    <3>3. \A b : Row(Bought(b))
      BY DEF Bought, Row
    <3>4. QED
      BY <3>1, <3>2, <3>3
  <2>2. CASE ~\E b \in bought : b.market = m
    <3>1. trades'[m] = trades[m]
      BY <1>2, <2>2 DEF Inserted
    <3>2. QED
      BY <3>1 DEF Shape
  <2>3. QED
    BY <2>1, <2>2
<1>3. QED
  BY <1>1, <1>2

LEMMA PlansAreOfPositions ==
  /\ \A m, result : Settlement(m, result).market = m
  /\ \A positions, quotes : \A c \in Exits(positions, quotes) : c.market \in positions
<1>1. \A m, reason, payout : Close(m, reason, payout).market = m
  BY DEF Close
<1>2. \A m, result : Settlement(m, result).market = m
  BY <1>1 DEF Settlement
<1>3. \A positions, quotes : \A c \in Exits(positions, quotes) : c.market \in positions
  BY <1>1 DEF Exits
<1>4. QED
  BY <1>2, <1>3

---------------------------------------------------------------------------
(* The steps                                                               *)

LEMMA IdleFacts == Held(Idle) /\ Idle.positions = {} /\ Idle.plan = {}
  BY DEF Idle, Held, Fields

LEMMA PaperStart == Init => PaperInv
<1> SUFFICES ASSUME Init PROVE PaperInv
  OBVIOUS
<1>1. Shape
  BY DEF Init, Shape, Alert
<1>2. ASSUME NEW w \in Workers PROVE CycleInv(w)
  BY IdleFacts DEF Init, CycleInv, PlanEntered, PlanOpen, DuePlanned
<1>3. QED
  BY <1>1, <1>2 DEF PaperInv

\* What a step may do to a row: nothing if it is there, except to close it.
RowKept(m) ==
  /\ trades'[m] = NoTrade \/ Row(trades'[m])
  /\ trades[m] # NoTrade =>
       /\ trades'[m] # NoTrade
       /\ trades[m].status = "closed" => trades'[m].status = "closed"
       /\ /\ trades'[m].side = trades[m].side
          /\ trades'[m].contracts = trades[m].contracts
          /\ trades'[m].cost = trades[m].cost

\* A step of cycle w, as far as the other cycles are concerned.
OwnStep(w) ==
  /\ DOMAIN pc' = Workers /\ DOMAIN local' = Workers
  /\ DOMAIN alone' = Workers /\ DOMAIN due' = Workers
  /\ \A v \in Workers \ {w} : /\ pc'[v] = pc[v] /\ local'[v] = local[v]
                              /\ alone'[v] = alone[v] /\ due'[v] = due[v]
  /\ alerts' = alerts
  /\ \A m \in Markets : RowKept(m)

LEMMA EnteredGrows ==
  ASSUME \A m \in Markets : RowKept(m) PROVE Entered \subseteq Entered'
  BY DEF RowKept, Entered

\* A step of one cycle leaves what the others hold in order: none of them is
\* alone, and a market once entered stays entered.
LEMMA OthersKept ==
  ASSUME PaperInv, NEW w \in Workers, pc[w] # "idle", OwnStep(w), CycleInv(w)'
  PROVE  PaperInv'
<1>1. Shape'
  BY DEF PaperInv, Shape, OwnStep, RowKept
<1>2. ASSUME NEW v \in Workers \ {w} PROVE CycleInv(v)'
  <2>1. CycleInv(v)
    BY DEF PaperInv
  <2>2. /\ pc'[v] = pc[v] /\ local'[v] = local[v] /\ alone'[v] = alone[v]
        /\ due'[v] = due[v] /\ alerts' = alerts /\ Entered \subseteq Entered'
    BY EnteredGrows DEF OwnStep
  <2>3. PlanEntered(v)'
    BY <2>1, <2>2 DEF CycleInv, PlanEntered
  <2>4. PlanOpen(v)'
    BY <2>1, <2>2 DEF CycleInv, PlanOpen
  <2>5. DuePlanned(v)'
    BY <2>1, <2>2 DEF CycleInv, DuePlanned
  <2>6. QED
    BY <2>3, <2>4, <2>5 DEF CycleInv
<1>3. QED
  BY <1>1, <1>2 DEF PaperInv

---------------------------------------------------------------------------
(* The steps of a cycle                                                    *)

\* A cycle that changes what it holds still holds it.
LEMMA HoldsQuotes ==
  ASSUME NEW l, Held(l), NEW plan, NEW quotes
  PROVE  LET k == [l EXCEPT !.positions = {}, !.plan = plan, !.quotes = quotes] IN
         Held(k) /\ k.plan = plan /\ k.positions = {}
  BY DEF Held, Fields

LEMMA HoldsNoPlan ==
  ASSUME NEW l, Held(l)
  PROVE  LET k == [l EXCEPT !.plan = {}] IN
         Held(k) /\ k.plan = {} /\ k.positions = l.positions
  BY DEF Held, Fields

\* What a cycle's own step does with the ledger when the cycle is alone, and
\* what the settlements leave behind.
OwnLedger(w) ==
  /\ alone[w] => \A m \in Closed : trades'[m] = trades[m]
  /\ pc[w] = "settle" /\ pc'[w] = "alerts" => due[w] \subseteq Closed'

LEMMA SameRows == ASSUME Shape, trades' = trades PROVE \A m \in Markets : RowKept(m)
  BY RowFacts DEF Shape, RowKept

LEMMA ReadsOwn ==
  ASSUME Shape, NEW w \in Workers, NEW from, NEW to, NEW l, Read(w, from, to, l)
  PROVE  /\ OwnStep(w) /\ trades' = trades /\ pc[w] = from
         /\ pc'[w] = to /\ local'[w] = l
         /\ alone'[w] = alone[w] /\ due'[w] = due[w]
<1>1. /\ trades' = trades /\ alerts' = alerts /\ alone' = alone /\ due' = due
      /\ pc' = [pc EXCEPT ![w] = to] /\ local' = [local EXCEPT ![w] = l] /\ pc[w] = from
  BY DEF Read, Goto, outside
<1>2. \A m \in Markets : RowKept(m)
  BY <1>1, SameRows
<1>3. QED
  BY <1>1, <1>2 DEF OwnStep, Shape

LEMMA FinishesOwn ==
  ASSUME Shape, NEW w \in Workers, Finish(w), alerts' = alerts,
         \A m \in Markets : RowKept(m)
  PROVE  /\ OwnStep(w) /\ CycleInv(w)' /\ pc'[w] = "idle"
<1>1. /\ pc'[w] = "idle" /\ local'[w] = Idle /\ due'[w] = {}
      /\ OwnStep(w)
  BY DEF Finish, OwnStep, Shape
<1>2. QED
  BY <1>1, IdleFacts DEF CycleInv, PlanEntered, PlanOpen, DuePlanned

LEMMA ReadsOutcomes ==
  ASSUME PaperInv, NEW w \in Workers, ReadOutcomes(w)
  PROVE  OwnStep(w) /\ CycleInv(w)' /\ OwnLedger(w)
<1> DEFINE settled == Resolved(w)
           plan == {Settlement(m, alerts[m].result) : m \in settled}
           l == [local[w] EXCEPT !.plan = plan, !.positions = @ \ settled]
<1>1. Read(w, "outcomes", "settle", l)
  BY DEF ReadOutcomes
<1>2. Shape /\ CycleInv(w)
  BY DEF PaperInv
<1>3. Held(l) /\ l.plan = plan /\ l.positions = local[w].positions \ settled
  <2>1. Held(local[w])
    BY <1>2 DEF CycleInv, PlanEntered
  <2>2. QED
    BY <2>1 DEF Held, Fields
<1>4. settled = {m \in local[w].positions : alerts[m].result # "none"}
  BY DEF Resolved
<1>5. /\ \A c \in plan : c.market \in settled
      /\ \A m \in settled : \E c \in plan : c.market = m
  BY PlansAreOfPositions
<1> HIDE DEF plan, settled, l
<1>6. /\ OwnStep(w) /\ trades' = trades /\ pc[w] = "outcomes"
      /\ pc'[w] = "settle" /\ local'[w] = l
      /\ alone'[w] = alone[w] /\ due'[w] = due[w]
  BY <1>1, <1>2, ReadsOwn
<1>7. Open' = Open /\ Entered' = Entered
  BY <1>6 DEF Open, Entered
<1>8. PlanEntered(w)'
  BY <1>2, <1>3, <1>4, <1>5, <1>6, <1>7 DEF CycleInv, PlanEntered
<1>9. PlanOpen(w)'
  BY <1>2, <1>3, <1>4, <1>5, <1>6, <1>7 DEF CycleInv, PlanOpen, OwnStep
<1>10. DuePlanned(w)'
  BY <1>2, <1>3, <1>4, <1>5, <1>6 DEF CycleInv, DuePlanned
<1>11. QED
  BY <1>6, <1>8, <1>9, <1>10 DEF CycleInv, OwnLedger

LEMMA ReadsAlerts ==
  ASSUME PaperInv, NEW w \in Workers, ReadAlerts(w)
  PROVE  OwnStep(w) /\ CycleInv(w)' /\ OwnLedger(w)
<1>1. PICK quotes :
        Read(w, "alerts", "exit",
             [local[w] EXCEPT !.positions = {}, !.plan = Exits(local[w].positions, quotes),
                              !.quotes = quotes])
  BY DEF ReadAlerts
<1> DEFINE plan == Exits(local[w].positions, quotes)
           l == [local[w] EXCEPT !.positions = {}, !.plan = plan, !.quotes = quotes]
<1>2. Shape /\ CycleInv(w)
  BY DEF PaperInv
<1>3. Held(l) /\ l.plan = plan /\ l.positions = {}
  BY <1>2, HoldsQuotes DEF CycleInv, PlanEntered
<1>4. \A c \in plan : c.market \in local[w].positions
  BY PlansAreOfPositions
<1>5. Read(w, "alerts", "exit", l)
  BY <1>1
<1> HIDE DEF plan, l
<1>6. /\ OwnStep(w) /\ trades' = trades /\ pc[w] = "alerts"
      /\ pc'[w] = "exit" /\ local'[w] = l
      /\ alone'[w] = alone[w] /\ due'[w] = due[w]
  BY <1>5, <1>2, ReadsOwn
<1>7. Open' = Open /\ Entered' = Entered
  BY <1>6 DEF Open, Entered
<1>8. PlanEntered(w)'
  BY <1>2, <1>3, <1>4, <1>6, <1>7 DEF CycleInv, PlanEntered
<1>9. PlanOpen(w)'
  BY <1>2, <1>3, <1>4, <1>6, <1>7 DEF CycleInv, PlanOpen, OwnStep
<1>10. DuePlanned(w)'
  BY <1>2, <1>6 DEF CycleInv, DuePlanned
<1>11. QED
  BY <1>6, <1>8, <1>9, <1>10 DEF CycleInv, OwnLedger

LEMMA ReadsLedger ==
  ASSUME PaperInv, NEW w \in Workers, ReadLedger(w)
  PROVE  OwnStep(w) /\ CycleInv(w)' /\ OwnLedger(w)
<1>1. PICK traded, cash, bankroll, exposure :
        Read(w, "ledger", "open",
             [local[w] EXCEPT !.traded = traded, !.cash = cash,
                              !.bankroll = bankroll, !.exposure = exposure])
  BY DEF ReadLedger
<1> DEFINE l == [local[w] EXCEPT !.traded = traded, !.cash = cash,
                                 !.bankroll = bankroll, !.exposure = exposure]
<1>2. Shape /\ CycleInv(w)
  BY DEF PaperInv
<1>3. Held(l) /\ l.plan = local[w].plan /\ l.positions = local[w].positions
  <2>1. Held(local[w])
    BY <1>2 DEF CycleInv, PlanEntered
  <2>2. QED
    BY <2>1 DEF Held, Fields
<1>5. Read(w, "ledger", "open", l)
  BY <1>1
<1> HIDE DEF l
<1>6. /\ OwnStep(w) /\ trades' = trades /\ pc[w] = "ledger"
      /\ pc'[w] = "open" /\ local'[w] = l
      /\ alone'[w] = alone[w] /\ due'[w] = due[w]
  BY <1>5, <1>2, ReadsOwn
<1>7. Open' = Open /\ Entered' = Entered
  BY <1>6 DEF Open, Entered
<1>8. PlanEntered(w)'
  BY <1>2, <1>3, <1>6, <1>7 DEF CycleInv, PlanEntered
<1>9. PlanOpen(w)'
  BY <1>2, <1>3, <1>6, <1>7 DEF CycleInv, PlanOpen, OwnStep
<1>10. DuePlanned(w)'
  BY <1>2, <1>6 DEF CycleInv, DuePlanned
<1>11. QED
  BY <1>6, <1>8, <1>9, <1>10 DEF CycleInv, OwnLedger

\* Closing what is planned: no row is reopened or has its terms changed, and
\* every planned market ends up closed.
LEMMA ClosesRows ==
  ASSUME PaperInv, NEW w \in Workers, ApplyCloses(local[w].plan)
  PROVE  /\ \A m \in Markets : RowKept(m)
         /\ \A m \in Markets : (\E c \in local[w].plan : c.market = m) => m \in Closed'
         /\ \A m \in Markets : (~\E c \in local[w].plan : c.market = m) =>
              trades'[m] = trades[m]
<1>1. Shape /\ CycleInv(w)
  BY DEF PaperInv
<1>2. \A c \in local[w].plan : c.market \in Entered
  BY <1>1 DEF CycleInv, PlanEntered
<1>3. ASSUME NEW m \in Markets, \E c \in local[w].plan : c.market = m
      PROVE  RowKept(m) /\ m \in Closed'
  BY <1>1, <1>2, <1>3, ClosesKeepTerms, RowFacts DEF RowKept, Closed
<1>4. ASSUME NEW m \in Markets, ~\E c \in local[w].plan : c.market = m
      PROVE  RowKept(m) /\ trades'[m] = trades[m]
  BY <1>1, <1>2, <1>4, ClosesKeepTerms, RowFacts DEF RowKept, Shape
<1>5. QED
  BY <1>3, <1>4

\* A cycle that is alone closes only what is open.
LEMMA AloneClosesOpen ==
  ASSUME PaperInv, NEW w \in Workers, ApplyCloses(local[w].plan), pc[w] # "idle",
         alone[w]
  PROVE  /\ \A m \in Closed : trades'[m] = trades[m]
         /\ local[w].positions \subseteq Open'
<1>1. Shape /\ PlanOpen(w)
  BY DEF PaperInv, CycleInv
<1>2. Closed \subseteq Markets /\ Open \cap Closed = {} /\ Open \subseteq Markets
  BY <1>1, OpenEntered DEF Closed, Open
<1>3. \A m \in Markets : (~\E c \in local[w].plan : c.market = m) =>
        trades'[m] = trades[m]
  BY ClosesRows
<1>4. \A m \in Closed : trades'[m] = trades[m]
  BY <1>1, <1>2, <1>3 DEF PlanOpen
<1>5. \A m \in local[w].positions : m \in Open /\ trades'[m] = trades[m]
  BY <1>1, <1>2, <1>3 DEF PlanOpen
<1>6. QED
  BY <1>4, <1>5 DEF Open

LEMMA Settles ==
  ASSUME PaperInv, NEW w \in Workers, Settle(w)
  PROVE  OwnStep(w) /\ CycleInv(w)' /\ OwnLedger(w)
<1>1. Shape /\ CycleInv(w)
  BY DEF PaperInv
<1> DEFINE l == [local[w] EXCEPT !.plan = {}]
<1>2. /\ pc[w] = "settle" /\ pc' = [pc EXCEPT ![w] = "alerts"]
      /\ alone' = alone /\ due' = due /\ alerts' = alerts
      /\ ApplyCloses(local[w].plan) /\ local' = [local EXCEPT ![w] = l]
  BY DEF Settle, Goto, outside
<1>3. Held(l) /\ l.plan = {} /\ l.positions = local[w].positions
  BY <1>1, HoldsNoPlan DEF CycleInv, PlanEntered
<1> HIDE DEF l
<1>4. \A m \in Markets : RowKept(m)
  BY <1>2, ClosesRows
<1>5. OwnStep(w) /\ pc'[w] = "alerts" /\ local'[w] = l
  BY <1>1, <1>2, <1>4 DEF OwnStep, Shape
<1>6. PlanEntered(w)'
  BY <1>1, <1>3, <1>4, <1>5, EnteredGrows DEF CycleInv, PlanEntered
<1>7. PlanOpen(w)'
  <2>1. alone[w] => local[w].positions \subseteq Open'
    BY <1>2, AloneClosesOpen
  <2>2. QED
    BY <1>1, <1>2, <1>3, <1>5, <2>1 DEF CycleInv, PlanOpen, OwnStep
<1>8. DuePlanned(w)'
  BY <1>1, <1>2, <1>5 DEF CycleInv, DuePlanned
<1>9. alone[w] => \A m \in Closed : trades'[m] = trades[m]
  BY <1>2, AloneClosesOpen
<1>10. due[w] \subseteq Closed'
  BY <1>1, <1>2, ClosesRows DEF CycleInv, DuePlanned
<1>11. QED
  BY <1>5, <1>6, <1>7, <1>8, <1>9, <1>10 DEF CycleInv, OwnLedger

LEMMA ExitsOwn ==
  ASSUME PaperInv, NEW w \in Workers, Exit(w)
  PROVE  OwnStep(w) /\ CycleInv(w)' /\ OwnLedger(w)
<1>1. Shape /\ CycleInv(w)
  BY DEF PaperInv
<1>2. pc[w] = "exit" /\ ApplyCloses(local[w].plan) /\ alerts' = alerts
  BY DEF Exit, outside
<1>3. \A m \in Markets : RowKept(m)
  BY <1>2, ClosesRows
<1>4. OwnLedger(w)
  BY <1>2, AloneClosesOpen DEF OwnLedger
<1>5. CASE Finish(w)
  BY <1>1, <1>2, <1>3, <1>4, <1>5, FinishesOwn
<1>6. CASE Goto(w, "ledger") /\ local' = [local EXCEPT ![w].plan = {}]
  <2> DEFINE l == [local[w] EXCEPT !.plan = {}]
  <2>1. Held(l) /\ l.plan = {} /\ l.positions = local[w].positions
    BY <1>1, HoldsNoPlan DEF CycleInv, PlanEntered
  <2>2. /\ local' = [local EXCEPT ![w] = l] /\ pc' = [pc EXCEPT ![w] = "ledger"]
        /\ alone' = alone /\ due' = due
    BY <1>6 DEF Goto
  <2> HIDE DEF l
  <2>3. OwnStep(w) /\ pc'[w] = "ledger" /\ local'[w] = l
    BY <1>1, <1>2, <1>3, <2>2 DEF OwnStep, Shape
  <2>4. PlanEntered(w)'
    BY <1>1, <1>3, <2>1, <2>3, EnteredGrows DEF CycleInv, PlanEntered
  <2>5. PlanOpen(w)'
    <3>1. alone[w] => local[w].positions \subseteq Open'
      BY <1>2, AloneClosesOpen
    <3>2. QED
      BY <1>1, <1>2, <2>1, <2>2, <2>3, <3>1 DEF CycleInv, PlanOpen, OwnStep
  <2>6. DuePlanned(w)'
    BY <1>1, <1>2, <2>2, <2>3 DEF CycleInv, DuePlanned
  <2>7. QED
    BY <1>4, <2>3, <2>4, <2>5, <2>6 DEF CycleInv
<1>7. QED
  BY <1>5, <1>6 DEF Exit

LEMMA Opens ==
  ASSUME PaperInv, NEW w \in Workers, OpenPositions(w)
  PROVE  OwnStep(w) /\ CycleInv(w)' /\ OwnLedger(w)
<1>1. Shape
  BY DEF PaperInv
<1>2. PICK bought : trades' = Inserted(bought)
  BY DEF OpenPositions
<1>3. pc[w] = "open" /\ Finish(w) /\ alerts' = alerts
  BY DEF OpenPositions, outside
<1>4. \A m \in Markets : /\ trades[m] # NoTrade => trades'[m] = trades[m]
                         /\ trades'[m] = NoTrade \/ Row(trades'[m])
  BY <1>1, <1>2, InsertsAdd
<1>5. \A m \in Markets : RowKept(m)
  BY <1>4 DEF RowKept
<1>6. \A m \in Closed : trades'[m] = trades[m]
  BY <1>4, NoTradeFacts DEF Closed
<1>7. QED
  BY <1>1, <1>3, <1>5, <1>6, FinishesOwn DEF OwnLedger

LEMMA Crashes ==
  ASSUME PaperInv, NEW w \in Workers, Crash(w)
  PROVE  OwnStep(w) /\ CycleInv(w)' /\ OwnLedger(w)
<1>1. Shape
  BY DEF PaperInv
<1>2. Finish(w) /\ alerts' = alerts /\ trades' = trades
  BY DEF Crash, outside
<1>3. QED
  BY <1>1, <1>2, SameRows, FinishesOwn DEF OwnLedger

LEMMA CycleSteps ==
  ASSUME PaperInv, NEW w \in Workers, CycleStep(w) \/ Crash(w)
  PROVE  OwnStep(w) /\ OwnLedger(w) /\ pc[w] # "idle" /\ PaperInv'
<1>1. pc[w] # "idle"
  BY DEF CycleStep, Crash, ReadOutcomes, Settle, ReadAlerts, Exit, ReadLedger,
         OpenPositions, Read
<1>2. OwnStep(w) /\ CycleInv(w)' /\ OwnLedger(w)
  BY ReadsOutcomes, Settles, ReadsAlerts, ExitsOwn, ReadsLedger, Opens, Crashes
     DEF CycleStep
<1>3. QED
  BY <1>1, <1>2, OthersKept

---------------------------------------------------------------------------
(* The other steps                                                         *)

\* A cycle that begins is no longer alone if another is under way, nor is that
\* one; it looks at every open position.
LEMMA Starts ==
  ASSUME PaperInv, NEW w \in Workers, Start(w)
  PROVE  PaperInv' /\ trades' = trades /\ pc[w] = "idle" /\ pc' = [pc EXCEPT ![w] = "outcomes"]
<1> DEFINE others == {v \in Workers \ {w} : pc[v] # "idle"}
           l == [local[w] EXCEPT !.skip = bot # "paper", !.positions = Open]
<1>1. /\ pc[w] = "idle" /\ pc' = [pc EXCEPT ![w] = "outcomes"]
      /\ alone' = [v \in Workers |-> IF v = w THEN others = {}
                                    ELSE alone[v] /\ v \notin others]
      /\ due' = [due EXCEPT ![w] = {m \in Open : alerts[m].result # "none"}]
      /\ trades' = trades /\ alerts' = alerts
  BY DEF Start, outside
<1>2. Shape /\ \A v \in Workers : CycleInv(v)
  BY DEF PaperInv
<1>3. local' = [local EXCEPT ![w] = l]
  BY <1>2 DEF Start, Positions, CycleInv, PlanEntered, Held, Shape
<1>4. Held(l) /\ l.plan = {} /\ l.positions = Open
  <2>1. Held(local[w]) /\ local[w].plan = {}
    BY <1>1, <1>2 DEF CycleInv, PlanEntered
  <2>2. QED
    BY <2>1 DEF Held, Fields
<1> HIDE DEF l
<1>5. Entered' = Entered /\ Open' = Open /\ Open \subseteq Entered /\ Open \subseteq Markets
  BY <1>1, <1>2, OpenEntered DEF Entered, Open
<1>6. Shape'
  BY <1>1, <1>2, <1>3 DEF Shape
<1>7. CycleInv(w)'
  <2>1. pc'[w] = "outcomes" /\ local'[w] = l /\ (alone'[w] <=> others = {})
        /\ due'[w] = {m \in Open : alerts[m].result # "none"}
    BY <1>1, <1>2, <1>3 DEF Shape
  <2>2. PlanEntered(w)'
    BY <1>4, <1>5, <2>1 DEF PlanEntered
  <2>3. PlanOpen(w)'
    BY <1>1, <1>2, <1>4, <1>5, <2>1 DEF PlanOpen, Shape
  <2>4. DuePlanned(w)'
    BY <1>1, <1>4, <1>5, <2>1 DEF DuePlanned
  <2>5. QED
    BY <2>2, <2>3, <2>4 DEF CycleInv
<1>8. ASSUME NEW v \in Workers \ {w} PROVE CycleInv(v)'
  <2>1. CycleInv(v)
    BY <1>2
  <2>2. /\ pc'[v] = pc[v] /\ local'[v] = local[v] /\ due'[v] = due[v]
        /\ (alone'[v] <=> alone[v] /\ v \notin others)
    BY <1>1, <1>2, <1>3 DEF Shape
  <2>3. PlanEntered(v)'
    BY <1>5, <2>1, <2>2 DEF CycleInv, PlanEntered
  <2>4. PlanOpen(v)'
    BY <2>2 DEF PlanOpen
  <2>5. DuePlanned(v)'
    BY <1>1, <2>1, <2>2 DEF CycleInv, DuePlanned
  <2>6. QED
    BY <2>3, <2>4, <2>5 DEF CycleInv
<1>9. QED
  BY <1>1, <1>6, <1>7, <1>8 DEF PaperInv

\* What happens outside the cycles changes no row and takes no result back.
LEMMA OutsideKept ==
  ASSUME PaperInv, UNCHANGED <<trades, pc, local, alone, due>>,
         alerts' \in [Markets -> Alert],
         \A m \in Markets : alerts[m].result # "none" => alerts'[m].result # "none"
  PROVE  PaperInv'
<1>1. Shape'
  BY DEF PaperInv, Shape
<1>2. ASSUME NEW w \in Workers PROVE CycleInv(w)'
  <2>1. CycleInv(w)
    BY DEF PaperInv
  <2>2. PlanEntered(w)' /\ PlanOpen(w)'
    BY <2>1 DEF CycleInv, PlanEntered, PlanOpen, Entered, Open
  <2>3. DuePlanned(w)'
    BY <2>1 DEF CycleInv, DuePlanned
  <2>4. QED
    BY <2>2, <2>3 DEF CycleInv
<1>3. QED
  BY <1>1, <1>2 DEF PaperInv

OutsideStep ==
  \/ \E m \in Markets : NewAlert(m) \/ Result(m)
  \/ \E d \in Dates : Later(d)
  \/ Switch
  \/ UNCHANGED vars

LEMMA OutsideSteps ==
  ASSUME PaperInv, OutsideStep
  PROVE  PaperInv' /\ trades' = trades /\ pc' = pc
<1>1. alerts \in [Markets -> Alert]
  BY DEF PaperInv, Shape
<1>2. UNCHANGED <<trades, pc, local, alone, due>>
  BY DEF OutsideStep, NewAlert, Result, Later, Switch, vars, outside
<1>3. CASE \E m \in Markets : NewAlert(m) \/ Result(m)
  <2>1. PICK m \in Markets : NewAlert(m) \/ Result(m)
    BY <1>3
  <2>2. CASE NewAlert(m)
    <3>1. PICK p \in Prices : alerts' = [alerts EXCEPT ![m].price = p]
      BY <2>2 DEF NewAlert
    <3>2. QED
      BY <1>1, <1>2, <3>1, OutsideKept DEF Alert
  <2>3. CASE Result(m)
    <3>1. PICK r \in {"YES", "NO"} : alerts' = [alerts EXCEPT ![m].result = r]
      BY <2>3 DEF Result
    <3>2. QED
      BY <1>1, <1>2, <3>1, OutsideKept DEF Alert
  <2>4. QED
    BY <2>1, <2>2, <2>3
<1>4. CASE alerts' = alerts
  BY <1>1, <1>2, <1>4, OutsideKept
<1>5. QED
  BY <1>2, <1>3, <1>4 DEF OutsideStep, Later, Switch, vars, outside

---------------------------------------------------------------------------
(* What every step does                                                    *)

Kept ==
  \A m \in Markets : trades[m] # NoTrade =>
    /\ trades'[m] # NoTrade
    /\ trades[m].status = "closed" => trades'[m].status = "closed"
    /\ /\ trades'[m].side = trades[m].side
       /\ trades'[m].contracts = trades[m].contracts
       /\ trades'[m].cost = trades[m].cost

LEMMA EveryStep ==
  ASSUME PaperInv, [Next]_vars
  PROVE  /\ PaperInv' /\ Kept
         /\ \A w \in Workers : Stepped(w) => OwnLedger(w)
<1>1. CASE OutsideStep
  <2>1. PaperInv' /\ trades' = trades /\ pc' = pc
    BY <1>1, OutsideSteps
  <2>2. QED
    BY <2>1 DEF Kept, Stepped
<1>2. ASSUME NEW w \in Workers, Start(w)
      PROVE  /\ PaperInv' /\ Kept
             /\ \A v \in Workers : Stepped(v) => OwnLedger(v)
  <2>1. /\ PaperInv' /\ trades' = trades /\ pc[w] = "idle"
        /\ pc' = [pc EXCEPT ![w] = "outcomes"]
    BY <1>2, Starts
  <2>2. \A v \in Workers : Stepped(v) => v = w
    BY <2>1 DEF Stepped, PaperInv, Shape
  <2>3. QED
    BY <2>1, <2>2 DEF Kept, OwnLedger
<1>3. ASSUME NEW w \in Workers, CycleStep(w) \/ Crash(w)
      PROVE  /\ PaperInv' /\ Kept
             /\ \A v \in Workers : Stepped(v) => OwnLedger(v)
  <2>1. OwnStep(w) /\ OwnLedger(w) /\ PaperInv'
    BY <1>3, CycleSteps
  <2>2. \A v \in Workers : Stepped(v) => v = w
    BY <2>1 DEF Stepped, OwnStep
  <2>3. Kept
    BY <2>1 DEF OwnStep, RowKept, Kept
  <2>4. QED
    BY <2>1, <2>2, <2>3
<1>4. QED
  BY <1>1, <1>2, <1>3 DEF Next, OutsideStep

LEMMA AlwaysInv == Spec => []PaperInv
<1>1. PaperInv /\ [Next]_vars => PaperInv'
  BY EveryStep
<1>2. QED
  BY PaperStart, <1>1, PTL DEF Spec

\* "No position ever re-opens once closed": however many cycles overlap or die,
\* a market is traded once, on the terms it was entered at, and closed for good
\* (_apply_closes and the unique market_ticker of paper_trades).
THEOREM NeverReentered == Spec => NoReentry
<1>1. PaperInv /\ [Next]_vars => [Kept]_vars
  BY EveryStep
<1>2. QED
  BY AlwaysInv, <1>1, PTL DEF Spec, NoReentry, Kept

\* A cycle of run_paper_trading that no other overlaps changes no closed trade,
\* though the updates of _apply_closes do not look at a row's status.
THEOREM RecordsStay == Spec => RecordKept
<1> DEFINE Kept1 == \A w \in Workers : Stepped(w) /\ alone[w] =>
                      \A m \in Closed : trades'[m] = trades[m]
<1>1. PaperInv /\ [Next]_vars => [Kept1]_vars
  BY EveryStep DEF OwnLedger
<1>2. QED
  BY AlwaysInv, <1>1, PTL DEF Spec, RecordKept

\* A cycle of run_paper_trading that gets past its settlements has closed every
\* trade whose market had a result when it began, the bot stopped or not.
THEOREM SettlesWhatIsDue == Spec => CyclesSettle
<1> DEFINE Settled1 == \A w \in Workers :
                         Stepped(w) /\ pc[w] = "settle" /\ pc'[w] = "alerts" =>
                           due[w] \subseteq Closed'
<1>1. PaperInv /\ [Next]_vars => [Settled1]_vars
  BY EveryStep DEF OwnLedger
<1>2. QED
  BY AlwaysInv, <1>1, PTL DEF Spec, CyclesSettle

---------------------------------------------------------------------------
(* What a position costs                                                   *)

LEMMA FeeBounds ==
  ASSUME NEW price \in 1..99, NEW n \in Nat
  PROVE  /\ TakerFee(price, n) \in Nat
         /\ n >= 1 => TakerFee(price, n) <= n * price * Cent
<1>1. price * n \in Nat /\ (n >= 1 => price * n >= 1)
  OBVIOUS
<1>2. PICK k \in Nat : k = price * n /\ (n >= 1 => k >= 1)
  BY <1>1
<1>3. 7 * price * (100 - price) * n = 7 * k * (100 - price)
  BY <1>2
<1>4. k * (100 - price) \in Nat /\ k * (100 - price) <= k * 99
  <2>1. 100 - price \in 1..99
    OBVIOUS
  <2>2. QED
    BY <1>2, <2>1
<1>5. PICK j \in Nat : j = k * (100 - price) /\ j <= 99 * k
  BY <1>4
<1>6. TakerFee(price, n) = (7 * j + 50) \div 100
  BY <1>3, <1>5 DEF TakerFee
<1>7. n * price * Cent = 100 * k
  BY <1>2 DEF Cent
<1>8. QED
  BY <1>2, <1>5, <1>6, <1>7

LEMMA CostBounds ==
  ASSUME NEW price \in 1..99, NEW n \in Nat
  PROVE  Cost(price, n) \in Nat /\ (n >= 1 => Cost(price, n) >= 1)
<1>1. n * price \in Nat /\ (n >= 1 => n * price >= 1)
  OBVIOUS
<1>2. n * price * Cent = 100 * (n * price)
  BY DEF Cent
<1>3. PICK k \in Nat : n * price * Cent = k /\ (n >= 1 => k >= 1)
  BY <1>1, <1>2
<1>4. PICK fee \in Nat : TakerFee(price, n) = fee
  BY FeeBounds
<1>5. Cost(price, n) = k + fee
  BY <1>3, <1>4 DEF Cost
<1>6. QED
  BY <1>3, <1>5

\* What may be bought costs no more than what is left.
LEMMA AffordableFits ==
  ASSUME NEW price \in 1..99, NEW budget \in Int, NEW left \in Int,
         NEW n, n = Affordable(price, budget, left), ~(n < 1)
  PROVE  /\ n \in Nat \ {0} /\ Cost(price, n) <= left
<1> DEFINE most == budget \div (price * Cent)
<1>1. most \in Int
  <2>1. price * Cent \in Nat \ {0}
    BY DEF Cent
  <2>2. QED
    BY <2>1
<1>2. n = IF Cost(price, most) <= left THEN most
          ELSE IF Cost(price, most - 1) <= left THEN most - 1 ELSE 0
  BY DEF Affordable
<1> HIDE DEF most
<1>3. QED
  BY <1>1, <1>2

\* A position sold at any price brings in no less than nothing.
LEMMA ExitPays ==
  ASSUME NEW m, trades[m].contracts \in Nat \ {0}, NEW price \in 1..99
  PROVE  ExitPayout(m, price) \in Nat
<1> DEFINE side == SidePrice(price, trades[m].side)
<1>1. side \in 1..99
  BY DEF SidePrice
<1>2. ExitPayout(m, price)
        = trades[m].contracts * side * Cent - TakerFee(side, trades[m].contracts)
  BY DEF ExitPayout
<1> HIDE DEF side
<1> DEFINE n == trades[m].contracts
<1>3. n \in Nat /\ n >= 1
  OBVIOUS
<1> HIDE DEF n
<1>4. TakerFee(side, n) \in Nat /\ TakerFee(side, n) <= n * side * Cent
  BY <1>1, <1>3, FeeBounds
<1>5. n * side * Cent \in Int
  BY <1>1, <1>3 DEF Cent
<1>6. n * side * Cent - TakerFee(side, n) \in Nat
  BY <1>4, <1>5
<1>7. QED
  BY <1>2, <1>6 DEF n

---------------------------------------------------------------------------
(* Sizes                                                                   *)

LEMMA ShareType ==
  ASSUME NEW fraction \in Int, NEW money \in Int PROVE Share(fraction, money) \in Int
  BY DEF Share, Cent

LEMMA KellyType ==
  ASSUME NEW b, b.probability \in Int, b.price \in Int
  PROVE  ScaledKelly(b, KellyPercent) \in Int
<1> DEFINE edge == IF b.side = "YES" THEN b.probability - b.price
                   ELSE b.price - b.probability
           left == 100 - SidePrice(b.price, b.side)
<1>1. edge \in Int /\ left \in Int /\ KellyPercent \in Int
  BY PaperAssumption DEF SidePrice
<1>2. SingleBracketKelly(b.probability, b.price, b.side)
        = IF b.side = "FLAT" \/ left <= 0 \/ edge <= 0 THEN 0
          ELSE (edge * Whole) \div left
  BY DEF SingleBracketKelly
<1> HIDE DEF edge, left
<1>3. SingleBracketKelly(b.probability, b.price, b.side) \in Int
  <2>1. edge * Whole \in Int
    BY <1>1 DEF Whole
  <2>2. QED
    BY <1>1, <1>2, <2>1
<1>4. QED
  BY <1>1, <1>3 DEF ScaledKelly

LEMMA SizeType ==
  ASSUME NEW S, IsFiniteSet(S), NEW brackets, DOMAIN brackets = S,
         \A m \in S : brackets[m].probability \in Int /\ brackets[m].price \in Int,
         NEW m \in S
  PROVE  SizeEvent(brackets, KellyPercent, EventCap)[m] \in Int
<1> DEFINE scaled == [x \in DOMAIN brackets |-> ScaledKelly(brackets[x], KellyPercent)]
           total == MapThenSumSet(LAMBDA x : scaled[x], DOMAIN brackets)
<1>1. Summable(scaled, S)
  BY KellyType DEF Summable
<1>2. total \in Int
  <2>1. total = Sum(scaled, S)
    BY DEF Sum
  <2> HIDE DEF total, scaled
  <2>2. QED
    BY <1>1, <2>1, SumType
<1>3. EventCap \in Nat
  BY PaperAssumption
<1>4. SizeEvent(brackets, KellyPercent, EventCap)
        = [x \in S |-> IF total <= EventCap THEN scaled[x]
                       ELSE (scaled[x] * EventCap) \div total]
  BY DEF SizeEvent
<1> HIDE DEF scaled, total
<1>5. scaled[m] \in Int
  BY <1>1 DEF Summable
<1>6. QED
  <2>1. scaled[m] * EventCap \in Int
    BY <1>3, <1>5
  <2>2. QED
    BY <1>2, <1>3, <1>4, <1>5, <2>1

---------------------------------------------------------------------------
(* What a cycle plans to buy                                               *)

Purchase == [market : Markets, side : {"YES", "NO"}, contracts : Nat \ {0},
             cost : Nat \ {0}]
DateAt(m)         == DateOf[EventOf[m]]
CostOf            == [b \in Purchase |-> b.cost]
OnDate(bought, d) == {b \in bought : DateAt(b.market) = d}

\* What is bought leaves the cash that is left, no date above its cap.
Plans(deployable, cap, exposure) ==
  {acc \in [cash : Nat, exposure : [Dates -> Int], bought : SUBSET Purchase] :
     /\ IsFiniteSet(acc.bought)
     /\ acc.cash + Sum(CostOf, acc.bought) <= deployable
     /\ \A d \in Dates : exposure[d] + Sum(CostOf, OnDate(acc.bought, d)) <= acc.exposure[d]
     /\ \A b \in acc.bought : acc.exposure[DateAt(b.market)] <= cap}

LEMMA DatesExist ==
  ASSUME NEW m \in Markets PROVE DateAt(m) \in Dates
  BY PaperAssumption DEF DateAt, Dates, Range

LEMMA PurchasesSum ==
  ASSUME NEW bought \in SUBSET Purchase, IsFiniteSet(bought), NEW some \in SUBSET bought
  PROVE  /\ Summable(CostOf, some) /\ Sum(CostOf, some) \in Nat
<1>1. Summable(CostOf, some) /\ \A b \in some : CostOf[b] >= 0
  BY FS_Subset DEF Summable, CostOf, Purchase
<1>2. Sum(CostOf, {}) = 0 /\ Sum(CostOf, {}) <= Sum(CostOf, some)
  <2>1. {} \in SUBSET some
    OBVIOUS
  <2>2. QED
    BY <1>1, <2>1, SumGrows, SumType
<1>3. QED
  BY <1>1, <1>2, SumType

\* One purchase more costs at most as much more.
LEMMA PurchaseAdds ==
  ASSUME NEW bought \in SUBSET Purchase, IsFiniteSet(bought), NEW b \in Purchase
  PROVE  Sum(CostOf, bought \cup {b}) <= Sum(CostOf, bought) + b.cost
<1>1. bought \cup {b} \in SUBSET Purchase /\ IsFiniteSet(bought \cup {b})
  BY FS_AddElement
<1>2. Sum(CostOf, bought \cup {b}) = CostOf[b] + Sum(CostOf, (bought \cup {b}) \ {b})
  BY <1>1, PurchasesSum, SumRemove
<1>3. Sum(CostOf, bought \ {b}) <= Sum(CostOf, bought)
  <2>1. \A x \in bought \ (bought \ {b}) : CostOf[x] >= 0
    BY DEF CostOf, Purchase
  <2>2. Summable(CostOf, bought) /\ bought \ {b} \in SUBSET bought
    BY PurchasesSum
  <2>3. QED
    BY <2>1, <2>2, SumGrows
<1>4. (bought \cup {b}) \ {b} = bought \ {b} /\ CostOf[b] = b.cost /\ b.cost \in Int
  BY DEF CostOf, Purchase
<1>5. Sum(CostOf, bought \ {b}) \in Nat /\ Sum(CostOf, bought) \in Nat
  BY PurchasesSum
<1>6. Sum(CostOf, bought \cup {b}) = b.cost + Sum(CostOf, bought \ {b})
  BY <1>2, <1>4
<1>7. QED
  BY <1>3, <1>4, <1>5, <1>6

\* A purchase within what is left keeps the plan within its means.
LEMMA BuyingPlans ==
  ASSUME NEW deployable \in Int, NEW cap \in Int, NEW exposure \in [Dates -> Int],
         NEW acc \in Plans(deployable, cap, exposure), NEW b \in Purchase,
         NEW d, d = DateAt(b.market),
         b.cost <= acc.cash, b.cost <= cap - acc.exposure[d]
  PROVE  [cash |-> acc.cash - b.cost,
          exposure |-> [acc.exposure EXCEPT ![d] = @ + b.cost],
          bought |-> acc.bought \cup {b}] \in Plans(deployable, cap, exposure)
<1> DEFINE cash == acc.cash - b.cost
           more == [acc.exposure EXCEPT ![d] = @ + b.cost]
           bought == acc.bought \cup {b}
<1>1. /\ acc.cash \in Nat /\ acc.exposure \in [Dates -> Int]
      /\ acc.bought \in SUBSET Purchase /\ IsFiniteSet(acc.bought)
      /\ acc.cash + Sum(CostOf, acc.bought) <= deployable
      /\ \A x \in Dates : exposure[x] + Sum(CostOf, OnDate(acc.bought, x)) <= acc.exposure[x]
      /\ \A x \in acc.bought : acc.exposure[DateAt(x.market)] <= cap
  BY DEF Plans
<1>2. b.cost \in Nat \ {0} /\ b.market \in Markets /\ d \in Dates
  BY DatesExist DEF Purchase
<1>3. /\ cash \in Nat /\ more \in [Dates -> Int] /\ bought \in SUBSET Purchase
      /\ IsFiniteSet(bought)
      /\ \A x \in Dates : more[x] = IF x = d THEN acc.exposure[x] + b.cost
                                    ELSE acc.exposure[x]
  BY <1>1, <1>2, FS_AddElement
<1>4. cash + Sum(CostOf, bought) <= deployable
  <2>1. Sum(CostOf, bought) <= Sum(CostOf, acc.bought) + b.cost
    BY <1>1, PurchaseAdds
  <2>2. Sum(CostOf, bought) \in Nat /\ Sum(CostOf, acc.bought) \in Nat
    BY <1>1, <1>3, PurchasesSum
  <2> HIDE DEF bought
  <2>3. QED
    BY <1>1, <1>2, <2>1, <2>2
<1>5. ASSUME NEW x \in Dates
      PROVE  exposure[x] + Sum(CostOf, OnDate(bought, x)) <= more[x]
  <2>1. OnDate(acc.bought, x) \in SUBSET acc.bought /\ IsFiniteSet(OnDate(acc.bought, x))
    BY <1>1, FS_Subset DEF OnDate
  <2>2. Sum(CostOf, OnDate(acc.bought, x)) \in Nat
    BY <1>1, <2>1, PurchasesSum
  <2>3. exposure[x] + Sum(CostOf, OnDate(acc.bought, x)) <= acc.exposure[x]
        /\ exposure[x] \in Int /\ acc.exposure[x] \in Int
    BY <1>1
  <2>4. CASE x = d
    <3>1. OnDate(bought, x) = OnDate(acc.bought, x) \cup {b}
      BY <2>4 DEF OnDate
    <3>2. Sum(CostOf, OnDate(bought, x)) <= Sum(CostOf, OnDate(acc.bought, x)) + b.cost
      BY <1>1, <2>1, <3>1, PurchaseAdds
    <3>3. Sum(CostOf, OnDate(bought, x)) \in Nat
      <4>1. OnDate(bought, x) \in SUBSET bought
        BY DEF OnDate
      <4> HIDE DEF bought
      <4>2. QED
        BY <1>3, <4>1, PurchasesSum
    <3>4. more[x] = acc.exposure[x] + b.cost
      BY <1>3, <2>4
    <3> HIDE DEF bought, more
    <3>5. QED
      BY <1>2, <2>2, <2>3, <3>2, <3>3, <3>4
  <2>5. CASE x # d
    <3>1. OnDate(bought, x) = OnDate(acc.bought, x)
      BY <2>5 DEF OnDate
    <3>2. more[x] = acc.exposure[x]
      BY <1>3, <2>5
    <3>3. QED
      BY <2>3, <3>1, <3>2
  <2>6. QED
    BY <2>4, <2>5
<1>6. \A x \in bought : more[DateAt(x.market)] <= cap
  <2> TAKE x \in bought
  <2>1. DateAt(x.market) \in Dates
    BY <1>3, DatesExist DEF Purchase
  <2>2. CASE DateAt(x.market) = d
    <3>1. more[d] = acc.exposure[d] + b.cost /\ acc.exposure[d] \in Int
      BY <1>1, <1>2, <1>3
    <3> HIDE DEF more
    <3>2. QED
      BY <1>2, <2>2, <3>1
  <2>3. CASE DateAt(x.market) # d
    <3>1. x \in acc.bought
      BY <2>3
    <3>2. more[DateAt(x.market)] = acc.exposure[DateAt(x.market)]
      BY <1>3, <2>1, <2>3
    <3>3. QED
      BY <1>1, <3>1, <3>2
  <2>4. QED
    BY <2>2, <2>3
<1> HIDE DEF cash, more, bought
<1>7. [cash |-> cash, exposure |-> more, bought |-> bought] \in Plans(deployable, cap, exposure)
  BY <1>3, <1>4, <1>5, <1>6 DEF Plans
<1>8. QED
  BY <1>7 DEF cash, more, bought

\* An edge worth a position is on one side, which has a price.
LEMMA SideBought ==
  ASSUME NEW p \in 0..100, NEW q \in 1..99, Abs(Edge(p, q)) >= MinEdge
  PROVE  LET side == EdgeSide(Edge(p, q)) IN
         side \in {"YES", "NO"} /\ SidePrice(q, side) \in 1..99
<1>1. p - q # 0
  BY DEF Edge, Abs, MinEdge
<1>2. EdgeSide(p - q) \in {"YES", "NO"}
  BY <1>1 DEF EdgeSide
<1>3. \A side : SidePrice(q, side) \in 1..99
  BY DEF SidePrice
<1> QED BY <1>2, <1>3 DEF Edge

\* Considering a candidate adds at most one such purchase.
LEMMA ConsiderPlans ==
  ASSUME NEW deployable \in Int, NEW cap \in Int, NEW exposure \in [Dates -> Int],
         NEW acc \in Plans(deployable, cap, exposure), NEW m \in Markets,
         NEW quote, quote.price \in 1..99,
         Abs(Edge(Probability[m], quote.price)) >= MinEdge, NEW fraction \in Int
  PROVE  Consider(acc, m, quote, fraction, deployable, cap) \in Plans(deployable, cap, exposure)
<1> DEFINE side  == EdgeSide(Edge(Probability[m], quote.price))
           price == SidePrice(quote.price, side)
           date  == DateAt(m)
           left  == Min({acc.cash, cap - acc.exposure[date]})
           budget == Min({RecommendedMoney(fraction, deployable), left})
           n     == Affordable(price, budget, left)
           cost  == Cost(price, n)
           b     == [market |-> m, side |-> side, contracts |-> n, cost |-> cost]
<1>1. Consider(acc, m, quote, fraction, deployable, cap)
        = IF left <= 0 \/ fraction <= 0 \/ price \notin MinEntryPrice..MaxEntryPrice \/ n < 1
          THEN acc
          ELSE [cash |-> acc.cash - cost,
                exposure |-> [acc.exposure EXCEPT ![date] = @ + cost],
                bought |-> acc.bought \cup {b}]
  BY DEF Consider, DateAt
<1>2. Probability[m] \in 0..100
  BY PaperAssumption
<1>3. side \in {"YES", "NO"} /\ price \in 1..99
  BY <1>2, SideBought
<1>4. /\ acc.cash \in Int /\ cap - acc.exposure[date] \in Int /\ date \in Dates
  BY DatesExist DEF Plans
<1>5. left \in Int /\ left <= acc.cash /\ left <= cap - acc.exposure[date]
  <2>1. left = IF acc.cash <= cap - acc.exposure[date] THEN acc.cash
               ELSE cap - acc.exposure[date]
    BY <1>4, MinOfTwo
  <2> HIDE DEF left
  <2>2. QED
    BY <1>4, <2>1
<1>6. budget \in Int
  <2> HIDE DEF left
  <2>1. Share(fraction, deployable) \in Int /\ PositionLimit * Whole \in Int
    BY ShareType DEF PositionLimit, Whole
  <2>2. RecommendedMoney(fraction, deployable) \in Int
    BY <2>1, MinOfTwo DEF RecommendedMoney
  <2>3. QED
    BY <1>5, <2>2, MinOfTwo
<1> HIDE DEF side, price, left, budget, date
<1>7. ASSUME ~(n < 1) PROVE n \in Nat \ {0} /\ cost <= left /\ cost \in Nat \ {0}
  <2>1. n \in Nat \ {0} /\ cost <= left
    BY <1>3, <1>5, <1>6, <1>7, AffordableFits
  <2>2. cost \in Nat /\ cost >= 1
    <3>1. n \in Nat /\ n >= 1
      BY <2>1
    <3> HIDE DEF n
    <3>2. Cost(price, n) \in Nat /\ Cost(price, n) >= 1
      BY <1>3, <3>1, CostBounds
    <3>3. QED
      BY <3>2
  <2>3. QED
    BY <2>1, <2>2
<1> HIDE DEF n, cost
<1>8. ASSUME ~(n < 1)
      PROVE  [cash |-> acc.cash - cost,
              exposure |-> [acc.exposure EXCEPT ![date] = @ + cost],
              bought |-> acc.bought \cup {b}] \in Plans(deployable, cap, exposure)
  <2>1. b \in Purchase /\ b.cost = cost /\ date = DateAt(b.market)
    BY <1>3, <1>7, <1>8 DEF Purchase, date
  <2>2. cost <= acc.cash /\ cost <= cap - acc.exposure[date]
    BY <1>4, <1>5, <1>7, <1>8
  <2> HIDE DEF b
  <2>3. [cash |-> acc.cash - b.cost,
         exposure |-> [acc.exposure EXCEPT ![date] = @ + b.cost],
         bought |-> acc.bought \cup {b}] \in Plans(deployable, cap, exposure)
    BY <2>1, <2>2, BuyingPlans
  <2>4. QED
    BY <2>1, <2>3
<1>9. QED
  BY <1>1, <1>8

\* What a cycle has read of the alerts.
Quoted(quotes) ==
  /\ DOMAIN quotes \in SUBSET Markets
  /\ \A m \in DOMAIN quotes : quotes[m].price \in Prices

LEMMA CandidatesQuoted ==
  ASSUME NEW quotes, Quoted(quotes), NEW traded, NEW m \in Candidates(quotes, traded)
  PROVE  /\ m \in Markets /\ m \in DOMAIN quotes /\ m \notin traded
         /\ quotes[m].price \in 1..99 /\ Probability[m] \in 0..100
         /\ Abs(Edge(Probability[m], quotes[m].price)) >= MinEdge
  BY PaperAssumption DEF Quoted, Candidates

LEMMA FiniteNumbers ==
  ASSUME NEW S, IsFiniteSet(S), S # {}, NEW f, \A x \in S : f[x] \in Int
  PROVE  /\ {f[x] : x \in S} \in SUBSET Int /\ IsFiniteSet({f[x] : x \in S})
         /\ {f[x] : x \in S} # {}
<1> DEFINE T == {f[x] : x \in S}
<1>1. [x \in S |-> f[x]] \in Surjection(S, T)
  BY DEF Surjection
<1>2. IsFiniteSet(T)
  <2> HIDE DEF T
  <2> QED BY <1>1, FS_Surjection
<1>3. QED
  BY <1>2

\* Of some candidates one is the last.
LEMMA LastIsCandidate ==
  ASSUME NEW candidates \in SUBSET Markets, NEW quotes,
         \A m \in candidates : quotes[m].price \in Int,
         NEW some \in SUBSET candidates, some # {}
  PROVE  LastVisited(some, candidates, quotes) \in some
<1> DEFINE Of(e)       == {m \in candidates : EventOf[m] = e}
           edge        == [n \in Markets |-> Abs(Edge(Probability[n], quotes[n].price))]
           Strength(m) == Max({Abs(Edge(Probability[n], quotes[n].price)) :
                                 n \in Of(EventOf[m])})
           First(m)    == Min(Of(EventOf[m]))
           strength    == [m \in candidates |-> Strength(m)]
           first       == [m \in candidates |-> First(m)]
           weakest     == Min({Strength(m) : m \in some})
           weak        == {n \in some : Strength(n) = weakest}
           latest      == Max({First(m) : m \in weak})
           last        == {m \in some : Strength(m) = weakest /\ First(m) = latest}
<1>1. LastVisited(some, candidates, quotes) = Max(last)
  BY DEF LastVisited
<1>2. IsFiniteSet(Markets) /\ Markets \in SUBSET Int /\ IsFiniteSet(candidates)
  <2>1. IsFiniteSet(Markets) /\ Markets \in SUBSET Int
    BY PaperAssumption
  <2>2. QED
    BY <2>1, FS_Subset
<1>3. \A m \in candidates : /\ Of(EventOf[m]) \in SUBSET candidates
                            /\ m \in Of(EventOf[m])
                            /\ IsFiniteSet(Of(EventOf[m]))
  BY <1>2, FS_Subset
<1>4. ASSUME NEW m \in candidates PROVE Strength(m) \in Int /\ First(m) \in Int
  <2> DEFINE S == Of(EventOf[m])
  <2>1. IsFiniteSet(S) /\ S # {} /\ S \in SUBSET candidates
    BY <1>3
  <2>2. \A n \in S : edge[n] \in Int
    <3> SUFFICES ASSUME NEW n \in S PROVE edge[n] \in Int
      OBVIOUS
    <3>1. n \in Markets /\ Probability[n] \in Int /\ quotes[n].price \in Int
      BY <2>1, PaperAssumption
    <3>2. Abs(Edge(Probability[n], quotes[n].price)) \in Int
      BY <3>1 DEF Abs, Edge
    <3>3. QED
      BY <3>1, <3>2
  <2>3. First(m) \in Int
    <3>1. S \in SUBSET Int
      BY <1>2, <2>1
    <3> HIDE DEF S
    <3>2. Min(S) \in S
      BY <2>1, <3>1, MinIsLeast
    <3>3. QED
      BY <3>1, <3>2 DEF S
  <2>4. {Abs(Edge(Probability[n], quotes[n].price)) : n \in S} = {edge[n] : n \in S}
    BY <2>1
  <2>5. Max({edge[n] : n \in S}) \in Int
    <3> HIDE DEF S, edge
    <3>1. {edge[n] : n \in S} \in SUBSET Int /\ IsFiniteSet({edge[n] : n \in S})
          /\ {edge[n] : n \in S} # {}
      BY <2>1, <2>2, FiniteNumbers
    <3>2. Max({edge[n] : n \in S}) \in {edge[n] : n \in S}
      BY <3>1, MaxIsGreatest
    <3>3. QED
      BY <3>1, <3>2
  <2>6. QED
    BY <2>3, <2>4, <2>5
<1> HIDE DEF Of, Strength, First
<1>5. IsFiniteSet(some) /\ IsFiniteSet(weak)
  BY <1>2, FS_Subset
<1>6. weakest \in {Strength(m) : m \in some}
  <2>1. {Strength(m) : m \in some} = {strength[m] : m \in some}
    OBVIOUS
  <2>2. \A m \in some : strength[m] \in Int
    BY <1>4
  <2> HIDE DEF strength
  <2>3. {strength[m] : m \in some} \in SUBSET Int /\ IsFiniteSet({strength[m] : m \in some})
        /\ {strength[m] : m \in some} # {}
    BY <1>5, <2>2, FiniteNumbers
  <2>4. QED
    BY <2>1, <2>3, MinIsLeast
<1> HIDE DEF weakest
<1>7. weak # {}
  BY <1>6
<1>8. latest \in {First(m) : m \in weak}
  <2>1. {First(m) : m \in weak} = {first[m] : m \in weak}
    OBVIOUS
  <2>2. \A m \in weak : first[m] \in Int
    BY <1>4
  <2> HIDE DEF first, weak
  <2>3. {first[m] : m \in weak} \in SUBSET Int /\ IsFiniteSet({first[m] : m \in weak})
        /\ {first[m] : m \in weak} # {}
    BY <1>5, <1>7, <2>2, FiniteNumbers
  <2>4. QED
    BY <2>1, <2>3, MaxIsGreatest
<1> HIDE DEF latest
<1>9. last # {} /\ last \in SUBSET some
  BY <1>8
<1>10. IsFiniteSet(last) /\ last \in SUBSET Int
  BY <1>2, <1>5, <1>9, FS_Subset
<1> HIDE DEF last
<1>11. Max(last) \in last
  BY <1>9, <1>10, MaxIsGreatest
<1>12. QED
  BY <1>1, <1>9, <1>11

Funds(deployable, exposure) == [cash |-> deployable, exposure |-> exposure, bought |-> {}]

\* The stakes of an event's candidates.
SizesOf(candidates, quotes, e) ==
  SizeEvent([m \in {c \in candidates : EventOf[c] = e} |->
               [probability |-> Probability[m], price |-> quotes[m].price,
                side |-> EdgeSide(Edge(Probability[m], quotes[m].price)),
                actionable |-> TRUE]], KellyPercent, EventCap)

LEMMA SizesOfType ==
  ASSUME NEW quotes, Quoted(quotes), NEW traded,
         NEW candidates, candidates = Candidates(quotes, traded), NEW m \in candidates
  PROVE  SizesOf(candidates, quotes, EventOf[m])[m] \in Int
<1> DEFINE S == {c \in candidates : EventOf[c] = EventOf[m]}
           brackets == [x \in S |->
               [probability |-> Probability[x], price |-> quotes[x].price,
                side |-> EdgeSide(Edge(Probability[x], quotes[x].price)),
                actionable |-> TRUE]]
<1>1. \A x \in S : /\ x \in Markets
                   /\ brackets[x].probability \in Int /\ brackets[x].price \in Int
  BY CandidatesQuoted
<1>2. IsFiniteSet(S)
  BY <1>1, PaperAssumption, FS_Subset
<1>3. SizesOf(candidates, quotes, EventOf[m]) = SizeEvent(brackets, KellyPercent, EventCap)
  BY DEF SizesOf
<1>4. m \in S /\ DOMAIN brackets = S
  OBVIOUS
<1> HIDE DEF S, brackets
<1>5. SizeEvent(brackets, KellyPercent, EventCap)[m] \in Int
  BY <1>1, <1>2, <1>4, SizeType
<1>6. QED
  BY <1>3, <1>5

\* What the fold over the candidates computes for each part of them.
Buys(g, candidates, quotes, deployable, cap, exposure) ==
  g = [T \in SUBSET candidates |->
         IF T = {} THEN Funds(deployable, exposure)
         ELSE Consider(g[T \ {LastVisited(T, candidates, quotes)}],
                       LastVisited(T, candidates, quotes),
                       quotes[LastVisited(T, candidates, quotes)],
                       SizesOf(candidates, quotes,
                               EventOf[LastVisited(T, candidates, quotes)])
                         [LastVisited(T, candidates, quotes)],
                       deployable, cap)]

LEMMA BuysDef ==
  ASSUME NEW quotes, NEW traded, NEW deployable, NEW cap, NEW exposure
  PROVE  LET candidates == Candidates(quotes, traded) IN
         NewPositions(quotes, traded, deployable, cap, exposure)
           = (CHOOSE g : Buys(g, candidates, quotes, deployable, cap, exposure))
               [candidates].bought
  BY DEF NewPositions, MapThenFoldSet, Buys, Funds, SizesOf

LEMMA FundsPlan ==
  ASSUME NEW deployable \in Nat, NEW cap \in Int, NEW exposure \in [Dates -> Int]
  PROVE  Funds(deployable, exposure) \in Plans(deployable, cap, exposure)
<1>1. IsFiniteSet({}) /\ {} \in SUBSET Purchase
  BY FS_EmptySet
<1>2. Sum(CostOf, {}) = 0
  <2>1. Summable(CostOf, {})
    BY <1>1 DEF Summable
  <2>2. QED
    BY <2>1, SumType
<1>3. \A d \in Dates : OnDate({}, d) = {}
  BY DEF OnDate
<1>4. QED
  BY <1>1, <1>2, <1>3 DEF Funds, Plans

\* Whatever the plan for the other candidates, one more keeps it a plan.
LEMMA NextPlan ==
  ASSUME NEW quotes, Quoted(quotes), NEW traded,
         NEW candidates, candidates = Candidates(quotes, traded),
         NEW deployable \in Nat, NEW cap \in Int, NEW exposure \in [Dates -> Int],
         NEW m \in candidates, NEW acc \in Plans(deployable, cap, exposure)
  PROVE  Consider(acc, m, quotes[m], SizesOf(candidates, quotes, EventOf[m])[m],
                  deployable, cap) \in Plans(deployable, cap, exposure)
<1> DEFINE fraction == SizesOf(candidates, quotes, EventOf[m])[m]
           quote == quotes[m]
<1>1. fraction \in Int
  BY SizesOfType
<1>2. /\ m \in Markets /\ quote.price \in 1..99 /\ deployable \in Int
      /\ Abs(Edge(Probability[m], quote.price)) >= MinEdge
  BY CandidatesQuoted
<1> HIDE DEF fraction, quote
<1>3. Consider(acc, m, quote, fraction, deployable, cap)
        \in Plans(deployable, cap, exposure)
  BY <1>1, <1>2, ConsiderPlans
<1>4. QED
  BY <1>3 DEF fraction, quote

LEMMA BuysExists ==
  ASSUME NEW quotes, Quoted(quotes), NEW traded,
         NEW candidates, candidates = Candidates(quotes, traded),
         NEW deployable \in Nat, NEW cap \in Int, NEW exposure \in [Dates -> Int]
  PROVE  \E g : Buys(g, candidates, quotes, deployable, cap, exposure)
<1> DEFINE X == Plans(deployable, cap, exposure)
           Size(m) == SizesOf(candidates, quotes, EventOf[m])[m]
           New(m, acc) == Consider(acc, m, quotes[m], Size(m), deployable, cap)
           op == [p \in candidates \X X |-> New(p[1], p[2])]
           ch == [T \in SUBSET candidates |-> LastVisited(T, candidates, quotes)]
           start == Funds(deployable, exposure)
<1>1. \A m \in candidates, acc \in X : New(m, acc) \in X
  BY NextPlan
<1>2. start \in X
  BY FundsPlan
<1>3. Chooses(ch, candidates)
  <2>1. \A m \in candidates : m \in Markets /\ quotes[m].price \in Int
    BY CandidatesQuoted
  <2>2. ASSUME NEW T \in SUBSET candidates, T # {} PROVE ch[T] \in T
    BY <2>1, <2>2, LastIsCandidate
  <2>3. QED
    BY <2>2 DEF Chooses
<1>4. IsFiniteSet(candidates)
  <2>1. candidates \in SUBSET Markets /\ IsFiniteSet(Markets)
    BY CandidatesQuoted, PaperAssumption
  <2>2. QED
    BY <2>1, FS_Subset
<1> HIDE DEF X, Size, New, start
<1>5. /\ op \in [candidates \X X -> X]
      /\ \A m \in candidates, acc \in X : op[<<m, acc>>] = New(m, acc)
  <2>1. \A p \in candidates \X X : p[1] \in candidates /\ p[2] \in X /\ p = <<p[1], p[2]>>
    OBVIOUS
  <2>2. QED
    BY <1>1, <2>1
<1>6. PICK g : FoldsTo(g, op, start, ch, candidates)
  <2> HIDE DEF op, ch
  <2> QED BY <1>3, <1>4, FoldExists
<1>7. ASSUME NEW T \in SUBSET candidates PROVE g[T] \in X
  <2> HIDE DEF op, ch
  <2> QED BY <1>2, <1>3, <1>4, <1>5, <1>6, <1>7, FoldType
<1>8. ASSUME NEW T \in SUBSET candidates, T # {}
      PROVE  op[<<ch[T], g[T \ {ch[T]}]>>]
               = New(LastVisited(T, candidates, quotes),
                     g[T \ {LastVisited(T, candidates, quotes)}])
  <2>1. ch[T] = LastVisited(T, candidates, quotes) /\ ch[T] \in candidates
    BY <1>3, <1>8 DEF Chooses
  <2>2. g[T \ {ch[T]}] \in X
    BY <1>7
  <2> HIDE DEF op, ch
  <2>3. QED
    BY <1>5, <2>1, <2>2
<1>9. g = [T \in SUBSET candidates |->
             IF T = {} THEN start
             ELSE New(LastVisited(T, candidates, quotes),
                      g[T \ {LastVisited(T, candidates, quotes)}])]
  <2>1. g = [T \in SUBSET candidates |->
               IF T = {} THEN start ELSE op[<<ch[T], g[T \ {ch[T]}]>>]]
    BY <1>6 DEF FoldsTo
  <2> HIDE DEF op, ch
  <2>2. [T \in SUBSET candidates |->
           IF T = {} THEN start ELSE op[<<ch[T], g[T \ {ch[T]}]>>]]
          = [T \in SUBSET candidates |->
               IF T = {} THEN start
               ELSE New(LastVisited(T, candidates, quotes),
                        g[T \ {LastVisited(T, candidates, quotes)}])]
    BY <1>8
  <2>3. QED
    BY <2>1, <2>2
<1>10. QED
  BY <1>9 DEF Buys, New, Size, start

\* What a cycle plans to buy is paid with the cash it may use, and no date it
\* buys for holds more than its cap.
LEMMA PlannedWithin ==
  ASSUME NEW quotes, Quoted(quotes), NEW traded,
         NEW deployable \in Nat, NEW cap \in Int, NEW exposure \in [Dates -> Int]
  PROVE  \E acc \in Plans(deployable, cap, exposure) :
           NewPositions(quotes, traded, deployable, cap, exposure) = acc.bought
<1> DEFINE candidates == Candidates(quotes, traded)
           X == Plans(deployable, cap, exposure)
           G == CHOOSE g : Buys(g, candidates, quotes, deployable, cap, exposure)
           P == {T \in SUBSET candidates : G[T] \in X}
<1>1. Buys(G, candidates, quotes, deployable, cap, exposure)
  BY BuysExists
<1>2. NewPositions(quotes, traded, deployable, cap, exposure) = G[candidates].bought
  BY BuysDef
<1>3. IsFiniteSet(candidates) /\ candidates \in SUBSET Markets
  <2>1. candidates \in SUBSET Markets /\ IsFiniteSet(Markets)
    BY CandidatesQuoted, PaperAssumption
  <2>2. QED
    BY <2>1, FS_Subset
<1> HIDE DEF G
<1>4. {} \in P
  <2>1. G[{}] = Funds(deployable, exposure)
    BY <1>1 DEF Buys
  <2>2. QED
    BY <2>1, FundsPlan
<1>5. ASSUME NEW T \in SUBSET candidates, T # {}
      PROVE  \E x \in T : T \ {x} \in P => T \in P
  <2> DEFINE m == LastVisited(T, candidates, quotes)
  <2>1. m \in T
    <3>1. \A x \in candidates : x \in Markets /\ quotes[x].price \in Int
      BY CandidatesQuoted
    <3> HIDE DEF candidates
    <3>2. QED
      BY <1>3, <1>5, <3>1, LastIsCandidate
  <2>2. SUFFICES ASSUME T \ {m} \in P PROVE T \in P
    BY <2>1
  <2>3. G[T] = Consider(G[T \ {m}], m, quotes[m],
                        SizesOf(candidates, quotes, EventOf[m])[m], deployable, cap)
    BY <1>1, <1>5 DEF Buys
  <2> HIDE DEF m
  <2>4. G[T \ {m}] \in X /\ m \in candidates
    BY <2>1, <2>2
  <2>5. G[T] \in X
    BY <2>3, <2>4, NextPlan
  <2>6. QED
    BY <2>5
<1>6. candidates \in P
  <2>1. \A T \in SUBSET candidates : T \in P
    <3> HIDE DEF P, candidates
    <3> QED BY <1>3, <1>4, <1>5, SubsetInduction
  <2>2. QED
    BY <2>1
<1>7. QED
  BY <1>2, <1>6

---------------------------------------------------------------------------
(* The ledger agrees with the market and with what the cycles know of it   *)

Reasons == {"none", "edge_closed", "take_profit", "settled_win", "settled_loss"}

\* A close that the market, and what the trade cost, allow.
Rightly(m, reason, pnl) ==
  /\ reason \in Reasons /\ pnl \in Int /\ pnl + trades[m].cost >= 0
  /\ reason = "settled_win" =>
       /\ alerts[m].result = trades[m].side
       /\ pnl + trades[m].cost = trades[m].contracts * Whole
  /\ reason = "settled_loss" =>
       /\ alerts[m].result \notin {"none", trades[m].side}
       /\ pnl + trades[m].cost = 0

\* What a cycle plans to close is rightly closed; what it has read of the
\* ledger is the ledger as long as it is alone.
CycleMoney(w) ==
  /\ \A c \in local[w].plan : Rightly(c.market, c.reason, c.pnl)
  /\ Quoted(local[w].quotes)
  /\ local[w].traded \in SUBSET Markets
  /\ pc[w] = "open" =>
       /\ local[w].cash \in Int /\ local[w].bankroll \in Int
       /\ local[w].exposure \in [Dates -> Int]
       /\ alone[w] => /\ local[w].cash = Cash /\ local[w].bankroll = Bankroll
                      /\ local[w].exposure = Exposure

Typed ==
  /\ bot \in {"paper", "off"}
  /\ day \in [Dates -> {"ahead", "today", "near"}]
  /\ news \in 0..MaxNews
  /\ trades \in [Markets -> Trade]
  /\ pc \in [Workers -> {"idle", "outcomes", "settle", "alerts", "exit", "ledger", "open"}]
  /\ alone \in [Workers -> BOOLEAN]
  /\ crashes \in 0..MaxCrashes

ClosedRightly == \A m \in Closed : Rightly(m, trades[m].reason, trades[m].pnl)

MoneyInv == Typed /\ ClosedRightly /\ \A w \in Workers : CycleMoney(w)

---------------------------------------------------------------------------
(* The sums of the ledger                                                  *)

LEMMA CostsSum ==
  ASSUME NEW t, NEW S, NEW w, \A m \in S : w[m] = t[m].cost
  PROVE  MapThenSumSet(LAMBDA m : t[m].cost, S) = Sum(w, S)
<1> DEFINE E1(g, T) == IF T = {} THEN 0 ELSE t[Pick(T)].cost + g[T \ {Pick(T)}]
           E2(g, T) == IF T = {} THEN 0 ELSE w[Pick(T)] + g[T \ {Pick(T)}]
           F1(g) == g = [T \in SUBSET S |-> E1(g, T)]
           F2(g) == g = [T \in SUBSET S |-> E2(g, T)]
<1>1. ASSUME NEW g, NEW T \in SUBSET S PROVE E1(g, T) = E2(g, T)
  <2>1. T # {} => Pick(T) \in S
    BY DEF Pick
  <2>2. QED
    BY <2>1
<1>2. ASSUME NEW g PROVE F1(g) <=> F2(g)
  <2> HIDE DEF E1, E2
  <2>1. [T \in SUBSET S |-> E1(g, T)] = [T \in SUBSET S |-> E2(g, T)]
    BY <1>1
  <2>2. QED
    BY <2>1
<1>3. (CHOOSE g : F1(g)) = (CHOOSE g : F2(g))
  <2> HIDE DEF F1, F2
  <2>1. QED
    BY <1>2
<1>4. MapThenSumSet(LAMBDA m : t[m].cost, S) = (CHOOSE g : F1(g))[S]
  BY DEF MapThenSumSet, MapThenFoldSet, Pick
<1>5. Sum(w, S) = (CHOOSE g : F2(g))[S]
  BY SumDef DEF SumsTo
<1>6. QED
  BY <1>3, <1>4, <1>5

LEMMA ProfitsSum ==
  ASSUME NEW t, NEW S, NEW w, \A m \in S : w[m] = t[m].pnl
  PROVE  MapThenSumSet(LAMBDA m : t[m].pnl, S) = Sum(w, S)
<1> DEFINE E1(g, T) == IF T = {} THEN 0 ELSE t[Pick(T)].pnl + g[T \ {Pick(T)}]
           E2(g, T) == IF T = {} THEN 0 ELSE w[Pick(T)] + g[T \ {Pick(T)}]
           F1(g) == g = [T \in SUBSET S |-> E1(g, T)]
           F2(g) == g = [T \in SUBSET S |-> E2(g, T)]
<1>1. ASSUME NEW g, NEW T \in SUBSET S PROVE E1(g, T) = E2(g, T)
  <2>1. T # {} => Pick(T) \in S
    BY DEF Pick
  <2>2. QED
    BY <2>1
<1>2. ASSUME NEW g PROVE F1(g) <=> F2(g)
  <2> HIDE DEF E1, E2
  <2>1. [T \in SUBSET S |-> E1(g, T)] = [T \in SUBSET S |-> E2(g, T)]
    BY <1>1
  <2>2. QED
    BY <2>1
<1>3. (CHOOSE g : F1(g)) = (CHOOSE g : F2(g))
  <2> HIDE DEF F1, F2
  <2>1. QED
    BY <1>2
<1>4. MapThenSumSet(LAMBDA m : t[m].pnl, S) = (CHOOSE g : F1(g))[S]
  BY DEF MapThenSumSet, MapThenFoldSet, Pick
<1>5. Sum(w, S) = (CHOOSE g : F2(g))[S]
  BY SumDef DEF SumsTo
<1>6. QED
  BY <1>3, <1>4, <1>5

\* The ledger of some rows, by sums over functions.
OpenOf(t)      == {m \in Markets : t[m].status = "open"}
ClosedOf(t)    == {m \in Markets : t[m].status = "closed"}
OnDay(S, d)    == {m \in S : DateOf[EventOf[m]] = d}
CostIn(t)      == [m \in OpenOf(t) |-> t[m].cost]
ProfitIn(t)    == [m \in ClosedOf(t) |-> t[m].pnl]
RealizedOf(t)  == Sum(ProfitIn(t), ClosedOf(t))
CashOf(t)      == StartingBankroll + RealizedOf(t) - Sum(CostIn(t), OpenOf(t))
BankrollOf(t)  == StartingBankroll + RealizedOf(t)
ExposureOf(t)  == [d \in Dates |-> Sum(CostIn(t), OnDay(OpenOf(t), d))]

LEMMA RowsSum ==
  ASSUME NEW t
  PROVE  /\ MapThenSumSet(LAMBDA m : t[m].cost, OpenOf(t)) = Sum(CostIn(t), OpenOf(t))
         /\ MapThenSumSet(LAMBDA m : t[m].pnl, ClosedOf(t)) = RealizedOf(t)
         /\ \A d \in Dates : MapThenSumSet(LAMBDA m : t[m].cost, OnDay(OpenOf(t), d))
                               = Sum(CostIn(t), OnDay(OpenOf(t), d))
<1>1. \A m \in OpenOf(t) : CostIn(t)[m] = t[m].cost
  BY DEF CostIn
<1>2. \A m \in ClosedOf(t) : ProfitIn(t)[m] = t[m].pnl
  BY DEF ProfitIn
<1>3. \A d \in Dates : \A m \in OnDay(OpenOf(t), d) : CostIn(t)[m] = t[m].cost
  BY DEF CostIn, OnDay
<1>4. MapThenSumSet(LAMBDA m : t[m].cost, OpenOf(t)) = Sum(CostIn(t), OpenOf(t))
  BY <1>1, CostsSum
<1>5. MapThenSumSet(LAMBDA m : t[m].pnl, ClosedOf(t)) = RealizedOf(t)
  BY <1>2, ProfitsSum DEF RealizedOf
<1>6. ASSUME NEW d \in Dates
      PROVE  MapThenSumSet(LAMBDA m : t[m].cost, OnDay(OpenOf(t), d))
               = Sum(CostIn(t), OnDay(OpenOf(t), d))
  BY <1>3, CostsSum
<1>7. QED
  BY <1>4, <1>5, <1>6

LEMMA LedgerSums ==
  /\ Open = OpenOf(trades) /\ Closed = ClosedOf(trades)
  /\ Cash = CashOf(trades) /\ Bankroll = BankrollOf(trades)
  /\ Exposure = ExposureOf(trades)
<1>1. Open = OpenOf(trades) /\ Closed = ClosedOf(trades)
  BY DEF Open, Closed, OpenOf, ClosedOf
<1>2. Realized = RealizedOf(trades)
  <2>1. MapThenSumSet(LAMBDA m : trades[m].pnl, ClosedOf(trades)) = RealizedOf(trades)
    BY RowsSum
  <2>2. Realized = MapThenSumSet(LAMBDA m : trades[m].pnl, ClosedOf(trades))
    BY <1>1 DEF Realized
  <2>3. QED
    BY <2>1, <2>2
<1>3. Cash = CashOf(trades)
  <2>1. MapThenSumSet(LAMBDA m : trades[m].cost, OpenOf(trades))
          = Sum(CostIn(trades), OpenOf(trades))
    BY RowsSum
  <2>2. Cash = StartingBankroll + Realized
                 - MapThenSumSet(LAMBDA m : trades[m].cost, OpenOf(trades))
    BY <1>1 DEF Cash
  <2>3. QED
    BY <1>2, <2>1, <2>2 DEF CashOf
<1>4. Exposure = ExposureOf(trades)
  <2> DEFINE E(d) == MapThenSumSet(LAMBDA m : trades[m].cost, OnDay(OpenOf(trades), d))
             F(d) == Sum(CostIn(trades), OnDay(OpenOf(trades), d))
  <2>1. Exposure = [d \in Dates |-> E(d)]
    BY <1>1 DEF Exposure, OnDay
  <2>2. \A d \in Dates : E(d) = F(d)
    BY RowsSum
  <2>3. ExposureOf(trades) = [d \in Dates |-> F(d)]
    BY DEF ExposureOf
  <2> HIDE DEF E, F
  <2>4. QED
    BY <2>1, <2>2, <2>3
<1>5. QED
  BY <1>1, <1>2, <1>3, <1>4 DEF Bankroll, BankrollOf

\* ... and of the next ones.
LEMMA NextLedgerSums ==
  /\ Open' = OpenOf(trades') /\ Closed' = ClosedOf(trades')
  /\ Cash' = CashOf(trades') /\ Bankroll' = BankrollOf(trades')
  /\ Exposure' = ExposureOf(trades')
<1>1. Open' = OpenOf(trades') /\ Closed' = ClosedOf(trades')
  BY DEF Open, Closed, OpenOf, ClosedOf
<1>2. Realized' = RealizedOf(trades')
  <2>1. MapThenSumSet(LAMBDA m : trades'[m].pnl, ClosedOf(trades')) = RealizedOf(trades')
    BY RowsSum
  <2>2. Realized' = MapThenSumSet(LAMBDA m : trades'[m].pnl, ClosedOf(trades'))
    BY <1>1 DEF Realized, MapThenSumSet, MapThenFoldSet
  <2>3. QED
    BY <2>1, <2>2
<1>3. Cash' = CashOf(trades')
  <2>1. MapThenSumSet(LAMBDA m : trades'[m].cost, OpenOf(trades'))
          = Sum(CostIn(trades'), OpenOf(trades'))
    BY RowsSum
  <2>2. Cash' = StartingBankroll + Realized'
                 - MapThenSumSet(LAMBDA m : trades'[m].cost, OpenOf(trades'))
    BY <1>1 DEF Cash, MapThenSumSet, MapThenFoldSet
  <2>3. QED
    BY <1>2, <2>1, <2>2 DEF CashOf
<1>4. Exposure' = ExposureOf(trades')
  <2> DEFINE E(d) == MapThenSumSet(LAMBDA m : trades'[m].cost, OnDay(OpenOf(trades'), d))
             F(d) == Sum(CostIn(trades'), OnDay(OpenOf(trades'), d))
  <2>1. Exposure' = [d \in Dates |-> E(d)]
    BY <1>1 DEF Exposure, OnDay, MapThenSumSet, MapThenFoldSet
  <2>2. \A d \in Dates : E(d) = F(d)
    BY RowsSum
  <2>3. ExposureOf(trades') = [d \in Dates |-> F(d)]
    BY DEF ExposureOf
  <2> HIDE DEF E, F
  <2>4. QED
    BY <2>1, <2>2, <2>3
<1>5. QED
  BY <1>1, <1>2, <1>3, <1>4 DEF Bankroll, BankrollOf

\* They are numbers.
LEMMA RowSums ==
  ASSUME NEW t \in [Markets -> Trade]
  PROVE  /\ Summable(CostIn(t), OpenOf(t)) /\ Summable(ProfitIn(t), ClosedOf(t))
         /\ \A m \in OpenOf(t) : t[m].cost \in Nat \ {0}
         /\ \A d : Summable(CostIn(t), OnDay(OpenOf(t), d))
         /\ CashOf(t) \in Int /\ BankrollOf(t) \in Int
         /\ ExposureOf(t) \in [Dates -> Int]
<1>1. IsFiniteSet(Markets)
  BY PaperAssumption
<1>2. /\ IsFiniteSet(OpenOf(t)) /\ IsFiniteSet(ClosedOf(t))
      /\ \A d : IsFiniteSet(OnDay(OpenOf(t), d))
  <2>1. OpenOf(t) \in SUBSET Markets /\ ClosedOf(t) \in SUBSET Markets
        /\ \A d : OnDay(OpenOf(t), d) \in SUBSET Markets
    BY DEF OpenOf, ClosedOf, OnDay
  <2>2. QED
    BY <1>1, <2>1, FS_Subset
<1>3. /\ \A m \in OpenOf(t) : t[m].cost \in Nat \ {0}
      /\ \A m \in ClosedOf(t) : t[m].pnl \in Int
  BY NoTradeFacts DEF OpenOf, ClosedOf, Trade
<1>4. /\ Summable(CostIn(t), OpenOf(t)) /\ Summable(ProfitIn(t), ClosedOf(t))
      /\ \A d : Summable(CostIn(t), OnDay(OpenOf(t), d))
  <2>1. \A m \in OpenOf(t) : CostIn(t)[m] = t[m].cost
    BY DEF CostIn
  <2>2. \A m \in ClosedOf(t) : ProfitIn(t)[m] = t[m].pnl
    BY DEF ProfitIn
  <2>3. \A d : OnDay(OpenOf(t), d) \subseteq OpenOf(t)
    BY DEF OnDay
  <2>4. QED
    BY <1>2, <1>3, <2>1, <2>2, <2>3 DEF Summable
<1>5. /\ Sum(CostIn(t), OpenOf(t)) \in Int /\ RealizedOf(t) \in Int
      /\ \A d : Sum(CostIn(t), OnDay(OpenOf(t), d)) \in Int
  BY <1>4, SumType DEF RealizedOf
<1>6. StartingBankroll \in Int
  BY DEF StartingBankroll, Whole
<1>7. CashOf(t) \in Int /\ BankrollOf(t) \in Int
  BY <1>5, <1>6 DEF CashOf, BankrollOf
<1>8. ExposureOf(t) \in [Dates -> Int]
  BY <1>5 DEF ExposureOf
<1>9. QED
  BY <1>3, <1>4, <1>7, <1>8

---------------------------------------------------------------------------
(* What a transaction of inserts costs                                     *)

\* The rows u are the rows t and what is bought, of markets not in t.
Inserts(t, u, bought) ==
  /\ \A b \in bought : t[b.market] = NoTrade
  /\ \A m \in Markets : u[m] = IF \E b \in bought : b.market = m
                               THEN Bought(CHOOSE b \in bought : b.market = m)
                               ELSE t[m]

LEMMA BoughtRow ==
  ASSUME NEW b \in Purchase
  PROVE  /\ Bought(b) \in Trade /\ Bought(b).status = "open" /\ Bought(b).cost = b.cost
  BY DEF Bought, Purchase, Trade

LEMMA InsertedRows ==
  ASSUME NEW t \in [Markets -> Trade], NEW u, NEW bought \in SUBSET Purchase,
         Inserts(t, u, bought), NEW m \in Markets
  PROVE  /\ u[m] \in Trade
         /\ t[m] # NoTrade => u[m] = t[m]
         /\ (~\E b \in bought : b.market = m) => u[m] = t[m]
         /\ (\E b \in bought : b.market = m) =>
              LET b == CHOOSE x \in bought : x.market = m IN
              /\ b \in bought /\ b.market = m /\ t[m] = NoTrade
              /\ u[m].status = "open" /\ u[m].cost = b.cost
<1>1. CASE \E b \in bought : b.market = m
  <2> DEFINE b == CHOOSE x \in bought : x.market = m
  <2>1. b \in bought /\ b.market = m
    BY <1>1
  <2>2. u[m] = Bought(b) /\ t[m] = NoTrade
    BY <1>1, <2>1 DEF Inserts
  <2> HIDE DEF b
  <2>3. u[m] \in Trade /\ u[m].status = "open" /\ u[m].cost = b.cost
    BY <2>1, <2>2, BoughtRow
  <2>4. QED
    BY <1>1, <2>1, <2>2, <2>3 DEF b
<1>2. CASE ~\E b \in bought : b.market = m
  BY <1>2 DEF Inserts
<1>3. QED
  BY <1>1, <1>2

\* New rows cost no more than what was bought.
LEMMA InsertsCost ==
  ASSUME NEW t \in [Markets -> Trade], NEW u \in [Markets -> Trade],
         NEW bought \in SUBSET Purchase, IsFiniteSet(bought), Inserts(t, u, bought),
         NEW D, NEW old, old = {m \in OpenOf(t) : DateAt(m) \in D},
         NEW all, all = {m \in OpenOf(u) : DateAt(m) \in D},
         NEW some, some = {b \in bought : DateAt(b.market) \in D}
  PROVE  Sum(CostIn(u), all) <= Sum(CostIn(t), old) + Sum(CostOf, some)
<1> DEFINE new == {m \in all : \E b \in bought : b.market = m}
           f == [m \in new |-> CHOOSE b \in bought : b.market = m]
<1>1. Summable(CostIn(u), all) /\ Summable(CostIn(t), old)
  <2>1. Summable(CostIn(u), OpenOf(u)) /\ Summable(CostIn(t), OpenOf(t))
    BY RowSums
  <2>2. all \in SUBSET OpenOf(u) /\ old \in SUBSET OpenOf(t)
    OBVIOUS
  <2>3. QED
    BY <2>1, <2>2, FS_Subset DEF Summable
<1>2. \A m \in Markets : /\ t[m] # NoTrade => u[m] = t[m]
                         /\ (~\E b \in bought : b.market = m) => u[m] = t[m]
  BY InsertedRows
<1>3. \A m \in new : /\ m \in Markets /\ f[m] \in bought /\ f[m].market = m
                     /\ t[m] = NoTrade /\ u[m].cost = f[m].cost
  <2> SUFFICES ASSUME NEW m \in new
               PROVE  /\ m \in Markets /\ f[m] \in bought /\ f[m].market = m
                      /\ t[m] = NoTrade /\ u[m].cost = f[m].cost
    OBVIOUS
  <2>1. m \in Markets /\ (\E b \in bought : b.market = m)
    BY DEF OpenOf
  <2>2. QED
    BY <2>1, InsertedRows
<1>4. old \subseteq all /\ old \cap new = {} /\ all = old \cup new
  <2>1. ASSUME NEW m \in old PROVE m \in all /\ m \notin new
    <3>1. m \in Markets /\ t[m].status = "open" /\ DateAt(m) \in D
      BY DEF OpenOf
    <3>2. t[m] # NoTrade
      BY <3>1, NoTradeFacts
    <3>3. QED
      BY <1>2, <1>3, <3>1, <3>2 DEF OpenOf
  <2>2. ASSUME NEW m \in all, m \notin new PROVE m \in old
    BY <1>2, <2>2 DEF OpenOf
  <2>3. new \subseteq all
    OBVIOUS
  <2> HIDE DEF new
  <2>4. QED
    BY <2>1, <2>2, <2>3
<1>5. \A m \in old : CostIn(u)[m] = CostIn(t)[m]
  <2> SUFFICES ASSUME NEW m \in old PROVE CostIn(u)[m] = CostIn(t)[m]
    OBVIOUS
  <2>1. m \in OpenOf(t) /\ m \in OpenOf(u) /\ m \in Markets
    BY <1>4 DEF OpenOf
  <2>2. t[m] # NoTrade
    BY <2>1, NoTradeFacts DEF OpenOf
  <2>3. QED
    BY <1>2, <2>1, <2>2 DEF CostIn
<1>6. \A m \in new : CostIn(u)[m] = CostOf[f[m]] /\ f[m] \in some
  <2> SUFFICES ASSUME NEW m \in new PROVE CostIn(u)[m] = CostOf[f[m]] /\ f[m] \in some
    OBVIOUS
  <2>1. m \in OpenOf(u) /\ DateAt(m) \in D
    OBVIOUS
  <2> HIDE DEF f, new
  <2>2. QED
    BY <1>3, <2>1 DEF CostIn, CostOf
<1>7. f \in [new -> some] /\ \A m, n \in new : f[m] = f[n] => m = n
  <2>1. \A m, n \in new : f[m] = f[n] => m = n
    BY <1>3
  <2>2. f = [m \in new |-> f[m]]
    OBVIOUS
  <2> HIDE DEF f, new
  <2>3. QED
    BY <1>6, <2>1, <2>2
<1> HIDE DEF new, f
<1>8. Summable(CostIn(u), old) /\ Summable(CostIn(u), new)
      /\ Sum(CostIn(u), all) = Sum(CostIn(u), old) + Sum(CostIn(u), new)
  <2>1. Summable(CostIn(u), old) /\ Summable(CostIn(u), new)
    <3>1. old \in SUBSET all /\ new \in SUBSET all
      BY <1>4
    <3>2. QED
      BY <1>1, <3>1, FS_Subset DEF Summable
  <2>2. Sum(CostIn(u), old \cup new) = Sum(CostIn(u), old) + Sum(CostIn(u), new)
    BY <1>4, <2>1, SumJoins
  <2>3. QED
    BY <1>4, <2>1, <2>2
<1>9. Sum(CostIn(u), old) = Sum(CostIn(t), old)
  BY <1>1, <1>5, SumSame
<1>10. Sum(CostIn(u), new) <= Sum(CostOf, some) /\ Sum(CostOf, some) \in Nat
  <2>1. some \in SUBSET bought /\ \A b \in some : CostOf[b] >= 0
    BY DEF CostOf, Purchase
  <2>2. Summable(CostOf, some) /\ Sum(CostOf, some) \in Nat
    BY <2>1, PurchasesSum
  <2>3. IsFiniteSet(new)
    BY <1>8 DEF Summable
  <2>4. Sum(CostIn(u), new) <= Sum(CostOf, some)
    <3>1. \A m \in new : CostIn(u)[m] = CostOf[f[m]]
      BY <1>6
    <3>2. QED
      BY <1>7, <2>1, <2>2, <2>3, <3>1, SumInjects
  <2>5. QED
    BY <2>2, <2>4
<1>11. Sum(CostIn(u), old) \in Int /\ Sum(CostIn(u), new) \in Int
  BY <1>8, SumType
<1>12. QED
  BY <1>8, <1>9, <1>10, <1>11

\* Inserts leave the cash less what was bought, and the exposure of a date
\* more by what was bought for it.
LEMMA InsertsSums ==
  ASSUME NEW t \in [Markets -> Trade], NEW u \in [Markets -> Trade],
         NEW bought \in SUBSET Purchase, IsFiniteSet(bought), Inserts(t, u, bought)
  PROVE  /\ CashOf(u) >= CashOf(t) - Sum(CostOf, bought)
         /\ \A d \in Dates : ExposureOf(u)[d]
                               <= ExposureOf(t)[d] + Sum(CostOf, OnDate(bought, d))
<1>1. Sum(CostIn(u), OpenOf(u)) <= Sum(CostIn(t), OpenOf(t)) + Sum(CostOf, bought)
  <2>1. /\ OpenOf(t) = {m \in OpenOf(t) : DateAt(m) \in Dates}
        /\ OpenOf(u) = {m \in OpenOf(u) : DateAt(m) \in Dates}
        /\ bought = {b \in bought : DateAt(b.market) \in Dates}
    BY DatesExist DEF OpenOf, Purchase
  <2>2. QED
    BY <2>1, InsertsCost
<1>2. ASSUME NEW d \in Dates
      PROVE  Sum(CostIn(u), OnDay(OpenOf(u), d))
               <= Sum(CostIn(t), OnDay(OpenOf(t), d)) + Sum(CostOf, OnDate(bought, d))
  <2> DEFINE D == {d}
             old == OnDay(OpenOf(t), d)
             all == OnDay(OpenOf(u), d)
             some == OnDate(bought, d)
  <2>1. /\ old = {m \in OpenOf(t) : DateAt(m) \in D}
        /\ all = {m \in OpenOf(u) : DateAt(m) \in D}
        /\ some = {b \in bought : DateAt(b.market) \in D}
    BY DEF OnDay, OnDate, DateAt
  <2> HIDE DEF D, old, all, some
  <2>2. Sum(CostIn(u), all) <= Sum(CostIn(t), old) + Sum(CostOf, some)
    BY <2>1, InsertsCost
  <2>3. QED
    BY <2>2 DEF old, all, some
<1>3. RealizedOf(u) = RealizedOf(t) /\ RealizedOf(t) \in Int
  <2>1. \A m \in Markets : /\ u[m].status = "closed" <=> t[m].status = "closed"
                           /\ t[m].status = "closed" => u[m] = t[m]
    <3> SUFFICES ASSUME NEW m \in Markets
                 PROVE  /\ u[m].status = "closed" <=> t[m].status = "closed"
                        /\ t[m].status = "closed" => u[m] = t[m]
      OBVIOUS
    <3>1. CASE \E b \in bought : b.market = m
      BY <3>1, InsertedRows, NoTradeFacts
    <3>2. CASE ~\E b \in bought : b.market = m
      BY <3>2, InsertedRows
    <3>3. QED
      BY <3>1, <3>2
  <2>2. ClosedOf(u) = ClosedOf(t)
    BY <2>1 DEF ClosedOf
  <2>3. \A m \in ClosedOf(t) : ProfitIn(u)[m] = ProfitIn(t)[m]
    BY <2>1, <2>2 DEF ProfitIn, ClosedOf
  <2>4. Summable(ProfitIn(t), ClosedOf(t))
    BY RowSums
  <2>5. QED
    BY <2>2, <2>3, <2>4, SumSame, SumType DEF RealizedOf
<1>4. /\ Sum(CostIn(u), OpenOf(u)) \in Int /\ Sum(CostIn(t), OpenOf(t)) \in Int
      /\ Sum(CostOf, bought) \in Int
  BY RowSums, SumType, PurchasesSum
<1>5. CashOf(u) >= CashOf(t) - Sum(CostOf, bought)
  <2>1. StartingBankroll \in Int
    BY DEF StartingBankroll, Whole
  <2>2. QED
    BY <1>1, <1>3, <1>4, <2>1 DEF CashOf
<1>6. QED
  BY <1>2, <1>5 DEF ExposureOf

---------------------------------------------------------------------------
(* Money, step by step                                                     *)

\* A close that is right stays so: the terms of the trade stay, and so does the
\* market's result.
LEMMA RightlyKept ==
  ASSUME NEW m, trades[m] \in Trade, trades[m] # NoTrade,
         trades'[m].side = trades[m].side, trades'[m].cost = trades[m].cost,
         trades'[m].contracts = trades[m].contracts,
         alerts[m].result # "none" => alerts'[m].result = alerts[m].result,
         NEW reason, NEW pnl, Rightly(m, reason, pnl)
  PROVE  Rightly(m, reason, pnl)'
  BY DEF Rightly, Trade, NoTrade

\* A market's result that stands settles a trade rightly.
LEMMA SettlesRightly ==
  ASSUME NEW m, trades[m] \in Trade, trades[m] # NoTrade, NEW result \in {"YES", "NO"},
         alerts[m].result = result
  PROVE  LET c == Settlement(m, result) IN
         c.market = m /\ Rightly(c.market, c.reason, c.pnl)
  <1>1. /\ trades[m].cost \in Int /\ trades[m].contracts \in Nat
        /\ trades[m].side \in {"YES", "NO"}
    BY DEF Trade, NoTrade
  <1>2. CASE trades[m].side = result
    <2>1. Settlement(m, result) = [market |-> m, reason |-> "settled_win",
                                   pnl |-> trades[m].contracts * Whole - trades[m].cost]
      BY <1>2 DEF Settlement, Close
    <2> QED BY <1>1, <1>2, <2>1 DEF Rightly, Reasons, Whole
  <1>3. CASE trades[m].side # result
    <2>1. Settlement(m, result) = [market |-> m, reason |-> "settled_loss",
                                   pnl |-> 0 - trades[m].cost]
      BY <1>3 DEF Settlement, Close
    <2> QED BY <1>1, <1>3, <2>1 DEF Rightly, Reasons
  <1> QED BY <1>2, <1>3

\* A position sold at a quoted price loses no more than it cost.
LEMMA ExitsRightly ==
  ASSUME NEW positions, NEW quotes, Quoted(quotes),
         \A m \in positions : trades[m] \in Trade /\ trades[m] # NoTrade,
         NEW c \in Exits(positions, quotes)
  PROVE  c.market \in positions /\ Rightly(c.market, c.reason, c.pnl)
  <1>1. PICK m \in positions \cap DOMAIN quotes :
          c = Close(m, IF EdgeOnOurSide(m, quotes[m].price) <= -ExitEdgeBuffer
                       THEN "edge_closed" ELSE "take_profit",
                    ExitPayout(m, quotes[m].price))
    BY DEF Exits
  <1>2. /\ trades[m].cost \in Int /\ trades[m].contracts \in Nat \ {0}
        /\ quotes[m].price \in 1..99
    <2>1. trades[m] \in Trade /\ trades[m] # NoTrade
      OBVIOUS
    <2>2. trades[m].cost \in Int /\ trades[m].contracts \in Nat \ {0}
      BY <2>1 DEF Trade
    <2>3. quotes[m].price \in 1..99
      BY PaperAssumption DEF Quoted
    <2> QED BY <2>2, <2>3
  <1>3. ExitPayout(m, quotes[m].price) \in Nat
    BY <1>2, ExitPays
  <1>4. /\ c.market = m /\ c.reason \in {"edge_closed", "take_profit"}
        /\ c.pnl = ExitPayout(m, quotes[m].price) - trades[m].cost
    BY <1>1 DEF Close
  <1> QED BY <1>2, <1>3, <1>4 DEF Rightly, Reasons

\* Trades by rows.
LEMMA TypedRows ==
  ASSUME PaperInv, Typed, NEW m \in Entered
  PROVE  m \in Markets /\ trades[m] \in Trade /\ trades[m] # NoTrade
  BY DEF Typed, Entered

\* Rows that stay and a result that stays keep what is closed right.
LEMMA ClosedKept ==
  ASSUME Typed, ClosedRightly, trades' = trades,
         \A m \in Markets : alerts[m].result # "none" => alerts'[m].result = alerts[m].result
  PROVE  ClosedRightly'
  <1> SUFFICES ASSUME NEW m \in Closed PROVE Rightly(m, trades[m].reason, trades[m].pnl)'
    BY DEF ClosedRightly, Closed
  <1>1. m \in Markets /\ trades[m] \in Trade /\ trades[m] # NoTrade
    BY NoTradeFacts DEF Typed, Closed
  <1>2. Rightly(m, trades[m].reason, trades[m].pnl)
    BY DEF ClosedRightly
  <1> QED BY <1>1, <1>2 DEF Rightly, Trade, NoTrade

\* _apply_closes closes rightly what is planned rightly.
LEMMA ClosesRightly ==
  ASSUME PaperInv, MoneyInv, NEW w \in Workers, ApplyCloses(local[w].plan),
         alerts' = alerts
  PROVE  /\ trades' \in [Markets -> Trade] /\ ClosedRightly' /\ Open' \subseteq Open
  <1> DEFINE plan == local[w].plan
             Of(m) == CHOOSE c \in plan : c.market = m
  <1>1. \A m \in Markets : (~\E c \in plan : c.market = m) => trades'[m] = trades[m]
    BY DEF ApplyCloses
  <1>2. \A m \in Markets : (\E c \in plan : c.market = m) =>
          /\ Of(m) \in plan /\ Of(m).market = m
          /\ trades'[m] = [trades[m] EXCEPT !.status = "closed", !.reason = Of(m).reason,
                                            !.pnl = Of(m).pnl]
    BY DEF ApplyCloses
  <1>3. \A c \in plan : /\ c.market \in Entered
                        /\ Rightly(c.market, c.reason, c.pnl)
    BY DEF PaperInv, CycleInv, PlanEntered, MoneyInv, CycleMoney
  <1> HIDE DEF plan, Of
  <1>4. ASSUME NEW m \in Markets, \E c \in plan : c.market = m
        PROVE  /\ trades'[m] \in Trade /\ trades'[m].status = "closed"
               /\ Rightly(m, trades[m].reason, trades[m].pnl)'
    <2>1. /\ Of(m) \in plan /\ Of(m).market = m
          /\ trades'[m] = [trades[m] EXCEPT !.status = "closed", !.reason = Of(m).reason,
                                            !.pnl = Of(m).pnl]
      BY <1>2, <1>4
    <2>2. m \in Entered /\ Rightly(m, Of(m).reason, Of(m).pnl)
      BY <1>3, <2>1
    <2>3. trades[m] \in Trade /\ trades[m] # NoTrade
      BY <2>2, TypedRows DEF MoneyInv
    <2>4. Of(m).reason \in Reasons /\ Of(m).pnl \in Int
      BY <2>2 DEF Rightly
    <2>5. /\ trades'[m] \in Trade /\ trades'[m].status = "closed"
          /\ trades'[m].reason = Of(m).reason /\ trades'[m].pnl = Of(m).pnl
          /\ trades'[m].side = trades[m].side /\ trades'[m].cost = trades[m].cost
          /\ trades'[m].contracts = trades[m].contracts
      BY <2>1, <2>3, <2>4 DEF Trade, NoTrade, Reasons
    <2> QED BY <2>2, <2>5 DEF Rightly
  <1>5. ASSUME NEW m \in Markets, ~\E c \in plan : c.market = m
        PROVE  /\ trades'[m] = trades[m] /\ trades'[m] \in Trade
               /\ trades'[m].status = "closed" =>
                    Rightly(m, trades[m].reason, trades[m].pnl)'
    <2>1. trades'[m] = trades[m] /\ trades[m] \in Trade
      BY <1>1, <1>5 DEF MoneyInv, Typed
    <2>2. ASSUME trades'[m].status = "closed"
          PROVE  Rightly(m, trades[m].reason, trades[m].pnl)'
      <3>1. Rightly(m, trades[m].reason, trades[m].pnl)
        BY <2>1, <2>2 DEF MoneyInv, ClosedRightly, Closed
      <3> QED BY <3>1, <2>1 DEF Rightly
    <2> QED BY <2>1, <2>2
  <1>6. DOMAIN trades' = Markets /\ trades' = [m \in Markets |-> trades'[m]]
    BY DEF ApplyCloses
  <1>7. trades' \in [Markets -> Trade]
    BY <1>4, <1>5, <1>6
  <1>8. ClosedRightly'
    BY <1>4, <1>5 DEF ClosedRightly, Closed
  <1>9. Open' \subseteq Open
    BY <1>4, <1>5 DEF Open
  <1> QED BY <1>7, <1>8, <1>9

\* What is bought is a trade like any other, and closes nothing.
LEMMA InsertsRightly ==
  ASSUME PaperInv, MoneyInv, NEW bought \in SUBSET Purchase, trades' = Inserted(bought),
         alerts' = alerts
  PROVE  /\ trades' \in [Markets -> Trade] /\ ClosedRightly'
         /\ trades' = trades \/ Inserts(trades, trades', bought)
  <1>1. CASE \E b \in bought : trades[b.market] # NoTrade
    <2>1. trades' = trades
      BY <1>1 DEF Inserted
    <2> QED BY <2>1, ClosedKept DEF MoneyInv, Typed
  <1>2. CASE \A b \in bought : trades[b.market] = NoTrade
    <2>1. /\ Inserts(trades, trades', bought)
          /\ trades' = [m \in Markets |-> trades'[m]]
      BY <1>2 DEF Inserted, Inserts
    <2>2. trades \in [Markets -> Trade]
      BY DEF MoneyInv, Typed
    <2>3. \A m \in Markets :
            /\ trades'[m] \in Trade
            /\ trades'[m].status = "closed" => trades'[m] = trades[m]
      BY <2>1, <2>2, InsertedRows
    <2>4. trades' \in [Markets -> Trade]
      BY <2>1, <2>3
    <2>5. ClosedRightly'
      <3> SUFFICES ASSUME NEW m \in Markets, trades'[m].status = "closed"
                   PROVE  Rightly(m, trades[m].reason, trades[m].pnl)'
        BY DEF ClosedRightly, Closed
      <3>1. trades'[m] = trades[m]
        BY <2>3
      <3>2. Rightly(m, trades[m].reason, trades[m].pnl)
        BY <3>1 DEF MoneyInv, ClosedRightly, Closed
      <3> QED BY <3>1, <3>2 DEF Rightly
    <2> QED BY <2>1, <2>4, <2>5
  <1> QED BY <1>1, <1>2

LEMMA NothingQuoted == Quoted(<<>>)
  BY DEF Quoted

\* A cycle that ends holds nothing.
LEMMA FinishesMoney ==
  ASSUME PaperInv, Typed, NEW w \in Workers, Finish(w)
  PROVE  /\ CycleMoney(w)'
         /\ pc' \in [Workers -> {"idle", "outcomes", "settle", "alerts", "exit", "ledger", "open"}]
         /\ alone' \in [Workers -> BOOLEAN]
  <1>1. local'[w] = Idle /\ pc'[w] = "idle"
    BY DEF Finish, PaperInv, Shape
  <1>2. CycleMoney(w)'
    <2>1. /\ local'[w].plan = {} /\ local'[w].quotes = <<>> /\ local'[w].traded = {}
      BY <1>1 DEF Idle
    <2> QED BY <1>1, <2>1, NothingQuoted DEF CycleMoney
  <1>3. /\ pc' \in [Workers -> {"idle", "outcomes", "settle", "alerts", "exit", "ledger", "open"}]
        /\ alone' \in [Workers -> BOOLEAN]
    BY DEF Finish, Typed
  <1> QED BY <1>2, <1>3

\* A read changes nothing but what the cycle holds.
LEMMA ReadsMoney ==
  ASSUME PaperInv, MoneyInv, NEW w \in Workers, NEW from, NEW l,
         NEW to \in {"outcomes", "settle", "alerts", "exit", "ledger", "open"},
         Read(w, from, to, l)
  PROVE  /\ Typed' /\ ClosedRightly' /\ Open' = Open
         /\ trades' = trades /\ alerts' = alerts
  <1>1. trades' = trades /\ alerts' = alerts
    BY DEF Read, outside
  <1>2. Typed'
    <2>1. /\ pc' \in [Workers -> {"idle", "outcomes", "settle", "alerts", "exit", "ledger", "open"}]
          /\ alone' \in [Workers -> BOOLEAN]
      BY DEF Read, Goto, MoneyInv, Typed
    <2> QED BY <1>1, <2>1 DEF Read, outside, MoneyInv, Typed
  <1>3. ClosedRightly'
    BY <1>1, ClosedKept DEF MoneyInv
  <1> QED BY <1>1, <1>2, <1>3 DEF Open

\* What a cycle's own step does to the money: what it opens, if it is alone, is
\* within its means.
OwnMoney(w) ==
  /\ Typed' /\ ClosedRightly' /\ CycleMoney(w)'
  /\ alone[w] => \A m \in Open' \ Open :
       /\ Cash' >= Share(Reserve, Bankroll)
       /\ Exposure'[DateOf[EventOf[m]]] <= DayBudget(Bankroll)

LEMMA OutcomesMoney ==
  ASSUME PaperInv, MoneyInv, NEW w \in Workers, ReadOutcomes(w)
  PROVE  OwnMoney(w)
  <1> DEFINE settled == Resolved(w)
             plan == {Settlement(m, alerts[m].result) : m \in settled}
             l == [local[w] EXCEPT !.plan = plan, !.positions = @ \ settled]
  <1>1. Read(w, "outcomes", "settle", l)
    BY DEF ReadOutcomes
  <1>2. Held(local[w]) /\ local[w].positions \subseteq Entered
    BY DEF PaperInv, CycleInv, PlanEntered
  <1>3. \A c \in plan : Rightly(c.market, c.reason, c.pnl)
    <2> SUFFICES ASSUME NEW m \in settled
                 PROVE  LET c == Settlement(m, alerts[m].result) IN
                        Rightly(c.market, c.reason, c.pnl)
      OBVIOUS
    <2>1. m \in Entered /\ alerts[m].result # "none"
      BY <1>2 DEF Resolved
    <2>2. m \in Markets /\ trades[m] \in Trade /\ trades[m] # NoTrade
      BY <2>1, TypedRows DEF MoneyInv
    <2>3. alerts[m].result \in {"YES", "NO"}
      BY <2>1, <2>2 DEF PaperInv, Shape, Alert
    <2> QED BY <2>2, <2>3, SettlesRightly
  <1> HIDE DEF settled, plan
  <1>4. l.plan = plan /\ l.quotes = local[w].quotes /\ l.traded = local[w].traded
    BY <1>2 DEF Held, Fields
  <1> HIDE DEF l
  <1>5. local'[w] = l /\ pc'[w] = "settle"
    BY <1>1, ReadsOwn DEF PaperInv
  <1>6. /\ Typed' /\ ClosedRightly' /\ Open' = Open
        /\ trades' = trades /\ alerts' = alerts
    BY <1>1, ReadsMoney
  <1>7. CycleMoney(w)'
    <2>1. \A c \in plan : Rightly(c.market, c.reason, c.pnl)'
      BY <1>3, <1>6 DEF Rightly
    <2>2. Quoted(local[w].quotes) /\ local[w].traded \in SUBSET Markets
      BY DEF MoneyInv, CycleMoney
    <2> QED BY <1>4, <1>5, <2>1, <2>2 DEF CycleMoney
  <1> QED BY <1>6, <1>7 DEF OwnMoney

LEMMA AlertsMoney ==
  ASSUME PaperInv, MoneyInv, NEW w \in Workers, ReadAlerts(w)
  PROVE  OwnMoney(w)
  <1> DEFINE quotes == [m \in {x \in Markets : alerts[x].result = "none"} |->
                          [price |-> alerts[m].price, phase |-> day[DateOf[EventOf[m]]]]]
             plan == Exits(local[w].positions, quotes)
             l == [local[w] EXCEPT !.positions = {}, !.plan = plan, !.quotes = quotes]
  <1>1. Read(w, "alerts", "exit", l)
    BY DEF ReadAlerts
  <1>2. Held(local[w]) /\ local[w].positions \subseteq Entered
    BY DEF PaperInv, CycleInv, PlanEntered
  <1>3. Quoted(quotes)
    BY DEF Quoted, PaperInv, Shape, Alert
  <1> HIDE DEF quotes
  <1>4. \A c \in plan : Rightly(c.market, c.reason, c.pnl)
    <2>1. \A m \in local[w].positions : trades[m] \in Trade /\ trades[m] # NoTrade
      BY <1>2, TypedRows DEF MoneyInv
    <2> QED BY <1>3, <2>1, ExitsRightly
  <1> HIDE DEF plan
  <1>5. l.plan = plan /\ l.quotes = quotes /\ l.traded = local[w].traded
    BY <1>2 DEF Held, Fields
  <1> HIDE DEF l
  <1>6. local'[w] = l /\ pc'[w] = "exit"
    BY <1>1, ReadsOwn DEF PaperInv
  <1>7. /\ Typed' /\ ClosedRightly' /\ Open' = Open
        /\ trades' = trades /\ alerts' = alerts
    BY <1>1, ReadsMoney
  <1>8. CycleMoney(w)'
    <2>1. \A c \in plan : Rightly(c.market, c.reason, c.pnl)'
      BY <1>4, <1>7 DEF Rightly
    <2>2. local[w].traded \in SUBSET Markets
      BY DEF MoneyInv, CycleMoney
    <2> QED BY <1>3, <1>5, <1>6, <2>1, <2>2 DEF CycleMoney
  <1> QED BY <1>7, <1>8 DEF OwnMoney

LEMMA LedgerMoney ==
  ASSUME PaperInv, MoneyInv, NEW w \in Workers, ReadLedger(w)
  PROVE  OwnMoney(w)
  <1> DEFINE l == [local[w] EXCEPT !.traded = Open \cup Closed, !.cash = Cash,
                                   !.bankroll = Bankroll, !.exposure = Exposure]
  <1>1. Read(w, "ledger", "open", l)
    BY DEF ReadLedger
  <1>2. Held(local[w])
    BY DEF PaperInv, CycleInv, PlanEntered
  <1>3. /\ l.plan = local[w].plan /\ l.quotes = local[w].quotes
        /\ l.traded = Open \cup Closed
        /\ l.cash = Cash /\ l.bankroll = Bankroll /\ l.exposure = Exposure
    BY <1>2 DEF Held, Fields
  <1> HIDE DEF l
  <1>4. local'[w] = l /\ pc'[w] = "open"
    BY <1>1, ReadsOwn DEF PaperInv
  <1>5. /\ Typed' /\ ClosedRightly' /\ Open' = Open
        /\ trades' = trades /\ alerts' = alerts
    BY <1>1, ReadsMoney
  <1>6. Cash \in Int /\ Bankroll \in Int /\ Exposure \in [Dates -> Int]
    BY LedgerSums, RowSums DEF MoneyInv, Typed
  <1>7. Cash' = Cash /\ Bankroll' = Bankroll /\ Exposure' = Exposure
    BY <1>5, LedgerSums, NextLedgerSums
  <1>8. CycleMoney(w)'
    <2>1. \A c \in local[w].plan : Rightly(c.market, c.reason, c.pnl)'
      BY <1>5 DEF Rightly, MoneyInv, CycleMoney
    <2>2. Quoted(local[w].quotes) /\ Open \cup Closed \in SUBSET Markets
      BY DEF MoneyInv, CycleMoney, Open, Closed
    <2> QED BY <1>3, <1>4, <1>6, <1>7, <2>1, <2>2 DEF CycleMoney
  <1> QED BY <1>5, <1>8 DEF OwnMoney

LEMMA SettleMoney ==
  ASSUME PaperInv, MoneyInv, NEW w \in Workers, Settle(w)
  PROVE  OwnMoney(w)
  <1>1. trades' \in [Markets -> Trade] /\ ClosedRightly' /\ Open' \subseteq Open
    BY ClosesRightly DEF Settle, outside
  <1>2. Typed'
    BY <1>1 DEF Settle, Goto, outside, MoneyInv, Typed
  <1>3. Held(local[w])
    BY DEF PaperInv, CycleInv, PlanEntered
  <1>4. /\ local'[w] = [local[w] EXCEPT !.plan = {}] /\ pc'[w] = "alerts"
    BY DEF Settle, Goto, PaperInv, Shape
  <1>5. /\ local'[w].plan = {} /\ local'[w].quotes = local[w].quotes
        /\ local'[w].traded = local[w].traded
    BY <1>3, <1>4 DEF Held, Fields
  <1>6. CycleMoney(w)'
    BY <1>4, <1>5 DEF MoneyInv, CycleMoney
  <1> QED BY <1>1, <1>2, <1>6 DEF OwnMoney

LEMMA ExitMoney ==
  ASSUME PaperInv, MoneyInv, NEW w \in Workers, Exit(w)
  PROVE  OwnMoney(w)
  <1>1. trades' \in [Markets -> Trade] /\ ClosedRightly' /\ Open' \subseteq Open
    BY ClosesRightly DEF Exit, outside
  <1>2. CASE local[w].skip
    <2>1. Finish(w) /\ UNCHANGED <<outside, crashes>>
      BY <1>2 DEF Exit
    <2>2. /\ CycleMoney(w)'
          /\ pc' \in [Workers -> {"idle", "outcomes", "settle", "alerts", "exit", "ledger", "open"}]
          /\ alone' \in [Workers -> BOOLEAN]
      BY <2>1, FinishesMoney DEF MoneyInv
    <2>3. Typed'
      BY <1>1, <2>1, <2>2 DEF outside, MoneyInv, Typed
    <2> QED BY <1>1, <2>2, <2>3 DEF OwnMoney
  <1>3. CASE ~local[w].skip
    <2>1. /\ Goto(w, "ledger") /\ local' = [local EXCEPT ![w].plan = {}]
          /\ UNCHANGED <<outside, crashes>>
      BY <1>3 DEF Exit
    <2>2. Typed'
      BY <1>1, <2>1 DEF Goto, outside, MoneyInv, Typed
    <2>3. Held(local[w])
      BY DEF PaperInv, CycleInv, PlanEntered
    <2>4. /\ local'[w] = [local[w] EXCEPT !.plan = {}] /\ pc'[w] = "ledger"
      BY <2>1 DEF Goto, PaperInv, Shape
    <2>5. /\ local'[w].plan = {} /\ local'[w].quotes = local[w].quotes
          /\ local'[w].traded = local[w].traded
      BY <2>3, <2>4 DEF Held, Fields
    <2>6. CycleMoney(w)'
      BY <2>4, <2>5 DEF MoneyInv, CycleMoney
    <2> QED BY <1>1, <2>2, <2>6 DEF OwnMoney
  <1> QED BY <1>2, <1>3

LEMMA CrashMoney ==
  ASSUME PaperInv, MoneyInv, NEW w \in Workers, Crash(w)
  PROVE  OwnMoney(w)
  <1>1. Finish(w) /\ UNCHANGED <<outside, trades>> /\ crashes' \in 0..MaxCrashes
    BY PaperAssumption DEF Crash, MoneyInv, Typed
  <1>2. /\ CycleMoney(w)'
        /\ pc' \in [Workers -> {"idle", "outcomes", "settle", "alerts", "exit", "ledger", "open"}]
        /\ alone' \in [Workers -> BOOLEAN]
    BY <1>1, FinishesMoney DEF MoneyInv
  <1>3. Typed'
    BY <1>1, <1>2 DEF outside, MoneyInv, Typed
  <1>4. ClosedRightly' /\ Open' = Open
    BY <1>1, ClosedKept DEF MoneyInv, outside, Open
  <1> QED BY <1>2, <1>3, <1>4 DEF OwnMoney

\* What may be deployed leaves the reserve.
LEMMA DeployableLeaves ==
  ASSUME NEW cash \in Int, NEW bankroll \in Int
  PROVE  /\ DeployableCash(cash, bankroll) \in Nat
         /\ DeployableCash(cash, bankroll) > 0 =>
              DeployableCash(cash, bankroll) = cash - Share(Reserve, bankroll)
  <1>1. Share(Reserve, bankroll) \in Int
    BY ShareType, PaperAssumption
  <1>2. /\ Max({0, cash - Share(Reserve, bankroll)}) \in {0, cash - Share(Reserve, bankroll)}
        /\ Max({0, cash - Share(Reserve, bankroll)}) >= 0
    BY <1>1, MaxOfTwo
  <1> QED BY <1>1, <1>2 DEF DeployableCash

\* A purchase costs something.
LEMMA PurchaseCosts ==
  ASSUME NEW bought \in SUBSET Purchase, IsFiniteSet(bought), NEW b \in bought
  PROVE  Sum(CostOf, bought) >= 1
  <1>1. b \in Purchase /\ CostOf[b] >= 1
    BY DEF CostOf, Purchase
  <1>2. Summable(CostOf, bought)
    BY PurchasesSum
  <1>3. Sum(CostOf, bought \ {b}) \in Nat
    BY PurchasesSum
  <1>4. Sum(CostOf, bought) = CostOf[b] + Sum(CostOf, bought \ {b})
    BY <1>2, SumRemove
  <1>5. CostOf[b] \in Nat
    BY <1>1 DEF CostOf, Purchase
  <1> QED BY <1>1, <1>3, <1>4, <1>5

\* What a plan's purchases leave of the cash and add to a date, when they are
\* all inserted.
LEMMA PlanLeaves ==
  ASSUME NEW t \in [Markets -> Trade], NEW u \in [Markets -> Trade],
         NEW cap \in Int,
         NEW acc \in Plans(DeployableCash(CashOf(t), BankrollOf(t)), cap, ExposureOf(t)),
         Inserts(t, u, acc.bought), NEW m \in OpenOf(u) \ OpenOf(t)
  PROVE  /\ CashOf(u) >= Share(Reserve, BankrollOf(t))
         /\ ExposureOf(u)[DateAt(m)] <= cap
  <1> DEFINE bought == acc.bought
             deployable == DeployableCash(CashOf(t), BankrollOf(t))
             d == DateAt(m)
  <1>1. /\ CashOf(t) \in Int /\ BankrollOf(t) \in Int /\ ExposureOf(t) \in [Dates -> Int]
        /\ CashOf(u) \in Int /\ ExposureOf(u) \in [Dates -> Int]
    BY RowSums
  <1>2. /\ bought \in SUBSET Purchase /\ IsFiniteSet(bought) /\ acc.cash \in Nat
        /\ acc.exposure \in [Dates -> Int]
        /\ acc.cash + Sum(CostOf, bought) <= deployable
        /\ \A e \in Dates : ExposureOf(t)[e] + Sum(CostOf, OnDate(bought, e)) <= acc.exposure[e]
        /\ \A b \in bought : acc.exposure[DateAt(b.market)] <= cap
    BY DEF Plans
  <1>3. m \in Markets /\ d \in Dates
    BY DatesExist DEF OpenOf
  <1>4. PICK b \in bought : b.market = m
    <2>1. (~\E b \in bought : b.market = m) => u[m] = t[m]
      BY <1>2, <1>3, InsertedRows
    <2> QED BY <2>1, <1>3 DEF OpenOf
  <1>5. /\ CashOf(u) >= CashOf(t) - Sum(CostOf, bought)
        /\ ExposureOf(u)[d] <= ExposureOf(t)[d] + Sum(CostOf, OnDate(bought, d))
    BY <1>2, <1>3, InsertsSums
  <1>6. /\ Sum(CostOf, bought) \in Nat /\ Sum(CostOf, OnDate(bought, d)) \in Nat
    BY <1>2, PurchasesSum DEF OnDate
  <1>7. Sum(CostOf, bought) >= 1
    BY <1>2, <1>4, PurchaseCosts
  <1>8. /\ deployable \in Nat
        /\ deployable > 0 => deployable = CashOf(t) - Share(Reserve, BankrollOf(t))
    BY <1>1, DeployableLeaves
  <1>9. Share(Reserve, BankrollOf(t)) \in Int
    BY <1>1, ShareType, PaperAssumption
  <1>10. /\ ExposureOf(t)[d] + Sum(CostOf, OnDate(bought, d)) <= acc.exposure[d]
         /\ acc.exposure[d] <= cap
    BY <1>2, <1>3, <1>4
  <1>11. /\ ExposureOf(t)[d] \in Int /\ ExposureOf(u)[d] \in Int /\ acc.exposure[d] \in Int
    BY <1>1, <1>2, <1>3
  <1> HIDE DEF deployable, d, bought
  <1>12. CashOf(u) >= Share(Reserve, BankrollOf(t))
    BY <1>1, <1>2, <1>5, <1>6, <1>7, <1>8, <1>9
  <1>13. ExposureOf(u)[d] <= cap
    BY <1>5, <1>6, <1>10, <1>11
  <1> QED BY <1>12, <1>13 DEF d

LEMMA OpenMoney ==
  ASSUME PaperInv, MoneyInv, NEW w \in Workers, OpenPositions(w)
  PROVE  OwnMoney(w)
  <1> DEFINE l == local[w]
             cap == DayBudget(l.bankroll)
             deployable == DeployableCash(l.cash, l.bankroll)
  <1>1. /\ Finish(w) /\ UNCHANGED <<outside, crashes>> /\ pc[w] = "open"
        /\ trades' = Inserted(Planned(l))
    BY DEF OpenPositions
  <1>2. /\ l.cash \in Int /\ l.bankroll \in Int /\ l.exposure \in [Dates -> Int]
        /\ Quoted(l.quotes)
        /\ alone[w] => l.cash = Cash /\ l.bankroll = Bankroll /\ l.exposure = Exposure
    BY <1>1 DEF MoneyInv, CycleMoney
  <1>3. cap \in Int /\ deployable \in Nat
    <2>1. DayCap \in Int
      BY PaperAssumption
    <2>2. cap \in Int
      BY <1>2, <2>1, ShareType DEF DayBudget
    <2> QED BY <1>2, <2>2, DeployableLeaves
  <1>4. PICK acc \in Plans(deployable, cap, l.exposure) : Planned(l) = acc.bought
    BY <1>2, <1>3, PlannedWithin DEF Planned
  <1>5. acc.bought \in SUBSET Purchase
    BY DEF Plans
  <1>6. /\ trades' \in [Markets -> Trade] /\ ClosedRightly'
        /\ trades' = trades \/ Inserts(trades, trades', acc.bought)
    BY <1>1, <1>4, <1>5, InsertsRightly DEF outside
  <1>7. /\ CycleMoney(w)'
        /\ pc' \in [Workers -> {"idle", "outcomes", "settle", "alerts", "exit", "ledger", "open"}]
        /\ alone' \in [Workers -> BOOLEAN]
    BY <1>1, FinishesMoney DEF MoneyInv
  <1>8. Typed'
    BY <1>1, <1>6, <1>7 DEF outside, MoneyInv, Typed
  <1>9. ASSUME alone[w], NEW m \in Open' \ Open
        PROVE  /\ Cash' >= Share(Reserve, Bankroll)
               /\ Exposure'[DateOf[EventOf[m]]] <= DayBudget(Bankroll)
    <2>1. Inserts(trades, trades', acc.bought)
      BY <1>6, <1>9 DEF Open
    <2>2. /\ l.cash = CashOf(trades) /\ l.bankroll = BankrollOf(trades)
          /\ l.exposure = ExposureOf(trades)
      BY <1>2, <1>9, LedgerSums
    <2>3. trades \in [Markets -> Trade] /\ m \in OpenOf(trades') \ OpenOf(trades)
      BY <1>9, LedgerSums, NextLedgerSums DEF MoneyInv, Typed
    <2>4. acc \in Plans(DeployableCash(CashOf(trades), BankrollOf(trades)), cap,
                        ExposureOf(trades))
      BY <1>4, <2>2
    <2>5. /\ CashOf(trades') >= Share(Reserve, BankrollOf(trades))
          /\ ExposureOf(trades')[DateAt(m)] <= cap
      BY <1>3, <1>6, <2>1, <2>3, <2>4, PlanLeaves
    <2> QED BY <2>2, <2>5, LedgerSums, NextLedgerSums DEF DateAt
  <1> QED BY <1>6, <1>7, <1>8, <1>9 DEF OwnMoney

\* Any step of a cycle.
LEMMA CycleMoneySteps ==
  ASSUME PaperInv, MoneyInv, NEW w \in Workers, CycleStep(w) \/ Crash(w)
  PROVE  OwnMoney(w)
  BY OutcomesMoney, SettleMoney, AlertsMoney, ExitMoney, LedgerMoney, OpenMoney,
     CrashMoney DEF CycleStep

---------------------------------------------------------------------------
(* The money of every cycle                                                *)

\* A step of one cycle leaves what the others plan right, and none of them
\* claims to know the ledger.
LEMMA OthersMoney ==
  ASSUME PaperInv, MoneyInv, NEW w \in Workers, pc[w] # "idle", OwnStep(w), OwnMoney(w)
  PROVE  MoneyInv'
  <1> SUFFICES ASSUME NEW v \in Workers, v # w PROVE CycleMoney(v)'
    BY DEF MoneyInv, OwnMoney
  <1>1. /\ pc'[v] = pc[v] /\ local'[v] = local[v] /\ alone'[v] = alone[v]
        /\ alerts' = alerts /\ \A m \in Markets : RowKept(m)
    BY DEF OwnStep
  <1>2. pc[v] = "open" => ~alone[v]
    BY DEF PaperInv, CycleInv, PlanOpen
  <1>3. ASSUME NEW c \in local[v].plan PROVE Rightly(c.market, c.reason, c.pnl)'
    <2>1. c.market \in Entered /\ Rightly(c.market, c.reason, c.pnl)
      BY DEF PaperInv, CycleInv, PlanEntered, MoneyInv, CycleMoney
    <2>2. /\ c.market \in Markets /\ trades[c.market] \in Trade
          /\ trades[c.market] # NoTrade
      BY <2>1, TypedRows DEF MoneyInv
    <2>3. /\ trades'[c.market].side = trades[c.market].side
          /\ trades'[c.market].cost = trades[c.market].cost
          /\ trades'[c.market].contracts = trades[c.market].contracts
      BY <1>1, <2>2 DEF RowKept
    <2> QED BY <1>1, <2>1, <2>2, <2>3, RightlyKept
  <1> QED BY <1>1, <1>2, <1>3 DEF MoneyInv, CycleMoney

\* A cycle begins: none that is under way is alone any more.
LEMMA StartMoney ==
  ASSUME PaperInv, MoneyInv, NEW w \in Workers, Start(w)
  PROVE  MoneyInv'
  <1>1. trades' = trades /\ alerts' = alerts /\ UNCHANGED <<bot, day, news, crashes>>
    BY DEF Start, outside
  <1>2. Typed'
    <2>1. pc' \in [Workers -> {"idle", "outcomes", "settle", "alerts", "exit", "ledger", "open"}]
      BY DEF Start, MoneyInv, Typed
    <2>2. alone' \in [Workers -> BOOLEAN]
      BY DEF Start, MoneyInv, Typed
    <2> QED BY <1>1, <2>1, <2>2 DEF MoneyInv, Typed
  <1>3. ClosedRightly'
    BY <1>1, ClosedKept DEF MoneyInv
  <1>4. ASSUME NEW v \in Workers PROVE CycleMoney(v)'
    <2>1. \A c \in local[v].plan : Rightly(c.market, c.reason, c.pnl)'
      BY <1>1 DEF MoneyInv, CycleMoney, Rightly
    <2>2. Held(local[v])
      BY DEF PaperInv, CycleInv, PlanEntered
    <2>3. /\ local'[v].plan = local[v].plan /\ local'[v].quotes = local[v].quotes
          /\ local'[v].traded = local[v].traded
          /\ v # w => local'[v] = local[v]
      BY <2>2 DEF Start, Held, Fields, PaperInv, Shape
    <2>4. pc'[v] = "open" => v # w /\ pc[v] = "open" /\ ~alone'[v]
      BY DEF Start, PaperInv, Shape
    <2> QED BY <2>1, <2>3, <2>4 DEF MoneyInv, CycleMoney
  <1> QED BY <1>2, <1>3, <1>4 DEF MoneyInv

\* Outside the cycles a result only comes where there was none.
LEMMA OutsideMoney ==
  ASSUME PaperInv, MoneyInv, OutsideStep
  PROVE  MoneyInv'
  <1>1. /\ UNCHANGED <<trades, pc, local, alone, crashes>>
        /\ \A m \in Markets : alerts[m].result # "none" => alerts'[m].result = alerts[m].result
    <2>1. ASSUME NEW m \in Markets, NewAlert(m) \/ Result(m) PROVE <1>1!2
      BY <2>1 DEF NewAlert, Result, PaperInv, Shape, Alert
    <2>2. ASSUME (\E d \in Dates : Later(d)) \/ Switch \/ UNCHANGED vars PROVE <1>1!2
      BY <2>2 DEF Later, Switch, vars, outside
    <2>3. UNCHANGED <<trades, pc, local, alone, crashes>>
      BY DEF OutsideStep, NewAlert, Result, Later, Switch, vars
    <2> QED BY <2>1, <2>2, <2>3 DEF OutsideStep
  <1>2. Typed'
    <2>1. /\ bot' \in {"paper", "off"}
          /\ day' \in [Dates -> {"ahead", "today", "near"}]
      BY DEF OutsideStep, NewAlert, Result, Later, Switch, vars, outside, MoneyInv, Typed
    <2>2. news' \in 0..MaxNews
      BY PaperAssumption
      DEF OutsideStep, NewAlert, Result, Later, Switch, vars, outside, MoneyInv, Typed
    <2> QED BY <1>1, <2>1, <2>2 DEF MoneyInv, Typed
  <1>3. ClosedRightly'
    BY <1>1, ClosedKept DEF MoneyInv
  <1>4. ASSUME NEW v \in Workers PROVE CycleMoney(v)'
    <2>1. ASSUME NEW c \in local[v].plan PROVE Rightly(c.market, c.reason, c.pnl)'
      <3>1. c.market \in Entered /\ Rightly(c.market, c.reason, c.pnl)
        BY DEF PaperInv, CycleInv, PlanEntered, MoneyInv, CycleMoney
      <3>2. /\ c.market \in Markets /\ trades[c.market] \in Trade
            /\ trades[c.market] # NoTrade
        BY <3>1, TypedRows DEF MoneyInv
      <3> QED BY <1>1, <3>1, <3>2, RightlyKept
    <2>2. Cash' = Cash /\ Bankroll' = Bankroll /\ Exposure' = Exposure
      BY <1>1, LedgerSums, NextLedgerSums
    <2> QED BY <1>1, <2>1, <2>2 DEF MoneyInv, CycleMoney
  <1> QED BY <1>2, <1>3, <1>4 DEF MoneyInv

---------------------------------------------------------------------------
(* What every step does to the money                                       *)

LEMMA MoneyStart == Init => MoneyInv
<1> SUFFICES ASSUME Init PROVE MoneyInv
  OBVIOUS
<1>1. Typed
  <2>1. NoTrade \in Trade
    BY DEF Trade
  <2> QED BY <2>1, PaperAssumption DEF Init, Typed
<1>2. ClosedRightly
  BY NoTradeFacts DEF Init, ClosedRightly, Closed
<1>3. ASSUME NEW w \in Workers PROVE CycleMoney(w)
  <2>1. local[w].plan = {} /\ local[w].quotes = <<>> /\ local[w].traded = {} /\ pc[w] = "idle"
    BY DEF Init, Idle
  <2> QED BY <2>1, NothingQuoted DEF CycleMoney
<1> QED BY <1>1, <1>2, <1>3 DEF MoneyInv

\* What a cycle that is alone opens, it can afford.
Affords ==
  \A w \in Workers : Stepped(w) /\ alone[w] =>
    \A m \in Open' \ Open :
      /\ Cash' >= Share(Reserve, Bankroll)
      /\ Exposure'[DateOf[EventOf[m]]] <= DayBudget(Bankroll)

LEMMA EveryMoneyStep ==
  ASSUME PaperInv, MoneyInv, [Next]_vars
  PROVE  MoneyInv' /\ Affords
  <1>1. ASSUME NEW w \in Workers, CycleStep(w) \/ Crash(w) PROVE MoneyInv' /\ Affords
    <2>1. OwnStep(w) /\ pc[w] # "idle"
      BY <1>1, CycleSteps
    <2>2. OwnMoney(w)
      BY <1>1, CycleMoneySteps
    <2>3. MoneyInv'
      BY <2>1, <2>2, OthersMoney
    <2>4. \A v \in Workers : Stepped(v) => v = w
      BY <2>1 DEF OwnStep, Stepped
    <2> QED BY <2>2, <2>3, <2>4 DEF Affords, OwnMoney
  <1>2. ASSUME NEW w \in Workers, Start(w) PROVE MoneyInv' /\ Affords
    <2>1. trades' = trades
      BY <1>2, Starts
    <2> QED BY <1>2, <2>1, StartMoney DEF Affords, Open
  <1>3. ASSUME OutsideStep PROVE MoneyInv' /\ Affords
    <2>1. trades' = trades
      BY <1>3, OutsideSteps
    <2> QED BY <1>3, <2>1, OutsideMoney DEF Affords, Open
  <1> QED BY <1>1, <1>2, <1>3 DEF Next, OutsideStep

LEMMA AlwaysMoney == Spec => []MoneyInv
<1>1. PaperInv /\ MoneyInv /\ [Next]_vars => MoneyInv'
  BY EveryMoneyStep
<1> QED BY <1>1, AlwaysInv, MoneyStart, PTL DEF Spec

\* The ledger of the paper bot agrees with the market, though two cycles may
\* close the same trade: a settled trade won or lost as its market's result
\* says and was paid a dollar a contract or nothing, and no trade loses more
\* than it cost (plan_settlements, plan_exits, _apply_closes).
THEOREM LedgerAgrees == Spec => []Booked
<1>1. PaperInv /\ MoneyInv => Booked
  <2> SUFFICES ASSUME PaperInv, MoneyInv PROVE Booked
    OBVIOUS
  <2>1. TypeOK
    <3>1. \A w \in Workers : /\ local[w].positions \subseteq Markets
                             /\ {c.market : c \in local[w].plan} \subseteq Markets
                             /\ local[w].traded \subseteq Markets
      BY DEF PaperInv, CycleInv, PlanEntered, Entered, MoneyInv, CycleMoney
    <3> QED BY <3>1 DEF MoneyInv, Typed, TypeOK, PaperInv, Shape
  <2>2. \A m \in Closed : Rightly(m, trades[m].reason, trades[m].pnl)
    BY DEF MoneyInv, ClosedRightly
  <2> QED BY <2>1, <2>2 DEF Booked, Rightly
<1> QED BY <1>1, AlwaysInv, AlwaysMoney, PTL

\* A cycle of run_paper_trading that no other overlaps opens within its means:
\* it leaves the cash reserve, and no date it trades holds more than its share
\* of the bankroll (deployable_cash, plan_new_positions).
THEOREM OpensWithinMeans == Spec => OpeningWithinMeans
<1>1. PaperInv /\ MoneyInv /\ [Next]_vars => [Affords]_vars
  BY EveryMoneyStep
<1> QED BY <1>1, AlwaysInv, AlwaysMoney, PTL DEF Spec, OpeningWithinMeans, Affords
=============================================================================
