---------------------------- MODULE PaperTrading ----------------------------
(***************************************************************************)
(* The paper-trading bot: paper_trading/engine.py plans, and               *)
(* scripts/run_paper_trading.py carries out one cycle: settle what has a   *)
(* result, exit what the market has moved against, open new positions.     *)
(* Each of the three is a transaction of its own; the state each is        *)
(* planned from is read before, in transactions of its own.  The scheduler *)
(* (every quarter of an hour), the pipeline and the dashboard's run-once   *)
(* start cycles and nothing keeps two from overlapping; a cycle may die at *)
(* any point.                                                              *)
(*                                                                         *)
(* A market is a number, in the order of the tickers.  Prices and          *)
(* probabilities are in cents, money is in 1/10000 dollar.                 *)
(***************************************************************************)
EXTENDS PositionSizing, Functions

CONSTANTS Workers,       \* cycles that may overlap
          Markets,       \* tickers, numbers
          EventOf,       \* the event of a market
          DateOf,        \* the target date of an event
          Prices,        \* YES prices an alert may carry
          Probability,   \* the model's YES probability of a market
          KellyPercent, EventCap,   \* sizing settings
          DayCap,        \* max_day_exposure_fraction_setting
          Reserve,       \* cash_reserve_fraction_setting
          TakeProfit,    \* take_profit_fraction_setting, percent; 0 is off
          MaxNews,       \* bound: price changes and switches of the bot
          MaxCrashes     \* bound: cycles that die

ASSUME PaperAssumption ==
  /\ Markets \subseteq Nat \ {0} /\ IsFiniteSet(Markets)
  /\ \A m \in Markets : EventOf[m] \in DOMAIN DateOf
  /\ Prices \subseteq 1..99 /\ Probability \in [Markets -> 0..100]
  /\ {EventCap, DayCap, Reserve} \subseteq 0..Whole
  /\ {KellyPercent, TakeProfit, MaxNews, MaxCrashes} \subseteq Nat

VARIABLES
  bot,       \* may it open positions: "paper", or "off" (stopped, killed, not PAPER)
  alerts,    \* the newest alert of each market, and its result
  day,       \* how far each date is: "ahead", "today", "near" or past its close
  trades,    \* paper_trades
  pc,        \* where each cycle is
  local,     \* what each cycle has read and planned
  alone,     \* history: has no other cycle run during this one?
  due,       \* history: trades whose market had a result when the cycle began
  news,      \* price changes and switches so far
  crashes    \* cycles that died

outside == <<bot, alerts, day, news>>
vars == <<bot, alerts, day, news, trades, pc, local, alone, due, crashes>>

MinEntryPrice  == 5
MaxEntryPrice  == 95
MinEdge        == 5
ExitEdgeBuffer == 3

StartingBankroll == 100 * Whole

NoTrade == [status |-> "none"]
Open    == {m \in Markets : trades[m].status = "open"}
Closed  == {m \in Markets : trades[m].status = "closed"}
Dates   == Range(DateOf)

---------------------------------------------------------------------------
(* paper_trading/engine.py                                                 *)

\* What closing a trade brings in, and the close recorded for it.
Close(m, reason, payout) ==
  [market |-> m, reason |-> reason, pnl |-> payout - trades[m].cost]

\* Faulty: a bet on NO is taken to win where the market resolved YES.
SettledAsYes(m, result) ==
  IF result = "YES" THEN Close(m, "settled_win", trades[m].contracts * Whole)
  ELSE Close(m, "settled_loss", 0)

\* plan_settlements: at the market's result, without a fee.
Settlement(m, result) ==
  IF trades[m].side = result
  THEN Close(m, "settled_win", trades[m].contracts * Whole)
  ELSE Close(m, "settled_loss", 0)

\* plan_exits: what selling a position at an alert's price brings in.
ExitPayout(m, price) ==
  LET side == SidePrice(price, trades[m].side) IN
  trades[m].contracts * side * Cent - TakerFee(side, trades[m].contracts)

EdgeOnOurSide(m, price) ==
  IF trades[m].side = "YES" THEN Edge(Probability[m], price)
  ELSE -Edge(Probability[m], price)

TakesProfit(m, price) ==
  /\ TakeProfit > 0
  /\ ExitPayout(m, price) - trades[m].cost >= (TakeProfit * trades[m].cost) \div 100

\* Held near its close, and as long as the edge is on its side.
Exits(positions, quotes) ==
  {Close(m, IF EdgeOnOurSide(m, quotes[m].price) <= -ExitEdgeBuffer
            THEN "edge_closed" ELSE "take_profit",
         ExitPayout(m, quotes[m].price)) :
     m \in {p \in positions \cap DOMAIN quotes :
              /\ quotes[p].phase # "near"
              /\ \/ EdgeOnOurSide(p, quotes[p].price) <= -ExitEdgeBuffer
                 \/ TakesProfit(p, quotes[p].price)}}

\* deployable_cash: what is left above the reserve.
DeployableCash(cash, bankroll) ==
  Max({0, cash - Share(Reserve, bankroll)})

\* plan_new_positions: the alerts worth a position; on the event's own day and
\* past the close there is none.
Candidates(quotes, traded) ==
  {m \in DOMAIN quotes \ traded :
     /\ Actionable(Probability[m], quotes[m].price)
     /\ Abs(Edge(Probability[m], quotes[m].price)) >= MinEdge
     /\ quotes[m].phase = "ahead"}

\* Events by their strongest edge, the earlier of two alike first, and their
\* markets in the order of the alerts: which of some candidates is the last.
LastVisited(some, candidates, quotes) ==
  LET Of(e)       == {m \in candidates : EventOf[m] = e}
      Strength(m) == Max({Abs(Edge(Probability[n], quotes[n].price)) :
                            n \in Of(EventOf[m])})
      First(m)    == Min(Of(EventOf[m]))
      weakest     == Min({Strength(m) : m \in some})
      latest      == Max({First(m) : m \in {n \in some : Strength(n) = weakest}})
  IN Max({m \in some : Strength(m) = weakest /\ First(m) = latest})

Cost(price, contracts) == contracts * price * Cent + TakerFee(price, contracts)

\* Faulty: the contracts the budget buys, the fee on top of it.
FeeForgotten(price, budget, left) == budget \div (price * Cent)

\* The contracts an order may have: what the budget buys, or one fewer when
\* the fee takes it past what is left; 0 for none.
Affordable(price, budget, left) ==
  LET n == budget \div (price * Cent) IN
  IF Cost(price, n) <= left THEN n
  ELSE IF Cost(price, n - 1) <= left THEN n - 1 ELSE 0

\* One candidate, given the cash and the exposures so far.
Consider(acc, m, quote, fraction, deployable, cap) ==
  LET side  == EdgeSide(Edge(Probability[m], quote.price))
      price == SidePrice(quote.price, side)
      date  == DateOf[EventOf[m]]
      left  == Min({acc.cash, cap - acc.exposure[date]})
      n     == Affordable(price, Min({RecommendedMoney(fraction, deployable), left}),
                          left)
      cost  == Cost(price, n)
  IN IF left <= 0 \/ fraction <= 0 \/ price \notin MinEntryPrice..MaxEntryPrice
        \/ n < 1
     THEN acc
     ELSE [cash     |-> acc.cash - cost,
           exposure |-> [acc.exposure EXCEPT ![date] = @ + cost],
           bought   |-> acc.bought \cup {[market |-> m, side |-> side,
                                          contracts |-> n, cost |-> cost]}]

NewPositions(quotes, traded, deployable, cap, exposure) ==
  LET candidates == Candidates(quotes, traded)
      Bracket(m) == [probability |-> Probability[m], price |-> quotes[m].price,
                     side |-> EdgeSide(Edge(Probability[m], quotes[m].price)),
                     actionable |-> TRUE]
      Sizes(e)   == SizeEvent([m \in {c \in candidates : EventOf[c] = e} |-> Bracket(m)],
                              KellyPercent, EventCap)
  IN MapThenFoldSet(LAMBDA m, acc : Consider(acc, m, quotes[m], Sizes(EventOf[m])[m],
                                             deployable, cap),
                    [cash |-> deployable, exposure |-> exposure, bought |-> {}],
                    LAMBDA m : m,
                    LAMBDA some : LastVisited(some, candidates, quotes),
                    candidates).bought

---------------------------------------------------------------------------
(* What the ledger says                                                    *)

Realized == MapThenSumSet(LAMBDA m : trades[m].pnl, Closed)
Cash     == StartingBankroll + Realized - MapThenSumSet(LAMBDA m : trades[m].cost, Open)
Bankroll == StartingBankroll + Realized
Exposure ==
  [d \in Dates |-> MapThenSumSet(LAMBDA m : trades[m].cost,
                                 {m \in Open : DateOf[EventOf[m]] = d})]

\* round(total_bankroll * max_day_exposure_fraction_setting())
DayBudget(bankroll) == Share(DayCap, bankroll)

---------------------------------------------------------------------------
(* A cycle                                                                 *)

Idle == [skip |-> FALSE, positions |-> {}, plan |-> {}, quotes |-> <<>>,
         traded |-> {}, cash |-> 0, bankroll |-> 0, exposure |-> <<>>]

Init ==
  /\ bot = "paper"
  /\ alerts \in [Markets -> [price : Prices, result : {"none"}]]
  /\ day = [d \in Dates |-> "ahead"]
  /\ news = 0
  /\ trades = [m \in Markets |-> NoTrade]
  /\ pc = [w \in Workers |-> "idle"]
  /\ local = [w \in Workers |-> Idle]
  /\ alone = [w \in Workers |-> TRUE]
  /\ due = [w \in Workers |-> {}]
  /\ crashes = 0

Goto(w, at) == pc' = [pc EXCEPT ![w] = at] /\ UNCHANGED <<alone, due>>
Read(w, from, to, l) ==
  /\ pc[w] = from
  /\ Goto(w, to)
  /\ local' = [local EXCEPT ![w] = l]
  /\ UNCHANGED <<outside, trades, crashes>>

Finish(w) ==
  /\ pc' = [pc EXCEPT ![w] = "idle"]
  /\ local' = [local EXCEPT ![w] = Idle]
  /\ alone' = [alone EXCEPT ![w] = TRUE]
  /\ due' = [due EXCEPT ![w] = {}]

\* Faulty: every position, whatever its status.
EveryPosition == Open \cup Closed

\* _fetch_open_positions.
Positions == Open

\* get_bot_state and the positions.
Start(w) ==
  LET others == {v \in Workers \ {w} : pc[v] # "idle"} IN
  /\ pc[w] = "idle"
  /\ pc' = [pc EXCEPT ![w] = "outcomes"]
  /\ local' = [local EXCEPT ![w].skip = bot # "paper", ![w].positions = Positions]
  /\ alone' = [v \in Workers |->
                 IF v = w THEN others = {} ELSE alone[v] /\ v \notin others]
  /\ due' = [due EXCEPT ![w] = {m \in Open : alerts[m].result # "none"}]
  /\ UNCHANGED <<outside, trades, crashes>>

\* Faulty: nothing is settled while the bot is stopped.
ResolvedIfRunning(w) ==
  {m \in local[w].positions : alerts[m].result # "none" /\ ~local[w].skip}

\* _fetch_outcomes.
Resolved(w) == {m \in local[w].positions : alerts[m].result # "none"}

\* The outcomes and plan_settlements.
ReadOutcomes(w) ==
  LET settled == Resolved(w) IN
  Read(w, "outcomes", "settle",
       [local[w] EXCEPT !.plan = {Settlement(m, alerts[m].result) : m \in settled},
                        !.positions = @ \ settled])

\* _apply_closes: an update of every planned row, whatever it holds by now.
ApplyCloses(plan) ==
  trades' = [m \in Markets |->
    IF \E c \in plan : c.market = m
    THEN LET c == CHOOSE c \in plan : c.market = m IN
         [trades[m] EXCEPT !.status = "closed", !.reason = c.reason, !.pnl = c.pnl]
    ELSE trades[m]]

Settle(w) ==
  /\ pc[w] = "settle"
  /\ Goto(w, "alerts")
  /\ ApplyCloses(local[w].plan)
  /\ local' = [local EXCEPT ![w].plan = {}]
  /\ UNCHANGED <<outside, crashes>>

\* _fetch_open_alerts and plan_exits.
ReadAlerts(w) ==
  LET quotes == [m \in {x \in Markets : alerts[x].result = "none"} |->
                   [price |-> alerts[m].price, phase |-> day[DateOf[EventOf[m]]]]] IN
  Read(w, "alerts", "exit",
       [local[w] EXCEPT !.positions = {}, !.plan = Exits(local[w].positions, quotes),
                        !.quotes = quotes])

Exit(w) ==
  /\ pc[w] = "exit"
  /\ ApplyCloses(local[w].plan)
  /\ IF local[w].skip THEN Finish(w)
     ELSE /\ Goto(w, "ledger")
          /\ local' = [local EXCEPT ![w].plan = {}]
  /\ UNCHANGED <<outside, crashes>>

\* The markets ever traded, _current_cash, _total_bankroll and
\* _existing_exposure_by_date: statements of one transaction that may see
\* different commits, taken together here.
ReadLedger(w) ==
  Read(w, "ledger", "open",
       [local[w] EXCEPT !.traded = Open \cup Closed, !.cash = Cash,
                        !.bankroll = Bankroll, !.exposure = Exposure])

Planned(l) ==
  NewPositions(l.quotes, l.traded, DeployableCash(l.cash, l.bankroll),
               DayBudget(l.bankroll), l.exposure)

Bought(b) == [status |-> "open", side |-> b.side, contracts |-> b.contracts,
              cost |-> b.cost, reason |-> "none", pnl |-> 0]

\* Faulty: an insert replaces the row of a market already traded.
Replaced(bought) ==
  [m \in Markets |-> IF \E b \in bought : b.market = m
                    THEN Bought(CHOOSE b \in bought : b.market = m)
                    ELSE trades[m]]

\* One transaction of inserts; market_ticker is unique, so a market traded by
\* another cycle in the meantime makes all of it fail.
Inserted(bought) ==
  IF \E b \in bought : trades[b.market] # NoTrade THEN trades
  ELSE [m \in Markets |-> IF \E b \in bought : b.market = m
                         THEN Bought(CHOOSE b \in bought : b.market = m)
                         ELSE trades[m]]

OpenPositions(w) ==
  /\ pc[w] = "open"
  /\ Finish(w)
  /\ \E bought \in {Planned(local[w])} : trades' = Inserted(bought)
  /\ UNCHANGED <<outside, crashes>>

\* The process ends or loses the database: the open transaction is gone.
Crash(w) ==
  /\ pc[w] # "idle"
  /\ crashes < MaxCrashes
  /\ crashes' = crashes + 1
  /\ Finish(w)
  /\ UNCHANGED <<outside, trades>>

---------------------------------------------------------------------------
(* Outside                                                                 *)

\* generate_alerts: a new price for a market that has no result yet.
NewAlert(m) ==
  /\ alerts[m].result = "none"
  /\ news < MaxNews
  /\ news' = news + 1
  /\ \E p \in Prices \ {alerts[m].price} : alerts' = [alerts EXCEPT ![m].price = p]
  /\ UNCHANGED <<bot, day, trades, pc, local, alone, due, crashes>>

\* A date comes, and its markets' close.
Later(d) ==
  /\ day[d] # "near"
  /\ day' = [day EXCEPT ![d] = IF @ = "ahead" THEN "today" ELSE "near"]
  /\ UNCHANGED <<bot, alerts, news, trades, pc, local, alone, due, crashes>>

\* mark_settled_alerts: the market's result.
Result(m) ==
  /\ day[DateOf[EventOf[m]]] = "near"
  /\ alerts[m].result = "none"
  /\ \E r \in {"YES", "NO"} : alerts' = [alerts EXCEPT ![m].result = r]
  /\ UNCHANGED <<bot, day, news, trades, pc, local, alone, due, crashes>>

Switch ==
  /\ news < MaxNews
  /\ news' = news + 1
  /\ bot' = IF bot = "paper" THEN "off" ELSE "paper"
  /\ UNCHANGED <<alerts, day, trades, pc, local, alone, due, crashes>>

CycleStep(w) ==
  \/ ReadOutcomes(w) \/ Settle(w) \/ ReadAlerts(w) \/ Exit(w)
  \/ ReadLedger(w) \/ OpenPositions(w)

Next ==
  \/ \E w \in Workers : Start(w) \/ CycleStep(w) \/ Crash(w)
  \/ \E m \in Markets : NewAlert(m) \/ Result(m)
  \/ \E d \in Dates : Later(d)
  \/ Switch

Spec == Init /\ [][Next]_vars

---------------------------------------------------------------------------
(* Properties                                                              *)

Trade ==
  {NoTrade} \cup
  [status : {"open", "closed"}, side : {"YES", "NO"}, contracts : Nat \ {0},
   cost : Nat \ {0}, pnl : Int,
   reason : {"none", "edge_closed", "take_profit", "settled_win", "settled_loss"}]

Alert == [price : Prices, result : {"none", "YES", "NO"}]

\* Every variable holds the values the schema and the script allow.
TypeOK ==
  /\ bot \in {"paper", "off"}
  /\ alerts \in [Markets -> Alert]
  /\ day \in [Dates -> {"ahead", "today", "near"}]
  /\ news \in 0..MaxNews
  /\ trades \in [Markets -> Trade]
  /\ pc \in [Workers -> {"idle", "outcomes", "settle", "alerts", "exit", "ledger", "open"}]
  /\ alone \in [Workers -> BOOLEAN]
  /\ \A w \in Workers : /\ local[w].positions \subseteq Markets
                        /\ {c.market : c \in local[w].plan} \subseteq Markets
                        /\ local[w].traded \subseteq Markets
  /\ crashes \in 0..MaxCrashes

Stepped(w) == pc'[w] # pc[w]

\* "No position ever re-opens once closed": whatever cycles overlap, a market is
\* traded once, on the terms it was entered at, and closed for good.
NoReentry ==
  [][\A m \in Markets : trades[m] # NoTrade =>
       /\ trades'[m] # NoTrade
       /\ trades[m].status = "closed" => trades'[m].status = "closed"
       /\ /\ trades'[m].side = trades[m].side
          /\ trades'[m].contracts = trades[m].contracts
          /\ trades'[m].cost = trades[m].cost]_vars

\* What a trade was closed at stays: a cycle that no other overlaps closes only
\* open trades, though _apply_closes updates its rows whatever they hold.
RecordKept ==
  [][\A w \in Workers : Stepped(w) /\ alone[w] =>
       \A m \in Closed : trades'[m] = trades[m]]_vars

\* A cycle that no other overlaps opens within its means: what it leaves is no
\* less than the reserve, and no date it trades holds more than its share of
\* the bankroll, positions of earlier cycles included.
OpeningWithinMeans ==
  [][\A w \in Workers : Stepped(w) /\ alone[w] =>
       \A m \in Open' \ Open :
         /\ Cash' >= Share(Reserve, Bankroll)
         /\ Exposure'[DateOf[EventOf[m]]] <= DayBudget(Bankroll)]_vars

\* The ledger agrees with the market, also where two cycles close one trade: a
\* settled trade won or lost as the result says, was paid a dollar a contract
\* or nothing, and no trade loses more than it cost.  (Every variable holds what
\* the schema allows, the reasons for closing among them.)
Booked ==
  /\ TypeOK
  /\ \A m \in Closed :
       /\ trades[m].pnl + trades[m].cost >= 0
       /\ trades[m].reason = "settled_win" =>
            /\ alerts[m].result = trades[m].side
            /\ trades[m].pnl + trades[m].cost = trades[m].contracts * Whole
       /\ trades[m].reason = "settled_loss" =>
            /\ alerts[m].result \notin {"none", trades[m].side}
            /\ trades[m].pnl + trades[m].cost = 0

\* Settlements run whether or not the bot may open: a cycle that gets past them
\* leaves no trade open whose market had a result when the cycle began.
CyclesSettle ==
  [][\A w \in Workers : Stepped(w) /\ pc[w] = "settle" /\ pc'[w] = "alerts" =>
       due[w] \subseteq Closed']_vars
=============================================================================
