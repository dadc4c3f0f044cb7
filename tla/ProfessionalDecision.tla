------------------------ MODULE ProfessionalDecision ------------------------
(***************************************************************************)
(* trading_readiness/professional.py: what the professional trader decides *)
(* for one market, from one context, and how the decision is checked,      *)
(* alerted and reviewed.  Pure functions; who calls them, and with what,   *)
(* is ProfessionalJournal.                                                 *)
(*                                                                         *)
(* A context c is a record:                                                *)
(*   issues, status     contract truth: its critical issues, market status *)
(*   now, forecastAt, observationAt, quoteAt   the decision's time, and    *)
(*                      when what it uses became available                 *)
(*   weatherStale, quoteStale, impossible, crossed, trading                *)
(*   ask, bid, depth    executable buy and exit price and quantity by side *)
(*   spread, model, market, working   spread and YES probabilities         *)
(*   cash, kill, unknown, healthy, openOrders, holds, evidence   account   *)
(*   trigger, first     triggering event's type and id, first signal?      *)
(*   position           see Flat                                           *)
(*   risk, paperOnly    fixed-limit blockers, prospective paper only?      *)
(* Prices, probabilities and money are in units of 1/10000; None stands    *)
(* for a missing value.  Explanatory texts are left out.                   *)
(***************************************************************************)
EXTENDS MarketBook, SequencesExt

\* DecisionPolicy
Margin       == 500
MaxSpread    == 1000
Quantity     == 1
MaxOrderSize == 1
MinimumCash  == 5 * Dollar

ForecastEvents    == {"FORECAST_RELEASED", "FORECAST_REVISED"}
ObservationEvents == {"OBSERVATION_PUBLISHED", "OBSERVATION_REVISED",
                      "NEW_DAILY_HIGH", "NEW_DAILY_LOW"}
PriceEvents       == {"MARKET_PRICE_MOVED", "ORDERBOOK_LIQUIDITY_CHANGED"}
SettlementEvents  == {"SETTLEMENT_PUBLISHED", "SETTLEMENT_REVISED"}
\* The id of an event or a decision there is none of.
NoId              == <<>>
NoEvent           == [type |-> "NONE", id |-> NoId]

Entries  == {"BUY_YES", "BUY_NO"}
Rebuys   == {"REBUY_YES", "REBUY_NO"}
TradeActions == Entries \cup Rebuys
Actions  == TradeActions \cup {"DO_NOT_TRADE", "WATCH", "HOLD", "EXIT"}

---------------------------------------------------------------------------
(* What the context is built from                                          *)

\* build_contract_truth: the critical issues of a market's alert.
ContractIssues(a) ==
  UNION {IF a.station THEN {} ELSE {"UNKNOWN_SETTLEMENT_STATION",
                                    "UNKNOWN_SETTLEMENT_SOURCE",
                                    "UNKNOWN_SETTLEMENT_TIMEZONE"},
         When(~a.dated, "UNKNOWN_TARGET_DATE"),
         When(a.floor = None /\ a.cap = None, "UNCLEAR_BRACKET_BOUNDARIES"),
         When(a.floor # None /\ a.cap # None /\ a.floor >= a.cap,
              "INCONSISTENT_BRACKET_BOUNDARIES"),
         When(a.closeTime = None, "UNKNOWN_MARKET_CLOSE_TIME"),
         When(a.status = "none", "UNKNOWN_MARKET_STATUS")}

\* bracket_is_impossible: a high already reached the bracket's upper
\* boundary, or a low fell below its lower one.
BracketImpossible(metric, extreme, floor, cap) ==
  /\ extreme # None
  /\ \/ metric = "max" /\ cap # None /\ extreme >= cap
     \/ metric = "min" /\ floor # None /\ extreme < floor

\* build_weather_state: stale after 30 minutes without an observation or 12
\* hours without a forecast (in seconds); an unknown age is not stale.
WeatherStale(observationAge, forecastAge) ==
  observationAge > 1800 \/ forecastAge > 43200

\* build_market_state: stale after 30 seconds.
QuoteStale(age) == age > 30

\* A locked book counts as crossed.
Crossed(yes, no) ==
  yes # {} /\ no # {} /\ BestBid(yes) >= BestAsk(no)

---------------------------------------------------------------------------
(* Positions and entries                                                   *)

\* PositionState() of a market without history.
Flat == [side |-> "NONE", contracts |-> 0, invalidated |-> FALSE,
         entry |-> NoId, entryEvent |-> NoId,
         exit |-> NoId, exitEvent |-> NoId, exitReason |-> "NONE"]

IsOpen(p)    == p.side \in Sides /\ p.contracts > 0
WasClosed(p) == ~IsOpen(p) /\ p.entry # NoId /\ p.exit # NoId

\* The side the working probability favours over the market's.
DesiredSide(c) == IF c.working - c.market >= 0 THEN "YES" ELSE "NO"

FairValue(c, side) == IF side = "YES" THEN c.working ELSE Dollar - c.working

EntryPrice(c) == c.ask[DesiredSide(c)]
EntryDepth(c) == c.depth[DesiredSide(c)]
Priced(c)     == EntryPrice(c) # None
EntryFee(c)   == IF Priced(c) THEN Fee(EntryPrice(c), Quantity) ELSE 0

\* Both mean something only when the entry has a price.
NetEdge(c)      == FairValue(c, DesiredSide(c)) - EntryPrice(c) - EntryFee(c)
MaximumPrice(c) == FairValue(c, DesiredSide(c)) - Margin - EntryFee(c)

EntryCost(c) == (IF Priced(c) THEN EntryPrice(c) ELSE 0) * Quantity + EntryFee(c)

IsProbability(x) == x \in 0..Dollar
ProbabilitiesValid(c) ==
  /\ IsProbability(c.model)
  /\ IsProbability(c.market)
  /\ IsProbability(c.working)

Open(status) == status \in {"active", "open"}

---------------------------------------------------------------------------
(* Blockers                                                                *)

\* _information_thesis: is there an information advantage to act on?
HasAdvantage(c) ==
  \/ c.trigger.type \in ForecastEvents \cup ObservationEvents
  \/ c.trigger.type \in {"BRACKET_BECAME_IMPOSSIBLE", "MARKET_PRICE_MOVED"}
  \/ c.first

\* _timing_blockers: nothing from the future, nothing stale, no settlement.
TimingBlockers(c) ==
  UNION {When(c.forecastAt > c.now, "FUTURE_FORECAST"),
         When(c.observationAt > c.now, "FUTURE_OBSERVATION"),
         When(c.quoteAt > c.now, "FUTURE_MARKET_PRICE"),
         When(c.weatherStale, "DATA_STALE"),
         When(c.quoteStale, "QUOTE_STALE"),
         When(c.trigger.type \in SettlementEvents,
              "SETTLEMENT_INFORMATION_LEAKAGE")}

\* The account can pay for the entry and keeps more than five dollars.
CapitalSuffices(c) ==
  /\ c.cash # None
  /\ c.cash > MinimumCash
  /\ Priced(c) => c.cash >= EntryCost(c)

\* _base_blockers, hard part, and those select_professional_decision adds.
HardBlockers(c) ==
  UNION {c.issues, TimingBlockers(c), c.risk,
         When(~Open(c.status), "MARKET_CLOSED"),
         When(~c.trading, "EXCHANGE_INACTIVE"),
         When(c.crossed, "INVALID_ORDERBOOK"),
         When(\E s \in Sides : c.ask[s] = None, "MISSING_OPPOSING_LEVELS"),
         When(~ProbabilitiesValid(c), "INVALID_PROBABILITY"),
         When(c.impossible /\ c.working # 0,
              "IMPOSSIBLE_BRACKET_NONZERO_PROBABILITY"),
         When(c.kill, "KILL_SWITCH_ACTIVE"),
         When(c.unknown, "UNKNOWN_ORDER"),
         When(~c.healthy, "RECONCILIATION_REQUIRED"),
         When(~CapitalSuffices(c), "CAPITAL_INSUFFICIENT"),
         When(Quantity > MaxOrderSize, "MAXIMUM_ORDER_SIZE"),
         When(c.openOrders > 0, "DUPLICATE_OR_RESTING_ORDER"),
         When(c.holds = DesiredSide(c), "EQUIVALENT_POSITION_EXISTS"),
         When(~HasAdvantage(c), "NO_INFORMATION_ADVANTAGE"),
         When(~Priced(c) \/ NetEdge(c) <= 0, "EDGE_BELOW_COSTS")}

\* _base_blockers, soft part, and those select_professional_decision adds.
SoftBlockers(c) ==
  UNION {When(~Priced(c), "QUANTITY_UNAVAILABLE"),
         When(EntryDepth(c) < Quantity, "LIQUIDITY_INSUFFICIENT"),
         When(c.spread # None /\ c.spread > MaxSpread, "SPREAD_TOO_WIDE"),
         When(Priced(c) /\ NetEdge(c) > 0 /\ NetEdge(c) < Margin,
              "EDGE_BELOW_MARGIN_OF_SAFETY"),
         When(Priced(c) /\ EntryPrice(c) > MaximumPrice(c),
              "PRICE_ABOVE_MAXIMUM")}

---------------------------------------------------------------------------
(* select_professional_decision                                            *)

\* Why an open position is given up, in the order the code asks; "NONE" to
\* hold it.  RISK_BLOCKED stands for the first fixed limit broken.
ExitReason(c) ==
  LET exit == c.bid[c.position.side] IN
  IF c.kill THEN "KILL_SWITCH_TRIGGERED"
  ELSE IF c.risk # {} THEN "RISK_BLOCKED"
  ELSE IF ~c.healthy \/ c.unknown THEN "RISK_LIMIT_TRIGGERED"
  ELSE IF c.issues # {} \/ c.position.invalidated THEN "THESIS_INVALIDATED"
  ELSE IF exit = None THEN "LIQUIDITY_DROPPED"
  ELSE IF c.weatherStale \/ c.quoteStale THEN "DATA_BECAME_STALE"
  ELSE IF FairValue(c, c.position.side) - exit <= 0 THEN "NET_EDGE_GONE"
  ELSE "NONE"

\* Faulty: any event not acted on yet, a price move too.
AnyNewEvent(c) ==
  /\ c.trigger # NoEvent
  /\ c.trigger.id \notin {c.position.entryEvent, c.position.exitEvent}

\* A re-entry needs an event that is not a price, nor what the entry or the
\* exit acted on.
NewInformation(c) ==
  /\ c.trigger # NoEvent
  /\ c.trigger.type \notin PriceEvents
  /\ c.trigger.id \notin {c.position.entryEvent, c.position.exitEvent}

RiskExit(reason) == reason \in {"KILL_SWITCH_TRIGGERED", "RISK_LIMIT_TRIGGERED"}

\* What keeps a closed position from being reopened, besides the blockers.
ReentryBlockers(c) ==
  UNION {When(~NewInformation(c), "REENTRY_REQUIRES_NEW_INFORMATION"),
         When(/\ NewInformation(c)
              /\ RiskExit(c.position.exitReason)
              /\ c.risk # {} \/ c.kill,
              "RISK_EXIT_STILL_ACTIVE")}

EntryAction(c) ==
  LET side == DesiredSide(c) IN
  IF WasClosed(c.position)
  THEN IF side = "YES" THEN "REBUY_YES" ELSE "REBUY_NO"
  ELSE IF side = "YES" THEN "BUY_YES" ELSE "BUY_NO"

\* The blockers recorded with the decision.
Blockers(c) ==
  HardBlockers(c) \cup SoftBlockers(c) \cup
  (IF WasClosed(c.position) THEN ReentryBlockers(c) ELSE {})

Action(c) ==
  IF IsOpen(c.position)
  THEN IF ExitReason(c) = "NONE" THEN "HOLD" ELSE "EXIT"
  ELSE IF \/ HardBlockers(c) # {}
          \/ WasClosed(c.position) /\ ReentryBlockers(c) # {}
  THEN "DO_NOT_TRADE"
  ELSE IF SoftBlockers(c) # {} THEN "WATCH"
  ELSE EntryAction(c)

\* maximum_loss (risk_amount): what an entry costs; for a held position,
\* what it cost.
MaximumLoss(c) ==
  IF IsOpen(c.position) THEN c.position.contracts * c.average ELSE EntryCost(c)

\* production_order_allowed
ProductionAllowed(c) ==
  /\ Action(c) \in TradeActions
  /\ Blockers(c) = {}
  /\ ~c.paperOnly
  /\ c.evidence
  /\ c.healthy

---------------------------------------------------------------------------
(* What others read off a decision                                         *)

\* _checklist: the pre-trade checks, each passed or not.
Checklist(c) ==
  [truthComplete |-> c.issues = {},
   station       |-> "UNKNOWN_SETTLEMENT_STATION" \notin c.issues,
   brackets      |-> {"UNCLEAR_BRACKET_BOUNDARIES",
                      "INCONSISTENT_BRACKET_BOUNDARIES"} \cap c.issues = {},
   marketOpen    |-> Open(c.status),
   pointInTime   |-> TimingBlockers(c) = {},
   probabilities |-> ProbabilitiesValid(c),
   zeroed        |-> c.impossible => c.working = 0,
   withinLimit   |-> /\ Priced(c)
                     /\ EntryPrice(c) <= MaximumPrice(c)
                     /\ EntryDepth(c) > 0,
   advantage     |-> HasAdvantage(c),
   risk          |-> c.healthy /\ ~c.kill /\ ~c.unknown /\ c.risk = {}]

\* LiveTradingService._signals: the decisions that become live signals.
LiveSignal(c, intended) ==
  /\ ProductionAllowed(c)
  /\ Action(c) = IF intended = "YES" THEN "BUY_YES" ELSE "BUY_NO"
  /\ \A check \in DOMAIN Checklist(c) : Checklist(c)[check]

\* material_action_alert: the alert a decision raises, or "NONE".
RiskBlocked ==
  {"KILL_SWITCH_ACTIVE", "CAPITAL_INSUFFICIENT", "MAX_DAILY_REALIZED_LOSS",
   "MAX_DAILY_MARK_TO_MARKET_LOSS", "MAXIMUM_ORDER_SIZE", "UNKNOWN_ORDER",
   "RISK_EXIT_STILL_ACTIVE", "MAX_MARKET_EXPOSURE",
   "MAX_EVENT_DATE_EXPOSURE", "MAX_TOTAL_EXPOSURE"}

AlertOf(c) ==
  CASE Action(c) \in Rebuys -> "REENTRY_READY"
    [] Action(c) \in Entries -> "TRADE_READY"
    [] Action(c) = "EXIT" /\ ExitReason(c) = "THESIS_INVALIDATED"
         -> "POSITION_INVALIDATED"
    [] Action(c) = "EXIT" /\ ExitReason(c) # "THESIS_INVALIDATED"
         -> "EXIT_RECOMMENDED"
    [] OTHER ->
         IF "RECONCILIATION_REQUIRED" \in Blockers(c)
         THEN "RECONCILIATION_REQUIRED"
         ELSE IF {"DATA_STALE", "QUOTE_STALE"} \cap Blockers(c) # {}
         THEN "DATA_STALE"
         ELSE IF RiskBlocked \cap Blockers(c) # {} THEN "RISK_BLOCKED"
         ELSE "NONE"

\* review_decision_process: was the process correct, and what is the verdict?
ProcessCorrect(c) ==
  /\ Action(c) \in TradeActions
  /\ Priced(c) /\ NetEdge(c) > 0
  /\ Checklist(c).truthComplete
  /\ Checklist(c).pointInTime
  /\ Checklist(c).probabilities
  /\ Checklist(c).advantage

SideOf(action) ==
  CASE action \in {"BUY_YES", "REBUY_YES"} -> "YES"
    [] action \in {"BUY_NO", "REBUY_NO"}   -> "NO"
    [] OTHER                               -> "NONE"

Classification(action, correct, outcome) ==
  IF SideOf(action) = "NONE" THEN <<"INSUFFICIENT_EVIDENCE">>
  ELSE <<IF correct THEN "GOOD_DECISION" ELSE "BAD_DECISION",
         IF SideOf(action) = outcome THEN "GOOD_OUTCOME" ELSE "BAD_OUTCOME">>

---------------------------------------------------------------------------
(* detect_information_events                                               *)

\* The numeric facts of a basis, in the order they are compared; the bracket
\* and the market's status are fields of their own.
Facts == <<"forecast", "observation", "extreme", "disagreement", "price",
           "quantity", "spread">>

NoBasis == [fact |-> [f \in Range(Facts) |-> None],
            impossible |-> FALSE, status |-> "none"]

\* MaterialityConfig (tenths of a degree, 1/10000, hundredths of a contract);
\* a new extreme is always material.
Threshold == [forecast |-> 5, observation |-> 1, extreme |-> 0,
              disagreement |-> 5, price |-> 200, quantity |-> 100,
              spread |-> 200]

TypeOfFact(f, previous, metric) ==
  LET first == previous.fact[f] = None IN
  CASE f = "forecast" ->
         IF first THEN "FORECAST_RELEASED" ELSE "FORECAST_REVISED"
    [] f = "observation" ->
         IF first THEN "OBSERVATION_PUBLISHED" ELSE "OBSERVATION_REVISED"
    [] f = "extreme" -> IF metric = "min" THEN "NEW_DAILY_LOW" ELSE "NEW_DAILY_HIGH"
    [] f = "disagreement" -> "MODEL_DISAGREEMENT_CHANGED"
    [] f = "price" -> "MARKET_PRICE_MOVED"
    [] OTHER -> "ORDERBOOK_LIQUIDITY_CHANGED"

\* A previous basis that was read back from the journal holds its numbers as
\* text, which equals no number.
SameFact(f, previous, restored, current) ==
  ~restored /\ previous.fact[f] = current.fact[f]

MaterialFact(f, previous, current) ==
  LET old == previous.fact[f]
      new == current.fact[f]
  IN \/ f = "extreme"
     \/ old = None
     \/ Threshold[f] <= IF new >= old THEN new - old ELSE old - new

\* make_information_event: an event and its id, which covers everything but
\* the time of processing and the materiality.
InformationEvent(type, stamp, old, new, material) ==
  [type |-> type, id |-> <<type, stamp, old, new>>, material |-> material]

\* The elements of a sequence that are in a set, in order.
Among(seq, set) ==
  FoldLeft(LAMBDA kept, x : IF x \in set THEN Append(kept, x) ELSE kept,
           <<>>, seq)

FactEvents(facts, previous, restored, current, stamp, metric) ==
  LET told == Among(facts, {f \in Range(facts) :
                              /\ current.fact[f] # None
                              /\ ~SameFact(f, previous, restored, current)})
  IN [i \in DOMAIN told |->
        LET f == told[i] IN
        InformationEvent(TypeOfFact(f, previous, metric), stamp[f],
                         previous.fact[f], current.fact[f],
                         MaterialFact(f, previous, current))]

\* The events between two bases, in order; stamp gives the times of each fact
\* and of the market.
DetectedEvents(previous, restored, current, stamp, metric) ==
  LET Of(facts) ==
        FactEvents(facts, previous, restored, current, stamp, metric)
      bracket ==
        IF current.impossible /\ ~previous.impossible
        THEN <<InformationEvent("BRACKET_BECAME_IMPOSSIBLE", stamp["quantity"],
                                FALSE, TRUE, TRUE)>>
        ELSE <<>>
      status ==
        IF current.status \notin {"none", previous.status}
        THEN <<InformationEvent("MARKET_STATUS_CHANGED", stamp["quantity"],
                                previous.status, current.status, TRUE)>>
        ELSE <<>>
  IN Of(SubSeq(Facts, 1, 3)) \o bracket \o Of(SubSeq(Facts, 4, 7)) \o status
=============================================================================
