---------------------------- MODULE AlertPipeline ----------------------------
(***************************************************************************)
(* The scheduled scripts that share the alerts table.  The pipeline prices *)
(* every city's markets and inserts a row for each (generate_alerts), then *)
(* writes results back (mark_settled_alerts) and pushes notifications      *)
(* (send_notifications).  Every quarter of an hour the settlement cycle    *)
(* runs mark_settled_alerts too, and the refresher prices the markets of   *)
(* the day again (refresh_same_day_observations).  Nothing keeps the three *)
(* from overlapping, an API call may fail, and a script may die.           *)
(*                                                                         *)
(* What prices a market is a pair of versions: of the forecast, and of the *)
(* observation and the quotes.  The paper and live cycles of the schedule  *)
(* are PaperTrading's and LiveExecution's.                                 *)
(***************************************************************************)
EXTENDS Integers, Sequences, SequencesExt, FiniteSets, FiniteSetsExt

CONSTANTS Markets,     \* one market of each city
          EventDay,    \* the date of a market's event
          MaxVersion,  \* bound: versions of a forecast and of an observation
          MaxInserts,  \* bound: runs that price markets
          MaxFaults    \* bound: API calls that fail and scripts that die

ASSUME PipelineAssumption ==
  /\ IsFiniteSet(Markets) /\ Markets # {}
  /\ EventDay \in [Markets -> Nat]
  /\ {MaxVersion, MaxInserts, MaxFaults} \subseteq Nat

VARIABLES
  day,       \* external: the date
  forecast,  \* external: the newest forecast
  weather,   \* external: the newest observation and quotes of a market
  result,    \* external: a market's result at the exchange
  alerts,    \* the rows of each market, in the order they were inserted
  pc,        \* where each job is
  local,     \* what each job holds
  pushes,    \* external: notifications of a market received on a date
  alone,     \* history: has nothing been inserted since the job began?
  bounds     \* inserting runs, failures and deaths so far

world == <<day, forecast, weather, result>>
vars  == <<day, forecast, weather, result, alerts, pc, local, pushes,
           alone, bounds>>

Jobs   == {"pipeline", "cycle", "refresh"}
Days   == 0..Max({EventDay[m] : m \in Markets})
NoDay  == -1
Empty  == [todo |-> {}, rows |-> {}]

Unsettled(m) == {k \in DOMAIN alerts[m] : alerts[m][k].settled = "none"}
Newest(S)    == Max(S)
OpenMarkets  == {m \in Markets : result[m] = "none"}
Faults       == bounds.fails + bounds.crashes
Lead(m)      == EventDay[m] - day

Init ==
  /\ day = 0 /\ forecast = 0
  /\ weather = [m \in Markets |-> 0]
  /\ result = [m \in Markets |-> "none"]
  /\ alerts = [m \in Markets |-> <<>>]
  /\ pc = [j \in Jobs |-> "idle"]
  /\ local = [j \in Jobs |-> Empty]
  /\ pushes = [m \in Markets |-> [d \in Days |-> 0]]
  /\ alone = [j \in Jobs |-> TRUE]
  /\ bounds = [inserts |-> 0, fails |-> 0, crashes |-> 0]

Goto(j, at, l)  == /\ pc' = [pc EXCEPT ![j] = at]
                   /\ local' = [local EXCEPT ![j] = l]

---------------------------------------------------------------------------
(* Pricing: generate_alerts and refresh_same_day_observations              *)

\* Faulty: the oldest unsettled row's.
FirstForecast(m) == alerts[m][Min(Unsettled(m))].forecast

\* fetch_known_pricing_inputs: the newest unsettled row's forecast.
KnownForecast(m) == alerts[m][Newest(Unsettled(m))].forecast

SameDayKnown(m) == \E k \in Unsettled(m) : alerts[m][k].lead = 0

\* A row of price_bracket; what the edge is worth goes with the quotes.
Priced(m, f) ==
  [market |-> m, lead |-> Lead(m), forecast |-> f, seen |-> weather[m],
   actionable |-> weather[m] > 0, settled |-> "none", notified |-> NoDay]

StartPricing(j) ==
  /\ j \in {"pipeline", "refresh"}
  /\ pc[j] = "idle"
  /\ bounds.inserts < MaxInserts
  /\ bounds' = [bounds EXCEPT !.inserts = @ + 1]
  /\ Goto(j, "cities", [Empty EXCEPT !.todo = Markets])
  /\ alone' = [alone EXCEPT ![j] = TRUE]
  /\ UNCHANGED <<world, alerts, pushes>>

\* Once every run of the bound is used, the pipeline goes on with the rest.
SkipPricing ==
  /\ pc["pipeline"] = "idle"
  /\ bounds.inserts = MaxInserts
  /\ Goto("pipeline", "results", Empty)
  /\ UNCHANGED <<world, alerts, pushes, alone, bounds>>

\* build_alert_rows or refresh_city: one city is priced, has nothing to price,
\* or fails.
PriceCity(j) ==
  /\ pc[j] = "cities"
  /\ \E m \in local[j].todo :
       LET l == [local[j] EXCEPT !.todo = @ \ {m}]
           due == /\ m \in OpenMarkets
                  /\ j = "refresh" => SameDayKnown(m) /\ Lead(m) = 0
           f == IF j = "refresh" THEN KnownForecast(m) ELSE forecast
       IN \/ /\ ~due
             /\ Goto(j, "cities", l)
             /\ UNCHANGED bounds
          \/ /\ due
             /\ Goto(j, "cities", [l EXCEPT !.rows = @ \cup {Priced(m, f)}])
             /\ UNCHANGED bounds
          \/ /\ Faults < MaxFaults
             /\ bounds' = [bounds EXCEPT !.fails = @ + 1]
             /\ Goto(j, "cities", l)
  /\ UNCHANGED <<world, alerts, pushes, alone>>

\* insert_rows: one transaction for every city.
InsertAlerts(j) ==
  /\ pc[j] = "cities" /\ local[j].todo = {}
  /\ alerts' = [m \in Markets |->
       IF \E r \in local[j].rows : r.market = m
       THEN Append(alerts[m], CHOOSE r \in local[j].rows : r.market = m)
       ELSE alerts[m]]
  /\ Goto(j, IF j = "refresh" THEN "idle" ELSE "results", Empty)
  /\ alone' = [i \in Jobs |-> IF i = j THEN TRUE
                              ELSE alone[i] /\ local[j].rows = {}]
  /\ UNCHANGED <<world, pushes, bounds>>

---------------------------------------------------------------------------
(* Results: mark_settled_alerts                                            *)

\* Faulty: the markets that never had a row settled.
NeverSettled == {m \in Markets : Unsettled(m) = DOMAIN alerts[m] /\ Unsettled(m) # {}}

\* The markets with a row that is not settled.
Pending == {m \in Markets : Unsettled(m) # {}}

ReadPending(j) ==
  /\ \/ j = "cycle" /\ pc[j] = "idle"
     \/ j = "pipeline" /\ pc[j] = "results"
  /\ Goto(j, "settle", [Empty EXCEPT !.todo = Pending])
  /\ UNCHANGED <<world, alerts, pushes, alone, bounds>>

\* Faulty: what is settled and is no NO is a YES.
YesUnlessNo(m) == IF result[m] \in {"none", "no"} THEN result[m] ELSE "yes"

\* Only yes and no are results; the exchange may say something else.
SettledAs(m) == IF result[m] \in {"yes", "no"} THEN result[m] ELSE "none"

\* check_and_mark_series: every unsettled row of a market with a result, in a
\* transaction of its own; or the call for the city fails.
SettleMarket(j) ==
  /\ pc[j] = "settle"
  /\ \E m \in local[j].todo :
       /\ Goto(j, "settle", [local[j] EXCEPT !.todo = @ \ {m}])
       /\ \/ /\ alerts' = [alerts EXCEPT ![m] =
                  [k \in DOMAIN @ |-> IF k \in Unsettled(m)
                                     THEN [@[k] EXCEPT !.settled = SettledAs(m)]
                                     ELSE @[k]]]
             /\ UNCHANGED bounds
          \/ /\ Faults < MaxFaults
             /\ bounds' = [bounds EXCEPT !.fails = @ + 1]
             /\ UNCHANGED alerts
  /\ UNCHANGED <<world, pushes, alone>>

EndSettling(j) ==
  /\ pc[j] = "settle" /\ local[j].todo = {}
  /\ Goto(j, IF j = "cycle" THEN "idle" ELSE "notify", Empty)
  /\ UNCHANGED <<world, alerts, pushes, alone, bounds>>

---------------------------------------------------------------------------
(* Notifications: send_notifications                                       *)

\* Faulty: a row is looked at by itself.
NotifiedRow(m) == alerts[m][Newest(Unsettled(m))].notified = day

\* Has any row of the market been notified today?
NotifiedToday(m) == \E k \in DOMAIN alerts[m] : alerts[m][k].notified = day

\* find_alerts_needing_notification: the newest unsettled rows worth one.
ReadCandidates ==
  /\ pc["pipeline"] = "notify"
  /\ Goto("pipeline", "push",
          [Empty EXCEPT !.rows =
             {[market |-> m, id |-> Newest(Unsettled(m))] :
                m \in {x \in Markets :
                         /\ Unsettled(x) # {}
                         /\ alerts[x][Newest(Unsettled(x))].actionable
                         /\ ~NotifiedToday(x)}}])
  /\ UNCHANGED <<world, alerts, pushes, alone, bounds>>

\* A push is sent, or fails and is passed over.
Push ==
  /\ pc["pipeline"] = "push"
  /\ \E r \in local["pipeline"].rows :
       \/ /\ Goto("pipeline", "pushed", [local["pipeline"] EXCEPT !.todo = {r}])
          /\ pushes' = [pushes EXCEPT ![r.market][day] = @ + 1]
          /\ UNCHANGED bounds
       \/ /\ Faults < MaxFaults
          /\ bounds' = [bounds EXCEPT !.fails = @ + 1]
          /\ Goto("pipeline", "push", [local["pipeline"] EXCEPT !.rows = @ \ {r}])
          /\ UNCHANGED pushes
  /\ UNCHANGED <<world, alerts, alone>>

\* notified_at, in a transaction after the push.
RecordPush ==
  /\ pc["pipeline"] = "pushed"
  /\ \E r \in local["pipeline"].todo :
       /\ alerts' = [alerts EXCEPT ![r.market][r.id].notified = day]
       /\ Goto("pipeline", "push",
               [local["pipeline"] EXCEPT !.todo = {}, !.rows = @ \ {r}])
  /\ UNCHANGED <<world, pushes, alone, bounds>>

EndPushing ==
  /\ pc["pipeline"] = "push" /\ local["pipeline"].rows = {}
  /\ Goto("pipeline", "idle", Empty)
  /\ UNCHANGED <<world, alerts, pushes, alone, bounds>>

---------------------------------------------------------------------------
(* Deaths and the world                                                    *)

\* A script is killed: its run stays "running", a job of one script is over,
\* the pipeline goes on with the next.
Crash(j) ==
  /\ pc[j] # "idle" /\ pc[j] # "results" /\ pc[j] # "notify"
  /\ Faults < MaxFaults
  /\ bounds' = [bounds EXCEPT !.crashes = @ + 1]
  /\ Goto(j, IF j # "pipeline" THEN "idle"
             ELSE CASE pc[j] = "cities" -> "results"
                    [] pc[j] = "settle" -> "notify"
                    [] OTHER -> "idle", Empty)
  /\ UNCHANGED <<world, alerts, pushes, alone>>

NextDay == /\ day + 1 \in Days
           /\ day' = day + 1
           /\ UNCHANGED <<forecast, weather, result>>
NewForecast == /\ forecast < MaxVersion
               /\ forecast' = forecast + 1
               /\ UNCHANGED <<day, weather, result>>
NewWeather(m) == /\ weather[m] < MaxVersion /\ result[m] = "none"
                 /\ weather' = [weather EXCEPT ![m] = @ + 1]
                 /\ UNCHANGED <<day, forecast, result>>
\* A market may be settled with something that is neither yes nor no.
Resolve(m) == /\ Lead(m) = 0 /\ result[m] = "none"
              /\ \E r \in {"yes", "no", "other"} : result' = [result EXCEPT ![m] = r]
              /\ UNCHANGED <<day, forecast, weather>>

World == /\ NextDay \/ NewForecast \/ \E m \in Markets : NewWeather(m) \/ Resolve(m)
         /\ UNCHANGED <<alerts, pc, local, pushes, alone, bounds>>

Settling(j) == ReadPending(j) \/ SettleMarket(j) \/ EndSettling(j)
Pricing(j)  == StartPricing(j) \/ PriceCity(j) \/ InsertAlerts(j)
Notifying   == ReadCandidates \/ Push \/ RecordPush \/ EndPushing

Next ==
  \/ \E j \in Jobs : Pricing(j) \/ Settling(j) \/ Crash(j)
  \/ SkipPricing \/ Notifying \/ World

Spec == Init /\ [][Next]_vars

\* The schedule starts the cycle again and again, and a script that is not
\* killed goes on.
FairSpec ==
  /\ Spec
  /\ WF_vars(Settling("cycle"))
  /\ WF_vars(PriceCity("pipeline") \/ InsertAlerts("pipeline"))
  /\ WF_vars(PriceCity("refresh") \/ InsertAlerts("refresh"))

---------------------------------------------------------------------------
(* Properties                                                              *)

AlertRow == [market : Markets, lead : Int, forecast : 0..MaxVersion,
             seen : 0..MaxVersion, actionable : BOOLEAN,
             settled : {"none", "yes", "no"}, notified : Days \cup {NoDay}]

\* Every variable holds the values the schema and the scripts allow; a row is
\* of its market.
TypeOK ==
  /\ day \in Days /\ forecast \in 0..MaxVersion
  /\ weather \in [Markets -> 0..MaxVersion]
  /\ result \in [Markets -> {"none", "yes", "no", "other"}]
  /\ \A m \in Markets : \A k \in DOMAIN alerts[m] :
       alerts[m][k] \in AlertRow /\ alerts[m][k].market = m
  /\ pc \in [Jobs -> {"idle", "cities", "results", "settle", "notify", "push", "pushed"}]
  /\ alone \in [Jobs -> BOOLEAN]

\* Whatever scripts overlap, a row is settled only with its market's own result,
\* and rows of one market never disagree (rows have the values the schema
\* allows).
SettledAlike ==
  /\ TypeOK
  /\ \A m \in Markets : \A k \in DOMAIN alerts[m] :
       alerts[m][k].settled \in {"none", result[m]}

\* "Only notifies once per market per calendar day": a second push of a market on
\* a date takes a notifier that died between a push and its record.
NotifiedOnce ==
  \A m \in Markets : \A d \in Days : pushes[m][d] <= 1 + bounds.crashes

\* The newest row of a market never goes back to an older forecast or older
\* quotes than the one before it, unless another script inserted rows while this
\* one was pricing.
NeverBack ==
  [][\A j \in Jobs : alone[j] /\ pc[j] = "cities" /\ pc'[j] # "cities" =>
       \A m \in Markets :
         Len(alerts'[m]) > Len(alerts[m]) /\ Unsettled(m) # {} =>
           LET before == alerts[m][Newest(Unsettled(m))]
           IN  /\ Last(alerts'[m]).forecast >= before.forecast
               /\ Last(alerts'[m]).seen >= before.seen]_vars

\* Every row of a market that resolved YES or NO is settled in the end, also one
\* a slow script inserts after the market's other rows were settled.
EverySettles ==
  \A m \in Markets : [](result[m] \in {"yes", "no"} => <>(Unsettled(m) = {}))
=============================================================================
