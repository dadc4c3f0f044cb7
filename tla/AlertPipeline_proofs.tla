------------------------ MODULE AlertPipeline_proofs ------------------------
(***************************************************************************)
(* How often a market's notification is pushed, and what a market's rows  *)
(* hold, for any number of markets, days, overlapping runs, failures and   *)
(* deaths.  AlertInv is about the notifier, RowInv, on top of it, about    *)
(* what is priced, inserted and settled.  Then what the research makes of  *)
(* the settled ones, for any ladder without gaps, odds and winners.        *)
(***************************************************************************)
EXTENDS AlertPipeline, ResearchArchive, FoldLemmas, SequenceTheorems

Row == [market : Markets, lead : Int, forecast : Nat, seen : Nat,
        actionable : BOOLEAN, settled : {"none", "yes", "no"}, notified : Int]
Candidate == [market : Markets, id : Nat]
Places == {"idle", "cities", "results", "settle", "notify", "push", "pushed"}
Items == Markets \cup Row \cup Candidate

AlertTypes ==
  /\ day \in Nat /\ forecast \in Nat
  /\ weather \in [Markets -> Nat]
  /\ alerts \in [Markets -> Seq(Row)]
  /\ pc \in [Jobs -> Places]
  /\ local \in [Jobs -> [todo : SUBSET Items, rows : SUBSET Items]]
  /\ \A j \in Jobs : pc[j] = "cities" => local[j].rows \subseteq Row
  /\ \A j \in Jobs : pc[j] \in {"cities", "settle"} => local[j].todo \subseteq Markets
  /\ pushes \in [Markets -> [Days -> Nat]]
  /\ bounds \in [inserts : Nat, fails : Nat, crashes : Nat]

Notifier == local["pipeline"]

\* The notifier is between the push of a market and its record.
Between(m) == pc["pipeline"] = "pushed" /\ \E r \in Notifier.todo : r.market = m

\* No market was pushed more often than deaths explain, none in the future.
PushesBounded ==
  \A m \in Markets : \A d \in Days :
    /\ pushes[m][d] <= 1 + bounds.crashes
    /\ d > day => pushes[m][d] = 0

\* A push of today that no row tells of is the current one or a dead one's.
TodayRecorded ==
  \A m \in Markets : \A d \in Days :
    d = day /\ ~NotifiedToday(m) /\ ~Between(m) => pushes[m][d] <= bounds.crashes

\* What the notifier still means to push was not pushed today.
CandidatesOpen ==
  pc["pipeline"] \in {"push", "pushed"} =>
    /\ \A r \in Notifier.rows : r \in Candidate /\ r.id \in 1..Len(alerts[r.market])
    /\ \A r, s \in Notifier.rows : r.market = s.market => r = s
    /\ pc["pipeline"] = "push" => Notifier.todo = {}
    /\ pc["pipeline"] = "pushed" => \E r \in Notifier.rows : Notifier.todo = {r}
    /\ \A r \in Notifier.rows \ Notifier.todo : \A d \in Days :
         d = day => pushes[r.market][d] <= bounds.crashes

NotifyInv == PushesBounded /\ TodayRecorded /\ CandidatesOpen

AlertInv == AlertTypes /\ NotifyInv

---------------------------------------------------------------------------
(* The newest of some rows                                                 *)

LEMMA MaxIsMember ==
  ASSUME NEW n \in Nat, NEW S, S \subseteq 1..n, S # {}
  PROVE  Max(S) \in S
<1>1. IsFiniteSet(S)
  BY FS_Interval, FS_Subset, 1 \in Int /\ n \in Int
<1>2. S \in SUBSET Int
  OBVIOUS
<1>3. QED
  BY <1>1, <1>2, MaxIsGreatest

LEMMA RowOfAlerts ==
  ASSUME AlertTypes, NEW m \in Markets, NEW k \in 1..Len(alerts[m])
  PROVE  alerts[m][k] \in Row
  BY DEF AlertTypes

LEMMA NewestIsRow ==
  ASSUME AlertTypes, NEW m \in Markets, Unsettled(m) # {}
  PROVE  Newest(Unsettled(m)) \in 1..Len(alerts[m])
<1>1. alerts[m] \in Seq(Row)
  BY DEF AlertTypes
<1>2. Unsettled(m) \subseteq 1..Len(alerts[m]) /\ Len(alerts[m]) \in Nat
  BY <1>1 DEF Unsettled
<1>3. QED
  BY <1>2, MaxIsMember DEF Newest

---------------------------------------------------------------------------
(* Types                                                                   *)

LEMMA AlertStart == Init => AlertInv
<1> SUFFICES ASSUME Init PROVE AlertInv
  OBVIOUS
<1>1. AlertTypes
  <2>1. \A m \in Markets : <<>> \in Seq(Row)
    OBVIOUS
  <2>2. Empty \in [todo : SUBSET Items, rows : SUBSET Items]
    BY DEF Empty
  <2>3. /\ day \in Nat /\ forecast \in Nat /\ weather \in [Markets -> Nat]
        /\ pushes \in [Markets -> [Days -> Nat]]
    BY DEF Init
  <2>4. bounds \in [inserts : Nat, fails : Nat, crashes : Nat]
    BY DEF Init
  <2>5. alerts \in [Markets -> Seq(Row)]
    BY <2>1 DEF Init
  <2>6. /\ local \in [Jobs -> [todo : SUBSET Items, rows : SUBSET Items]]
        /\ pc \in [Jobs -> Places]
        /\ \A j \in Jobs : pc[j] = "idle"
    BY <2>2 DEF Init, Places
  <2>7. QED
    BY <2>3, <2>4, <2>5, <2>6 DEF AlertTypes
<1>2. NotifyInv
  <2>1. pc["pipeline"] = "idle"
    BY DEF Init, Jobs
  <2>2. \A m \in Markets : \A d \in Days : pushes[m][d] = 0
    BY DEF Init
  <2>3. bounds.crashes = 0
    BY DEF Init
  <2>4. QED
    BY <2>1, <2>2, <2>3 DEF NotifyInv, PushesBounded, TodayRecorded, CandidatesOpen
<1>3. QED
  BY <1>1, <1>2 DEF AlertInv

\* A job that goes to a place other than the cities, or goes there with rows.
LEMMA GotoTypes ==
  ASSUME AlertTypes, NEW j \in Jobs, NEW at \in Places,
         NEW l \in [todo : SUBSET Items, rows : SUBSET Items], Goto(j, at, l),
         at = "cities" => l.rows \subseteq Row,
         at \in {"cities", "settle"} => l.todo \subseteq Markets
  PROVE  /\ pc' \in [Jobs -> Places]
         /\ local' \in [Jobs -> [todo : SUBSET Items, rows : SUBSET Items]]
         /\ \A i \in Jobs : pc'[i] = "cities" => local'[i].rows \subseteq Row
         /\ \A i \in Jobs : pc'[i] \in {"cities", "settle"} => local'[i].todo \subseteq Markets
         /\ \A i \in Jobs \ {j} : pc'[i] = pc[i] /\ local'[i] = local[i]
         /\ pc'[j] = at /\ local'[j] = l
  BY DEF AlertTypes, Goto

LEMMA PricedIsRow ==
  ASSUME AlertTypes, NEW m \in Markets, NEW f \in Nat
  PROVE  Priced(m, f) \in Row
<1>1. Lead(m) \in Int /\ weather[m] \in Nat /\ NoDay \in Int
  BY PipelineAssumption DEF AlertTypes, Lead, NoDay
<1>2. QED
  BY <1>1 DEF Priced, Row

LEMMA LocalType ==
  ASSUME AlertTypes, NEW j \in Jobs
  PROVE  /\ local[j].todo \subseteq Items /\ local[j].rows \subseteq Items
         /\ local[j] = [todo |-> local[j].todo, rows |-> local[j].rows]
<1>1. local[j] \in [todo : SUBSET Items, rows : SUBSET Items]
  BY DEF AlertTypes
<1>2. QED
  BY <1>1

\* A step that is neither of the notifier nor the turn of a day leaves what
\* it is about alone; or it ends the notifier's turn and, between a push and
\* its record, only by a death.
LEMMA ElsewhereKeepsNotify ==
  ASSUME AlertInv, AlertTypes', day' = day, pushes' = pushes,
         bounds'.crashes >= bounds.crashes,
         \/ /\ pc'["pipeline"] = pc["pipeline"]
            /\ local'["pipeline"] = local["pipeline"]
         \/ /\ pc'["pipeline"] \notin {"push", "pushed"}
            /\ pc["pipeline"] = "pushed" => bounds'.crashes >= bounds.crashes + 1,
         \A m \in Markets : /\ Len(alerts'[m]) >= Len(alerts[m])
                            /\ \A k \in 1..Len(alerts[m]) :
                                 alerts'[m][k].notified = alerts[m][k].notified
  PROVE  NotifyInv'
<1>1. /\ bounds.crashes \in Nat /\ bounds'.crashes \in Nat
      /\ \A m \in Markets : \A d \in Days : pushes[m][d] \in Nat
      /\ \A m \in Markets : alerts[m] \in Seq(Row) /\ alerts'[m] \in Seq(Row)
  <2>1. bounds.crashes \in Nat /\ bounds'.crashes \in Nat
    BY DEF AlertInv, AlertTypes
  <2>2. \A m \in Markets : \A d \in Days : pushes[m][d] \in Nat
    BY DEF AlertInv, AlertTypes
  <2>3. \A m \in Markets : alerts[m] \in Seq(Row) /\ alerts'[m] \in Seq(Row)
    BY DEF AlertInv, AlertTypes
  <2>4. QED
    BY <2>1, <2>2, <2>3
<1>2. PushesBounded'
  BY <1>1 DEF AlertInv, NotifyInv, PushesBounded
<1>3. \A m \in Markets : NotifiedToday(m) => NotifiedToday(m)'
  BY <1>1 DEF NotifiedToday
<1>4. TodayRecorded'
  <2> SUFFICES ASSUME NEW m \in Markets, NEW d \in Days,
                      d = day', ~NotifiedToday(m)', ~Between(m)'
               PROVE  pushes'[m][d] <= bounds'.crashes
    BY <1>1 DEF TodayRecorded
  <2>1. ~NotifiedToday(m) /\ d = day
    BY <1>3
  <2>2. CASE ~Between(m)
    BY <1>1, <2>1, <2>2 DEF AlertInv, NotifyInv, TodayRecorded
  <2>3. CASE Between(m)
    <3>1. bounds'.crashes >= bounds.crashes + 1
      BY <2>3 DEF Between, Notifier
    <3>2. pushes[m][d] <= 1 + bounds.crashes
      BY DEF AlertInv, NotifyInv, PushesBounded
    <3>3. QED
      BY <1>1, <3>1, <3>2
  <2>4. QED
    BY <2>2, <2>3
<1>5. CandidatesOpen'
  <2>1. CASE pc'["pipeline"] \notin {"push", "pushed"}
    BY <2>1 DEF CandidatesOpen
  <2>2. CASE pc'["pipeline"] = pc["pipeline"] /\ local'["pipeline"] = local["pipeline"]
                /\ pc["pipeline"] \in {"push", "pushed"}
    <3>1. CandidatesOpen /\ Notifier' = Notifier
      BY <2>2 DEF AlertInv, NotifyInv, Notifier
    <3>2. \A r \in Notifier.rows : r \in Candidate /\ r.market \in Markets
            /\ r.id \in 1..Len(alerts[r.market])
      BY <2>2, <3>1 DEF CandidatesOpen, Candidate
    <3>3. \A r \in Notifier.rows : r.id \in 1..Len(alerts'[r.market])
      BY <1>1, <3>2
    <3>4. \A r \in Notifier.rows \ Notifier.todo : \A d \in Days :
            d = day' => pushes'[r.market][d] <= bounds'.crashes
      BY <1>1, <2>2, <3>1, <3>2 DEF CandidatesOpen
    <3>5. Candidate' = Candidate
      BY DEF Candidate
    <3>6. QED
      BY <1>1, <2>2, <3>1, <3>2, <3>3, <3>4, <3>5 DEF CandidatesOpen
  <2>3. QED
    BY <2>1, <2>2
<1>6. QED
  BY <1>2, <1>4, <1>5 DEF NotifyInv

---------------------------------------------------------------------------
(* Pricing and settling                                                    *)

LEMMA JobsFacts == "pipeline" \in Jobs
  BY DEF Jobs

\* A job that leaves the rows alone, away from the notifier's push.
LEMMA JobKeepsInv ==
  ASSUME AlertInv, NEW j \in Jobs, NEW at \in Places,
         NEW l \in [todo : SUBSET Items, rows : SUBSET Items], Goto(j, at, l),
         at = "cities" => l.rows \subseteq Row,
         at \in {"cities", "settle"} => l.todo \subseteq Markets,
         at \notin {"push", "pushed"}, j = "pipeline" => pc[j] # "pushed",
         UNCHANGED <<world, alerts, pushes>>,
         bounds' \in [inserts : Nat, fails : Nat, crashes : Nat],
         bounds'.crashes >= bounds.crashes
  PROVE  AlertInv'
<1>1. UNCHANGED <<day, forecast, weather, alerts, pushes>>
  BY DEF world
<1>2. AlertTypes /\ alerts \in [Markets -> Seq(Row)]
  BY DEF AlertInv, AlertTypes
<1>3. /\ pc' \in [Jobs -> Places]
      /\ local' \in [Jobs -> [todo : SUBSET Items, rows : SUBSET Items]]
      /\ \A i \in Jobs : pc'[i] = "cities" => local'[i].rows \subseteq Row
      /\ \A i \in Jobs : pc'[i] \in {"cities", "settle"} => local'[i].todo \subseteq Markets
      /\ \A i \in Jobs \ {j} : pc'[i] = pc[i] /\ local'[i] = local[i]
      /\ pc'[j] = at
  BY <1>2, GotoTypes
<1>4. AlertTypes'
  BY <1>1, <1>2, <1>3 DEF AlertTypes
<1>5. \/ pc'["pipeline"] = pc["pipeline"] /\ local'["pipeline"] = local["pipeline"]
      \/ pc'["pipeline"] \notin {"push", "pushed"} /\ pc["pipeline"] # "pushed"
  BY <1>3, JobsFacts
<1>6. \A m \in Markets : Len(alerts[m]) \in Nat
  BY <1>2
<1>7. NotifyInv'
  BY <1>1, <1>4, <1>5, <1>6, ElsewhereKeepsNotify
<1>8. QED
  BY <1>4, <1>7 DEF AlertInv

LEMMA EmptyType ==
  /\ Empty \in [todo : SUBSET Items, rows : SUBSET Items]
  /\ Empty.todo = {} /\ Empty.rows = {}
  BY DEF Empty

LEMMA StartPricingKeepsInv ==
  ASSUME AlertInv, NEW j \in Jobs, StartPricing(j) PROVE AlertInv'
<1>1. /\ Goto(j, "cities", [Empty EXCEPT !.todo = Markets])
      /\ pc[j] = "idle" /\ UNCHANGED <<world, alerts, pushes>>
      /\ bounds' = [bounds EXCEPT !.inserts = @ + 1]
  BY DEF StartPricing
<1>2. /\ [Empty EXCEPT !.todo = Markets] \in [todo : SUBSET Items, rows : SUBSET Items]
      /\ [Empty EXCEPT !.todo = Markets].rows = {}
      /\ [Empty EXCEPT !.todo = Markets].todo = Markets
  BY DEF Empty, Items
<1>3. /\ bounds' \in [inserts : Nat, fails : Nat, crashes : Nat]
      /\ bounds'.crashes >= bounds.crashes
  <2>1. bounds \in [inserts : Nat, fails : Nat, crashes : Nat]
    BY DEF AlertInv, AlertTypes
  <2>2. QED
    BY <1>1, <2>1
<1>4. QED
  BY <1>1, <1>2, <1>3, JobKeepsInv DEF Places

LEMMA SkipPricingKeepsInv ==
  ASSUME AlertInv, SkipPricing PROVE AlertInv'
<1>1. /\ Goto("pipeline", "results", Empty) /\ pc["pipeline"] = "idle"
      /\ UNCHANGED <<world, alerts, pushes, bounds>>
  BY DEF SkipPricing
<1>2. /\ bounds' \in [inserts : Nat, fails : Nat, crashes : Nat]
      /\ bounds'.crashes >= bounds.crashes
  BY <1>1 DEF AlertInv, AlertTypes
<1>3. QED
  BY <1>1, <1>2, EmptyType, JobsFacts, JobKeepsInv DEF Places

LEMMA PriceCityKeepsInv ==
  ASSUME AlertInv, NEW j \in Jobs, PriceCity(j) PROVE AlertInv'
<1>1. pc[j] = "cities" /\ UNCHANGED <<world, alerts, pushes>>
  BY DEF PriceCity
<1>2. /\ local[j].rows \subseteq Row /\ local[j].todo \subseteq Markets
      /\ local[j] \in [todo : SUBSET Items, rows : SUBSET Items]
  BY <1>1 DEF AlertInv, AlertTypes
<1>3. PICK m \in local[j].todo :
        LET l == [local[j] EXCEPT !.todo = @ \ {m}]
            due == /\ m \in OpenMarkets
                   /\ j = "refresh" => SameDayKnown(m) /\ Lead(m) = 0
            f == IF j = "refresh" THEN KnownForecast(m) ELSE forecast
        IN \/ ~due /\ Goto(j, "cities", l) /\ UNCHANGED bounds
           \/ /\ due
              /\ Goto(j, "cities", [l EXCEPT !.rows = @ \cup {Priced(m, f)}])
              /\ UNCHANGED bounds
           \/ /\ bounds' = [bounds EXCEPT !.fails = @ + 1]
              /\ Goto(j, "cities", l)
  BY DEF PriceCity
<1> DEFINE l == [local[j] EXCEPT !.todo = @ \ {m}]
<1> DEFINE f == IF j = "refresh" THEN KnownForecast(m) ELSE forecast
<1>4. m \in Markets
  BY <1>2, <1>3
<1>5. /\ l \in [todo : SUBSET Items, rows : SUBSET Items]
      /\ l.rows = local[j].rows /\ l.todo \subseteq Markets
  BY <1>2
<1>6. /\ bounds' \in [inserts : Nat, fails : Nat, crashes : Nat]
      /\ bounds'.crashes >= bounds.crashes
  BY <1>3 DEF AlertInv, AlertTypes
<1>7. CASE Goto(j, "cities", l)
  BY <1>1, <1>2, <1>5, <1>6, <1>7, JobKeepsInv DEF Places
<1>8. CASE /\ m \in OpenMarkets
           /\ j = "refresh" => SameDayKnown(m) /\ Lead(m) = 0
           /\ Goto(j, "cities", [l EXCEPT !.rows = @ \cup {Priced(m, f)}])
  <2>1. f \in Nat
    <3>1. CASE j = "refresh"
      <4>1. Unsettled(m) # {}
        BY <1>8, <3>1 DEF SameDayKnown
      <4>2. AlertTypes
        BY DEF AlertInv
      <4>3. alerts[m][Newest(Unsettled(m))] \in Row
        BY <1>4, <4>1, <4>2, NewestIsRow, RowOfAlerts
      <4>4. QED
        BY <3>1, <4>3 DEF Row, KnownForecast
    <3>2. CASE j # "refresh"
      BY <3>2 DEF AlertInv, AlertTypes
    <3>3. QED
      BY <3>1, <3>2
  <2>2. Priced(m, f) \in Row
    BY <1>4, <2>1, PricedIsRow DEF AlertInv
  <2> DEFINE k == [l EXCEPT !.rows = @ \cup {Priced(m, f)}]
  <2>3. /\ k \in [todo : SUBSET Items, rows : SUBSET Items]
        /\ k.rows \subseteq Row /\ k.todo \subseteq Markets
    <3>1. Row \subseteq Items
      BY DEF Items
    <3> HIDE DEF f, l
    <3>2. QED
      BY <1>2, <1>5, <2>2, <3>1
  <2>4. Goto(j, "cities", k)
    BY <1>8
  <2> HIDE DEF k
  <2>5. QED
    BY <1>1, <1>6, <2>3, <2>4, JobKeepsInv DEF Places
<1>9. QED
  BY <1>3, <1>7, <1>8

LEMMA InsertKeepsInv ==
  ASSUME AlertInv, NEW j \in Jobs, InsertAlerts(j) PROVE AlertInv'
<1> DEFINE row(m) == CHOOSE r \in local[j].rows : r.market = m
<1> DEFINE at == IF j = "refresh" THEN "idle" ELSE "results"
<1>1. /\ pc[j] = "cities" /\ UNCHANGED <<day, forecast, weather, pushes, bounds>>
      /\ alerts' = [m \in Markets |->
           IF \E r \in local[j].rows : r.market = m
           THEN Append(alerts[m], row(m)) ELSE alerts[m]]
      /\ Goto(j, at, Empty)
  BY DEF InsertAlerts, world
<1>2. AlertTypes /\ alerts \in [Markets -> Seq(Row)] /\ local[j].rows \subseteq Row
  BY <1>1 DEF AlertInv, AlertTypes
<1>3. \A m \in Markets : (\E r \in local[j].rows : r.market = m) => row(m) \in Row
  BY <1>2
<1> HIDE DEF row
<1>4. \A m \in Markets :
        /\ alerts'[m] \in Seq(Row) /\ Len(alerts'[m]) >= Len(alerts[m])
        /\ \A k \in 1..Len(alerts[m]) : alerts'[m][k] = alerts[m][k]
  <2> TAKE m \in Markets
  <2>1. alerts[m] \in Seq(Row)
    BY <1>2
  <2>2. CASE \E r \in local[j].rows : r.market = m
    <3>1. alerts'[m] = Append(alerts[m], row(m)) /\ row(m) \in Row
      BY <1>1, <1>3, <2>2
    <3>2. QED
      BY <2>1, <3>1
  <2>3. CASE ~\E r \in local[j].rows : r.market = m
    <3>1. alerts'[m] = alerts[m]
      BY <1>1, <2>3
    <3>2. QED
      BY <2>1, <3>1
  <2>4. QED
    BY <2>2, <2>3
<1>5. alerts' \in [Markets -> Seq(Row)]
  BY <1>1, <1>4
<1>6. at \in Places /\ at \notin {"cities", "settle", "push", "pushed"}
  BY DEF Places
<1>7. /\ pc' \in [Jobs -> Places]
      /\ local' \in [Jobs -> [todo : SUBSET Items, rows : SUBSET Items]]
      /\ \A i \in Jobs : pc'[i] = "cities" => local'[i].rows \subseteq Row
      /\ \A i \in Jobs : pc'[i] \in {"cities", "settle"} => local'[i].todo \subseteq Markets
      /\ \A i \in Jobs \ {j} : pc'[i] = pc[i] /\ local'[i] = local[i]
      /\ pc'[j] = at
  <2> HIDE DEF at
  <2> QED
    BY <1>1, <1>2, <1>6, EmptyType, GotoTypes
<1>8. AlertTypes'
  BY <1>1, <1>2, <1>5, <1>7 DEF AlertTypes
<1>9. \/ pc'["pipeline"] = pc["pipeline"] /\ local'["pipeline"] = local["pipeline"]
      \/ pc'["pipeline"] \notin {"push", "pushed"} /\ pc["pipeline"] # "pushed"
  BY <1>1, <1>6, <1>7, JobsFacts
<1>10. bounds'.crashes >= bounds.crashes
  BY <1>1, <1>2 DEF AlertTypes
<1>11. NotifyInv'
  BY <1>1, <1>4, <1>8, <1>9, <1>10, ElsewhereKeepsNotify
<1>12. QED
  BY <1>8, <1>11 DEF AlertInv

LEMMA ReadPendingKeepsInv ==
  ASSUME AlertInv, NEW j \in Jobs, ReadPending(j) PROVE AlertInv'
<1> DEFINE l == [Empty EXCEPT !.todo = Pending]
<1>1. /\ Goto(j, "settle", l) /\ UNCHANGED <<world, alerts, pushes, bounds>>
      /\ j = "pipeline" => pc[j] = "results"
  BY DEF ReadPending
<1>2. /\ l \in [todo : SUBSET Items, rows : SUBSET Items] /\ l.todo \subseteq Markets
  BY DEF Empty, Items, Pending
<1>3. /\ bounds' \in [inserts : Nat, fails : Nat, crashes : Nat]
      /\ bounds'.crashes >= bounds.crashes
  BY <1>1 DEF AlertInv, AlertTypes
<1> HIDE DEF l
<1>4. QED
  BY <1>1, <1>2, <1>3, JobKeepsInv DEF Places

LEMMA EndSettlingKeepsInv ==
  ASSUME AlertInv, NEW j \in Jobs, EndSettling(j) PROVE AlertInv'
<1> DEFINE at == IF j = "cycle" THEN "idle" ELSE "notify"
<1>1. /\ Goto(j, at, Empty) /\ UNCHANGED <<world, alerts, pushes, bounds>>
      /\ pc[j] = "settle"
  BY DEF EndSettling
<1>2. at \in Places /\ at \notin {"cities", "settle", "push", "pushed"}
  BY DEF Places
<1>3. /\ bounds' \in [inserts : Nat, fails : Nat, crashes : Nat]
      /\ bounds'.crashes >= bounds.crashes
  BY <1>1 DEF AlertInv, AlertTypes
<1> HIDE DEF at
<1>4. QED
  BY <1>1, <1>2, <1>3, EmptyType, JobKeepsInv

LEMMA SettleMarketKeepsInv ==
  ASSUME AlertInv, NEW j \in Jobs, SettleMarket(j) PROVE AlertInv'
<1>1. PICK m \in local[j].todo :
        /\ Goto(j, "settle", [local[j] EXCEPT !.todo = @ \ {m}])
        /\ \/ /\ alerts' = [alerts EXCEPT ![m] =
                   [k \in DOMAIN @ |-> IF k \in Unsettled(m)
                                      THEN [@[k] EXCEPT !.settled = SettledAs(m)]
                                      ELSE @[k]]]
              /\ UNCHANGED bounds
           \/ /\ bounds' = [bounds EXCEPT !.fails = @ + 1]
              /\ UNCHANGED alerts
  BY DEF SettleMarket
<1>2. pc[j] = "settle" /\ UNCHANGED <<day, forecast, weather, pushes>>
  BY DEF SettleMarket, world
<1>3. /\ AlertTypes /\ alerts \in [Markets -> Seq(Row)]
      /\ local[j] \in [todo : SUBSET Items, rows : SUBSET Items]
      /\ local[j].todo \subseteq Markets
      /\ bounds \in [inserts : Nat, fails : Nat, crashes : Nat]
  BY <1>2 DEF AlertInv, AlertTypes
<1>4. /\ bounds' \in [inserts : Nat, fails : Nat, crashes : Nat]
      /\ bounds'.crashes >= bounds.crashes
  <2>1. bounds' = bounds \/ bounds' = [bounds EXCEPT !.fails = @ + 1]
    BY <1>1
  <2>2. QED
    BY <1>3, <2>1
<1>5. \A r \in Row : \A x \in {"none", "yes", "no"} :
        /\ [r EXCEPT !.settled = x] \in Row
        /\ [r EXCEPT !.settled = x].notified = r.notified
  BY DEF Row
<1>6. SettledAs(m) \in {"none", "yes", "no"}
  BY DEF SettledAs
<1>7. \A n \in Markets :
        /\ alerts'[n] \in Seq(Row) /\ Len(alerts'[n]) >= Len(alerts[n])
        /\ \A k \in 1..Len(alerts[n]) : alerts'[n][k].notified = alerts[n][k].notified
  <2> TAKE n \in Markets
  <2>1. alerts[n] \in Seq(Row) /\ Len(alerts[n]) \in Nat
    BY <1>3
  <2>2. CASE alerts'[n] = alerts[n]
    BY <2>1, <2>2
  <2>3. CASE alerts'[n] # alerts[n]
    <3>1. n = m /\ m \in Markets
      BY <1>1, <1>3, <2>3
    <3> DEFINE old == alerts[m]
    <3>2. alerts'[n] = [k \in DOMAIN old |-> IF k \in Unsettled(m)
                                 THEN [old[k] EXCEPT !.settled = SettledAs(m)]
                                 ELSE old[k]]
      BY <1>1, <1>3, <2>3, <3>1
    <3> HIDE DEF old
    <3>3. old = alerts[n] /\ old \in Seq(Row)
      BY <2>1, <3>1 DEF old
    <3>4. DOMAIN old = 1..Len(old) /\ \A k \in 1..Len(old) : old[k] \in Row
      BY <3>3
    <3>5. \A k \in 1..Len(old) :
            alerts'[n][k] \in Row /\ alerts'[n][k].notified = old[k].notified
      <4> TAKE k \in 1..Len(old)
      <4>1. old[k] \in Row
        BY <3>4
      <4>2. CASE k \in Unsettled(m)
        <5>1. alerts'[n][k] = [old[k] EXCEPT !.settled = SettledAs(m)]
          BY <3>2, <3>4, <4>2
        <5>2. \A x \in {"none", "yes", "no"} :
                /\ [old[k] EXCEPT !.settled = x] \in Row
                /\ [old[k] EXCEPT !.settled = x].notified = old[k].notified
          <6> DEFINE row == old[k]
          <6> HIDE DEF row
          <6>1. row \in Row
            BY <4>1 DEF row
          <6>2. QED
            BY <1>5, <6>1 DEF row
        <5> DEFINE settled == SettledAs(m)
        <5>3. settled \in {"none", "yes", "no"}
          BY <1>6
        <5>4. alerts'[n][k] = [old[k] EXCEPT !.settled = settled]
          BY <5>1
        <5> HIDE DEF settled
        <5>5. QED
          BY <5>2, <5>3, <5>4
      <4>3. CASE k \notin Unsettled(m)
        BY <3>2, <3>4, <4>1, <4>3
      <4>4. QED
        BY <4>2, <4>3
    <3>6. alerts'[n] \in Seq(Row) /\ Len(alerts'[n]) = Len(old)
      <4>1. alerts'[n] \in [1..Len(old) -> Row]
        BY <3>2, <3>4, <3>5
      <4>2. Len(old) \in Nat
        BY <3>3
      <4>3. QED
        BY <4>1, <4>2
    <3>7. QED
      BY <2>1, <3>3, <3>5, <3>6
  <2>4. QED
    BY <2>2, <2>3
<1>8. alerts' \in [Markets -> Seq(Row)]
  <2>1. DOMAIN alerts' = Markets /\ alerts' = [n \in Markets |-> alerts'[n]]
    BY <1>1, <1>3
  <2>2. QED
    BY <1>7, <2>1
<1> DEFINE l == [local[j] EXCEPT !.todo = @ \ {m}]
<1>9. l \in [todo : SUBSET Items, rows : SUBSET Items] /\ l.todo \subseteq Markets
  BY <1>3
<1>10. Goto(j, "settle", l)
  BY <1>1
<1> HIDE DEF l
<1>11. /\ pc' \in [Jobs -> Places]
       /\ local' \in [Jobs -> [todo : SUBSET Items, rows : SUBSET Items]]
       /\ \A i \in Jobs : pc'[i] = "cities" => local'[i].rows \subseteq Row
       /\ \A i \in Jobs : pc'[i] \in {"cities", "settle"} => local'[i].todo \subseteq Markets
       /\ \A i \in Jobs \ {j} : pc'[i] = pc[i] /\ local'[i] = local[i]
       /\ pc'[j] = "settle"
  BY <1>3, <1>9, <1>10, GotoTypes DEF Places
<1>12. AlertTypes'
  BY <1>2, <1>3, <1>4, <1>8, <1>11 DEF AlertTypes
<1>13. \/ pc'["pipeline"] = pc["pipeline"] /\ local'["pipeline"] = local["pipeline"]
       \/ pc'["pipeline"] \notin {"push", "pushed"} /\ pc["pipeline"] # "pushed"
  BY <1>2, <1>11, JobsFacts
<1>14. NotifyInv'
  BY <1>2, <1>4, <1>7, <1>12, <1>13, ElsewhereKeepsNotify
<1>15. QED
  BY <1>12, <1>14 DEF AlertInv

---------------------------------------------------------------------------
(* Notifying                                                               *)

LEMMA ReadCandidatesKeepsInv ==
  ASSUME AlertInv, ReadCandidates PROVE AlertInv'
<1> DEFINE Due == {x \in Markets : /\ Unsettled(x) # {}
                                   /\ alerts[x][Newest(Unsettled(x))].actionable
                                   /\ ~NotifiedToday(x)}
<1> DEFINE found == {[market |-> m, id |-> Newest(Unsettled(m))] : m \in Due}
<1> DEFINE l == [Empty EXCEPT !.rows = found]
<1>1. /\ pc["pipeline"] = "notify" /\ Goto("pipeline", "push", l)
      /\ UNCHANGED <<day, forecast, weather, alerts, pushes, bounds>>
  BY DEF ReadCandidates, world
<1>2. AlertTypes
  BY DEF AlertInv
<1>3. \A m \in Due : Newest(Unsettled(m)) \in 1..Len(alerts[m]) /\ Len(alerts[m]) \in Nat
  <2>1. \A m \in Markets : alerts[m] \in Seq(Row)
    BY <1>2 DEF AlertTypes
  <2>2. QED
    BY <1>2, <2>1, NewestIsRow
<1>4. \A m \in Due : m \in Markets /\ ~NotifiedToday(m)
  OBVIOUS
<1> HIDE DEF Due
<1>5. \A r \in found : /\ r \in Candidate /\ r.market \in Due
                       /\ r.id \in 1..Len(alerts[r.market])
                       /\ r = [market |-> r.market, id |-> Newest(Unsettled(r.market))]
  <2> SUFFICES ASSUME NEW m \in Due
               PROVE  LET r == [market |-> m, id |-> Newest(Unsettled(m))]
                      IN  /\ r \in Candidate /\ r.market \in Due
                          /\ r.id \in 1..Len(alerts[r.market])
                          /\ r = [market |-> r.market, id |-> Newest(Unsettled(r.market))]
    OBVIOUS
  <2> QED
    BY <1>3, <1>4 DEF Candidate
<1>6. found \subseteq Items
  BY <1>5 DEF Items
<1> HIDE DEF found
<1>7. /\ l \in [todo : SUBSET Items, rows : SUBSET Items]
      /\ l.todo = {} /\ l.rows = found
  BY <1>6 DEF Empty
<1> HIDE DEF l
<1>8. /\ pc' \in [Jobs -> Places]
      /\ local' \in [Jobs -> [todo : SUBSET Items, rows : SUBSET Items]]
      /\ \A i \in Jobs : pc'[i] = "cities" => local'[i].rows \subseteq Row
      /\ \A i \in Jobs : pc'[i] \in {"cities", "settle"} => local'[i].todo \subseteq Markets
      /\ pc'["pipeline"] = "push" /\ local'["pipeline"] = l
  BY <1>1, <1>2, <1>7, JobsFacts, GotoTypes DEF Places
<1>9. AlertTypes'
  BY <1>1, <1>2, <1>8 DEF AlertTypes
<1>10. PushesBounded'
  BY <1>1 DEF AlertInv, NotifyInv, PushesBounded
<1>11. \A m \in Markets : ~Between(m)
  BY <1>1 DEF Between
<1>12. \A m \in Markets : NotifiedToday(m)' = NotifiedToday(m)
  BY <1>1 DEF NotifiedToday
<1>13. TodayRecorded'
  BY <1>1, <1>11, <1>12 DEF AlertInv, NotifyInv, TodayRecorded
<1>14. Notifier' = l
  BY <1>8 DEF Notifier
<1>15. \A r \in found : \A d \in Days : d = day => pushes[r.market][d] <= bounds.crashes
  BY <1>4, <1>5, <1>11 DEF AlertInv, NotifyInv, TodayRecorded
<1>16. CandidatesOpen'
  BY <1>1, <1>5, <1>7, <1>8, <1>14, <1>15 DEF CandidatesOpen
<1>17. QED
  BY <1>9, <1>10, <1>13, <1>16 DEF AlertInv, NotifyInv

LEMMA PushKeepsInv ==
  ASSUME AlertInv, Push PROVE AlertInv'
<1>1. /\ pc["pipeline"] = "push" /\ UNCHANGED <<day, forecast, weather, alerts>>
  BY DEF Push, world
<1>2. /\ AlertTypes /\ CandidatesOpen /\ PushesBounded /\ TodayRecorded
      /\ Notifier \in [todo : SUBSET Items, rows : SUBSET Items]
      /\ bounds \in [inserts : Nat, fails : Nat, crashes : Nat]
      /\ pushes \in [Markets -> [Days -> Nat]]
  BY JobsFacts DEF AlertInv, NotifyInv, AlertTypes, Notifier
<1>3. PICK r \in Notifier.rows :
        \/ /\ Goto("pipeline", "pushed", [Notifier EXCEPT !.todo = {r}])
           /\ pushes' = [pushes EXCEPT ![r.market][day] = @ + 1]
           /\ UNCHANGED bounds
        \/ /\ bounds' = [bounds EXCEPT !.fails = @ + 1]
           /\ Goto("pipeline", "push", [Notifier EXCEPT !.rows = @ \ {r}])
           /\ UNCHANGED pushes
  BY DEF Push, Notifier
<1>4. /\ \A s \in Notifier.rows : s \in Candidate /\ s.market \in Markets
                                  /\ s.id \in 1..Len(alerts[s.market])
      /\ \A s, t \in Notifier.rows : s.market = t.market => s = t
      /\ Notifier.todo = {}
      /\ \A s \in Notifier.rows : \A d \in Days :
           d = day => pushes[s.market][d] <= bounds.crashes
  BY <1>1, <1>2 DEF CandidatesOpen, Candidate
<1>5. \A m \in Markets : NotifiedToday(m)' = NotifiedToday(m) /\ ~Between(m)
  BY <1>1 DEF NotifiedToday, Between
<1>6. CASE /\ Goto("pipeline", "pushed", [Notifier EXCEPT !.todo = {r}])
           /\ pushes' = [pushes EXCEPT ![r.market][day] = @ + 1]
           /\ bounds' = bounds
  <2> DEFINE l == [Notifier EXCEPT !.todo = {r}]
  <2>1. /\ l \in [todo : SUBSET Items, rows : SUBSET Items]
        /\ l.todo = {r} /\ l.rows = Notifier.rows
    BY <1>2, <1>3
  <2>2. Goto("pipeline", "pushed", l)
    BY <1>6
  <2> HIDE DEF l
  <2>3. /\ pc' \in [Jobs -> Places]
        /\ local' \in [Jobs -> [todo : SUBSET Items, rows : SUBSET Items]]
        /\ \A i \in Jobs : pc'[i] = "cities" => local'[i].rows \subseteq Row
        /\ \A i \in Jobs : pc'[i] \in {"cities", "settle"} => local'[i].todo \subseteq Markets
        /\ pc'["pipeline"] = "pushed" /\ Notifier' = l
    BY <1>2, <2>1, <2>2, JobsFacts, GotoTypes DEF Places, Notifier
  <2>4. /\ r.market \in Markets
        /\ \A m \in Markets : \A d \in Days :
             pushes'[m][d] = IF m = r.market /\ d = day THEN pushes[m][d] + 1
                                                       ELSE pushes[m][d]
        /\ pushes' \in [Markets -> [Days -> Nat]]
    <3>1. r.market \in Markets
      BY <1>3, <1>4
    <3> DEFINE n == r.market
    <3> HIDE DEF n
    <3>2. n \in Markets /\ pushes' = [pushes EXCEPT ![n][day] = @ + 1]
      BY <1>6, <3>1 DEF n
    <3>3. \A m \in Markets : \A d \in Days :
            pushes'[m][d] = IF m = n /\ d = day THEN pushes[m][d] + 1 ELSE pushes[m][d]
      BY <1>2, <3>2
    <3>4. \A m \in Markets : \A d \in Days : pushes'[m][d] \in Nat
      BY <1>2, <3>3
    <3>5. pushes' \in [Markets -> [Days -> Nat]]
      <4>1. /\ pushes' = [m \in Markets |-> pushes'[m]]
            /\ \A m \in Markets : pushes'[m] = [d \in Days |-> pushes'[m][d]]
        BY <1>2, <3>2
      <4>2. \A m \in Markets : pushes'[m] \in [Days -> Nat]
        BY <3>4, <4>1
      <4>3. QED
        BY <4>1, <4>2
    <3>6. QED
      BY <3>1, <3>3, <3>5 DEF n
  <2>5. AlertTypes'
    BY <1>1, <1>2, <1>6, <2>3, <2>4 DEF AlertTypes
  <2>6. bounds.crashes \in Nat /\ \A m \in Markets : \A d \in Days : pushes[m][d] \in Nat
    BY <1>2
  <2>7. PushesBounded'
    <3> SUFFICES ASSUME NEW m \in Markets, NEW d \in Days
                 PROVE  /\ pushes'[m][d] <= 1 + bounds'.crashes
                        /\ d > day' => pushes'[m][d] = 0
      BY DEF PushesBounded
    <3>1. pushes[m][d] <= 1 + bounds.crashes /\ (d > day => pushes[m][d] = 0)
      BY <1>2 DEF PushesBounded
    <3>2. CASE m = r.market /\ d = day
      <4>1. pushes[m][d] <= bounds.crashes /\ day \in Nat
        BY <1>2, <1>3, <1>4, <3>2 DEF AlertTypes
      <4>2. QED
        BY <1>1, <1>6, <2>4, <2>6, <3>2, <4>1
    <3>3. CASE ~(m = r.market /\ d = day)
      BY <1>1, <1>6, <2>4, <3>1, <3>3
    <3>4. QED
      BY <3>2, <3>3
  <2>8. TodayRecorded'
    <3> SUFFICES ASSUME NEW m \in Markets, NEW d \in Days,
                        d = day', ~NotifiedToday(m)', ~Between(m)'
                 PROVE  pushes'[m][d] <= bounds'.crashes
      BY DEF TodayRecorded
    <3>1. m # r.market
      BY <2>1, <2>3 DEF Between
    <3>2. pushes[m][d] <= bounds.crashes
      BY <1>1, <1>2, <1>5 DEF TodayRecorded
    <3>3. QED
      BY <1>6, <2>4, <3>1, <3>2
  <2>9. CandidatesOpen'
    <3>1. \A s \in Notifier'.rows \ Notifier'.todo : \A d \in Days :
            d = day' => pushes'[s.market][d] <= bounds'.crashes
      BY <1>1, <1>3, <1>4, <1>6, <2>1, <2>3, <2>4
    <3>2. QED
      BY <1>1, <1>3, <1>4, <2>1, <2>3, <3>1 DEF CandidatesOpen
  <2>10. QED
    BY <2>5, <2>7, <2>8, <2>9 DEF AlertInv, NotifyInv
<1>7. CASE /\ bounds' = [bounds EXCEPT !.fails = @ + 1]
           /\ Goto("pipeline", "push", [Notifier EXCEPT !.rows = @ \ {r}])
           /\ pushes' = pushes
  <2> DEFINE l == [Notifier EXCEPT !.rows = @ \ {r}]
  <2>1. /\ l \in [todo : SUBSET Items, rows : SUBSET Items]
        /\ l.todo = {} /\ l.rows = Notifier.rows \ {r}
    BY <1>2, <1>4
  <2>2. Goto("pipeline", "push", l)
    BY <1>7
  <2> HIDE DEF l
  <2>3. /\ pc' \in [Jobs -> Places]
        /\ local' \in [Jobs -> [todo : SUBSET Items, rows : SUBSET Items]]
        /\ \A i \in Jobs : pc'[i] = "cities" => local'[i].rows \subseteq Row
        /\ \A i \in Jobs : pc'[i] \in {"cities", "settle"} => local'[i].todo \subseteq Markets
        /\ pc'["pipeline"] = "push" /\ Notifier' = l
    BY <1>2, <2>1, <2>2, JobsFacts, GotoTypes DEF Places, Notifier
  <2>4. bounds' \in [inserts : Nat, fails : Nat, crashes : Nat] /\ bounds'.crashes = bounds.crashes
    BY <1>2, <1>7
  <2>5. AlertTypes'
    BY <1>1, <1>2, <1>7, <2>3, <2>4 DEF AlertTypes
  <2>6. PushesBounded'
    BY <1>1, <1>2, <1>7, <2>4 DEF PushesBounded
  <2>7. TodayRecorded'
    BY <1>1, <1>2, <1>5, <1>7, <2>4 DEF TodayRecorded
  <2>8. CandidatesOpen'
    BY <1>1, <1>4, <1>7, <2>1, <2>3, <2>4 DEF CandidatesOpen
  <2>9. QED
    BY <2>5, <2>6, <2>7, <2>8 DEF AlertInv, NotifyInv
<1>8. QED
  BY <1>3, <1>6, <1>7

LEMMA RecordPushKeepsInv ==
  ASSUME AlertInv, RecordPush PROVE AlertInv'
<1>1. /\ pc["pipeline"] = "pushed"
      /\ UNCHANGED <<day, forecast, weather, pushes, bounds>>
  BY DEF RecordPush, world
<1>2. /\ AlertTypes /\ CandidatesOpen /\ PushesBounded /\ TodayRecorded
      /\ Notifier \in [todo : SUBSET Items, rows : SUBSET Items]
      /\ alerts \in [Markets -> Seq(Row)] /\ day \in Nat
  BY JobsFacts DEF AlertInv, NotifyInv, AlertTypes, Notifier
<1>3. PICK r \in Notifier.todo :
        /\ alerts' = [alerts EXCEPT ![r.market][r.id].notified = day]
        /\ Goto("pipeline", "push", [Notifier EXCEPT !.todo = {}, !.rows = @ \ {r}])
  BY DEF RecordPush, Notifier
<1>4. /\ \A s \in Notifier.rows : s \in Candidate /\ s.market \in Markets
                                  /\ s.id \in 1..Len(alerts[s.market])
      /\ \A s, t \in Notifier.rows : s.market = t.market => s = t
      /\ Notifier.todo = {r} /\ r \in Notifier.rows
      /\ \A s \in Notifier.rows \ {r} : \A d \in Days :
           d = day => pushes[s.market][d] <= bounds.crashes
  BY <1>1, <1>2, <1>3 DEF CandidatesOpen, Candidate
<1> DEFINE l == [Notifier EXCEPT !.todo = {}, !.rows = @ \ {r}]
<1>5. /\ l \in [todo : SUBSET Items, rows : SUBSET Items]
      /\ l.todo = {} /\ l.rows = Notifier.rows \ {r}
  BY <1>2
<1>6. Goto("pipeline", "push", l)
  BY <1>3
<1> HIDE DEF l
<1>7. /\ pc' \in [Jobs -> Places]
      /\ local' \in [Jobs -> [todo : SUBSET Items, rows : SUBSET Items]]
      /\ \A i \in Jobs : pc'[i] = "cities" => local'[i].rows \subseteq Row
      /\ \A i \in Jobs : pc'[i] \in {"cities", "settle"} => local'[i].todo \subseteq Markets
      /\ pc'["pipeline"] = "push" /\ Notifier' = l
  BY <1>2, <1>5, <1>6, JobsFacts, GotoTypes DEF Places, Notifier
<1> DEFINE m == r.market
<1> DEFINE old == alerts[m]
<1>8. m \in Markets /\ r.id \in 1..Len(old) /\ old \in Seq(Row)
  BY <1>2, <1>4
<1>9. [old[r.id] EXCEPT !.notified = day] \in Row
      /\ [old[r.id] EXCEPT !.notified = day].notified = day
  <2>1. old[r.id] \in Row
    BY <1>8
  <2>2. day \in Int
    BY <1>2
  <2>3. \A x \in Row : /\ [x EXCEPT !.notified = day] \in Row
                       /\ [x EXCEPT !.notified = day].notified = day
    BY <2>2 DEF Row
  <2> HIDE DEF old
  <2>4. QED
    BY <2>1, <2>3
<1>10. /\ alerts'[m] = [old EXCEPT ![r.id] = [old[r.id] EXCEPT !.notified = day]]
       /\ \A n \in Markets \ {m} : alerts'[n] = alerts[n]
       /\ alerts' = [n \in Markets |-> alerts'[n]]
  BY <1>2, <1>3, <1>8
<1> HIDE DEF m, old
<1>11. alerts'[m] \in Seq(Row) /\ Len(alerts'[m]) = Len(old) /\ alerts'[m][r.id].notified = day
  BY <1>8, <1>9, <1>10
<1>12. alerts' \in [Markets -> Seq(Row)]
  BY <1>2, <1>8, <1>10, <1>11
<1>13. AlertTypes'
  BY <1>1, <1>2, <1>7, <1>12 DEF AlertTypes
<1>14. PushesBounded'
  BY <1>1, <1>2 DEF PushesBounded
<1>15. NotifiedToday(m)'
  BY <1>1, <1>8, <1>11 DEF NotifiedToday
<1>16. \A n \in Markets \ {m} : NotifiedToday(n)' = NotifiedToday(n) /\ ~Between(n)
  BY <1>1, <1>4, <1>10 DEF NotifiedToday, Between, m
<1>17. TodayRecorded'
  BY <1>1, <1>2, <1>15, <1>16 DEF TodayRecorded
<1>18. \A n \in Markets : Len(alerts'[n]) = Len(alerts[n])
  BY <1>10, <1>11 DEF old
<1>19. CandidatesOpen'
  BY <1>1, <1>4, <1>5, <1>7, <1>18 DEF CandidatesOpen
<1>20. QED
  BY <1>13, <1>14, <1>17, <1>19 DEF AlertInv, NotifyInv

LEMMA EndPushingKeepsInv ==
  ASSUME AlertInv, EndPushing PROVE AlertInv'
<1>1. /\ Goto("pipeline", "idle", Empty) /\ pc["pipeline"] = "push"
      /\ UNCHANGED <<world, alerts, pushes, bounds>>
  BY DEF EndPushing
<1>2. /\ bounds' \in [inserts : Nat, fails : Nat, crashes : Nat]
      /\ bounds'.crashes >= bounds.crashes
  BY <1>1 DEF AlertInv, AlertTypes
<1>3. QED
  BY <1>1, <1>2, EmptyType, JobsFacts, JobKeepsInv DEF Places

---------------------------------------------------------------------------
(* Deaths and the world                                                    *)

\* A death between a push and its record is paid for.
LEMMA CrashKeepsInv ==
  ASSUME AlertInv, NEW j \in Jobs, Crash(j) PROVE AlertInv'
<1> DEFINE at == IF j # "pipeline" THEN "idle"
                 ELSE CASE pc[j] = "cities" -> "results"
                        [] pc[j] = "settle" -> "notify"
                        [] OTHER -> "idle"
<1>1. /\ Goto(j, at, Empty)
      /\ bounds' = [bounds EXCEPT !.crashes = @ + 1]
      /\ UNCHANGED <<day, forecast, weather, alerts, pushes>>
  BY DEF Crash, world
<1>2. at \in Places /\ at \notin {"cities", "settle", "push", "pushed"}
  BY DEF Places
<1> HIDE DEF at
<1>3. /\ AlertTypes /\ bounds \in [inserts : Nat, fails : Nat, crashes : Nat]
      /\ alerts \in [Markets -> Seq(Row)]
  BY DEF AlertInv, AlertTypes
<1>4. /\ pc' \in [Jobs -> Places]
      /\ local' \in [Jobs -> [todo : SUBSET Items, rows : SUBSET Items]]
      /\ \A i \in Jobs : pc'[i] = "cities" => local'[i].rows \subseteq Row
      /\ \A i \in Jobs : pc'[i] \in {"cities", "settle"} => local'[i].todo \subseteq Markets
      /\ \A i \in Jobs \ {j} : pc'[i] = pc[i] /\ local'[i] = local[i]
      /\ pc'[j] = at
  BY <1>1, <1>2, <1>3, EmptyType, GotoTypes
<1>5. /\ bounds' \in [inserts : Nat, fails : Nat, crashes : Nat]
      /\ bounds'.crashes >= bounds.crashes /\ bounds'.crashes >= bounds.crashes + 1
  BY <1>1, <1>3
<1>6. AlertTypes'
  BY <1>1, <1>3, <1>4, <1>5 DEF AlertTypes
<1>7. \/ pc'["pipeline"] = pc["pipeline"] /\ local'["pipeline"] = local["pipeline"]
      \/ pc'["pipeline"] \notin {"push", "pushed"}
  BY <1>2, <1>4, JobsFacts
<1>8. \A m \in Markets : Len(alerts'[m]) >= Len(alerts[m])
  BY <1>1, <1>3
<1>9. NotifyInv'
  BY <1>1, <1>5, <1>6, <1>7, <1>8, ElsewhereKeepsNotify
<1>10. QED
  BY <1>6, <1>9 DEF AlertInv

\* On a new day nothing was pushed yet.
LEMMA WorldKeepsInv ==
  ASSUME AlertInv, World PROVE AlertInv'
<1>1. UNCHANGED <<alerts, pc, local, pushes, bounds>>
  BY DEF World
<1>2. /\ AlertTypes /\ PushesBounded /\ TodayRecorded /\ CandidatesOpen
      /\ day \in Nat /\ bounds.crashes \in Nat
      /\ forecast \in Nat /\ weather \in [Markets -> Nat]
  BY DEF AlertInv, NotifyInv, AlertTypes
<1>3. CASE UNCHANGED <<day>>
  <2>1. forecast' \in Nat /\ weather' \in [Markets -> Nat]
    <3>1. CASE NextDay
      BY <1>2, <3>1 DEF NextDay
    <3>2. CASE NewForecast
      BY <1>2, <3>2 DEF NewForecast
    <3>3. ASSUME NEW m \in Markets, NewWeather(m) PROVE forecast' \in Nat /\ weather' \in [Markets -> Nat]
      BY <1>2, <3>3 DEF NewWeather
    <3>4. ASSUME NEW m \in Markets, Resolve(m) PROVE forecast' \in Nat /\ weather' \in [Markets -> Nat]
      BY <1>2, <3>4 DEF Resolve
    <3>5. QED
      BY <3>1, <3>2, <3>3, <3>4 DEF World
  <2>2. AlertTypes'
    BY <1>1, <1>2, <1>3, <2>1 DEF AlertTypes
  <2>3. \A m \in Markets : Len(alerts'[m]) >= Len(alerts[m])
    BY <1>1 DEF AlertInv, AlertTypes
  <2>4. NotifyInv'
    BY <1>1, <1>2, <1>3, <2>2, <2>3, ElsewhereKeepsNotify
  <2>5. QED
    BY <2>2, <2>4 DEF AlertInv
<1>4. CASE NextDay
  <2>1. day' = day + 1 /\ UNCHANGED <<forecast, weather>>
    BY <1>4 DEF NextDay
  <2>2. AlertTypes'
    BY <1>1, <1>2, <2>1 DEF AlertTypes
  <2>3. \A d \in Days : d \in Int
    BY DEF Days
  <2>4. PushesBounded'
    BY <1>1, <1>2, <2>1, <2>3 DEF PushesBounded
  <2>5. \A m \in Markets : \A d \in Days : d = day' => pushes'[m][d] = 0
    BY <1>1, <1>2, <2>1, <2>3 DEF PushesBounded
  <2>6. TodayRecorded'
    BY <1>1, <1>2, <2>5 DEF TodayRecorded
  <2>7. CandidatesOpen'
    <3>1. Notifier' = Notifier
      BY <1>1 DEF Notifier
    <3>2. pc["pipeline"] \in {"push", "pushed"} => \A r \in Notifier.rows : r.market \in Markets
      BY <1>2 DEF CandidatesOpen, Candidate
    <3>3. QED
      BY <1>1, <1>2, <2>5, <3>1, <3>2 DEF CandidatesOpen
  <2>8. QED
    BY <2>2, <2>4, <2>6, <2>7 DEF AlertInv, NotifyInv
<1>5. QED
  BY <1>3, <1>4 DEF World, NewForecast, NewWeather, Resolve

LEMMA AlertStep ==
  ASSUME AlertInv, [Next]_vars PROVE AlertInv'
<1>1. ASSUME NEW j \in Jobs, Pricing(j) PROVE AlertInv'
  BY <1>1, StartPricingKeepsInv, PriceCityKeepsInv, InsertKeepsInv DEF Pricing
<1>2. ASSUME NEW j \in Jobs, Settling(j) PROVE AlertInv'
  BY <1>2, ReadPendingKeepsInv, SettleMarketKeepsInv, EndSettlingKeepsInv DEF Settling
<1>3. ASSUME NEW j \in Jobs, Crash(j) PROVE AlertInv'
  BY <1>3, CrashKeepsInv
<1>4. CASE SkipPricing
  BY <1>4, SkipPricingKeepsInv
<1>5. CASE Notifying
  BY <1>5, ReadCandidatesKeepsInv, PushKeepsInv, RecordPushKeepsInv, EndPushingKeepsInv
     DEF Notifying
<1>6. CASE World
  BY <1>6, WorldKeepsInv
<1>7. CASE UNCHANGED vars
  <2>1. AlertTypes'
    BY <1>7 DEF vars, world, AlertInv, AlertTypes
  <2>2. \A m \in Markets : Len(alerts'[m]) >= Len(alerts[m])
    BY <1>7 DEF vars, AlertInv, AlertTypes
  <2>3. bounds'.crashes >= bounds.crashes
    BY <1>7 DEF vars, AlertInv, AlertTypes
  <2>4. UNCHANGED <<day, alerts, pushes, pc, local>>
    BY <1>7 DEF vars, world
  <2>5. NotifyInv'
    BY <2>1, <2>2, <2>3, <2>4, ElsewhereKeepsNotify
  <2>6. QED
    BY <2>1, <2>5 DEF AlertInv
<1>8. QED
  BY <1>1, <1>2, <1>3, <1>4, <1>5, <1>6, <1>7 DEF Next

\* "Only notifies once per market per calendar day": whatever scripts overlap
\* and fail, the pushes of a market on a date exceed one only by the deaths of
\* a script, for any number of markets, days and runs.
THEOREM PushedOnce == Spec => []NotifiedOnce
<1>1. Init => AlertInv
  BY AlertStart
<1>2. AlertInv /\ [Next]_vars => AlertInv'
  BY AlertStep
<1>3. AlertInv => NotifiedOnce
  BY DEF AlertInv, NotifyInv, PushesBounded, NotifiedOnce
<1>4. QED
  BY <1>1, <1>2, <1>3, PTL DEF Spec

---------------------------------------------------------------------------
(* What a row holds                                                        *)

WorldTypes ==
  /\ day \in Days /\ forecast \in 0..MaxVersion
  /\ weather \in [Markets -> 0..MaxVersion]
  /\ result \in [Markets -> {"none", "yes", "no", "other"}]
  /\ alone \in [Jobs -> BOOLEAN]

\* A row is its market's, is not priced from what nobody knows yet, and is
\* settled, if it is, with its market's result.
Sound(r, m) ==
  /\ r \in AlertRow /\ r.market = m
  /\ r.forecast <= forecast /\ r.seen <= weather[m]
  /\ r.settled \in {"none", result[m]}

RowsSound == \A m \in Markets : \A k \in 1..Len(alerts[m]) : Sound(alerts[m][k], m)

\* A price is no older than the market's newest unsettled row.
Fresh(r, m) ==
  Unsettled(m) # {} =>
    /\ r.forecast >= alerts[m][Newest(Unsettled(m))].forecast
    /\ r.seen >= alerts[m][Newest(Unsettled(m))].seen

\* What a job has priced and not inserted yet.
HeldSound ==
  \A j \in Jobs : pc[j] = "cities" =>
    \A r \in local[j].rows :
      /\ r.market \in Markets /\ Sound(r, r.market) /\ r.settled = "none"
      /\ alone[j] => Fresh(r, r.market)

RowInv == WorldTypes /\ RowsSound /\ HeldSound

\* What a step that inserts nothing may do to a market's rows.
SameRows(m) ==
  /\ Len(alerts'[m]) = Len(alerts[m])
  /\ \A k \in 1..Len(alerts[m]) :
       /\ alerts'[m][k] \in AlertRow /\ alerts'[m][k].market = m
       /\ alerts'[m][k].forecast = alerts[m][k].forecast
       /\ alerts'[m][k].seen = alerts[m][k].seen
       /\ alerts'[m][k].settled \in {"none", result'[m]}
  /\ Unsettled(m)' \in {Unsettled(m), {}}

\* The versions and results only advance.
Onward ==
  /\ WorldTypes' /\ forecast' >= forecast
  /\ \A m \in Markets : weather'[m] >= weather[m]
  /\ \A m \in Markets : result[m] \in {"none", result'[m]}

LEMMA RowStart == Init => RowInv
<1> SUFFICES ASSUME Init PROVE RowInv
  OBVIOUS
<1>1. 0 \in Days
  <2> DEFINE S == {EventDay[m] : m \in Markets}
  <2>1. IsFiniteSet(S)
    <3>1. EventDay \in Surjection(Markets, S)
      BY PipelineAssumption DEF Surjection
    <3> HIDE DEF S
    <3>2. QED
      BY <3>1, PipelineAssumption, FS_Surjection
  <2>2. S \in SUBSET Int /\ S # {} /\ \A x \in S : x \in Nat
    BY PipelineAssumption
  <2>3. Max(S) \in Nat
    <3> HIDE DEF S
    <3> QED BY <2>1, <2>2, MaxIsGreatest
  <2>4. QED
    BY <2>3 DEF Days
<1>2. 0 \in 0..MaxVersion
  BY PipelineAssumption
<1>3. WorldTypes
  <2>1. day \in Days /\ forecast \in 0..MaxVersion /\ weather \in [Markets -> 0..MaxVersion]
    BY <1>1, <1>2 DEF Init
  <2>2. result \in [Markets -> {"none", "yes", "no", "other"}] /\ alone \in [Jobs -> BOOLEAN]
    BY DEF Init
  <2>3. QED
    BY <2>1, <2>2 DEF WorldTypes
<1>4. RowsSound
  <2>1. \A m \in Markets : Len(alerts[m]) = 0
    BY DEF Init
  <2>2. QED
    BY <2>1 DEF RowsSound
<1>5. HeldSound
  <2>1. \A j \in Jobs : pc[j] = "idle"
    BY DEF Init
  <2>2. QED
    BY <2>1 DEF HeldSound
<1>6. QED
  BY <1>3, <1>4, <1>5 DEF RowInv

\* Rows stay sound as long as nothing is inserted.
LEMMA RowsKept ==
  ASSUME RowInv, Onward, \A m \in Markets : SameRows(m)
  PROVE  RowsSound'
<1> SUFFICES ASSUME NEW m \in Markets, NEW k \in 1..Len(alerts'[m])
             PROVE  Sound(alerts[m][k], m)'
  BY DEF RowsSound
<1>1. /\ k \in 1..Len(alerts[m])
      /\ alerts'[m][k] \in AlertRow /\ alerts'[m][k].market = m
      /\ alerts'[m][k].forecast = alerts[m][k].forecast
      /\ alerts'[m][k].seen = alerts[m][k].seen
      /\ alerts'[m][k].settled \in {"none", result'[m]}
  BY DEF SameRows
<1>2. /\ alerts[m][k].forecast <= forecast /\ alerts[m][k].seen <= weather[m]
      /\ alerts[m][k].forecast \in Int /\ alerts[m][k].seen \in Int
  BY <1>1 DEF RowInv, RowsSound, Sound, AlertRow
<1>3. /\ forecast \in Int /\ forecast' \in Int /\ forecast' >= forecast
      /\ weather[m] \in Int /\ weather'[m] \in Int /\ weather'[m] >= weather[m]
  <2>1. forecast \in 0..MaxVersion /\ forecast' \in 0..MaxVersion
    BY DEF RowInv, WorldTypes, Onward
  <2>2. weather[m] \in 0..MaxVersion /\ weather'[m] \in 0..MaxVersion
    BY DEF RowInv, WorldTypes, Onward
  <2>3. QED
    BY <2>1, <2>2 DEF Onward
<1>4. AlertRow' = AlertRow
  BY DEF AlertRow, Days
<1>5. QED
  BY <1>1, <1>2, <1>3, <1>4 DEF Sound

\* A price a job holds stays sound, and fresh as long as nothing is inserted.
LEMMA HeldKept ==
  ASSUME AlertInv, RowInv, Onward, \A m \in Markets : SameRows(m),
         NEW m \in Markets, NEW r, Sound(r, m), r.settled = "none"
  PROVE  /\ Sound(r, m)'
         /\ Fresh(r, m) => Fresh(r, m)'
<1>1. /\ forecast \in Int /\ forecast' \in Int /\ forecast' >= forecast
      /\ weather[m] \in Int /\ weather'[m] \in Int /\ weather'[m] >= weather[m]
  <2>1. forecast \in 0..MaxVersion /\ forecast' \in 0..MaxVersion
    BY DEF RowInv, WorldTypes, Onward
  <2>2. weather[m] \in 0..MaxVersion /\ weather'[m] \in 0..MaxVersion
    BY DEF RowInv, WorldTypes, Onward
  <2>3. QED
    BY <2>1, <2>2 DEF Onward
<1>2. AlertRow' = AlertRow
  BY DEF AlertRow, Days
<1>3. r.forecast \in Int /\ r.seen \in Int
  BY DEF Sound, AlertRow
<1>4. Sound(r, m)'
  BY <1>1, <1>2, <1>3 DEF Sound
<1>5. ASSUME Fresh(r, m) PROVE Fresh(r, m)'
  <2> DEFINE U == Unsettled(m)
             k == Newest(Unsettled(m))
  <2> SUFFICES ASSUME Unsettled(m)' # {}
               PROVE  /\ r.forecast >= alerts'[m][Newest(Unsettled(m)')].forecast
                      /\ r.seen >= alerts'[m][Newest(Unsettled(m)')].seen
    BY DEF Fresh, Newest
  <2>1. Unsettled(m)' = U /\ U # {}
    BY DEF SameRows
  <2>2. k \in 1..Len(alerts[m])
    BY <2>1, NewestIsRow DEF AlertInv
  <2>3. /\ alerts'[m][k].forecast = alerts[m][k].forecast
        /\ alerts'[m][k].seen = alerts[m][k].seen
    BY <2>2 DEF SameRows
  <2>4. Newest(Unsettled(m)') = k
    BY <2>1
  <2>5. QED
    BY <1>5, <2>1, <2>3, <2>4 DEF Fresh
<1>6. QED
  BY <1>4, <1>5

\* A step that inserts nothing and after which a job holds no price it did not
\* hold before.
LEMMA RowInvKept ==
  ASSUME AlertInv, RowInv, Onward, \A m \in Markets : SameRows(m),
         \A j \in Jobs : pc'[j] = "cities" =>
           \A r \in local'[j].rows :
             pc[j] = "cities" /\ r \in local[j].rows /\ alone'[j] = alone[j]
  PROVE  RowInv'
<1>1. RowsSound'
  BY RowsKept
<1>2. HeldSound'
  <2> SUFFICES ASSUME NEW j \in Jobs, pc'[j] = "cities", NEW r \in local'[j].rows
               PROVE  /\ r.market \in Markets /\ Sound(r, r.market)' /\ r.settled = "none"
                      /\ alone'[j] => Fresh(r, r.market)'
    BY DEF HeldSound
  <2>1. pc[j] = "cities" /\ r \in local[j].rows /\ alone'[j] = alone[j]
    OBVIOUS
  <2>2. /\ r.market \in Markets /\ Sound(r, r.market) /\ r.settled = "none"
        /\ alone[j] => Fresh(r, r.market)
    BY <2>1 DEF RowInv, HeldSound
  <2> DEFINE m == r.market
  <2>3. Sound(r, m)' /\ (Fresh(r, m) => Fresh(r, m)')
    <3>1. m \in Markets /\ Sound(r, m)
      BY <2>2
    <3> HIDE DEF m
    <3> QED BY <2>2, <3>1, HeldKept
  <2>4. QED
    BY <2>1, <2>2, <2>3
<1>3. QED
  BY <1>1, <1>2 DEF RowInv, Onward

LEMMA RowsUnchanged ==
  ASSUME AlertInv, RowInv, alerts' = alerts,
         \A m \in Markets : result[m] \in {"none", result'[m]}
  PROVE  \A m \in Markets : SameRows(m)
<1> SUFFICES ASSUME NEW m \in Markets PROVE SameRows(m)
  OBVIOUS
<1>1. \A k \in 1..Len(alerts[m]) :
        /\ alerts[m][k] \in AlertRow /\ alerts[m][k].market = m
        /\ alerts[m][k].settled \in {"none", result'[m]}
  BY DEF RowInv, RowsSound, Sound
<1>2. Unsettled(m)' = Unsettled(m)
  BY DEF Unsettled
<1>3. QED
  BY <1>1, <1>2 DEF SameRows

\* A step of a job that leaves the rows and the world alone: it holds nothing
\* new.
LEMMA JobKeepsRows ==
  ASSUME AlertInv, RowInv, AlertInv', NEW j \in Jobs, NEW at, NEW l, Goto(j, at, l),
         at = "cities" => l.rows = {} \/ (pc[j] = "cities" /\ l.rows \subseteq local[j].rows),
         alone' = alone \/ (alone' = [alone EXCEPT ![j] = TRUE] /\ l.rows = {}),
         UNCHANGED <<world, alerts>>
  PROVE  RowInv'
<1>1. /\ alone \in [Jobs -> BOOLEAN] /\ pc \in [Jobs -> Places]
      /\ DOMAIN local = Jobs
  BY DEF AlertInv, AlertTypes, RowInv, WorldTypes
<1>2. \A i \in Jobs : /\ pc'[i] = IF i = j THEN at ELSE pc[i]
                      /\ local'[i] = IF i = j THEN l ELSE local[i]
  BY <1>1 DEF Goto
<1>3. alone' \in [Jobs -> BOOLEAN] /\ \A i \in Jobs : i # j => alone'[i] = alone[i]
  BY <1>1
<1>4. Onward
  <2>1. WorldTypes'
    BY <1>3 DEF RowInv, WorldTypes, world, Days
  <2>2. forecast \in 0..MaxVersion /\ \A m \in Markets : weather[m] \in 0..MaxVersion
    BY DEF RowInv, WorldTypes
  <2>3. QED
    BY <2>1, <2>2 DEF Onward, world
<1>5. \A m \in Markets : SameRows(m)
  BY RowsUnchanged DEF world
<1>6. ASSUME NEW i \in Jobs, pc'[i] = "cities", NEW r \in local'[i].rows
      PROVE  pc[i] = "cities" /\ r \in local[i].rows /\ alone'[i] = alone[i]
  <2>1. CASE i # j
    BY <1>2, <1>3, <1>6, <2>1
  <2>2. CASE i = j
    <3>1. l.rows # {} /\ at = "cities" /\ r \in l.rows
      BY <1>2, <1>6, <2>2
    <3>2. alone' = alone
      BY <3>1
    <3>3. QED
      BY <2>2, <3>1, <3>2
  <2>3. QED
    BY <2>1, <2>2
<1>7. QED
  BY <1>4, <1>5, <1>6, RowInvKept

\* What pricing a market comes to.
LEMMA PricedIsSound ==
  ASSUME AlertInv, RowInv, NEW m \in Markets, NEW f \in 0..MaxVersion, f <= forecast,
         Unsettled(m) # {} => f >= alerts[m][Newest(Unsettled(m))].forecast
  PROVE  /\ Priced(m, f).market = m /\ Priced(m, f).settled = "none"
         /\ Sound(Priced(m, f), m) /\ Fresh(Priced(m, f), m)
<1> DEFINE r == Priced(m, f)
<1>1. /\ r.market = m /\ r.settled = "none" /\ r.forecast = f /\ r.seen = weather[m]
      /\ r.lead = Lead(m) /\ r.notified = NoDay /\ r.actionable = (weather[m] > 0)
  BY DEF Priced
<1>2. weather[m] \in 0..MaxVersion /\ Lead(m) \in Int
  <2>1. day \in Nat /\ EventDay[m] \in Nat
    BY PipelineAssumption DEF AlertInv, AlertTypes
  <2>2. QED
    BY <2>1 DEF RowInv, WorldTypes, Lead
<1>3. r \in AlertRow
  BY <1>2 DEF Priced, AlertRow
<1>4. Sound(r, m)
  BY <1>1, <1>2, <1>3 DEF Sound
<1>5. ASSUME Unsettled(m) # {}
      PROVE  weather[m] >= alerts[m][Newest(Unsettled(m))].seen
  <2>1. Newest(Unsettled(m)) \in 1..Len(alerts[m])
    BY <1>5, NewestIsRow DEF AlertInv
  <2>2. Sound(alerts[m][Newest(Unsettled(m))], m)
    BY <2>1 DEF RowInv, RowsSound
  <2>3. QED
    BY <1>2, <2>2 DEF Sound, AlertRow
<1>6. Fresh(r, m)
  BY <1>1, <1>5 DEF Fresh
<1>7. QED
  BY <1>1, <1>4, <1>6

LEMMA PriceCityKeepsRows ==
  ASSUME AlertInv, RowInv, AlertInv', NEW j \in Jobs, PriceCity(j) PROVE RowInv'
<1>1. pc[j] = "cities" /\ UNCHANGED <<world, alerts, alone>>
  BY DEF PriceCity
<1>2. /\ local[j].rows \subseteq Row /\ local[j].todo \subseteq Markets
      /\ local[j] \in [todo : SUBSET Items, rows : SUBSET Items]
      /\ pc \in [Jobs -> Places] /\ DOMAIN local = Jobs
  BY <1>1 DEF AlertInv, AlertTypes
<1>3. PICK m \in local[j].todo :
        LET l == [local[j] EXCEPT !.todo = @ \ {m}]
            f == IF j = "refresh" THEN KnownForecast(m) ELSE forecast
        IN \/ Goto(j, "cities", l)
           \/ /\ j = "refresh" => SameDayKnown(m)
              /\ Goto(j, "cities", [l EXCEPT !.rows = @ \cup {Priced(m, f)}])
  BY DEF PriceCity
<1> DEFINE l == [local[j] EXCEPT !.todo = @ \ {m}]
           f == IF j = "refresh" THEN KnownForecast(m) ELSE forecast
<1>4. m \in Markets /\ l.rows = local[j].rows
  BY <1>2, <1>3
<1>5. CASE Goto(j, "cities", l)
  <2> HIDE DEF l
  <2> QED BY <1>1, <1>4, <1>5, JobKeepsRows
<1>6. CASE /\ j = "refresh" => SameDayKnown(m)
           /\ Goto(j, "cities", [l EXCEPT !.rows = @ \cup {Priced(m, f)}])
  <2> DEFINE new == Priced(m, f)
             k   == [l EXCEPT !.rows = @ \cup {new}]
  <2>1. /\ f \in 0..MaxVersion /\ f <= forecast
        /\ Unsettled(m) # {} => f >= alerts[m][Newest(Unsettled(m))].forecast
    <3>1. forecast \in 0..MaxVersion
      BY DEF RowInv, WorldTypes
    <3>2. ASSUME Unsettled(m) # {}
          PROVE  /\ KnownForecast(m) \in 0..MaxVersion /\ KnownForecast(m) <= forecast
                 /\ KnownForecast(m) = alerts[m][Newest(Unsettled(m))].forecast
      <4>1. Newest(Unsettled(m)) \in 1..Len(alerts[m])
        BY <1>4, <3>2, NewestIsRow DEF AlertInv
      <4>2. Sound(alerts[m][Newest(Unsettled(m))], m)
        BY <1>4, <4>1 DEF RowInv, RowsSound
      <4>3. QED
        BY <4>2 DEF Sound, AlertRow, KnownForecast
    <3>3. CASE j = "refresh"
      <4>1. Unsettled(m) # {}
        BY <1>6, <3>3 DEF SameDayKnown
      <4>2. KnownForecast(m) >= KnownForecast(m)
        BY <3>2, <4>1
      <4>3. QED
        BY <3>2, <3>3, <4>1, <4>2
    <3>4. CASE j # "refresh"
      BY <3>1, <3>2, <3>4
    <3>5. QED
      BY <3>3, <3>4
  <2>2. /\ new.market = m /\ new.settled = "none" /\ Sound(new, m) /\ Fresh(new, m)
    <3> HIDE DEF f
    <3> QED BY <1>4, <2>1, PricedIsSound
  <2>3. k.rows = local[j].rows \cup {new}
    BY <1>2, <1>4
  <2>4. Goto(j, "cities", k)
    BY <1>6
  <2> HIDE DEF new, k, l, f
  <2>5. \A i \in Jobs : /\ pc'[i] = pc[i]
                        /\ local'[i] = IF i = j THEN k ELSE local[i]
    BY <1>1, <1>2, <2>4 DEF Goto
  <2>6. /\ alerts' = alerts /\ alone' = alone /\ AlertRow' = AlertRow
        /\ UNCHANGED <<day, forecast, weather, result>>
    BY <1>1 DEF world, AlertRow, Days
  <2>7. \A x, r : /\ Sound(r, x)' <=> Sound(r, x)
                  /\ Fresh(r, x)' <=> Fresh(r, x)
    BY <2>6 DEF Sound, Fresh, Unsettled
  <2>8. RowsSound' /\ WorldTypes'
    BY <2>6 DEF RowInv, RowsSound, WorldTypes, Sound, Days
  <2>9. HeldSound'
    <3> SUFFICES ASSUME NEW i \in Jobs, pc'[i] = "cities", NEW r \in local'[i].rows
                 PROVE  /\ r.market \in Markets /\ Sound(r, r.market)' /\ r.settled = "none"
                        /\ alone'[i] => Fresh(r, r.market)'
      BY DEF HeldSound
    <3>1. /\ r.market \in Markets /\ Sound(r, r.market) /\ r.settled = "none"
          /\ alone[i] => Fresh(r, r.market)
      <4>1. CASE i = j /\ r = new
        BY <1>4, <2>2, <4>1
      <4>2. CASE ~(i = j /\ r = new)
        BY <2>3, <2>5, <4>2 DEF RowInv, HeldSound
      <4>3. QED
        BY <4>1, <4>2
    <3>2. QED
      BY <2>6, <2>7, <3>1
  <2>10. QED
    BY <2>8, <2>9 DEF RowInv
<1>7. QED
  BY <1>3, <1>5, <1>6

\* Where a row comes from: the market's rows stay as they are, or a price the
\* job holds is appended to them.
LEMMA InsertedRows ==
  ASSUME AlertInv, RowInv, NEW j \in Jobs, InsertAlerts(j), NEW m \in Markets
  PROVE  \/ alerts'[m] = alerts[m]
         \/ \E r \in local[j].rows : /\ r.market = m
                                     /\ alerts'[m] = Append(alerts[m], r)
<1>1. alerts' = [n \in Markets |->
           IF \E r \in local[j].rows : r.market = n
           THEN Append(alerts[n], CHOOSE r \in local[j].rows : r.market = n)
           ELSE alerts[n]]
  BY DEF InsertAlerts
<1>2. QED
  BY <1>1

LEMMA InsertKeepsRows ==
  ASSUME AlertInv, RowInv, AlertInv', NEW j \in Jobs, InsertAlerts(j) PROVE RowInv'
<1>1. /\ pc[j] = "cities" /\ UNCHANGED <<day, forecast, weather, result>>
      /\ alone' = [i \in Jobs |-> IF i = j THEN TRUE
                                  ELSE alone[i] /\ local[j].rows = {}]
      /\ Goto(j, IF j = "refresh" THEN "idle" ELSE "results", Empty)
  BY DEF InsertAlerts, world
<1>2. \A m \in Markets : alerts[m] \in Seq(Row)
  BY DEF AlertInv, AlertTypes
<1>3. \A i \in Jobs : pc'[i] = "cities" =>
        i # j /\ pc[i] = "cities" /\ local'[i] = local[i]
  <2>1. pc \in [Jobs -> Places] /\ DOMAIN local = Jobs
    BY DEF AlertInv, AlertTypes
  <2>2. QED
    BY <1>1, <2>1 DEF Goto
<1>4. AlertRow' = AlertRow
  BY <1>1 DEF AlertRow, Days
<1>5. \A x, r : Sound(r, x)' <=> Sound(r, x)
  BY <1>1, <1>4 DEF Sound
<1>6. RowsSound'
  <2> SUFFICES ASSUME NEW m \in Markets, NEW k \in 1..Len(alerts'[m])
               PROVE  Sound(alerts'[m][k], m)
    BY <1>1, <1>4 DEF RowsSound, Sound
  <2>1. CASE alerts'[m] = alerts[m]
    BY <2>1 DEF RowInv, RowsSound
  <2>2. CASE alerts'[m] # alerts[m]
    <3>1. PICK r \in local[j].rows : r.market = m /\ alerts'[m] = Append(alerts[m], r)
      BY <2>2, InsertedRows
    <3>2. Sound(r, m) /\ r \in Row
      BY <1>1, <3>1 DEF RowInv, HeldSound, AlertInv, AlertTypes
    <3>3. \/ k \in 1..Len(alerts[m]) /\ alerts'[m][k] = alerts[m][k]
          \/ alerts'[m][k] = r
      <4>1. alerts[m] \in Seq(Row)
        BY <1>2
      <4>2. QED
        BY <3>1, <3>2, <4>1
    <3>4. QED
      BY <3>2, <3>3 DEF RowInv, RowsSound
  <2>3. QED
    BY <2>1, <2>2
<1>7. HeldSound'
  <2> SUFFICES ASSUME NEW i \in Jobs, pc'[i] = "cities", NEW r \in local'[i].rows
               PROVE  /\ r.market \in Markets /\ Sound(r, r.market)' /\ r.settled = "none"
                      /\ alone'[i] => Fresh(r, r.market)'
    BY DEF HeldSound
  <2>1. i # j /\ pc[i] = "cities" /\ r \in local[i].rows
    BY <1>3
  <2>2. /\ r.market \in Markets /\ Sound(r, r.market) /\ r.settled = "none"
        /\ alone[i] => Fresh(r, r.market)
    BY <2>1 DEF RowInv, HeldSound
  <2>3. ASSUME alone'[i] PROVE Fresh(r, r.market)'
    <3>1. alone[i] /\ local[j].rows = {}
      BY <1>1, <2>1, <2>3
    <3>2. alerts'[r.market] = alerts[r.market]
      BY <2>2, <3>1, InsertedRows
    <3> DEFINE m == r.market
    <3>3. Fresh(r, m) /\ alerts'[m] = alerts[m]
      BY <2>2, <3>1, <3>2
    <3> HIDE DEF m
    <3>4. Fresh(r, m)'
      BY <3>3 DEF Fresh, Unsettled
    <3>5. QED
      BY <3>4 DEF m
  <2>4. QED
    BY <1>5, <2>2, <2>3
<1>8. WorldTypes'
  <2>1. alone' \in [Jobs -> BOOLEAN]
    <3>1. \A i \in Jobs : (IF i = j THEN TRUE ELSE alone[i] /\ local[j].rows = {}) \in BOOLEAN
      OBVIOUS
    <3>2. QED
      BY <1>1, <3>1
  <2>2. QED
    BY <1>1, <2>1 DEF RowInv, WorldTypes, Days
<1>9. QED
  BY <1>6, <1>7, <1>8 DEF RowInv

\* mark_settled_alerts writes to all of a market's unsettled rows, or to none.
LEMMA SettledRows ==
  ASSUME AlertInv, RowInv, NEW j \in Jobs, SettleMarket(j), NEW n \in Markets
  PROVE  SameRows(n)
<1>1. result' = result
  BY DEF SettleMarket, world
<1>2. pc[j] = "settle"
  BY DEF SettleMarket
<1>3. local[j].todo \subseteq Markets /\ alerts \in [Markets -> Seq(Row)]
  BY <1>2 DEF AlertInv, AlertTypes
<1>4. PICK m \in local[j].todo :
        \/ alerts' = [alerts EXCEPT ![m] =
             [k \in DOMAIN @ |-> IF k \in Unsettled(m)
                                THEN [@[k] EXCEPT !.settled = SettledAs(m)] ELSE @[k]]]
        \/ UNCHANGED alerts
  BY DEF SettleMarket
<1>5. CASE alerts'[n] = alerts[n]
  <2>1. \A k \in 1..Len(alerts[n]) :
          /\ alerts[n][k] \in AlertRow /\ alerts[n][k].market = n
          /\ alerts[n][k].settled \in {"none", result[n]}
    BY DEF RowInv, RowsSound, Sound
  <2>2. Unsettled(n)' = Unsettled(n)
    BY <1>5 DEF Unsettled
  <2>3. QED
    BY <1>1, <1>5, <2>1, <2>2 DEF SameRows
<1>6. CASE alerts'[n] # alerts[n]
  <2> DEFINE old == alerts[n]
             x   == SettledAs(n)
  <2>1. alerts'[n] = [k \in DOMAIN old |-> IF k \in Unsettled(n)
                        THEN [old[k] EXCEPT !.settled = x] ELSE old[k]]
    BY <1>3, <1>4, <1>6
  <2>2. old \in Seq(Row) /\ DOMAIN old = 1..Len(old) /\ Len(old) \in Nat
    BY <1>3
  <2>3. x \in {"none", "yes", "no"} /\ x \in {"none", result[n]}
    BY DEF SettledAs
  <2>4. \A k \in 1..Len(old) : Sound(old[k], n)
    BY DEF RowInv, RowsSound
  <2>5. \A k \in Unsettled(n) : k \in 1..Len(old) /\ old[k].settled = "none"
    BY <2>2 DEF Unsettled
  <2>6. \A k \in DOMAIN old \ Unsettled(n) : old[k].settled # "none"
    BY DEF Unsettled
  <2> HIDE DEF old, x
  <2>7. DOMAIN alerts'[n] = DOMAIN old /\ Len(alerts'[n]) = Len(old)
    BY <2>1, <2>2
  <2>8. ASSUME NEW k \in 1..Len(old)
        PROVE  /\ alerts'[n][k] \in AlertRow /\ alerts'[n][k].market = n
               /\ alerts'[n][k].forecast = old[k].forecast
               /\ alerts'[n][k].seen = old[k].seen
               /\ alerts'[n][k].settled \in {"none", result'[n]}
               /\ alerts'[n][k].settled = IF k \in Unsettled(n) THEN x ELSE old[k].settled
    <3>1. old[k] \in AlertRow /\ old[k].market = n /\ old[k].settled \in {"none", result[n]}
      BY <2>4 DEF Sound
    <3>2. CASE k \in Unsettled(n)
      <4>1. alerts'[n][k] = [old[k] EXCEPT !.settled = x]
        BY <2>1, <2>2, <3>2
      <4>2. QED
        BY <1>1, <2>3, <3>1, <3>2, <4>1 DEF AlertRow
    <3>3. CASE k \notin Unsettled(n)
      <4>1. alerts'[n][k] = old[k]
        BY <2>1, <2>2, <3>3
      <4>2. QED
        BY <1>1, <3>1, <3>3, <4>1
    <3>4. QED
      BY <3>2, <3>3
  <2>9. Unsettled(n)' = {k \in DOMAIN old : alerts'[n][k].settled = "none"}
    BY <2>7 DEF Unsettled
  <2>10. Unsettled(n) \subseteq DOMAIN old
    BY <2>2, <2>5
  <2>11. Unsettled(n)' = IF x = "none" THEN Unsettled(n) ELSE {}
    BY <2>2, <2>6, <2>8, <2>9, <2>10
  <2>12. QED
    BY <2>7, <2>8, <2>11 DEF SameRows, old
<1>7. QED
  BY <1>5, <1>6

LEMMA SettleMarketKeepsRows ==
  ASSUME AlertInv, RowInv, NEW j \in Jobs, SettleMarket(j) PROVE RowInv'
<1>1. pc[j] = "settle" /\ UNCHANGED <<day, forecast, weather, result, alone>>
  BY DEF SettleMarket, world
<1>2. PICK l : Goto(j, "settle", l)
  BY DEF SettleMarket
<1>3. pc \in [Jobs -> Places] /\ DOMAIN local = Jobs
  BY DEF AlertInv, AlertTypes
<1>4. \A i \in Jobs : pc'[i] = "cities" => pc[i] = "cities" /\ local'[i] = local[i]
  BY <1>2, <1>3 DEF Goto
<1>5. Onward
  <2>1. WorldTypes'
    BY <1>1 DEF RowInv, WorldTypes, Days
  <2>2. forecast \in 0..MaxVersion /\ \A m \in Markets : weather[m] \in 0..MaxVersion
    BY DEF RowInv, WorldTypes
  <2>3. QED
    BY <1>1, <2>1, <2>2 DEF Onward
<1>6. \A m \in Markets : SameRows(m)
  BY SettledRows
<1>7. QED
  BY <1>1, <1>4, <1>5, <1>6, RowInvKept

\* notified_at is all a notifier writes to a row.
LEMMA RecordedRows ==
  ASSUME AlertInv, RowInv, RecordPush, NEW n \in Markets PROVE SameRows(n)
<1>1. pc["pipeline"] = "pushed" /\ UNCHANGED <<day, result>>
  BY DEF RecordPush, world
<1>2. /\ CandidatesOpen /\ alerts \in [Markets -> Seq(Row)] /\ day \in Days
  BY DEF AlertInv, AlertTypes, NotifyInv, RowInv, WorldTypes
<1>3. PICK r \in Notifier.todo : alerts' = [alerts EXCEPT ![r.market][r.id].notified = day]
  BY DEF RecordPush, Notifier
<1> DEFINE m == r.market
           old == alerts[m]
<1>4. m \in Markets /\ r.id \in 1..Len(old) /\ old \in Seq(Row)
  <2>1. r \in Notifier.rows
    BY <1>1, <1>2, <1>3 DEF CandidatesOpen
  <2>2. QED
    BY <1>1, <1>2, <2>1 DEF CandidatesOpen, Candidate
<1>5. /\ alerts'[m] = [old EXCEPT ![r.id] = [old[r.id] EXCEPT !.notified = day]]
      /\ \A x \in Markets \ {m} : alerts'[x] = alerts[x]
  BY <1>2, <1>3, <1>4
<1>6. \A k \in 1..Len(alerts[n]) :
        /\ alerts[n][k] \in AlertRow /\ alerts[n][k].market = n
        /\ alerts[n][k].settled \in {"none", result[n]}
  BY DEF RowInv, RowsSound, Sound
<1>7. CASE n # m
  <2>1. alerts'[n] = alerts[n]
    BY <1>5, <1>7
  <2>2. Unsettled(n)' = Unsettled(n)
    BY <2>1 DEF Unsettled
  <2>3. QED
    BY <1>1, <1>6, <2>1, <2>2 DEF SameRows
<1>8. CASE n = m
  <2> HIDE DEF m, old
  <2>1. /\ DOMAIN alerts'[n] = DOMAIN old /\ Len(alerts'[n]) = Len(old)
        /\ DOMAIN old = 1..Len(old) /\ old = alerts[n]
    BY <1>4, <1>5, <1>8 DEF old
  <2>2. ASSUME NEW k \in 1..Len(old)
        PROVE  /\ alerts'[n][k] \in AlertRow /\ alerts'[n][k].market = n
               /\ alerts'[n][k].forecast = old[k].forecast
               /\ alerts'[n][k].seen = old[k].seen
               /\ alerts'[n][k].settled = old[k].settled
    <3>1. old[k] \in AlertRow /\ old[k].market = n
      BY <1>6, <2>1
    <3>2. CASE k = r.id
      <4>1. alerts'[n][k] = [old[k] EXCEPT !.notified = day]
        BY <1>4, <1>5, <1>8, <2>1, <3>2
      <4>2. QED
        BY <1>2, <3>1, <4>1 DEF AlertRow
    <3>3. CASE k # r.id
      <4>1. alerts'[n][k] = old[k]
        BY <1>4, <1>5, <1>8, <2>1, <3>3
      <4>2. QED
        BY <3>1, <4>1
    <3>4. QED
      BY <3>2, <3>3
  <2>3. Unsettled(n)' = Unsettled(n)
    BY <2>1, <2>2 DEF Unsettled
  <2>4. QED
    BY <1>1, <1>6, <2>1, <2>2, <2>3 DEF SameRows
<1>9. QED
  BY <1>7, <1>8

LEMMA RecordPushKeepsRows ==
  ASSUME AlertInv, RowInv, RecordPush PROVE RowInv'
<1>1. UNCHANGED <<day, forecast, weather, result, alone>>
  BY DEF RecordPush, world
<1>2. PICK l : Goto("pipeline", "push", l)
  BY DEF RecordPush
<1>3. pc \in [Jobs -> Places] /\ DOMAIN local = Jobs
  BY DEF AlertInv, AlertTypes
<1>4. \A i \in Jobs : pc'[i] = "cities" => pc[i] = "cities" /\ local'[i] = local[i]
  BY <1>2, <1>3 DEF Goto
<1>5. Onward
  <2>1. WorldTypes'
    BY <1>1 DEF RowInv, WorldTypes, Days
  <2>2. forecast \in 0..MaxVersion /\ \A m \in Markets : weather[m] \in 0..MaxVersion
    BY DEF RowInv, WorldTypes
  <2>3. QED
    BY <1>1, <2>1, <2>2 DEF Onward
<1>6. \A m \in Markets : SameRows(m)
  BY RecordedRows
<1>7. QED
  BY <1>1, <1>4, <1>5, <1>6, RowInvKept

\* The world advances, and no market's result changes.
LEMMA WorldKeepsRows ==
  ASSUME AlertInv, RowInv, World PROVE RowInv'
<1>1. UNCHANGED <<alerts, pc, local, alone>>
  BY DEF World
<1>2. /\ day \in Days /\ forecast \in 0..MaxVersion
      /\ weather \in [Markets -> 0..MaxVersion]
      /\ result \in [Markets -> {"none", "yes", "no", "other"}]
      /\ alone \in [Jobs -> BOOLEAN] /\ MaxVersion \in Nat
  BY PipelineAssumption DEF RowInv, WorldTypes
<1>3. Onward
  <2>1. CASE NextDay
    <3>1. day' \in Days' /\ UNCHANGED <<forecast, weather, result>>
      BY <2>1 DEF NextDay, Days
    <3>2. QED
      BY <1>1, <1>2, <3>1 DEF Onward, WorldTypes
  <2>2. CASE NewForecast
    <3>1. /\ day' \in Days' /\ UNCHANGED <<weather, result>>
          /\ forecast' \in 0..MaxVersion /\ forecast' >= forecast
      BY <1>2, <2>2 DEF NewForecast, Days
    <3>2. QED
      BY <1>1, <1>2, <3>1 DEF Onward, WorldTypes
  <2>3. ASSUME NEW m \in Markets, NewWeather(m) PROVE Onward
    <3>1. /\ day' \in Days' /\ UNCHANGED <<forecast, result>>
          /\ weather' \in [Markets -> 0..MaxVersion]
          /\ \A n \in Markets : weather'[n] >= weather[n]
      BY <1>2, <2>3 DEF NewWeather, Days
    <3>2. QED
      BY <1>1, <1>2, <3>1 DEF Onward, WorldTypes
  <2>4. ASSUME NEW m \in Markets, Resolve(m) PROVE Onward
    <3>1. /\ day' \in Days' /\ UNCHANGED <<forecast, weather>>
          /\ result[m] = "none"
      BY <1>2, <2>4 DEF Resolve, Days
    <3>2. PICK x \in {"yes", "no", "other"} : result' = [result EXCEPT ![m] = x]
      BY <2>4 DEF Resolve
    <3>3. /\ result' \in [Markets -> {"none", "yes", "no", "other"}]
          /\ \A n \in Markets : result[n] \in {"none", result'[n]}
      BY <1>2, <3>1, <3>2
    <3>4. QED
      BY <1>1, <1>2, <3>1, <3>3 DEF Onward, WorldTypes
  <2>5. QED
    BY <2>1, <2>2, <2>3, <2>4 DEF World
<1>4. \A m \in Markets : SameRows(m)
  BY <1>1, <1>3, RowsUnchanged DEF Onward
<1>5. QED
  BY <1>1, <1>3, <1>4, RowInvKept

\* The jobs' other steps: nothing is inserted, and a job prices nothing.
LEMMA QuietKeepsRows ==
  ASSUME AlertInv, RowInv, AlertInv', NEW j \in Jobs,
         \/ StartPricing(j) \/ ReadPending(j) \/ EndSettling(j) \/ Crash(j)
         \/ j = "pipeline" /\ (\/ SkipPricing \/ ReadCandidates \/ Push \/ EndPushing)
  PROVE  RowInv'
<1>1. UNCHANGED <<world, alerts>>
  BY DEF StartPricing, ReadPending, EndSettling, Crash, SkipPricing, ReadCandidates,
         Push, EndPushing
<1>2. alone \in [Jobs -> BOOLEAN]
  BY DEF RowInv, WorldTypes
<1>3. CASE StartPricing(j)
  <2> DEFINE l == [Empty EXCEPT !.todo = Markets]
  <2>1. l.rows = {}
    BY DEF Empty
  <2>2. Goto(j, "cities", l) /\ alone' = [alone EXCEPT ![j] = TRUE]
    BY <1>3 DEF StartPricing
  <2> HIDE DEF l
  <2>3. QED
    BY <1>1, <2>1, <2>2, JobKeepsRows
<1>4. CASE ~StartPricing(j)
  <2>1. alone' = alone
    BY <1>4 DEF ReadPending, EndSettling, Crash, SkipPricing, ReadCandidates, Push, EndPushing
  <2>2. \E at, l : Goto(j, at, l) /\ at # "cities"
    <3>1. CASE ReadPending(j)
      <4>1. Goto(j, "settle", [Empty EXCEPT !.todo = Pending])
        BY <3>1 DEF ReadPending
      <4>2. QED
        BY <4>1
    <3>2. CASE EndSettling(j)
      <4>1. Goto(j, IF j = "cycle" THEN "idle" ELSE "notify", Empty)
        BY <3>2 DEF EndSettling
      <4>2. QED
        BY <4>1
    <3>3. CASE Crash(j)
      <4> DEFINE at == IF j # "pipeline" THEN "idle"
                       ELSE CASE pc[j] = "cities" -> "results"
                              [] pc[j] = "settle" -> "notify"
                              [] OTHER -> "idle"
      <4>1. Goto(j, at, Empty)
        BY <3>3 DEF Crash
      <4>2. at # "cities"
        OBVIOUS
      <4> HIDE DEF at
      <4>3. QED
        BY <4>1, <4>2
    <3>4. CASE j = "pipeline" /\ SkipPricing
      BY <3>4 DEF SkipPricing
    <3>5. CASE j = "pipeline" /\ ReadCandidates
      <4>1. \E l : Goto("pipeline", "push", l)
        BY <3>5 DEF ReadCandidates
      <4>2. QED
        BY <3>5, <4>1
    <3>6. CASE j = "pipeline" /\ Push
      <4>1. \E l : Goto("pipeline", "push", l) \/ Goto("pipeline", "pushed", l)
        BY <3>6 DEF Push
      <4>2. QED
        BY <3>6, <4>1
    <3>7. CASE j = "pipeline" /\ EndPushing
      BY <3>7 DEF EndPushing
    <3>8. QED
      BY <1>4, <3>1, <3>2, <3>3, <3>4, <3>5, <3>6, <3>7
  <2>3. PICK at, l : Goto(j, at, l) /\ at # "cities"
    BY <2>2
  <2>4. QED
    BY <1>1, <2>1, <2>3, JobKeepsRows
<1>5. QED
  BY <1>3, <1>4

LEMMA RowStep ==
  ASSUME AlertInv, RowInv, AlertInv', [Next]_vars PROVE RowInv'
<1>1. ASSUME NEW j \in Jobs, Pricing(j) PROVE RowInv'
  BY <1>1, QuietKeepsRows, PriceCityKeepsRows, InsertKeepsRows DEF Pricing
<1>2. ASSUME NEW j \in Jobs, Settling(j) PROVE RowInv'
  BY <1>2, QuietKeepsRows, SettleMarketKeepsRows DEF Settling
<1>3. ASSUME NEW j \in Jobs, Crash(j) PROVE RowInv'
  BY <1>3, QuietKeepsRows
<1>4. CASE SkipPricing
  BY <1>4, JobsFacts, QuietKeepsRows
<1>5. CASE Notifying
  BY <1>5, JobsFacts, QuietKeepsRows, RecordPushKeepsRows DEF Notifying
<1>6. CASE World
  BY <1>6, WorldKeepsRows
<1>7. CASE UNCHANGED vars
  <2>1. UNCHANGED <<day, forecast, weather, result, alerts, pc, local, alone>>
    BY <1>7 DEF vars, world
  <2>2. WorldTypes'
    BY <2>1 DEF RowInv, WorldTypes, Days
  <2>3. forecast \in 0..MaxVersion /\ \A m \in Markets : weather[m] \in 0..MaxVersion
    BY DEF RowInv, WorldTypes
  <2>4. Onward
    BY <2>1, <2>2, <2>3 DEF Onward
  <2>5. \A m \in Markets : SameRows(m)
    BY <2>1, RowsUnchanged
  <2>6. QED
    BY <2>1, <2>4, <2>5, RowInvKept
<1>8. QED
  BY <1>1, <1>2, <1>3, <1>4, <1>5, <1>6, <1>7 DEF Next

LEMMA RowsAlike ==
  ASSUME AlertInv, RowInv PROVE SettledAlike
<1>1. \A m \in Markets : \A k \in DOMAIN alerts[m] : Sound(alerts[m][k], m)
  <2>1. \A m \in Markets : alerts[m] \in Seq(Row)
    BY DEF AlertInv, AlertTypes
  <2>2. QED
    BY <2>1 DEF RowInv, RowsSound
<1>2. TypeOK
  BY <1>1 DEF TypeOK, RowInv, WorldTypes, Sound, AlertInv, AlertTypes, Places
<1>3. QED
  BY <1>1, <1>2 DEF SettledAlike, Sound

\* Only insert_rows adds rows to a market, and the job that does has ended its
\* pricing; what it adds is a price it held.
LEMMA OnlyInserts ==
  ASSUME AlertInv, RowInv, AlertInv', [Next]_vars,
         NEW j \in Jobs, pc[j] = "cities", pc'[j] # "cities",
         NEW m \in Markets, Len(alerts'[m]) > Len(alerts[m])
  PROVE  \E r \in local[j].rows : r.market = m /\ alerts'[m] = Append(alerts[m], r)
<1>0. Len(alerts[m]) \in Nat /\ Len(alerts'[m]) \in Nat /\ pc \in [Jobs -> Places]
  BY DEF AlertInv, AlertTypes
<1>1. alerts'[m] # alerts[m] /\ ~SameRows(m)
  BY <1>0 DEF SameRows
<1>2. ASSUME NEW i \in Jobs, InsertAlerts(i)
      PROVE  \E r \in local[j].rows : r.market = m /\ alerts'[m] = Append(alerts[m], r)
  <2>1. i = j
    BY <1>0, <1>2 DEF InsertAlerts, Goto
  <2>2. QED
    BY <1>1, <1>2, <2>1, InsertedRows
<1>3. ASSUME NEW i \in Jobs, SettleMarket(i) PROVE FALSE
  BY <1>1, <1>3, SettledRows
<1>4. CASE RecordPush
  BY <1>1, <1>4, RecordedRows
<1>5. ASSUME NEW i \in Jobs, \/ StartPricing(i) \/ PriceCity(i) \/ ReadPending(i)
                             \/ EndSettling(i) \/ Crash(i)
      PROVE  FALSE
  BY <1>1, <1>5 DEF StartPricing, PriceCity, ReadPending, EndSettling, Crash
<1>6. CASE \/ SkipPricing \/ ReadCandidates \/ Push \/ EndPushing \/ World
           \/ UNCHANGED vars
  BY <1>1, <1>6 DEF SkipPricing, ReadCandidates, Push, EndPushing, World, vars
<1>7. QED
  BY <1>2, <1>3, <1>4, <1>5, <1>6 DEF Next, Pricing, Settling, Notifying

LEMMA NewestIsFresh ==
  ASSUME AlertInv, RowInv, AlertInv', [Next]_vars,
         NEW j \in Jobs, alone[j], pc[j] = "cities", pc'[j] # "cities",
         NEW m \in Markets, Len(alerts'[m]) > Len(alerts[m]), Unsettled(m) # {}
  PROVE  /\ Last(alerts'[m]).forecast >= alerts[m][Newest(Unsettled(m))].forecast
         /\ Last(alerts'[m]).seen >= alerts[m][Newest(Unsettled(m))].seen
<1>1. PICK r \in local[j].rows : r.market = m /\ alerts'[m] = Append(alerts[m], r)
  BY OnlyInserts
<1>2. Fresh(r, m) /\ r \in Row
  BY <1>1 DEF RowInv, HeldSound, AlertInv, AlertTypes
<1>3. alerts[m] \in Seq(Row)
  BY DEF AlertInv, AlertTypes
<1>4. Last(alerts'[m]) = r
  BY <1>1, <1>2, <1>3 DEF Last
<1>5. QED
  BY <1>2, <1>4 DEF Fresh

\* Whatever scripts overlap, fail and die, every row has the values the schema
\* allows and is settled with nothing but its own market's result, so that rows
\* of one market never disagree: for any number of markets, versions and runs.
THEOREM SettlesAlike == Spec => []SettledAlike
<1>1. Init => AlertInv /\ RowInv
  BY AlertStart, RowStart
<1>2. AlertInv /\ RowInv /\ [Next]_vars => (AlertInv /\ RowInv)'
  BY AlertStep, RowStep
<1>3. AlertInv /\ RowInv => SettledAlike
  BY RowsAlike
<1>4. QED
  BY <1>1, <1>2, <1>3, PTL DEF Spec

\* A run that nobody overtook never inserts a price that is older, in forecast
\* or in quotes, than the market's newest unsettled row: not the same-day
\* refresh either, which prices with the forecast of a stored row.
THEOREM NewestNeverBack == Spec => NeverBack
<1>1. Init => AlertInv /\ RowInv
  BY AlertStart, RowStart
<1>2. AlertInv /\ RowInv /\ [Next]_vars => (AlertInv /\ RowInv)'
  BY AlertStep, RowStep
<1>3. AlertInv /\ RowInv /\ AlertInv' /\ [Next]_vars =>
        [\A j \in Jobs : alone[j] /\ pc[j] = "cities" /\ pc'[j] # "cities" =>
           \A m \in Markets :
             Len(alerts'[m]) > Len(alerts[m]) /\ Unsettled(m) # {} =>
               LET before == alerts[m][Newest(Unsettled(m))]
               IN  /\ Last(alerts'[m]).forecast >= before.forecast
                   /\ Last(alerts'[m]).seen >= before.seen]_vars
  BY NewestIsFresh
<1>4. QED
  BY <1>1, <1>2, <1>3, PTL DEF Spec, NeverBack

---------------------------------------------------------------------------
(* Research: dates in order                                                *)

\* The numbers of a set in rising order: each once.
LEMMA AscendingIs ==
  ASSUME NEW S \in SUBSET Int, IsFiniteSet(S)
  PROVE  /\ Ascending(S) \in Seq(S)
         /\ Cardinality(S) \in Nat /\ Len(Ascending(S)) = Cardinality(S)
         /\ DOMAIN Ascending(S) = 1..Cardinality(S)
         /\ \A i \in 1..Cardinality(S) : Ascending(S)[i] \in S
         /\ \A x \in S : \E i \in 1..Cardinality(S) : Ascending(S)[i] = x
         /\ \A i, j \in 1..Cardinality(S) : i < j => Ascending(S)[i] < Ascending(S)[j]
<1> DEFINE n == Cardinality(S)
           UpTo1(x) == {y \in S : y <= x}
           Rank(x) == Cardinality(UpTo1(x))
           f == [x \in S |-> Rank(x)]
           A == Ascending(S)
<1>1. n \in Nat
  BY FS_CardinalityType
<1>2. ASSUME NEW x \in S PROVE IsFiniteSet(UpTo1(x)) /\ Rank(x) \in 1..n
  <2>1. IsFiniteSet(UpTo1(x)) /\ Rank(x) <= n
    BY FS_Subset
  <2>2. Rank(x) \in Nat
    BY <2>1, FS_CardinalityType
  <2>3. UpTo1(x) # {}
    OBVIOUS
  <2> HIDE DEF UpTo1
  <2>4. Rank(x) # 0
    BY <2>1, <2>3, FS_EmptySet
  <2>5. QED
    BY <1>1, <2>1, <2>2, <2>4
<1>3. ASSUME NEW x \in S, NEW y \in S, x < y PROVE Rank(x) < Rank(y)
  <2>1. UpTo1(x) \in SUBSET UpTo1(y) /\ y \in UpTo1(y) /\ y \notin UpTo1(x)
    <3>1. x \in Int /\ y \in Int
      OBVIOUS
    <3>2. \A z \in S : z <= x => z <= y
      BY <1>3, <3>1
    <3>3. y <= y /\ ~(y <= x)
      BY <1>3, <3>1
    <3>4. QED
      BY <3>2, <3>3
  <2>2. IsFiniteSet(UpTo1(y)) /\ Rank(x) \in Nat /\ Rank(y) \in Nat
    BY <1>2
  <2> HIDE DEF UpTo1
  <2>3. Rank(x) <= Rank(y) /\ (Rank(y) = Rank(x) => UpTo1(y) = UpTo1(x))
    BY <2>1, <2>2, FS_Subset
  <2>4. QED
    BY <2>1, <2>2, <2>3
<1> HIDE DEF Rank, UpTo1, n
<1>4. ASSUME NEW x \in S, NEW y \in S, Rank(x) = Rank(y) PROVE x = y
  <2>1. x \in Int /\ y \in Int /\ Rank(x) \in Int
    BY <1>1, <1>2
  <2>2. x < y \/ y < x \/ x = y
    BY <2>1
  <2>3. QED
    BY <1>3, <1>4, <2>1, <2>2
<1>5. f \in Injection(S, 1..n)
  BY <1>2, <1>4 DEF Injection, IsInjective
<1>6. IsFiniteSet(1..n) /\ Cardinality(1..n) = n
  BY <1>1, FS_Interval
<1>7. f \in Surjection(S, 1..n)
  BY <1>5, <1>6, FS_Injection DEF n
<1>8. \A i \in 1..n : \E x \in S : Rank(x) = i
  BY <1>7 DEF Surjection
<1>9. A = [i \in 1..n |-> CHOOSE x \in S : Rank(x) = i]
  BY DEF Ascending, Rank, UpTo1, n
<1> HIDE DEF f, A
<1>10. \A i \in 1..n : A[i] \in S /\ Rank(A[i]) = i
  <2> TAKE i \in 1..n
  <2>1. A[i] = CHOOSE x \in S : Rank(x) = i
    BY <1>9
  <2>2. \E x \in S : Rank(x) = i
    BY <1>8
  <2>3. QED
    BY <2>1, <2>2
<1>11. A \in [1..n -> S]
  BY <1>9, <1>10
<1>12. A \in Seq(S) /\ Len(A) = n /\ DOMAIN A = 1..n
  BY <1>1, <1>11
<1>13. \A x \in S : \E i \in 1..n : A[i] = x
  <2> TAKE x \in S
  <2>1. Rank(x) \in 1..n
    BY <1>2
  <2>2. A[Rank(x)] = x
    BY <1>4, <1>10, <2>1
  <2>3. QED
    BY <2>1, <2>2
<1>14. ASSUME NEW i \in 1..n, NEW j \in 1..n, i < j PROVE A[i] < A[j]
  <2>1. A[i] \in S /\ A[j] \in S /\ Rank(A[i]) = i /\ Rank(A[j]) = j
    BY <1>10
  <2>2. A[i] \in Int /\ A[j] \in Int
    BY <2>1
  <2>3. A[i] < A[j] \/ A[i] = A[j] \/ A[j] < A[i]
    BY <2>2
  <2>4. ~(A[i] = A[j])
    BY <1>1, <1>14, <2>1
  <2>5. ~(A[j] < A[i])
    <3>1. A[j] < A[i] => j < i
      BY <1>3, <2>1
    <3>2. QED
      BY <1>1, <1>14, <3>1
  <2>6. QED
    BY <2>3, <2>4, <2>5
<1>15. QED
  BY <1>1, <1>10, <1>12, <1>13, <1>14 DEF A, n

---------------------------------------------------------------------------
(* Research: windows of dates                                              *)

Dated(rows) == DatesOf(rows) \in SUBSET Int /\ IsFiniteSet(DatesOf(rows))
DateCount(rows) == Len(Dates(rows))

\* The rows of the dates after the first a, up to the first b.
Window(rows, a, b) == OnDates(rows, DatesFrom(Dates(rows), a + 1, b))

\* The dates of the rows: each once, rising.
LEMMA DatesAre ==
  ASSUME NEW rows, Dated(rows)
  PROVE  /\ DateCount(rows) \in Nat /\ DateCount(rows) = Cardinality(DatesOf(rows))
         /\ Dates(rows) \in Seq(Int)
         /\ \A i \in 1..DateCount(rows) : Dates(rows)[i] \in DatesOf(rows) /\ Dates(rows)[i] \in Int
         /\ \A row \in rows : \E i \in 1..DateCount(rows) : Dates(rows)[i] = row.date
         /\ \A i \in 1..DateCount(rows) : \E row \in rows : Dates(rows)[i] = row.date
         /\ \A i, j \in 1..DateCount(rows) : i < j => Dates(rows)[i] < Dates(rows)[j]
         /\ \A i, j \in 1..DateCount(rows) : Dates(rows)[i] = Dates(rows)[j] => i = j
<1> DEFINE S == DatesOf(rows)
           n == Cardinality(S)
           A == Ascending(S)
<1>1. Dates(rows) = A
  BY DEF Dates, DatesOf
<1>2. S \in SUBSET Int /\ IsFiniteSet(S)
  BY DEF Dated
<1>3. \A x \in S : \E row \in rows : x = row.date
  BY DEF DatesOf
<1>4. \A row \in rows : row.date \in S
  BY DEF DatesOf
<1> HIDE DEF S, A, n
<1>5. /\ A \in Seq(S)
      /\ n \in Nat /\ Len(A) = n
      /\ \A i \in 1..n : A[i] \in S
      /\ \A x \in S : \E i \in 1..n : A[i] = x
      /\ \A i, j \in 1..n : i < j => A[i] < A[j]
  BY <1>2, AscendingIs DEF A, n
<1>6. A \in Seq(Int)
  <2>1. \A i \in 1..Len(A) : A[i] \in Int
    BY <1>2, <1>5
  <2>2. QED
    BY <1>5, <2>1
<1>7. ASSUME NEW i \in 1..n, NEW j \in 1..n, A[i] = A[j] PROVE i = j
  <2>1. i < j \/ i = j \/ j < i
    BY <1>5
  <2>2. A[i] \in Int /\ A[j] \in Int
    BY <1>2, <1>5
  <2>3. ~(A[i] < A[j]) /\ ~(A[j] < A[i])
    BY <1>7, <2>2
  <2>4. QED
    BY <1>5, <2>1, <2>3
<1>8. /\ \A row \in rows : \E i \in 1..n : A[i] = row.date
      /\ \A i \in 1..n : \E row \in rows : A[i] = row.date
      /\ \A i \in 1..n : A[i] \in S /\ A[i] \in Int
  BY <1>2, <1>3, <1>4, <1>5
<1>9. DateCount(rows) = n
  BY <1>1, <1>5 DEF DateCount
<1>10. QED
  BY <1>1, <1>5, <1>6, <1>7, <1>8, <1>9 DEF S, n

\* A row is in the window that its date's place is in.
LEMMA WindowIs ==
  ASSUME NEW rows, Dated(rows), NEW a \in Nat, NEW b \in Nat, b <= DateCount(rows)
  PROVE  /\ Window(rows, a, b) \in SUBSET rows
         /\ \A row \in rows, i \in 1..DateCount(rows) :
              Dates(rows)[i] = row.date => (row \in Window(rows, a, b) <=> a < i /\ i <= b)
<1> DEFINE D == Dates(rows)
           n == DateCount(rows)
<1>1. /\ n \in Nat /\ \A i, j \in 1..n : D[i] = D[j] => i = j
  BY DatesAre
<1>2. Window(rows, a, b) = {row \in rows : \E k \in a + 1..b : row.date = D[k]}
  BY DEF Window, OnDates, DatesFrom
<1> HIDE DEF D, n
<1>3. ASSUME NEW row \in rows, NEW i \in 1..n, D[i] = row.date
      PROVE  row \in Window(rows, a, b) <=> a < i /\ i <= b
  <2>1. ASSUME a < i, i <= b PROVE row \in Window(rows, a, b)
    <3>1. i \in a + 1..b
      BY <1>1, <2>1
    <3>2. QED
      BY <1>2, <1>3, <3>1
  <2>2. ASSUME row \in Window(rows, a, b) PROVE a < i /\ i <= b
    <3>1. PICK k \in a + 1..b : row.date = D[k]
      BY <1>2, <2>2
    <3>2. k \in 1..n
      BY <1>1 DEF n
    <3>3. k = i
      BY <1>1, <1>3, <3>1, <3>2
    <3>4. QED
      BY <1>1, <3>3
  <2>3. QED
    BY <2>1, <2>2
<1>4. Window(rows, a, b) \in SUBSET rows
  BY <1>2
<1>5. QED
  BY <1>3, <1>4 DEF D, n

\* Windows side by side: the second one's dates are later, it has rows if it has
\* dates, and both together are the window over both.
LEMMA WindowsSplit ==
  ASSUME NEW rows, Dated(rows), NEW a \in Nat, NEW b \in Nat, NEW c \in Nat,
         a <= b, b <= c, c <= DateCount(rows)
  PROVE  /\ Before(Window(rows, a, b), Window(rows, b, c))
         /\ b < c => Window(rows, b, c) # {}
         /\ Window(rows, a, b) \cup Window(rows, b, c) = Window(rows, a, c)
         /\ Window(rows, 0, DateCount(rows)) = rows
<1> DEFINE D == Dates(rows)
           n == DateCount(rows)
           At(row, i) == i \in 1..n /\ D[i] = row.date
<1>1. /\ n \in Nat
      /\ \A row \in rows : \E i \in 1..n : D[i] = row.date
      /\ \A i \in 1..n : \E row \in rows : D[i] = row.date
      /\ \A i, j \in 1..n : i < j => D[i] < D[j]
  BY DatesAre
<1>2. /\ b <= n /\ c <= n
      /\ Window(rows, a, b) \in SUBSET rows
      /\ Window(rows, b, c) \in SUBSET rows
      /\ Window(rows, a, c) \in SUBSET rows
      /\ Window(rows, 0, n) \in SUBSET rows
      /\ \A row \in rows, i \in 1..n :
           At(row, i) => /\ row \in Window(rows, a, b) <=> a < i /\ i <= b
                         /\ row \in Window(rows, b, c) <=> b < i /\ i <= c
                         /\ row \in Window(rows, a, c) <=> a < i /\ i <= c
                         /\ row \in Window(rows, 0, n) <=> 0 < i /\ i <= n
  <2>1. b <= n /\ c <= n /\ 0 \in Nat /\ n <= n
    BY <1>1
  <2>2. /\ Window(rows, a, b) \in SUBSET rows
        /\ \A row \in rows, i \in 1..n :
             D[i] = row.date => (row \in Window(rows, a, b) <=> a < i /\ i <= b)
    BY <2>1, WindowIs
  <2>3. /\ Window(rows, b, c) \in SUBSET rows
        /\ \A row \in rows, i \in 1..n :
             D[i] = row.date => (row \in Window(rows, b, c) <=> b < i /\ i <= c)
    BY <2>1, WindowIs
  <2>4. /\ Window(rows, a, c) \in SUBSET rows
        /\ \A row \in rows, i \in 1..n :
             D[i] = row.date => (row \in Window(rows, a, c) <=> a < i /\ i <= c)
    BY <2>1, WindowIs
  <2>5. /\ Window(rows, 0, n) \in SUBSET rows
        /\ \A row \in rows, i \in 1..n :
             D[i] = row.date => (row \in Window(rows, 0, n) <=> 0 < i /\ i <= n)
    BY <1>1, <2>1, WindowIs
  <2> HIDE DEF D, n
  <2>6. QED
    BY <2>1, <2>2, <2>3, <2>4, <2>5
<1>3. \A row \in rows : \E i \in 1..n : At(row, i)
  BY <1>1
<1>4. \A row, other, i, j : At(row, i) /\ At(other, j) /\ i < j => row.date < other.date
  BY <1>1
<1>5. \A i \in 1..n : \E row \in rows : At(row, i)
  BY <1>1
<1> HIDE DEF At, D, n
<1>6. Before(Window(rows, a, b), Window(rows, b, c))
  <2>1. ASSUME NEW x \in Window(rows, a, b), NEW y \in Window(rows, b, c)
        PROVE  x.date < y.date
    <3>1. x \in rows /\ y \in rows
      BY <1>2
    <3>2. PICK i \in 1..n : At(x, i)
      BY <1>3, <3>1
    <3>3. PICK j \in 1..n : At(y, j)
      BY <1>3, <3>1
    <3>4. i <= b /\ b < j
      BY <1>2, <3>1, <3>2, <3>3
    <3>5. i < j
      BY <1>1, <3>4
    <3>6. QED
      BY <1>4, <3>2, <3>3, <3>5
  <2>2. QED
    BY <2>1 DEF Before, DatesOf
<1>7. ASSUME b < c PROVE Window(rows, b, c) # {}
  <2>1. c \in 1..n
    BY <1>1, <1>2, <1>7
  <2>2. PICK row \in rows : At(row, c)
    BY <1>5, <2>1
  <2>3. row \in Window(rows, b, c)
    BY <1>2, <1>7, <2>1, <2>2
  <2>4. QED
    BY <2>3
<1>8. ASSUME NEW row \in rows
      PROVE  /\ row \in Window(rows, a, b) \cup Window(rows, b, c) <=> row \in Window(rows, a, c)
             /\ row \in Window(rows, 0, n)
  <2>1. PICK i \in 1..n : At(row, i)
    BY <1>3
  <2>2. a < i /\ i <= c <=> (a < i /\ i <= b) \/ (b < i /\ i <= c)
    BY <1>1
  <2>3. 0 < i /\ i <= n
    BY <1>1
  <2>4. QED
    BY <1>2, <2>1, <2>2, <2>3
<1>9. QED
  BY <1>2, <1>6, <1>7, <1>8 DEF n

\* A rounded quotient is within a half of the exact one.
LEMMA RoundedIs ==
  ASSUME NEW num \in Nat, NEW den \in {2, 3, 100}
  PROVE  /\ RoundedRatio(num, den) \in Nat
         /\ 2 * num - den <= 2 * den * RoundedRatio(num, den)
         /\ 2 * den * RoundedRatio(num, den) <= 2 * num + den
<1>1. CASE den = 2
  BY <1>1 DEF RoundedRatio
<1>2. CASE den = 3
  BY <1>2 DEF RoundedRatio
<1>3. CASE den = 100
  BY <1>3 DEF RoundedRatio
<1>4. QED
  BY <1>1, <1>2, <1>3

\* The window of the first dates.
LEMMA FirstWindow ==
  ASSUME NEW rows, NEW k
  PROVE  OnDates(rows, DatesFrom(Dates(rows), 1, k)) = Window(rows, 0, k)
<1>1. 0 + 1 = 1
  OBVIOUS
<1>2. QED
  BY <1>1 DEF Window

\* Folds along rising bounds are in order, and go through the dates up to the
\* last bound.
LEMMA FoldsAlong ==
  ASSUME NEW rows, Dated(rows), NEW K \in Nat \ {0},
         NEW bound \in [0..K -> 0..DateCount(rows)],
         \A i \in 1..K : bound[i - 1] < bound[i],
         NEW folds,
         folds = [i \in 1..K |-> [fit |-> Window(rows, 0, bound[i - 1]),
                                  eval |-> Window(rows, bound[i - 1], bound[i])]]
  PROVE  FoldsInOrder(folds, Window(rows, 0, bound[K]))
<1>1. DateCount(rows) \in Nat
  BY DatesAre
<1>2. \A i \in 0..K : bound[i] \in Nat /\ bound[i] <= DateCount(rows)
  BY <1>1
<1>3. /\ DOMAIN folds = 1..K /\ Len(folds) = K /\ folds # <<>>
      /\ \A i \in 1..K : /\ folds[i].fit = Window(rows, 0, bound[i - 1])
                         /\ folds[i].eval = Window(rows, bound[i - 1], bound[i])
  OBVIOUS
<1>4. ASSUME NEW i \in 1..K
      PROVE  /\ InOrder(folds[i])
             /\ folds[i].fit \cup folds[i].eval = Window(rows, 0, bound[i])
  <2>1. /\ 0 \in Nat /\ bound[i - 1] \in Nat /\ bound[i] \in Nat /\ 0 <= bound[i - 1]
        /\ bound[i - 1] < bound[i] /\ bound[i - 1] <= bound[i] /\ bound[i] <= DateCount(rows)
    <3>1. i - 1 \in 0..K /\ i \in 0..K
      OBVIOUS
    <3>2. bound[i - 1] < bound[i]
      OBVIOUS
    <3>3. QED
      BY <1>2, <3>1, <3>2
  <2>2. /\ Before(Window(rows, 0, bound[i - 1]), Window(rows, bound[i - 1], bound[i]))
        /\ Window(rows, bound[i - 1], bound[i]) # {}
        /\ Window(rows, 0, bound[i - 1]) \cup Window(rows, bound[i - 1], bound[i])
             = Window(rows, 0, bound[i])
    BY <2>1, WindowsSplit
  <2>3. QED
    BY <1>3, <2>2 DEF InOrder
<1>5. ASSUME NEW i \in 1..K, i > 1
      PROVE  folds[i].fit = folds[i - 1].fit \cup folds[i - 1].eval
  <2>1. i - 1 \in 1..K
    BY <1>5
  <2>2. folds[i - 1].fit \cup folds[i - 1].eval = Window(rows, 0, bound[i - 1])
    BY <1>4, <2>1
  <2>3. QED
    BY <1>3, <2>2
<1>6. Last(folds).fit \cup Last(folds).eval = Window(rows, 0, bound[K])
  <2>1. Last(folds) = folds[K] /\ K \in 1..K
    BY <1>3 DEF Last
  <2>2. QED
    BY <1>4, <2>1
<1>7. QED
  BY <1>3, <1>4, <1>5, <1>6 DEF FoldsInOrder

\* The rolling folds of a backtest are in order.
LEMMA RollingInOrder ==
  ASSUME NEW rows, Dated(rows), NEW n \in 2..3
  PROVE  FoldsInOrder(RollingSplits(rows, n, 40), rows)
<1> DEFINE L == Len(Dates(rows))
           initial == RoundedRatio(40 * L, 100)
           remaining == L - initial
           share == [i \in 0..n |-> RoundedRatio(remaining * i, n)]
           bound == [i \in 0..n |-> initial + RoundedRatio(remaining * i, n)]
           folds == RollingSplits(rows, n, 40)
<1>1. L \in Nat /\ L = DateCount(rows) /\ 40 * L \in Nat
  BY DatesAre DEF DateCount
<1>2. initial \in Nat /\ 200 * initial <= 80 * L + 100 /\ 80 * L - 100 <= 200 * initial
  <2> HIDE DEF L
  <2>1. /\ RoundedRatio(40 * L, 100) \in Nat
        /\ 2 * (40 * L) - 100 <= 2 * 100 * RoundedRatio(40 * L, 100)
        /\ 2 * 100 * RoundedRatio(40 * L, 100) <= 2 * (40 * L) + 100
    BY <1>1, RoundedIs
  <2>2. QED
    BY <1>1, <2>1
<1> HIDE DEF L
<1>3. initial <= L
  <2> HIDE DEF initial
  <2>1. L = 0 \/ L = 1 \/ L >= 2
    BY <1>1
  <2>2. QED
    BY <1>1, <1>2, <2>1
<1>4. CASE remaining < n
  <2>1. folds = <<>>
    BY <1>4 DEF RollingSplits, L
  <2>2. QED
    BY <2>1 DEF FoldsInOrder
<1>5. CASE ~(remaining < n)
  <2>1. folds = [i \in 1..n |->
                   [fit  |-> OnDates(rows, DatesFrom(Dates(rows), 1,
                               initial + RoundedRatio(remaining * (i - 1), n))),
                    eval |-> OnDates(rows, DatesFrom(Dates(rows),
                               initial + RoundedRatio(remaining * (i - 1), n) + 1,
                               initial + RoundedRatio(remaining * i, n)))]]
    BY <1>5 DEF RollingSplits, L
  <2>2. remaining \in Nat /\ remaining >= n
    <3> HIDE DEF initial
    <3> QED BY <1>1, <1>2, <1>3, <1>5
  <2> HIDE DEF initial, remaining
  <2>3. \A i \in 0..n : /\ share[i] \in Nat
                        /\ 2 * (remaining * i) - n <= 2 * n * share[i]
                        /\ 2 * n * share[i] <= 2 * (remaining * i) + n
    <3> TAKE i \in 0..n
    <3> DEFINE num == remaining * i
               part == RoundedRatio(num, n)
    <3>1. num \in Nat
      BY <2>2
    <3>2. share[i] = part
      OBVIOUS
    <3> HIDE DEF share, num
    <3>3. n \in {2, 3, 100}
      OBVIOUS
    <3>4. part \in Nat /\ 2 * num - n <= 2 * n * part /\ 2 * n * part <= 2 * num + n
      <4>1. CASE n = 2
        <5>1. 2 \in {2, 3, 100}
          OBVIOUS
        <5>2. /\ RoundedRatio(num, 2) \in Nat
              /\ 2 * num - 2 <= 2 * 2 * RoundedRatio(num, 2)
              /\ 2 * 2 * RoundedRatio(num, 2) <= 2 * num + 2
          BY <3>1, <5>1, RoundedIs
        <5>3. QED
          BY <4>1, <5>2
      <4>2. CASE n = 3
        <5>1. 3 \in {2, 3, 100}
          OBVIOUS
        <5>2. /\ RoundedRatio(num, 3) \in Nat
              /\ 2 * num - 3 <= 2 * 3 * RoundedRatio(num, 3)
              /\ 2 * 3 * RoundedRatio(num, 3) <= 2 * num + 3
          BY <3>1, <5>1, RoundedIs
        <5>3. QED
          BY <4>2, <5>2
      <4>3. QED
        BY <4>1, <4>2
    <3> HIDE DEF part
    <3>5. share[i] \in Nat /\ 2 * num - n <= 2 * n * share[i] /\ 2 * n * share[i] <= 2 * num + n
      BY <3>2, <3>4
    <3>6. QED
      BY <3>5 DEF num
  <2>4. \A i \in 0..n : bound[i] = initial + share[i]
    OBVIOUS
  <2> HIDE DEF share
  <2>5. \A i \in 0..n : share[i] \in 0..remaining
    <3>1. CASE n = 2
      BY <2>2, <2>3, <3>1
    <3>2. CASE n = 3
      BY <2>2, <2>3, <3>2
    <3>3. QED
      BY <3>1, <3>2
  <2>6. share[n] = remaining
    <3>1. CASE n = 2
      BY <2>2, <2>3, <3>1
    <3>2. CASE n = 3
      BY <2>2, <2>3, <3>2
    <3>3. QED
      BY <3>1, <3>2
  <2>7. \A i \in 1..n : share[i - 1] < share[i]
    <3>1. CASE n = 2
      BY <2>2, <2>3, <3>1
    <3>2. CASE n = 3
      BY <2>2, <2>3, <3>2
    <3>3. QED
      BY <3>1, <3>2
  <2>8. bound \in [0..n -> 0..DateCount(rows)]
    <3>1. \A i \in 0..n : initial + share[i] \in 0..L
      BY <1>1, <1>2, <2>2, <2>5 DEF remaining
    <3>2. QED
      BY <1>1, <2>4, <3>1
  <2>9. \A i \in 1..n : bound[i - 1] < bound[i]
    <3> TAKE i \in 1..n
    <3>1. i - 1 \in 0..n /\ i \in 0..n
      OBVIOUS
    <3>2. share[i - 1] < share[i] /\ share[i - 1] \in Nat /\ share[i] \in Nat
      BY <2>3, <2>7, <3>1
    <3>3. QED
      BY <1>2, <2>4, <3>1, <3>2 DEF initial
  <2>10. bound[n] = DateCount(rows)
    <3>1. n \in 0..n
      OBVIOUS
    <3>2. bound[n] = initial + remaining
      BY <2>4, <2>6, <3>1
    <3>3. initial \in Nat
      BY <1>2 DEF initial
    <3>4. initial + remaining = L
      BY <1>1, <3>3 DEF remaining
    <3>5. QED
      BY <1>1, <3>2, <3>4
  <2>11. folds = [i \in 1..n |-> [fit |-> Window(rows, 0, bound[i - 1]),
                                  eval |-> Window(rows, bound[i - 1], bound[i])]]
    <3>1. \A i \in 1..n : /\ i - 1 \in 0..n /\ i \in 0..n
                          /\ bound[i - 1] = initial + RoundedRatio(remaining * (i - 1), n)
                          /\ bound[i] = initial + RoundedRatio(remaining * i, n)
      OBVIOUS
    <3> HIDE DEF bound
    <3>2. folds = [i \in 1..n |->
                     [fit  |-> OnDates(rows, DatesFrom(Dates(rows), 1, bound[i - 1])),
                      eval |-> OnDates(rows, DatesFrom(Dates(rows), bound[i - 1] + 1, bound[i]))]]
      BY <2>1, <3>1
    <3>3. QED
      BY <3>2, FirstWindow DEF Window
  <2> HIDE DEF bound, folds
  <2>12. FoldsInOrder(folds, Window(rows, 0, bound[n]))
    <3>1. n \in Nat \ {0}
      OBVIOUS
    <3>2. QED
      BY <2>8, <2>9, <2>11, <3>1, FoldsAlong
  <2>13. Window(rows, 0, DateCount(rows)) = rows
    <3>1. 0 \in Nat /\ 0 <= 0 /\ 0 <= DateCount(rows)
      BY <1>1
    <3>2. QED
      BY <3>1, WindowsSplit
  <2>14. QED
    BY <2>10, <2>12, <2>13 DEF folds
<1>6. QED
  BY <1>4, <1>5

\* The halves of a split by date are in order and lose no row.
LEMMA HalvesInOrder ==
  ASSUME NEW rows, Dated(rows)
  PROVE  LET halves == SplitByDate(rows, 70)
         IN  /\ Before(halves.fit, halves.eval)
             /\ halves.fit \cup halves.eval = rows
<1> DEFINE L == Len(Dates(rows))
           k == RoundedRatio(70 * L, 100)
           halves == SplitByDate(rows, 70)
<1>1. L \in Nat /\ L = DateCount(rows) /\ 70 * L \in Nat
  BY DatesAre DEF DateCount
<1>2. k \in Nat /\ k <= L
  <2> HIDE DEF L
  <2>1. /\ RoundedRatio(70 * L, 100) \in Nat
        /\ 2 * 100 * RoundedRatio(70 * L, 100) <= 2 * (70 * L) + 100
    BY <1>1, RoundedIs
  <2> HIDE DEF k
  <2>2. k \in Nat /\ 200 * k <= 140 * L + 100
    BY <1>1, <2>1 DEF k
  <2>3. L = 0 \/ L = 1 \/ L >= 2
    BY <1>1
  <2>4. QED
    BY <1>1, <2>2, <2>3
<1>3. /\ halves.fit = OnDates(rows, DatesFrom(Dates(rows), 1, k))
      /\ halves.eval = {row \in rows : row.date \notin DatesFrom(Dates(rows), 1, k)}
  BY DEF SplitByDate
<1> HIDE DEF k, L, halves
<1>4. halves.fit = Window(rows, 0, k)
  BY <1>3, FirstWindow
<1>5. halves.eval = rows \ Window(rows, 0, k)
  BY <1>3, <1>4 DEF OnDates
<1>6. /\ Before(Window(rows, 0, k), Window(rows, k, L))
      /\ Window(rows, 0, k) \cup Window(rows, k, L) = Window(rows, 0, L)
      /\ Window(rows, 0, L) = rows
  BY <1>1, <1>2, WindowsSplit
<1>7. halves.eval \subseteq Window(rows, k, L)
  BY <1>5, <1>6
<1>8. Before(halves.fit, halves.eval)
  BY <1>4, <1>6, <1>7 DEF Before, DatesOf
<1>9. halves.fit \cup halves.eval = rows
  BY <1>4, <1>5, <1>6
<1>10. QED
  BY <1>8, <1>9 DEF halves

\* Every backtest fits on what lies before what it evaluates.
LEMMA BacktestsAreInOrder ==
  ASSUME NEW rows, Dated(rows) PROVE BacktestInOrder(rows)
BY HalvesInOrder, RollingInOrder DEF BacktestInOrder

\* What is left of the rows without the newest dates is the window before.
LEMMA HeldOutIs ==
  ASSUME NEW rows, Dated(rows), NEW percent, NEW k \in Nat, NEW n, n = DateCount(rows),
         HeldOutCount(Dates(rows), percent) = n - k, k <= n
  PROVE  /\ OnDates(rows, HeldOut(Dates(rows), percent)) = Window(rows, k, n)
         /\ {row \in rows : row.date \notin HeldOut(Dates(rows), percent)} = Window(rows, 0, k)
<1> DEFINE held == HeldOut(Dates(rows), percent)
<1>1. n \in Nat
  BY DatesAre
<1>2. held = DatesFrom(Dates(rows), k + 1, n)
  <2>1. n - (n - k) + 1 = k + 1
    BY <1>1
  <2>2. held = DatesFrom(Dates(rows), n - (n - k) + 1, n)
    BY DEF HeldOut, DateCount
  <2>3. QED
    BY <2>1, <2>2
<1>3. OnDates(rows, held) = Window(rows, k, n)
  BY <1>2 DEF Window
<1>4. {row \in rows : row.date \notin held} = rows \ OnDates(rows, held)
  BY DEF OnDates
<1> HIDE DEF held
<1>5. /\ Before(Window(rows, 0, k), Window(rows, k, n))
      /\ Window(rows, 0, k) \cup Window(rows, k, n) = Window(rows, 0, n)
      /\ Window(rows, 0, n) = rows
  BY <1>1, WindowsSplit
<1>6. ASSUME NEW row \in Window(rows, 0, k), row \in Window(rows, k, n) PROVE FALSE
  <2>1. row.date < row.date
    BY <1>5, <1>6 DEF Before, DatesOf
  <2>2. row.date \in Int
    BY <1>5, <1>6 DEF Dated, DatesOf
  <2>3. QED
    BY <2>1, <2>2
<1>7. rows \ Window(rows, k, n) = Window(rows, 0, k)
  BY <1>5, <1>6
<1>8. QED
  BY <1>3, <1>4, <1>7 DEF held

\* At least one date is held out, and from two on one is left; of three, two.
LEMMA HeldOutCountIs ==
  ASSUME NEW dates, NEW n \in Nat, Len(dates) = n, n >= 2
  PROVE  /\ HeldOutCount(dates, 20) \in 1..n - 1
         /\ HeldOutCount(dates, 30) \in 1..n - 1
         /\ n >= 3 => HeldOutCount(dates, 20) <= n - 2
<1> DEFINE a == RoundedRatio(20 * n, 100)
           b == RoundedRatio(30 * n, 100)
<1>1. 100 \in {2, 3, 100} /\ 20 * n \in Nat /\ 30 * n \in Nat
  OBVIOUS
<1>2. a \in Nat /\ 2 * 100 * a <= 2 * (20 * n) + 100
  BY <1>1, RoundedIs
<1>3. b \in Nat /\ 2 * 100 * b <= 2 * (30 * n) + 100
  BY <1>1, RoundedIs
<1>4. /\ HeldOutCount(dates, 20) = IF 1 < a THEN a ELSE 1
      /\ HeldOutCount(dates, 30) = IF 1 < b THEN b ELSE 1
  BY DEF HeldOutCount, Greater
<1> HIDE DEF a, b
<1>5. a <= n - 1 /\ b <= n - 1 /\ (n >= 3 => a <= n - 2)
  BY <1>2, <1>3
<1>6. QED
  BY <1>2, <1>3, <1>4, <1>5

\* The first k dates are the k dates of their rows.
LEMMA WindowDated ==
  ASSUME NEW rows, Dated(rows), NEW k \in Nat, k <= DateCount(rows)
  PROVE  Dated(Window(rows, 0, k)) /\ DateCount(Window(rows, 0, k)) = k
<1> DEFINE W == Window(rows, 0, k)
           D == Dates(rows)
           n == DateCount(rows)
           S == DatesOf(W)
           f == [i \in 1..k |-> D[i]]
<1>1. /\ n \in Nat
      /\ \A i \in 1..n : D[i] \in DatesOf(rows)
      /\ \A row \in rows : \E i \in 1..n : D[i] = row.date
      /\ \A i \in 1..n : \E row \in rows : D[i] = row.date
      /\ \A i, j \in 1..n : D[i] = D[j] => i = j
  BY DatesAre
<1>2. /\ W \in SUBSET rows
      /\ \A row \in rows, i \in 1..n : D[i] = row.date => (row \in W <=> 0 < i /\ i <= k)
  BY WindowIs
<1>3. \A x : x \in S <=> \E row \in W : x = row.date
  BY DEF DatesOf
<1> HIDE DEF W, D, n, S
<1>4. 1..k \subseteq 1..n
  BY <1>1 DEF n
<1>5. \A i \in 1..k : D[i] \in S
  <2> TAKE i \in 1..k
  <2>1. i \in 1..n /\ 0 < i /\ i <= k
    BY <1>4
  <2>2. PICK row \in rows : D[i] = row.date
    BY <1>1, <2>1
  <2>3. QED
    BY <1>2, <1>3, <2>1, <2>2
<1>6. \A x \in S : \E i \in 1..k : D[i] = x
  <2> TAKE x \in S
  <2>1. PICK row \in W : x = row.date
    BY <1>3
  <2>2. PICK i \in 1..n : D[i] = row.date
    BY <1>1, <1>2
  <2>3. 0 < i /\ i <= k
    BY <1>2, <2>1, <2>2
  <2>4. i \in 1..k
    BY <2>3
  <2>5. QED
    BY <2>1, <2>2, <2>4
<1>7. f \in Bijection(1..k, S)
  <2>1. f \in [1..k -> S]
    BY <1>5
  <2>2. \A i, j \in 1..k : f[i] = f[j] => i = j
    BY <1>1, <1>4
  <2>3. f \in Injection(1..k, S)
    BY <2>1, <2>2 DEF Injection, IsInjective
  <2>4. f \in Surjection(1..k, S)
    BY <1>6, <2>1 DEF Surjection
  <2>5. QED
    BY <2>3, <2>4 DEF Bijection
<1>8. ExistsBijection(1..k, S)
  BY <1>7 DEF ExistsBijection
<1>9. Cardinality(S) = k /\ IsFiniteSet(S)
  BY <1>8, FS_CountingElements, FS_NatBijection
<1>10. S \in SUBSET Int
  BY <1>2, <1>3 DEF Dated, DatesOf
<1>11. Dated(W)
  BY <1>9, <1>10 DEF Dated, S
<1>12. DateCount(W) = Cardinality(S)
  BY <1>11, DatesAre DEF S
<1>13. QED
  BY <1>9, <1>11, <1>12 DEF W

\* Every investigation fits and validates on what lies before its holdout.
LEMMA InvestigationsAreInOrder ==
  ASSUME NEW rows, Dated(rows), LookaheadViolations(rows) = {}
  PROVE  InvestigationInOrder(rows)
<1> DEFINE D == Dates(rows)
           n == DateCount(rows)
           count == HeldOutCount(D, 20)
           m == n - count
           before == SubSeq(D, 1, Len(D) - count)
           pre == Window(rows, 0, m)
           p == Partitions(rows, 20)
           s == InvestigationSplit(rows)
           later == HeldOutCount(Dates(pre), 30)
           k == m - later
<1> SUFFICES ASSUME Cardinality(DatesOf(rows)) >= 3
             PROVE  /\ FoldsInOrder(p.folds, p.preholdout)
                    /\ s.fit # {} /\ InOrder([fit |-> s.fit, eval |-> s.validation])
                    /\ InOrder([fit |-> s.train, eval |-> s.holdout])
                    /\ s.fit \cup s.validation = s.train
                    /\ s.train \cup s.holdout = rows
  BY DEF InvestigationInOrder
<1>1. /\ n \in Nat /\ n >= 3 /\ Len(D) = n /\ D \in Seq(Int)
      /\ \A i \in 1..n : D[i] \in Int
  BY DatesAre DEF DateCount
<1>2. count \in 1..n - 1 /\ count <= n - 2
  <2> HIDE DEF D, n
  <2>1. n >= 2 /\ n >= 3
    BY <1>1
  <2>2. QED
    BY <1>1, <2>1, HeldOutCountIs
<1>3. m \in Nat /\ 2 <= m /\ m < n /\ m <= n /\ n - m = count
  <2> HIDE DEF n, count
  <2> QED BY <1>1, <1>2
<1>4. Dated(pre) /\ DateCount(pre) = m
  <2> HIDE DEF m
  <2> QED BY <1>3, WindowDated
<1>5. later \in 1..m - 1
  <2> HIDE DEF m, pre
  <2>1. Len(Dates(pre)) = m
    BY <1>4 DEF DateCount
  <2>2. QED
    BY <1>3, <2>1, HeldOutCountIs
<1>6. k \in Nat /\ 1 <= k /\ k < m /\ k <= m /\ m - k = later
  <2> HIDE DEF m, later
  <2> QED BY <1>3, <1>5
<1>7. before \in Seq(Int) /\ Len(before) = m /\ \A i \in 1..m : before[i] = D[i]
  <2> HIDE DEF D, n, count
  <2>1. Len(D) - count = m /\ 1 <= m /\ m - 1 + 1 = m /\ m \in Int
    BY <1>1, <1>3
  <2>2. \A i \in 1..m : D[i] \in Int
    BY <1>1, <1>3
  <2> DEFINE b == SubSeq(D, 1, m)
  <2> HIDE DEF m
  <2>3. /\ b \in Seq(Int) /\ Len(b) = m - 1 + 1
        /\ \A i \in 1..m - 1 + 1 : b[i] = D[1 + i - 1]
    BY <2>1, <2>2, SubSeqProperties
  <2>4. \A i \in 1..m : 1 + i - 1 = i
    OBVIOUS
  <2>5. before = b
    BY <2>1
  <2> HIDE DEF before, b
  <2>6. QED
    BY <2>1, <2>3, <2>4, <2>5
<1>8. /\ p.preholdout = OnDates(rows, Range(before))
      /\ p.holdout = OnDates(rows, HeldOut(D, 20))
      /\ p.folds = [i \in 1..Len(before) - 1 |->
                      [fit  |-> OnDates(rows, DatesFrom(before, 1, i)),
                       eval |-> OnDates(rows, {before[i + 1]})]]
  BY DEF Partitions
<1>9. /\ s.fit = {row \in p.preholdout : row.date \notin HeldOut(Dates(p.preholdout), 30)}
      /\ s.validation = OnDates(p.preholdout, HeldOut(Dates(p.preholdout), 30))
      /\ s.train = p.preholdout
      /\ s.holdout = p.holdout
  BY DEF InvestigationSplit
<1> HIDE DEF s, p, before, D, count, later
<1>10. p.preholdout = pre
  <2>1. Range(before) = {D[i] : i \in 1..m}
    <3>1. DOMAIN before = 1..m
      BY <1>7
    <3> HIDE DEF m
    <3>2. QED
      BY <1>7, <3>1 DEF Range
  <2>2. Range(before) = DatesFrom(D, 1, m)
    BY <2>1 DEF DatesFrom
  <2>3. QED
    BY <1>8, <2>2, FirstWindow DEF D
<1>11. p.holdout = Window(rows, m, n)
  <2> HIDE DEF m, n
  <2>1. HeldOutCount(Dates(rows), 20) = n - m
    BY <1>3 DEF count, D
  <2>2. QED
    BY <1>3, <1>8, <2>1, HeldOutIs DEF n, D
<1>12. s.validation = Window(pre, k, m) /\ s.fit = Window(pre, 0, k)
  <2> HIDE DEF m, pre, k
  <2>1. HeldOutCount(Dates(pre), 30) = m - k
    BY <1>6 DEF later
  <2>2. QED
    BY <1>4, <1>6, <1>9, <1>10, <2>1, HeldOutIs
<1>13. FoldsInOrder(p.folds, p.preholdout)
  <2> DEFINE K == m - 1
             bound == [i \in 0..K |-> i + 1]
  <2>1. K \in Nat \ {0} /\ K + 1 = m
    BY <1>3
  <2>2. bound \in [0..K -> 0..n] /\ bound[K] = m
    <3> HIDE DEF m, n
    <3> QED BY <1>1, <1>3, <2>1
  <2>3. \A i \in 1..K : bound[i - 1] = i /\ bound[i] = i + 1
    <3> HIDE DEF m
    <3> QED BY <2>1
  <2>4. \A i \in 1..K : bound[i - 1] < bound[i]
    BY <2>3
  <2>5. ASSUME NEW i \in 1..K
        PROVE  /\ OnDates(rows, DatesFrom(before, 1, i)) = Window(rows, 0, bound[i - 1])
               /\ OnDates(rows, {before[i + 1]}) = Window(rows, bound[i - 1], bound[i])
    <3> HIDE DEF m
    <3>1. 1..i \subseteq 1..m /\ i + 1 \in 1..m
      BY <2>1
    <3>2. DatesFrom(before, 1, i) = DatesFrom(D, 1, i)
      BY <1>7, <3>1 DEF DatesFrom
    <3>3. {before[i + 1]} = DatesFrom(D, i + 1, i + 1)
      <4>1. i + 1..i + 1 = {i + 1}
        OBVIOUS
      <4>2. before[i + 1] = D[i + 1]
        BY <1>7, <3>1
      <4>3. DatesFrom(D, i + 1, i + 1) = {D[j] : j \in {i + 1}}
        BY <4>1 DEF DatesFrom
      <4>4. QED
        BY <4>2, <4>3
    <3>4. QED
      <4>1. bound[i - 1] = i /\ bound[i] = i + 1
        BY <2>3
      <4> HIDE DEF bound
      <4>2. OnDates(rows, DatesFrom(before, 1, i)) = Window(rows, 0, i)
        BY <3>2, FirstWindow DEF D
      <4>3. OnDates(rows, {before[i + 1]}) = Window(rows, i, i + 1)
        BY <3>3 DEF Window, D
      <4>4. QED
        BY <4>1, <4>2, <4>3
  <2>6. p.folds = [i \in 1..K |-> [fit |-> Window(rows, 0, bound[i - 1]),
                                   eval |-> Window(rows, bound[i - 1], bound[i])]]
    <3>1. Len(before) - 1 = K
      BY <1>7
    <3> HIDE DEF bound, K
    <3>2. QED
      BY <1>8, <2>5, <3>1
  <2> HIDE DEF bound, K, m
  <2>7. FoldsInOrder(p.folds, Window(rows, 0, bound[K]))
    BY <2>1, <2>2, <2>4, <2>6, FoldsAlong
  <2>8. QED
    BY <1>10, <2>2, <2>7
<1>14. /\ Before(Window(rows, 0, m), Window(rows, m, n)) /\ Window(rows, m, n) # {}
       /\ Window(rows, 0, m) \cup Window(rows, m, n) = Window(rows, 0, n)
       /\ Window(rows, 0, n) = rows
  <2> HIDE DEF m
  <2> QED BY <1>1, <1>3, WindowsSplit
<1>15. /\ Before(Window(pre, 0, k), Window(pre, k, m)) /\ Window(pre, k, m) # {}
       /\ Window(pre, 0, k) \cup Window(pre, k, m) = Window(pre, 0, m)
       /\ Window(pre, 0, m) = pre
  <2> HIDE DEF m, k, pre
  <2> QED BY <1>3, <1>4, <1>6, WindowsSplit
<1>16. Window(pre, 0, k) # {}
  <2> HIDE DEF m, k, pre
  <2>1. 0 \in Nat /\ 0 <= 0 /\ 0 < k /\ k <= DateCount(pre)
    BY <1>4, <1>6
  <2>2. QED
    BY <1>4, <1>6, <2>1, WindowsSplit
<1> HIDE DEF m, n, k, pre
<1>17. InOrder([fit |-> s.fit, eval |-> s.validation])
  BY <1>12, <1>15 DEF InOrder
<1>18. InOrder([fit |-> s.train, eval |-> s.holdout])
  BY <1>9, <1>10, <1>11, <1>14 DEF InOrder, pre
<1>19. s.fit \cup s.validation = s.train /\ s.train \cup s.holdout = rows
  BY <1>9, <1>10, <1>11, <1>12, <1>14, <1>15 DEF pre
<1>20. QED
  BY <1>12, <1>13, <1>16, <1>17, <1>18, <1>19

\* The image of a finite set is no larger.
LEMMA FiniteImage ==
  ASSUME NEW S, IsFiniteSet(S), NEW f
  PROVE  IsFiniteSet({f[x] : x \in S}) /\ Cardinality({f[x] : x \in S}) <= Cardinality(S)
<1> DEFINE T == {f[x] : x \in S}
           g == [x \in S |-> f[x]]
<1>1. g \in Surjection(S, T)
  BY DEF Surjection
<1> HIDE DEF g, T
<1>2. IsFiniteSet(T) /\ Cardinality(T) <= Cardinality(S)
  BY <1>1, FS_Surjection
<1>3. QED
  BY <1>2 DEF T

\* Both forecasters are scored on the same rows: all of them.
LEMMA PopulationsMatch ==
  ASSUME NEW rows, IsFiniteSet(rows), NEW model, NEW market, NEW outcome,
         \A r \in rows : model[r] # {} /\ market[r] # {} /\ outcome[r] # {}
  PROVE  /\ Matched(rows, model, market, outcome).common = Cardinality(rows)
         /\ Matched(rows, model, market, outcome).modelEvents = Cardinality(rows)
         /\ Matched(rows, model, market, outcome).marketEvents = Cardinality(rows)
<1>1. /\ {r \in rows : model[r] # {} /\ market[r] # {} /\ outcome[r] # {}} = rows
      /\ {r \in rows : model[r] # {}} = rows
      /\ {r \in rows : market[r] # {}} = rows
  OBVIOUS
<1>2. QED
  BY <1>1 DEF Matched

\* An event has a signal or none, and a signal is won or lost.
LEMMA EvaluationAgrees ==
  ASSUME NEW rows, IsFiniteSet(rows), NEW method, NEW train, NEW measured
  PROVE  LET r == Evaluate(method, train, rows, measured)
         IN  /\ PopulationViolations(r) = {}
             /\ r.eligible + r.noTrade = r.clusters
             /\ r.scores.common = Cardinality(rows)
<1> DEFINE r == Evaluate(method, train, rows, measured)
           P == [row \in rows |-> Prediction(method, FitIsotonic(train), row)]
           Events == {row.date : row \in rows}
           Apart(row) == Distance(P[row], row.market)
           Candidates(d) == {row \in rows : row.date = d /\ Considered(method, row, measured)}
           Best(d) == LET far == {row \in Candidates(d) :
                                    \A o \in Candidates(d) : Apart(o) <= Apart(row)}
                      IN  CHOOSE row \in far : \A o \in far : row.index <= o.index
           Chosen == {e \in Events : Candidates(e) # {} /\ PaysOff(P[Best(e)], Best(e).market)}
           signals == {Best(d) : d \in Chosen}
           won == {row \in signals : row.winner <=> (P[row] > row.market)}
           scores == Matched(rows, [row \in rows |-> {P[row]}],
                             [row \in rows |-> {row.market}],
                             [row \in rows |-> {IF row.winner THEN 1 ELSE 0}])
<1>1. r = [eligible |-> Cardinality(signals), directionalWins |-> Cardinality(won),
           directionalLosses |-> Cardinality(signals) - Cardinality(won),
           directionalVoids |-> 0, clusters |-> Cardinality(Events),
           noTrade |-> Cardinality(Events) - Cardinality(signals),
           settled |-> 0, wins |-> 0, losses |-> 0, voids |-> 0,
           scores |-> scores]
  BY DEF Evaluate
<1>2. IsFiniteSet(Events)
  <2> DEFINE f == [row \in rows |-> row.date]
  <2>1. Events = {f[row] : row \in rows}
    OBVIOUS
  <2> HIDE DEF f, Events
  <2>2. QED
    BY <2>1, FiniteImage
<1>3. Chosen \in SUBSET Events
  OBVIOUS
<1>4. IsFiniteSet(signals)
  <2> DEFINE f == [d \in Chosen |-> Best(d)]
  <2>1. signals = {f[d] : d \in Chosen}
    BY Zenon
  <2> HIDE DEF f, signals, Chosen, Events
  <2>2. IsFiniteSet(Chosen)
    BY <1>2, <1>3, FS_Subset
  <2>3. QED
    BY <2>1, <2>2, FiniteImage
<1>5. won \in SUBSET signals
  <2> HIDE DEF signals
  <2> QED OBVIOUS
<1>6. /\ scores.common = Cardinality(rows)
      /\ scores.modelEvents = Cardinality(rows)
      /\ scores.marketEvents = Cardinality(rows)
  <2> HIDE DEF P
  <2> DEFINE a == [row \in rows |-> {P[row]}]
             b == [row \in rows |-> {row.market}]
             c == [row \in rows |-> {IF row.winner THEN 1 ELSE 0}]
  <2>1. \A row \in rows : a[row] # {} /\ b[row] # {} /\ c[row] # {}
    OBVIOUS
  <2> HIDE DEF a, b, c
  <2>2. /\ Matched(rows, a, b, c).common = Cardinality(rows)
        /\ Matched(rows, a, b, c).modelEvents = Cardinality(rows)
        /\ Matched(rows, a, b, c).marketEvents = Cardinality(rows)
    BY <2>1, PopulationsMatch
  <2>3. QED
    BY <2>2 DEF a, b, c
<1> HIDE DEF signals, won, scores, Events, r
<1>7. /\ Cardinality(signals) \in Nat /\ Cardinality(won) \in Nat
      /\ Cardinality(Events) \in Nat /\ Cardinality(rows) \in Nat
  BY <1>2, <1>4, <1>5, FS_CardinalityType, FS_Subset
<1>8. /\ r.eligible = Cardinality(signals) /\ r.directionalWins = Cardinality(won)
      /\ r.directionalLosses = Cardinality(signals) - Cardinality(won)
      /\ r.directionalVoids = 0 /\ r.clusters = Cardinality(Events)
      /\ r.noTrade = Cardinality(Events) - Cardinality(signals)
      /\ r.settled = 0 /\ r.wins = 0 /\ r.losses = 0 /\ r.voids = 0
      /\ r.scores = scores
  BY <1>1
<1>9. /\ r.wins + r.losses + r.voids = r.settled
      /\ r.directionalWins + r.directionalLosses + r.directionalVoids = r.eligible
      /\ ~(r.scores.common > Smaller(r.scores.modelEvents, r.scores.marketEvents))
      /\ r.eligible + r.noTrade = r.clusters
      /\ r.scores.common = Cardinality(rows)
  BY <1>6, <1>7, <1>8 DEF Smaller
<1>10. PopulationViolations(r) = {}
  BY <1>9 DEF PopulationViolations
<1>11. QED
  BY <1>9, <1>10 DEF r

\* Every candidate is judged on the same events and the same rows.
LEMMA PopulationsAlwaysAgree ==
  ASSUME NEW studied, IsFiniteSet(studied)
  PROVE  PopulationsAgree(studied)
<1> DEFINE s == InvestigationSplit(studied)
<1>1. s.validation \in SUBSET studied
  <2>1. /\ s.validation = OnDates(Partitions(studied, 20).preholdout,
                             HeldOut(Dates(Partitions(studied, 20).preholdout), 30))
    BY DEF InvestigationSplit
  <2>2. Partitions(studied, 20).preholdout \in SUBSET studied
    <3>1. \A rows, E : OnDates(rows, E) \in SUBSET rows
      BY DEF OnDates
    <3>2. \E E : Partitions(studied, 20).preholdout = OnDates(studied, E)
      BY DEF Partitions
    <3>3. QED
      BY <3>1, <3>2
  <2>3. s.validation \in SUBSET Partitions(studied, 20).preholdout
    BY <2>1 DEF OnDates
  <2>4. QED
    BY <2>2, <2>3
<1> HIDE DEF s
<1>2. IsFiniteSet(s.validation)
  BY <1>1, FS_Subset
<1>3. QED
  BY <1>2, EvaluationAgrees DEF PopulationsAgree, s

---------------------------------------------------------------------------
(* Research: an advantage in every part is one in the whole                *)

\* The probabilities of a row are numbers.
Rated(rows) == \A row \in rows : row.model \in Int /\ row.market \in Int

EventsOf(rows)  == {<<row.date, row.city>> : row \in rows}
RowsOf(rows, e) == {row \in rows : <<row.date, row.city>> = e}
MeanDifference(rows, q) ==
  [e \in EventsOf(rows) |->
     (6 * Sum([row \in rows |-> RowDifference(row, q)], RowsOf(rows, e)))
       \div Cardinality(RowsOf(rows, e))]

\* A row's difference of squared errors is a number.
LEMMA DifferenceIsNumber ==
  ASSUME NEW rows, Rated(rows), NEW q \in Int, NEW row \in rows
  PROVE  RowDifference(row, q) \in Int
<1> DEFINE outcome == IF row.winner THEN 400 ELSE 0
           a == Blend(row, q) - outcome
           b == 4 * row.market - outcome
<1>1. row.model \in Int /\ row.market \in Int /\ outcome \in Int
  BY DEF Rated
<1>2. Blend(row, q) \in Int
  BY <1>1 DEF Blend
<1>3. a \in Int /\ b \in Int
  BY <1>1, <1>2
<1>4. RowDifference(row, q) = Square(a) - Square(b)
  BY DEF RowDifference
<1> HIDE DEF a, b
<1>5. QED
  BY <1>3, <1>4 DEF Square

\* The sum of an event's rows, as the fold takes it.
LEMMA EventSumIs ==
  ASSUME NEW rows, NEW q, NEW S \in SUBSET rows
  PROVE  MapThenSumSet(LAMBDA row : RowDifference(row, q), S)
           = Sum([row \in rows |-> RowDifference(row, q)], S)
<1> DEFINE w == [row \in rows |-> RowDifference(row, q)]
           E1(g, T) == IF T = {} THEN 0 ELSE RowDifference(Pick(T), q) + g[T \ {Pick(T)}]
           E2(g, T) == IF T = {} THEN 0 ELSE w[Pick(T)] + g[T \ {Pick(T)}]
           F1(g) == g = [T \in SUBSET S |-> E1(g, T)]
           F2(g) == g = [T \in SUBSET S |-> E2(g, T)]
<1>1. ASSUME NEW g, NEW T \in SUBSET S PROVE E1(g, T) = E2(g, T)
  <2>1. T # {} => Pick(T) \in rows
    BY DEF Pick
  <2>2. \A row \in rows : w[row] = RowDifference(row, q)
    OBVIOUS
  <2> HIDE DEF w
  <2>3. QED
    BY <2>1, <2>2
<1>2. ASSUME NEW g PROVE F1(g) <=> F2(g)
  <2> HIDE DEF E1, E2
  <2>1. [T \in SUBSET S |-> E1(g, T)] = [T \in SUBSET S |-> E2(g, T)]
    BY <1>1
  <2>2. QED
    BY <2>1
<1>3. (CHOOSE g : F1(g)) = (CHOOSE g : F2(g))
  <2> HIDE DEF F1, F2
  <2>1. QED
    BY <1>2
<1>4. MapThenSumSet(LAMBDA row : RowDifference(row, q), S) = (CHOOSE g : F1(g))[S]
  BY DEF MapThenSumSet, MapThenFoldSet, Pick
<1>5. Sum(w, S) = (CHOOSE g : F2(g))[S]
  <2> HIDE DEF w
  <2>1. QED
    BY DEF Sum, MapThenSumSet, MapThenFoldSet, Pick, w
<1>6. QED
  BY <1>3, <1>4, <1>5

\* The sum over the clusters is one of their means.
LEMMA ClusterSumIs ==
  ASSUME NEW rows, NEW q
  PROVE  ClusterSum(rows, q) = Sum(MeanDifference(rows, q), EventsOf(rows))
<1> DEFINE S == EventsOf(rows)
           w == MeanDifference(rows, q)
           Mean(e) == (6 * MapThenSumSet(LAMBDA row : RowDifference(row, q), RowsOf(rows, e)))
                        \div Cardinality(RowsOf(rows, e))
           E1(g, T) == IF T = {} THEN 0 ELSE Mean(Pick(T)) + g[T \ {Pick(T)}]
           E2(g, T) == IF T = {} THEN 0 ELSE w[Pick(T)] + g[T \ {Pick(T)}]
           F1(g) == g = [T \in SUBSET S |-> E1(g, T)]
           F2(g) == g = [T \in SUBSET S |-> E2(g, T)]
<1>1. \A e \in S : w[e] = Mean(e)
  <2> TAKE e \in S
  <2>1. RowsOf(rows, e) \in SUBSET rows
    BY DEF RowsOf
  <2>2. MapThenSumSet(LAMBDA row : RowDifference(row, q), RowsOf(rows, e))
          = Sum([row \in rows |-> RowDifference(row, q)], RowsOf(rows, e))
    BY <2>1, EventSumIs
  <2>3. w[e] = (6 * Sum([row \in rows |-> RowDifference(row, q)], RowsOf(rows, e)))
                 \div Cardinality(RowsOf(rows, e))
    BY DEF MeanDifference
  <2>4. QED
    BY <2>2, <2>3
<1>2. ASSUME NEW g, NEW T \in SUBSET S PROVE E1(g, T) = E2(g, T)
  <2>1. T # {} => Pick(T) \in S
    BY DEF Pick
  <2> HIDE DEF w, Mean
  <2>2. QED
    BY <1>1, <2>1
<1>3. ASSUME NEW g PROVE F1(g) <=> F2(g)
  <2> HIDE DEF E1, E2
  <2>1. [T \in SUBSET S |-> E1(g, T)] = [T \in SUBSET S |-> E2(g, T)]
    BY <1>2
  <2>2. QED
    BY <2>1
<1>4. (CHOOSE g : F1(g)) = (CHOOSE g : F2(g))
  <2> HIDE DEF F1, F2
  <2>1. QED
    BY <1>3
<1>5. ClusterSum(rows, q) = (CHOOSE g : F1(g))[S]
  BY DEF ClusterSum, MapThenSumSet, MapThenFoldSet, Pick, EventsOf, RowsOf
<1>6. Sum(w, S) = (CHOOSE g : F2(g))[S]
  <2> HIDE DEF w
  <2>1. QED
    BY DEF Sum, MapThenSumSet, MapThenFoldSet, Pick
<1>7. QED
  BY <1>4, <1>5, <1>6

\* The clusters' means are finitely many numbers.
LEMMA MeansSummable ==
  ASSUME NEW rows, IsFiniteSet(rows), Rated(rows), NEW q \in Int
  PROVE  Summable(MeanDifference(rows, q), EventsOf(rows))
<1> DEFINE w == [row \in rows |-> RowDifference(row, q)]
<1>1. IsFiniteSet(EventsOf(rows))
  <2> DEFINE f == [row \in rows |-> <<row.date, row.city>>]
  <2>1. EventsOf(rows) = {f[row] : row \in rows}
    BY DEF EventsOf
  <2> HIDE DEF f
  <2>2. QED
    BY <2>1, FiniteImage
<1>2. ASSUME NEW e \in EventsOf(rows) PROVE MeanDifference(rows, q)[e] \in Int
  <2> DEFINE S == RowsOf(rows, e)
             n == Cardinality(S)
  <2>1. S \in SUBSET rows /\ S # {}
    BY DEF RowsOf, EventsOf
  <2>2. IsFiniteSet(S)
    BY <2>1, FS_Subset
  <2>3. n \in Nat /\ n # 0
    BY <2>1, <2>2, FS_CardinalityType, FS_EmptySet
  <2>4. \A row \in S : w[row] \in Int
    BY <2>1, DifferenceIsNumber
  <2>5. Sum(w, S) \in Int
    <3> HIDE DEF w
    <3> QED BY <2>2, <2>4, SumType DEF Summable
  <2>6. MeanDifference(rows, q)[e] = (6 * Sum(w, S)) \div n
    BY DEF MeanDifference
  <2> HIDE DEF w, S, n
  <2>7. 6 * Sum(w, S) \in Int
    BY <2>5
  <2>8. QED
    BY <2>3, <2>6, <2>7
<1>3. QED
  BY <1>1, <1>2 DEF Summable

\* A part that has the events it has whole agrees on them.
LEMMA PartAgrees ==
  ASSUME NEW rows, IsFiniteSet(rows), Rated(rows), NEW q \in Int,
         NEW part \in SUBSET rows, NEW e \in EventsOf(part),
         RowsOf(part, e) = RowsOf(rows, e)
  PROVE  MeanDifference(part, q)[e] = MeanDifference(rows, q)[e]
<1> DEFINE v == [row \in part |-> RowDifference(row, q)]
           w == [row \in rows |-> RowDifference(row, q)]
           S == RowsOf(rows, e)
<1>1. e \in EventsOf(rows) /\ S \in SUBSET part /\ S \in SUBSET rows
  BY DEF EventsOf, RowsOf
<1>2. \A row \in S : v[row] = w[row] /\ w[row] \in Int
  BY <1>1, DifferenceIsNumber
<1>3. IsFiniteSet(S)
  BY <1>1, FS_Subset
<1>4. /\ MeanDifference(part, q)[e] = (6 * Sum(v, S)) \div Cardinality(S)
      /\ MeanDifference(rows, q)[e] = (6 * Sum(w, S)) \div Cardinality(S)
  BY <1>1 DEF MeanDifference
<1> HIDE DEF v, w, S
<1>5. Sum(v, S) = Sum(w, S)
  BY <1>2, <1>3, SumSame DEF Summable
<1>6. QED
  BY <1>4, <1>5

\* The sums of two parts without a common event add up.
LEMMA ClusterSumJoins ==
  ASSUME NEW rows, IsFiniteSet(rows), Rated(rows), NEW q \in Int,
         NEW one \in SUBSET rows, NEW other \in SUBSET rows, rows = one \cup other,
         EventsOf(one) \cap EventsOf(other) = {}
  PROVE  /\ ClusterSum(rows, q) = ClusterSum(one, q) + ClusterSum(other, q)
         /\ ClusterSum(one, q) \in Int /\ ClusterSum(other, q) \in Int
<1> DEFINE w == MeanDifference(rows, q)
<1>1. EventsOf(rows) = EventsOf(one) \cup EventsOf(other)
  BY DEF EventsOf
<1>2. /\ \A e \in EventsOf(one) : RowsOf(one, e) = RowsOf(rows, e)
      /\ \A e \in EventsOf(other) : RowsOf(other, e) = RowsOf(rows, e)
  BY DEF EventsOf, RowsOf
<1>3. /\ \A e \in EventsOf(one) : MeanDifference(one, q)[e] = w[e]
      /\ \A e \in EventsOf(other) : MeanDifference(other, q)[e] = w[e]
  BY <1>2, PartAgrees
<1>4. IsFiniteSet(one) /\ IsFiniteSet(other) /\ Rated(one) /\ Rated(other)
  BY FS_Subset DEF Rated
<1>5. /\ Summable(w, EventsOf(rows))
      /\ Summable(MeanDifference(one, q), EventsOf(one))
      /\ Summable(MeanDifference(other, q), EventsOf(other))
  BY <1>4, MeansSummable
<1>6. IsFiniteSet(EventsOf(one)) /\ IsFiniteSet(EventsOf(other))
  BY <1>5 DEF Summable
<1> HIDE DEF w
<1>7. Summable(w, EventsOf(one)) /\ Summable(w, EventsOf(other))
  BY <1>1, <1>5, <1>6 DEF Summable
<1>8. /\ Sum(MeanDifference(one, q), EventsOf(one)) = Sum(w, EventsOf(one))
      /\ Sum(MeanDifference(other, q), EventsOf(other)) = Sum(w, EventsOf(other))
  BY <1>3, <1>7, SumSame
<1>9. Sum(w, EventsOf(one) \cup EventsOf(other))
        = Sum(w, EventsOf(one)) + Sum(w, EventsOf(other))
  BY <1>7, SumJoins
<1>10. Sum(w, EventsOf(one)) \in Int /\ Sum(w, EventsOf(other)) \in Int
  BY <1>7, SumType
<1>11. QED
  BY <1>1, <1>8, <1>9, <1>10, ClusterSumIs DEF w

\* The whole is the second date and the rest, and the blend beats the market
\* on each.
LEMMA StabilityAlwaysMeansSkill ==
  ASSUME NEW rows, IsFiniteSet(rows), Dated(rows), Rated(rows)
  PROVE  StabilityMeansSkill(rows)
<1> SUFFICES ASSUME Cardinality(DatesOf(rows)) >= 2, NEW q \in 1..3,
                    AllFavorCandidate(rows, q)
             PROVE  ClusterSum(rows, q) < 0
  BY DEF StabilityMeansSkill
<1> DEFINE D == Dates(rows)
           d == D[2]
           kept == {row \in rows : row.date # d}
           ofDay == OnDates(rows, {d})
<1>1. /\ Len(D) \in Nat /\ Len(D) >= 2
      /\ \E row \in rows : D[1] = row.date
      /\ \E row \in rows : D[2] = row.date
      /\ D[1] # D[2]
  <2>1. /\ DateCount(rows) \in Nat /\ DateCount(rows) >= 2
        /\ \A i \in 1..DateCount(rows) : \E row \in rows : D[i] = row.date
        /\ \A i, j \in 1..DateCount(rows) : D[i] = D[j] => i = j
    BY DatesAre
  <2> HIDE DEF D
  <2>2. 1 \in 1..DateCount(rows) /\ 2 \in 1..DateCount(rows)
    BY <2>1
  <2>3. D[1] # D[2]
    BY <2>1, <2>2
  <2>4. DateCount(rows) = Len(D)
    BY DEF DateCount, D
  <2>5. QED
    BY <2>1, <2>2, <2>3, <2>4
<1> HIDE DEF D
<1>2. /\ kept # {}
      /\ kept \in SUBSET rows /\ ofDay \in SUBSET rows
      /\ rows = kept \cup ofDay
  BY <1>1 DEF OnDates
<1>3. EventsOf(kept) \cap EventsOf(ofDay) = {}
  BY DEF EventsOf, OnDates
<1>4. (ClusterSum(kept, q) < 0) \in LeftOutDate(rows, q)
  <2>1. kept \in {{row \in rows : row.date # x} : x \in {r.date : r \in rows}} \ {{}}
    BY <1>1, <1>2
  <2> HIDE DEF kept
  <2>2. QED
    BY <2>1 DEF LeftOutDate
<1>5. (ClusterSum(ofDay, q) < 0) \in Chronological(rows, q)
  <2>1. 2 \in 2..Len(D)
    BY <1>1
  <2>2. Chronological(rows, q)
          = {ClusterSum(OnDates(rows, {D[i]}), q) < 0 : i \in 2..Len(D)}
    BY DEF Chronological, D
  <2>3. QED
    BY <2>1, <2>2
<1>6. /\ LeftOutDate(rows, q) \in SUBSET {TRUE}
      /\ Chronological(rows, q) \in SUBSET {TRUE}
  BY DEF AllFavorCandidate
<1> HIDE DEF kept, ofDay
<1>7. ClusterSum(kept, q) < 0 /\ ClusterSum(ofDay, q) < 0
  BY <1>4, <1>5, <1>6
<1>8. q \in Int
  OBVIOUS
<1>9. /\ ClusterSum(rows, q) = ClusterSum(kept, q) + ClusterSum(ofDay, q)
      /\ ClusterSum(kept, q) \in Int /\ ClusterSum(ofDay, q) \in Int
  <2>1. \A one, other \in SUBSET rows :
          rows = one \cup other /\ EventsOf(one) \cap EventsOf(other) = {} =>
            /\ ClusterSum(rows, q) = ClusterSum(one, q) + ClusterSum(other, q)
            /\ ClusterSum(one, q) \in Int /\ ClusterSum(other, q) \in Int
    BY <1>8, ClusterSumJoins
  <2>2. QED
    BY <1>2, <1>3, <2>1
<1>10. QED
  BY <1>7, <1>9

---------------------------------------------------------------------------
(* Research: shares, as <<wins, rows>>, in the order of their quotients    *)

Share == Int \X (Nat \ {0})
Together(p, q) == <<p[1] + q[1], p[2] + q[2]>>

\* Shares join to a share, and any two compare.
LEMMA ShareIs ==
  ASSUME NEW p \in Share, NEW q \in Share
  PROVE  /\ Together(p, q) \in Share
         /\ AtMost(p, p)
         /\ AtMost(p, q) \/ AtMost(q, p)
BY DEF Share, Together, AtMost

\* The order of shares is transitive.
LEMMA AtMostTrans ==
  ASSUME NEW p \in Share, NEW q \in Share, NEW r \in Share, AtMost(p, q), AtMost(q, r)
  PROVE  AtMost(p, r)
<1> DEFINE a == p[1]  x == p[2]
           b == q[1]  y == q[2]
           c == r[1]  z == r[2]
<1>1. /\ a \in Int /\ b \in Int /\ c \in Int
      /\ x \in Int /\ x > 0 /\ y \in Int /\ y > 0 /\ z \in Int /\ z > 0
      /\ a * y <= b * x /\ b * z <= c * y
  BY DEF Share, AtMost
<1> HIDE DEF a, b, c, x, y, z
<1>2. \A k, l, m \in Int : k <= l /\ m > 0 => k * m <= l * m
  OBVIOUS
<1>3. \A k, l, m \in Int : k * m <= l * m /\ m > 0 => k <= l
  <2> TAKE k, l, m \in Int
  <2>1. CASE k <= l
    BY <2>1
  <2>2. CASE l + 1 <= k
    <3>1. m > 0 => (l + 1) * m <= k * m
      BY <1>2, <2>2
    <3>2. (l + 1) * m = l * m + m
      OBVIOUS
    <3>3. QED
      BY <3>1, <3>2
  <2>3. QED
    BY <2>1, <2>2
<1>4. /\ a * y \in Int /\ b * x \in Int /\ b * z \in Int /\ c * y \in Int
      /\ a * z \in Int /\ c * x \in Int
  BY <1>1
<1>5. (a * y) * z <= (b * x) * z /\ (b * z) * x <= (c * y) * x
  BY <1>1, <1>2, <1>4
<1>6. /\ (a * y) * z = (a * z) * y /\ (b * x) * z = (b * z) * x
      /\ (c * y) * x = (c * x) * y
  BY <1>1
<1>7. (a * z) * y <= (c * x) * y
  BY <1>1, <1>4, <1>5, <1>6
<1>8. a * z <= c * x
  BY <1>1, <1>3, <1>4, <1>7
<1>9. QED
  BY <1>8 DEF AtMost, a, c, x, z

\* What is no less, or no more, than two shares is so for both together.
LEMMA AtMostTogether ==
  ASSUME NEW p \in Share, NEW q \in Share, NEW r \in Share
  PROVE  /\ AtMost(r, p) /\ AtMost(r, q) => AtMost(r, Together(p, q))
         /\ AtMost(p, r) /\ AtMost(q, r) => AtMost(Together(p, q), r)
<1>1. /\ p[1] \in Int /\ p[2] \in Int /\ q[1] \in Int /\ q[2] \in Int
      /\ r[1] \in Int /\ r[2] \in Int
  BY DEF Share
<1>2. /\ r[1] * (p[2] + q[2]) = r[1] * p[2] + r[1] * q[2]
      /\ (p[1] + q[1]) * r[2] = p[1] * r[2] + q[1] * r[2]
  BY <1>1
<1>3. /\ r[1] * p[2] \in Int /\ r[1] * q[2] \in Int
      /\ p[1] * r[2] \in Int /\ q[1] * r[2] \in Int
  BY <1>1
<1>4. QED
  BY <1>2, <1>3 DEF AtMost, Together

\* Both together lie between the two.
LEMMA Mediant ==
  ASSUME NEW p \in Share, NEW q \in Share
  PROVE  /\ AtMost(p, q) <=> AtMost(p, Together(p, q))
         /\ AtMost(p, q) <=> AtMost(Together(p, q), q)
         /\ AtMost(q, p) <=> AtMost(q, Together(p, q))
         /\ AtMost(q, p) <=> AtMost(Together(p, q), p)
<1>1. /\ p[1] \in Int /\ p[2] \in Int /\ q[1] \in Int /\ q[2] \in Int
  BY DEF Share
<1>2. /\ p[1] * (p[2] + q[2]) = p[1] * p[2] + p[1] * q[2]
      /\ (p[1] + q[1]) * p[2] = p[1] * p[2] + q[1] * p[2]
      /\ (p[1] + q[1]) * q[2] = p[1] * q[2] + q[1] * q[2]
      /\ q[1] * (p[2] + q[2]) = q[1] * p[2] + q[1] * q[2]
  BY <1>1
<1>3. /\ p[1] * p[2] \in Int /\ p[1] * q[2] \in Int
      /\ q[1] * p[2] \in Int /\ q[1] * q[2] \in Int
  BY <1>1
<1>4. QED
  BY <1>2, <1>3 DEF AtMost, Together

---------------------------------------------------------------------------
(* Research: groups and their segments                                     *)

Group == [upper : Int, wins : Nat, n : Nat \ {0}]

\* Groups of equal probability, in rising order.
Grouped(g) ==
  /\ g \in Seq(Group) /\ Len(g) \in Nat /\ Len(g) >= 1 /\ DOMAIN g = 1..Len(g)
  /\ \A i, j \in 1..Len(g) : i < j => g[i].upper < g[j].upper

Segment(g, a, b) ==
  <<MapThenSumSet(LAMBDA k : g[k].wins, a..b), MapThenSumSet(LAMBDA k : g[k].n, a..b)>>

\* A fold of wins is a sum.
LEMMA WinsSumIs ==
  ASSUME NEW g, NEW S, NEW w, \A k \in S : w[k] = g[k].wins
  PROVE  MapThenSumSet(LAMBDA k : g[k].wins, S) = Sum(w, S)
<1> DEFINE E1(h, T) == IF T = {} THEN 0 ELSE g[Pick(T)].wins + h[T \ {Pick(T)}]
           E2(h, T) == IF T = {} THEN 0 ELSE w[Pick(T)] + h[T \ {Pick(T)}]
           F1(h) == h = [T \in SUBSET S |-> E1(h, T)]
           F2(h) == h = [T \in SUBSET S |-> E2(h, T)]
<1>1. ASSUME NEW h, NEW T \in SUBSET S PROVE E1(h, T) = E2(h, T)
  <2>1. T # {} => Pick(T) \in S
    BY DEF Pick
  <2>2. QED
    BY <2>1
<1>2. ASSUME NEW h PROVE F1(h) <=> F2(h)
  <2> HIDE DEF E1, E2
  <2>1. [T \in SUBSET S |-> E1(h, T)] = [T \in SUBSET S |-> E2(h, T)]
    BY <1>1
  <2>2. QED
    BY <2>1
<1>3. (CHOOSE h : F1(h)) = (CHOOSE h : F2(h))
  <2> HIDE DEF F1, F2
  <2>1. QED
    BY <1>2
<1>4. MapThenSumSet(LAMBDA k : g[k].wins, S) = (CHOOSE h : F1(h))[S]
  BY DEF MapThenSumSet, MapThenFoldSet, Pick
<1>5. Sum(w, S) = (CHOOSE h : F2(h))[S]
  BY DEF Sum, MapThenSumSet, MapThenFoldSet, Pick
<1>6. QED
  BY <1>3, <1>4, <1>5

\* A fold of sizes is a sum.
LEMMA SizesSumIs ==
  ASSUME NEW g, NEW S, NEW w, \A k \in S : w[k] = g[k].n
  PROVE  MapThenSumSet(LAMBDA k : g[k].n, S) = Sum(w, S)
<1> DEFINE E1(h, T) == IF T = {} THEN 0 ELSE g[Pick(T)].n + h[T \ {Pick(T)}]
           E2(h, T) == IF T = {} THEN 0 ELSE w[Pick(T)] + h[T \ {Pick(T)}]
           F1(h) == h = [T \in SUBSET S |-> E1(h, T)]
           F2(h) == h = [T \in SUBSET S |-> E2(h, T)]
<1>1. ASSUME NEW h, NEW T \in SUBSET S PROVE E1(h, T) = E2(h, T)
  <2>1. T # {} => Pick(T) \in S
    BY DEF Pick
  <2>2. QED
    BY <2>1
<1>2. ASSUME NEW h PROVE F1(h) <=> F2(h)
  <2> HIDE DEF E1, E2
  <2>1. [T \in SUBSET S |-> E1(h, T)] = [T \in SUBSET S |-> E2(h, T)]
    BY <1>1
  <2>2. QED
    BY <2>1
<1>3. (CHOOSE h : F1(h)) = (CHOOSE h : F2(h))
  <2> HIDE DEF F1, F2
  <2>1. QED
    BY <1>2
<1>4. MapThenSumSet(LAMBDA k : g[k].n, S) = (CHOOSE h : F1(h))[S]
  BY DEF MapThenSumSet, MapThenFoldSet, Pick
<1>5. Sum(w, S) = (CHOOSE h : F2(h))[S]
  BY DEF Sum, MapThenSumSet, MapThenFoldSet, Pick
<1>6. QED
  BY <1>3, <1>4, <1>5

\* The sum over a segment is that of its two parts.
LEMMA SegmentSums ==
  ASSUME NEW N \in Nat, NEW w, \A k \in 1..N : w[k] \in Int,
         NEW a \in 1..N, NEW b \in a..N
  PROVE  /\ Sum(w, a..b) \in Int
         /\ Sum(w, a..a) = w[a]
         /\ (\A k \in 1..N : w[k] > 0) => Sum(w, a..b) > 0
<1>1. \A c, d \in Int : 1 <= c /\ d <= N => Summable(w, c..d)
  <2> TAKE c, d \in Int
  <2>1. IsFiniteSet(c..d)
    BY FS_Interval
  <2>2. QED
    BY <2>1 DEF Summable
<1>2. a \in Int /\ b \in Int /\ 1 <= a /\ a <= b /\ b <= N
  OBVIOUS
<1>3. Summable(w, a..b) /\ Summable(w, a..a)
  <2>1. a <= N
    BY <1>2
  <2>2. QED
    BY <1>1, <1>2, <2>1
<1>4. Sum(w, a..a) = w[a]
  <2>1. a \in a..a /\ (a..a) \ {a} = {}
    BY <1>2
  <2>2. Sum(w, a..a) = w[a] + Sum(w, {})
    BY <1>3, <2>1, SumRemove
  <2>3. Sum(w, {}) = 0 /\ w[a] \in Int
    BY <1>3, SumType
  <2>4. QED
    BY <2>2, <2>3
<1>6. ASSUME \A k \in 1..N : w[k] > 0 PROVE Sum(w, a..b) > 0
  <2>1. {a} \in SUBSET (a..b) /\ \A k \in (a..b) \ {a} : w[k] >= 0
    <3>1. \A k \in a..b : k \in 1..N
      BY <1>2
    <3>2. \A k \in a..b : w[k] >= 0
      BY <1>6, <3>1
    <3>3. QED
      BY <1>2, <3>2
  <2>2. Sum(w, {a}) <= Sum(w, a..b)
    BY <1>3, <2>1, SumGrows
  <2>3. a..a = {a} /\ w[a] > 0 /\ w[a] \in Int
    BY <1>2, <1>6
  <2>4. Sum(w, a..b) \in Int
    BY <1>3, SumType
  <2>5. QED
    BY <1>4, <2>2, <2>3, <2>4
<1>7. QED
  BY <1>3, <1>4, <1>6, SumType

\* A sum over an interval splits at any place in it.
LEMMA SegmentSumSplits ==
  ASSUME NEW N \in Nat, NEW w, \A k \in 1..N : w[k] \in Int,
         NEW a \in Int, NEW m \in Int, NEW k \in Int, NEW b \in Int,
         1 <= a, a <= m, k = m + 1, k <= b, b <= N
  PROVE  Sum(w, a..b) = Sum(w, a..m) + Sum(w, k..b)
<1> DEFINE S == a..m
           T == k..b
<1>1. S \cap T = {} /\ a..b = S \cup T
  OBVIOUS
<1>2. IsFiniteSet(S) /\ IsFiniteSet(T)
  BY FS_Interval
<1>3. Summable(w, S) /\ Summable(w, T)
  <2>1. \A i \in S \cup T : i \in 1..N
    OBVIOUS
  <2> HIDE DEF S, T
  <2>2. QED
    BY <1>2, <2>1 DEF Summable
<1> HIDE DEF S, T
<1>4. Sum(w, S \cup T) = Sum(w, S) + Sum(w, T)
  BY <1>1, <1>3, SumJoins
<1>5. QED
  BY <1>1, <1>4 DEF S, T

\* A segment is a share, and joins of its parts.
LEMMA SegmentsAre ==
  ASSUME NEW g, Grouped(g), NEW a \in 1..Len(g), NEW b \in a..Len(g)
  PROVE  /\ Segment(g, a, b) \in Share
         /\ Segment(g, a, a) = <<g[a].wins, g[a].n>>
         /\ \A m \in a..b - 1 : Segment(g, a, b) = Together(Segment(g, a, m), Segment(g, m + 1, b))
<1> DEFINE N == Len(g)
           v == [k \in 1..N |-> g[k].wins]
           w == [k \in 1..N |-> g[k].n]
<1>1. /\ N \in Nat /\ \A k \in 1..N : g[k] \in Group
      /\ \A k \in 1..N : v[k] = g[k].wins /\ w[k] = g[k].n
  BY DEF Grouped
<1>2. \A k \in 1..N : v[k] \in Int /\ w[k] \in Int /\ w[k] > 0
  BY <1>1 DEF Group
<1> HIDE DEF N, v, w
<1>3. a \in 1..N /\ b \in a..N
  BY DEF N
<1>4. \A c \in 1..N, d \in 1..N : Segment(g, c, d) = <<Sum(v, c..d), Sum(w, c..d)>>
  <2> TAKE c \in 1..N, d \in 1..N
  <2>1. \A k \in c..d : k \in 1..N
    BY <1>1
  <2>2. (\A k \in c..d : v[k] = g[k].wins) /\ (\A k \in c..d : w[k] = g[k].n)
    BY <1>1, <2>1
  <2> DEFINE S == c..d
  <2>3. MapThenSumSet(LAMBDA k : g[k].wins, S) = Sum(v, S)
    <3>1. \A k \in S : v[k] = g[k].wins
      BY <2>2
    <3> HIDE DEF S
    <3>2. QED
      BY <3>1, WinsSumIs
  <2>4. MapThenSumSet(LAMBDA k : g[k].n, S) = Sum(w, S)
    <3>1. \A k \in S : w[k] = g[k].n
      BY <2>2
    <3> HIDE DEF S
    <3>2. QED
      BY <3>1, SizesSumIs
  <2>5. QED
    BY <2>3, <2>4 DEF Segment
<1>5. /\ Sum(v, a..b) \in Int /\ Sum(v, a..a) = v[a]
      /\ \A m \in a..b - 1 : Sum(v, a..b) = Sum(v, a..m) + Sum(v, m + 1..b)
  <2>1. N \in Nat /\ \A k \in 1..N : v[k] \in Int
    BY <1>1, <1>2
  <2>2. Sum(v, a..b) \in Int /\ Sum(v, a..a) = v[a]
    BY <1>3, <2>1, SegmentSums
  <2>3. ASSUME NEW m \in a..b - 1
        PROVE  Sum(v, a..b) = Sum(v, a..m) + Sum(v, m + 1..b)
    <3> DEFINE k == m + 1
    <3>1. /\ a \in Int /\ m \in Int /\ k \in Int /\ b \in Int
          /\ 1 <= a /\ a <= m /\ k = m + 1 /\ k <= b /\ b <= N
      BY <1>1, <1>3
    <3> HIDE DEF k
    <3>2. Sum(v, a..b) = Sum(v, a..m) + Sum(v, k..b)
      BY <2>1, <3>1, SegmentSumSplits
    <3>3. QED
      BY <3>2 DEF k
  <2>4. QED
    BY <2>2, <2>3
<1>6. /\ Sum(w, a..b) \in Int /\ Sum(w, a..a) = w[a] /\ Sum(w, a..b) > 0
      /\ \A m \in a..b - 1 : Sum(w, a..b) = Sum(w, a..m) + Sum(w, m + 1..b)
  <2>1. /\ N \in Nat /\ \A k \in 1..N : w[k] \in Int
        /\ \A k \in 1..N : w[k] > 0
    BY <1>1, <1>2
  <2>2. Sum(w, a..b) \in Int /\ Sum(w, a..a) = w[a]
    BY <1>3, <2>1, SegmentSums
  <2>3. ASSUME NEW m \in a..b - 1
        PROVE  Sum(w, a..b) = Sum(w, a..m) + Sum(w, m + 1..b)
    <3> DEFINE k == m + 1
    <3>1. /\ a \in Int /\ m \in Int /\ k \in Int /\ b \in Int
          /\ 1 <= a /\ a <= m /\ k = m + 1 /\ k <= b /\ b <= N
      BY <1>1, <1>3
    <3> HIDE DEF k
    <3>2. Sum(w, a..b) = Sum(w, a..m) + Sum(w, k..b)
      BY <2>1, <3>1, SegmentSumSplits
    <3>3. QED
      BY <3>2 DEF k
  <2>4. Sum(w, a..b) > 0
    BY <1>3, <2>1, SegmentSums
  <2>5. QED
    BY <2>2, <2>3, <2>4
<1>7. b \in 1..N /\ \A m \in a..b - 1 : m \in 1..N /\ m + 1 \in 1..N
  BY <1>1, <1>3
<1>8. Segment(g, a, b) = <<Sum(v, a..b), Sum(w, a..b)>>
  BY <1>3, <1>4, <1>7
<1>9. Segment(g, a, b) \in Share
  BY <1>5, <1>6, <1>8 DEF Share
<1>10. Segment(g, a, a) = <<g[a].wins, g[a].n>>
  BY <1>1, <1>3, <1>4, <1>5, <1>6
<1>11. ASSUME NEW m \in a..b - 1
       PROVE  Segment(g, a, b) = Together(Segment(g, a, m), Segment(g, m + 1, b))
  <2>1. /\ Segment(g, a, m) = <<Sum(v, a..m), Sum(w, a..m)>>
        /\ Segment(g, m + 1, b) = <<Sum(v, m + 1..b), Sum(w, m + 1..b)>>
    BY <1>3, <1>4, <1>7
  <2>2. QED
    BY <1>5, <1>6, <1>8, <2>1 DEF Together
<1>12. QED
  BY <1>9, <1>10, <1>11

---------------------------------------------------------------------------
(* Research: pooling                                                       *)

\* Blocks lighter than their heads stay so when they merge.
LEMMA MergedHead ==
  ASSUME NEW A \in Share, NEW P \in Share, NEW R \in Share, NEW B \in Share,
         B = Together(P, R), AtMost(B, P), AtMost(B, A)
  PROVE  AtMost(Together(A, B), Together(A, P))
<1> DEFINE AB == Together(A, B)
           AP == Together(A, P)
<1>1. AB \in Share /\ AP \in Share
  BY ShareIs
<1>2. AB = Together(AP, R)
  BY DEF Together, Share
<1>3. AtMost(R, B)
  BY Mediant
<1>4. AtMost(B, AB)
  BY Mediant
<1> HIDE DEF AB, AP
<1>5. AtMost(R, AB)
  BY <1>1, <1>3, <1>4, AtMostTrans
<1>6. AtMost(R, AP)
  BY <1>1, <1>2, <1>5, Mediant
<1>7. AtMost(AB, AP)
  BY <1>1, <1>2, <1>6, Mediant
<1>8. QED
  BY <1>7 DEF AB, AP

Quotient(x) == <<x.wins, x.n>>

\* The groups of f are those of g, pooled from lo to hi; none begins with a
\* smaller share than it has in all.
Blocks(f, lo, hi, g) ==
  /\ f \in Seq(Group) /\ Len(f) \in 1..Len(g)
  /\ lo \in [1..Len(f) -> 1..Len(g)] /\ hi \in [1..Len(f) -> 1..Len(g)]
  /\ lo[1] = 1 /\ hi[Len(f)] = Len(g)
  /\ \A k \in 1..Len(f) : lo[k] <= hi[k]
  /\ \A k \in 1..Len(f) - 1 : lo[k + 1] = hi[k] + 1
  /\ \A k \in 1..Len(f) : /\ f[k].upper = g[hi[k]].upper
                          /\ Quotient(f[k]) = Segment(g, lo[k], hi[k])
  /\ \A k \in 1..Len(f) : \A b \in lo[k]..hi[k] :
       AtMost(Quotient(f[k]), Segment(g, lo[k], b))

\* The first i groups are in order.
RisesTo(f, i) == \A k \in 1..i - 1 : AtMost(Quotient(f[k]), Quotient(f[k + 1]))

\* A block is a share of the groups it stands for.
LEMMA BlockIs ==
  ASSUME NEW g, Grouped(g), NEW f, NEW lo, NEW hi, Blocks(f, lo, hi, g), NEW k \in 1..Len(f)
  PROVE  /\ f[k] \in Group /\ Quotient(f[k]) \in Share
         /\ lo[k] \in 1..Len(g) /\ hi[k] \in 1..Len(g) /\ lo[k] <= hi[k]
         /\ Quotient(f[k]) = Segment(g, lo[k], hi[k])
<1>1. f[k] \in Group
  BY DEF Blocks
<1>2. f[k].wins \in Nat /\ f[k].n \in Nat \ {0}
  BY <1>1 DEF Group
<1>3. Quotient(f[k]) \in Share
  BY <1>2 DEF Quotient, Share
<1>4. QED
  BY <1>1, <1>3 DEF Blocks

\* Merging two groups that fall.
LEMMA MergeKeepsBlocks ==
  ASSUME NEW g, Grouped(g), NEW f, NEW lo, NEW hi, Blocks(f, lo, hi, g),
         NEW i \in 1..Len(f) - 1, ~RisesAt(f, i)
  PROVE  /\ Len(Merged(f, i)) = Len(f) - 1
         /\ \A k \in 1..i - 1 : Merged(f, i)[k] = f[k]
         /\ \E l, h : Blocks(Merged(f, i), l, h, g)
<1> DEFINE m == Len(f)
           N == Len(g)
           F == Merged(f, i)
           l == [k \in 1..m - 1 |-> IF k <= i THEN lo[k] ELSE lo[k + 1]]
           h == [k \in 1..m - 1 |-> IF k < i THEN hi[k] ELSE hi[k + 1]]
           new == [upper |-> f[i + 1].upper, wins |-> f[i].wins + f[i + 1].wins,
                   n |-> f[i].n + f[i + 1].n]
           j == i + 1
<1>1. /\ m \in Int /\ N \in Int /\ m <= N /\ i \in Int /\ i >= 1 /\ j \in Int /\ j = i + 1
      /\ j <= m /\ i \in 1..m /\ j \in 1..m
  BY DEF Blocks, Grouped
<1>2. /\ f[i] \in Group /\ f[j] \in Group
      /\ Quotient(f[i]) \in Share /\ Quotient(f[j]) \in Share
      /\ lo[i] \in 1..N /\ hi[i] \in 1..N /\ lo[i] <= hi[i]
      /\ lo[j] \in 1..N /\ hi[j] \in 1..N /\ lo[j] <= hi[j]
      /\ Quotient(f[i]) = Segment(g, lo[i], hi[i])
      /\ Quotient(f[j]) = Segment(g, lo[j], hi[j])
  <2> HIDE DEF j, m, N
  <2>1. i \in 1..Len(f) /\ j \in 1..Len(f)
    BY <1>1 DEF m
  <2>2. QED
    BY <2>1, BlockIs DEF N
<1>3. F = [k \in 1..m - 1 |-> IF k < i THEN f[k] ELSE IF k > i THEN f[k + 1] ELSE new]
  BY DEF Merged
<1>4. new \in Group
  <2>1. \A x, y \in Group : [upper |-> y.upper, wins |-> x.wins + y.wins,
                             n |-> x.n + y.n] \in Group
    BY DEF Group
  <2>2. QED
    BY <1>2, <2>1
<1>5. Quotient(new) = Together(Quotient(f[i]), Quotient(f[j]))
  BY DEF Quotient, Together
<1>6. AtMost(Quotient(f[j]), Quotient(f[i]))
  <2>1. ~AtMost(Quotient(f[i]), Quotient(f[j]))
    BY DEF RisesAt, AtMost, Quotient
  <2> HIDE DEF j
  <2>2. QED
    BY <1>2, <2>1, ShareIs
<1>7. new.upper = f[j].upper
  OBVIOUS
<1>8. lo[j] = hi[i] + 1
  BY DEF Blocks
<1>9. F[i] = new /\ l[i] = lo[i] /\ h[i] = hi[j]
  <2>1. i \in 1..m - 1 /\ ~(i < i) /\ ~(i > i) /\ i <= i
    BY <1>1
  <2>2. QED
    BY <1>3, <2>1
<1>10. \A k \in 1..m - 1 : /\ k < i => F[k] = f[k] /\ l[k] = lo[k] /\ h[k] = hi[k]
                           /\ k > i => F[k] = f[k + 1] /\ l[k] = lo[k + 1] /\ h[k] = hi[k + 1]
  <2> TAKE k \in 1..m - 1
  <2>1. k \in Int /\ (k < i => k <= i /\ ~(k > i)) /\ (k > i => ~(k <= i) /\ ~(k < i))
    BY <1>1
  <2> HIDE DEF new
  <2>2. QED
    BY <1>3, <2>1
<1>11. DOMAIN F = 1..m - 1 /\ DOMAIN l = 1..m - 1 /\ DOMAIN h = 1..m - 1
  BY <1>3
<1>12. /\ \A k \in 1..m : f[k] \in Group /\ lo[k] \in 1..N /\ hi[k] \in 1..N /\ lo[k] <= hi[k]
       /\ l = [k \in 1..m - 1 |-> l[k]] /\ h = [k \in 1..m - 1 |-> h[k]]
       /\ F = [k \in 1..m - 1 |-> F[k]]
  BY <1>3, BlockIs
<1>13. /\ lo[1] = 1 /\ hi[m] = N
       /\ \A k \in 1..m - 1 : lo[k + 1] = hi[k] + 1
       /\ \A k \in 1..m : f[k].upper = g[hi[k]].upper
       /\ \A k \in 1..m : Quotient(f[k]) = Segment(g, lo[k], hi[k])
       /\ \A k \in 1..m : \A b \in lo[k]..hi[k] :
            AtMost(Quotient(f[k]), Segment(g, lo[k], b))
  BY DEF Blocks
<1>14. Segment(g, lo[i], hi[j]) = Together(Segment(g, lo[i], hi[i]), Segment(g, lo[j], hi[j]))
  <2>1. hi[i] \in lo[i]..hi[j] - 1 /\ hi[j] \in lo[i]..N
    BY <1>1, <1>2, <1>8
  <2> HIDE DEF j, N
  <2>2. Segment(g, lo[i], hi[j]) = Together(Segment(g, lo[i], hi[i]), Segment(g, hi[i] + 1, hi[j]))
    BY <1>2, <2>1, SegmentsAre DEF N
  <2>3. QED
    BY <1>8, <2>2
<1> HIDE DEF F, l, h, new, j, m, N
<1>15. \A b \in lo[i]..hi[j] : AtMost(Quotient(new), Segment(g, lo[i], b))
  <2> TAKE b \in lo[i]..hi[j]
  <2> DEFINE A == Quotient(f[i])
             B == Quotient(f[j])
             AB == Together(A, B)
  <2>1. A \in Share /\ B \in Share /\ AB \in Share /\ AtMost(B, A) /\ AtMost(AB, A)
    BY <1>2, <1>6, ShareIs, Mediant
  <2>2. Quotient(new) = AB
    BY <1>5
  <2>3. A = Segment(g, lo[i], hi[i]) /\ B = Segment(g, lo[j], hi[j])
    BY <1>2
  <2> HIDE DEF A, B, AB
  <2>4. b \in Int /\ lo[i] <= b /\ b <= hi[j]
    BY <1>2
  <2>5. CASE b <= hi[i]
    <3>1. b \in lo[i]..hi[i]
      BY <1>2, <2>4, <2>5
    <3>2. AtMost(A, Segment(g, lo[i], b))
      BY <1>1, <1>13, <3>1 DEF A
    <3>3. b \in lo[i]..N
      BY <1>1, <1>2, <2>4
    <3>4. Segment(g, lo[i], b) \in Share
      BY <1>2, <3>3, SegmentsAre DEF N
    <3>5. QED
      BY <2>1, <2>2, <3>2, <3>4, AtMostTrans
  <2>6. CASE b = hi[j]
    <3>1. Segment(g, lo[i], b) = AB
      BY <1>14, <2>3, <2>6 DEF AB
    <3>2. QED
      BY <2>1, <2>2, <3>1, ShareIs
  <2>7. CASE hi[i] < b /\ b < hi[j]
    <3> DEFINE P == Segment(g, lo[j], b)
               c == b + 1
               R == Segment(g, c, hi[j])
    <3>1. /\ lo[j] \in 1..N /\ b \in lo[j]..N /\ b \in lo[j]..hi[j] /\ hi[j] \in lo[j]..N
          /\ b \in lo[j]..hi[j] - 1
          /\ c \in 1..N /\ hi[j] \in c..N
          /\ b \in lo[i]..N /\ hi[i] \in lo[i]..b - 1
      BY <1>1, <1>2, <1>8, <2>4, <2>7
    <3>2. P \in Share
      BY <3>1, SegmentsAre DEF N
    <3>3. R \in Share
      <4> HIDE DEF c
      <4> QED BY <3>1, SegmentsAre DEF N
    <3>4. B = Together(P, R)
      BY <2>3, <3>1, SegmentsAre DEF N
    <3>5. AtMost(B, P)
      BY <1>1, <1>13, <3>1 DEF B
    <3>6. Segment(g, lo[i], b) = Together(A, P)
      <4>1. Segment(g, lo[i], b) = Together(Segment(g, lo[i], hi[i]), Segment(g, hi[i] + 1, b))
        BY <1>2, <3>1, SegmentsAre DEF N
      <4>2. QED
        BY <1>8, <2>3, <4>1
    <3> HIDE DEF P, R, c
    <3>7. AtMost(Together(A, B), Together(A, P))
      BY <2>1, <3>2, <3>3, <3>4, <3>5, MergedHead
    <3>8. QED
      BY <2>2, <3>6, <3>7 DEF AB
  <2>8. QED
    BY <1>2, <2>4, <2>5, <2>6, <2>7
<1>16. ASSUME NEW k \in 1..m - 1
       PROVE  /\ F[k] \in Group /\ l[k] \in 1..N /\ h[k] \in 1..N /\ l[k] <= h[k]
              /\ F[k].upper = g[h[k]].upper
              /\ Quotient(F[k]) = Segment(g, l[k], h[k])
              /\ \A b \in l[k]..h[k] : AtMost(Quotient(F[k]), Segment(g, l[k], b))
  <2>1. k \in 1..m /\ k + 1 \in 1..m
    BY <1>1
  <2>2. CASE k < i
    <3>1. F[k] = f[k] /\ l[k] = lo[k] /\ h[k] = hi[k]
      BY <1>10, <2>2
    <3>2. QED
      BY <1>12, <1>13, <2>1, <3>1
  <2>3. CASE k > i
    <3> DEFINE q == k + 1
    <3>1. F[k] = f[q] /\ l[k] = lo[q] /\ h[k] = hi[q]
      BY <1>10, <2>3
    <3>2. q \in 1..m
      BY <2>1
    <3> HIDE DEF q
    <3>3. QED
      BY <1>12, <1>13, <3>1, <3>2
  <2>4. CASE k = i
    <3>1. F[k] = new /\ l[k] = lo[i] /\ h[k] = hi[j]
      BY <1>9, <2>4
    <3>2. new.upper = g[hi[j]].upper
      BY <1>1, <1>7, <1>13
    <3>3. Quotient(new) = Segment(g, lo[i], hi[j])
      BY <1>2, <1>5, <1>14
    <3>4. lo[i] <= hi[j]
      BY <1>1, <1>2, <1>8
    <3>5. QED
      BY <1>2, <1>4, <1>15, <3>1, <3>2, <3>3, <3>4
  <2>5. QED
    BY <1>1, <2>2, <2>3, <2>4
<1>17. F \in Seq(Group) /\ Len(F) = m - 1 /\ m - 1 \in 1..N
  <2>1. F \in [1..m - 1 -> Group]
    BY <1>12, <1>16
  <2>2. m - 1 \in Nat /\ m - 1 \in 1..N
    BY <1>1
  <2>3. QED
    BY <2>1, <2>2
<1>18. l[1] = 1 /\ h[m - 1] = N
  <2>1. 1 \in 1..m - 1 /\ m - 1 \in 1..m - 1 /\ (m - 1) + 1 = m
    BY <1>1
  <2>2. l[1] = lo[1]
    <3>1. CASE i = 1
      BY <1>9, <3>1
    <3>2. CASE i # 1
      BY <1>1, <1>10, <2>1, <3>2
    <3>3. QED
      BY <3>1, <3>2
  <2>3. h[m - 1] = hi[m]
    <3>1. CASE i = m - 1
      <4>1. j = m
        BY <1>1, <3>1
      <4>2. QED
        BY <1>9, <3>1, <4>1
    <3>2. CASE i # m - 1
      <4>1. m - 1 > i
        BY <1>1, <3>2
      <4>2. QED
        BY <1>10, <2>1, <4>1
    <3>3. QED
      BY <3>1, <3>2
  <2>4. QED
    BY <1>13, <2>2, <2>3
<1>19. ASSUME NEW k \in 1..(m - 1) - 1 PROVE l[k + 1] = h[k] + 1
  <2> DEFINE q == k + 1
             z == q + 1
  <2>1. /\ k \in 1..m - 1 /\ q \in 1..m - 1 /\ z \in 1..m /\ q \in Int /\ k \in Int
        /\ q = k + 1 /\ z = q + 1
    BY <1>1
  <2>2. lo[q] = hi[k] + 1 /\ lo[z] = hi[q] + 1
    BY <1>13, <2>1
  <2>3. /\ q < i => l[q] = lo[q]
        /\ q > i => l[q] = lo[z]
        /\ q = i => l[q] = lo[q]
        /\ k < i => h[k] = hi[k]
        /\ k > i => h[k] = hi[q]
        /\ k = i => h[k] = hi[q]
    BY <1>1, <1>9, <1>10, <2>1
  <2> HIDE DEF q, z
  <2>4. CASE k < i
    <3>1. q < i \/ q = i
      BY <1>1, <2>1, <2>4
    <3>2. QED
      BY <2>2, <2>3, <2>4, <3>1 DEF q
  <2>5. CASE ~(k < i)
    <3>1. (k > i \/ k = i) /\ q > i
      BY <1>1, <2>1, <2>5
    <3>2. QED
      BY <2>2, <2>3, <3>1 DEF q
  <2>6. QED
    BY <2>4, <2>5
<1>20. l \in [1..m - 1 -> 1..N] /\ h \in [1..m - 1 -> 1..N]
  BY <1>12, <1>16
<1>21. Blocks(F, l, h, g)
  BY <1>16, <1>17, <1>18, <1>19, <1>20 DEF Blocks, N
<1>22. \A k \in 1..i - 1 : F[k] = f[k]
  BY <1>1, <1>10
<1>23. QED
  BY <1>17, <1>21, <1>22 DEF F, m

PoolStart(g) == [g |-> g, i |-> 1]
PoolState == [g : Seq(Group), i : Nat \ {0}]

PoolsTo(f, g) ==
  f = [T \in SUBSET (1..2 * Len(g)) |->
         IF T = {} THEN PoolStart(g) ELSE PoolStep(f[T \ {Max(T)}])]

\* The pooling as a fold over its rounds.
LEMMA PoolDef ==
  ASSUME NEW g, Grouped(g)
  PROVE  Pool(g) = (CHOOSE f : PoolsTo(f, g))[1..2 * Len(g)].g
<1>1. DOMAIN [round \in 1..(2 * Len(g)) |-> round] = 1..2 * Len(g)
  OBVIOUS
<1>2. QED
  BY <1>1 DEF Pool, PoolsTo, PoolStart, FoldLeft, MapThenFoldSet

\* A round of pooling leaves groups.
LEMMA PoolStepType ==
  ASSUME NEW s \in PoolState
  PROVE  PoolStep(s) \in PoolState
<1> DEFINE f == s.g
           i == s.i
<1>1. /\ f \in Seq(Group) /\ i \in Nat \ {0} /\ Len(f) \in Nat /\ \A k \in 1..Len(f) : f[k] \in Group
      /\ s = [g |-> f, i |-> i]
  BY DEF PoolState
<1> HIDE DEF f, i
<1>2. CASE i >= Len(f)
  BY <1>2 DEF PoolStep, f, i
<1>3. CASE ~(i >= Len(f)) /\ RisesAt(f, i)
  <2>1. PoolStep(s) = [g |-> f, i |-> i + 1]
    BY <1>1, <1>3 DEF PoolStep, f, i
  <2>2. QED
    BY <1>1, <2>1 DEF PoolState
<1>4. CASE ~(i >= Len(f)) /\ ~RisesAt(f, i)
  <2>1. PoolStep(s) = [g |-> Merged(f, i), i |-> Greater(1, i - 1)]
    BY <1>4 DEF PoolStep, f, i
  <2>2. Greater(1, i - 1) \in Nat \ {0}
    BY <1>1 DEF Greater
  <2>3. Merged(f, i) \in Seq(Group)
    <3>1. \A x, y \in Group : [upper |-> y.upper, wins |-> x.wins + y.wins,
                               n |-> x.n + y.n] \in Group
      BY DEF Group
    <3>2. i \in 1..Len(f) /\ \A k \in 1..Len(f) - 1 : k \in 1..Len(f) /\ k + 1 \in 1..Len(f)
      BY <1>1, <1>4
    <3>3. i + 1 \in 1..Len(f)
      BY <1>1, <1>4
    <3> DEFINE new == [upper |-> f[i + 1].upper, wins |-> f[i].wins + f[i + 1].wins,
                       n |-> f[i].n + f[i + 1].n]
    <3>4. new \in Group
      BY <1>1, <3>1, <3>2, <3>3
    <3>5. Merged(f, i) = [k \in 1..Len(f) - 1 |->
                            IF k < i THEN f[k] ELSE IF k > i THEN f[k + 1] ELSE new]
      BY DEF Merged
    <3> HIDE DEF new
    <3>6. Merged(f, i) \in [1..Len(f) - 1 -> Group]
      BY <1>1, <3>2, <3>4, <3>5
    <3>7. Len(f) - 1 \in Nat
      BY <1>1, <1>4
    <3>8. QED
      BY <3>6, <3>7
  <2>4. QED
    BY <2>1, <2>2, <2>3 DEF PoolState
<1>5. QED
  BY <1>2, <1>3, <1>4

\* The loop goes round by round.
PoolGoes(h, g) ==
  /\ h[0] = PoolStart(g)
  /\ \A k \in 1..2 * Len(g) : h[k] = PoolStep(h[k - 1])
  /\ Pool(g) = h[2 * Len(g)].g

\* The pooling is a run of its rounds, one after the other.
LEMMA PoolRuns ==
  ASSUME NEW g, Grouped(g)
  PROVE  \E h : PoolGoes(h, g)
<1> DEFINE n == 2 * Len(g)
           op == [p \in (1..n) \X PoolState |-> PoolStep(p[2])]
<1>1. n \in Nat
  BY DEF Grouped
<1>2. PoolStart(g) \in PoolState
  BY DEF PoolStart, PoolState, Grouped
<1>3. /\ op \in [(1..n) \X PoolState -> PoolState]
      /\ \A i \in 1..n, s \in PoolState : op[<<i, s>>] = PoolStep(s)
  <2> HIDE DEF n
  <2>1. \A p \in (1..n) \X PoolState : PoolStep(p[2]) \in PoolState
    BY PoolStepType
  <2>2. QED
    BY <2>1
<1> HIDE DEF n, op
<1>4. PICK f : LeftTo(f, n, op, PoolStart(g)) /\ \A T \in SUBSET (1..n) : f[T] \in PoolState
  BY <1>1, <1>2, <1>3, LeftExists
<1>5. PoolsTo(f, g)
  <2>1. ASSUME NEW T \in SUBSET (1..n), T # {}
        PROVE  op[<<Max(T), f[T \ {Max(T)}]>>] = PoolStep(f[T \ {Max(T)}])
    <3>1. Max(T) \in T
      BY <1>1, <2>1, LastIs
    <3>2. f[T \ {Max(T)}] \in PoolState
      BY <1>4
    <3>3. QED
      BY <1>3, <3>1, <3>2
  <2>2. [T \in SUBSET (1..n) |-> IF T = {} THEN PoolStart(g) ELSE op[<<Max(T), f[T \ {Max(T)}]>>]]
          = [T \in SUBSET (1..n) |->
               IF T = {} THEN PoolStart(g) ELSE PoolStep(f[T \ {Max(T)}])]
    BY <2>1
  <2>3. QED
    BY <1>4, <2>2 DEF LeftTo, PoolsTo, n
<1>6. PICK t : PoolsTo(t, g) /\ Pool(g) = t[1..n].g
  BY <1>5, PoolDef DEF n
<1> DEFINE h == [k \in 0..n |-> t[1..k]]
<1>7. h[0] = PoolStart(g)
  <2>1. 1..0 = {} /\ {} \in SUBSET (1..n) /\ 0 \in 0..n
    BY <1>1
  <2>2. t[{}] = PoolStart(g)
    BY <1>6 DEF PoolsTo
  <2>3. QED
    BY <2>1, <2>2
<1>8. ASSUME NEW k \in 1..n PROVE h[k] = PoolStep(h[k - 1])
  <2>1. 1..k \in SUBSET (1..n) /\ 1..k # {} /\ Max(1..k) = k /\ (1..k) \ {k} = 1..(k - 1)
    BY <1>1, LastRemoved
  <2>2. t[1..k] = PoolStep(t[1..(k - 1)])
    BY <1>6, <2>1 DEF PoolsTo, n
  <2>3. k \in 0..n /\ k - 1 \in 0..n
    BY <1>1
  <2>4. QED
    BY <2>2, <2>3
<1>9. Pool(g) = h[n].g
  BY <1>1, <1>6
<1>10. QED
  <2> HIDE DEF h
  <2> QED BY <1>7, <1>8, <1>9 DEF n, PoolGoes

\* After so many rounds: the groups up to i are in order, and what is left to
\* do becomes less with every round.
PoolInv(s, g, rounds) ==
  /\ s \in PoolState
  /\ \E lo, hi : Blocks(s.g, lo, hi, g)
  /\ s.i \in 1..Len(s.g)
  /\ RisesTo(s.g, s.i)
  /\ s.i = Len(s.g) \/ 2 * Len(s.g) - s.i <= 2 * Len(g) - 1 - rounds

\* Before the first round every group is its own block.
LEMMA PoolStarts ==
  ASSUME NEW g, Grouped(g)
  PROVE  PoolInv(PoolStart(g), g, 0)
<1> DEFINE N == Len(g)
           lo == [k \in 1..N |-> k]
<1>1. /\ g \in Seq(Group) /\ N \in Int /\ N >= 1 /\ N \in 1..N /\ 1 \in 1..N
      /\ \A k \in 1..N : g[k] \in Group
  BY DEF Grouped
<1>2. \A k \in 1..N : lo[k] = k
  OBVIOUS
<1>3. lo \in [1..N -> 1..N]
  OBVIOUS
<1> HIDE DEF lo, N
<1>4. ASSUME NEW k \in 1..N
      PROVE  /\ Quotient(g[k]) = Segment(g, lo[k], lo[k])
             /\ \A b \in lo[k]..lo[k] : AtMost(Quotient(g[k]), Segment(g, lo[k], b))
  <2>1. k \in Int /\ k \in k..N
    BY <1>1
  <2>2. Segment(g, k, k) = <<g[k].wins, g[k].n>> /\ Segment(g, k, k) \in Share
    BY <2>1, SegmentsAre DEF N
  <2>3. Quotient(g[k]) = Segment(g, k, k)
    BY <2>2 DEF Quotient
  <2>4. AtMost(Segment(g, k, k), Segment(g, k, k))
    BY <2>2, ShareIs
  <2>5. \A b \in lo[k]..lo[k] : b = k
    BY <1>2, <2>1
  <2>6. QED
    BY <1>2, <2>3, <2>4, <2>5
<1>5. Blocks(g, lo, lo, g)
  <2>1. \A k \in 1..N - 1 : lo[k + 1] = lo[k] + 1
    <3>1. \A k \in 1..N - 1 : k \in 1..N /\ k + 1 \in 1..N
      BY <1>1
    <3>2. QED
      BY <1>2, <3>1
  <2>2. lo[1] = 1 /\ lo[N] = N /\ \A k \in 1..N : lo[k] <= lo[k] /\ g[k].upper = g[lo[k]].upper
    BY <1>1, <1>2
  <2>3. QED
    BY <1>1, <1>3, <1>4, <2>1, <2>2 DEF Blocks, N
<1>6. PoolStart(g).g = g /\ PoolStart(g).i = 1 /\ PoolStart(g) \in PoolState
  BY <1>1 DEF PoolStart, PoolState
<1>7. RisesTo(g, 1)
  BY DEF RisesTo
<1>8. \E a, b : Blocks(g, a, b, g)
  BY <1>5
<1>9. 1 \in 1..Len(g) /\ 2 * Len(g) - 1 <= 2 * Len(g) - 1 - 0
  BY <1>1 DEF N
<1>10. QED
  BY <1>6, <1>7, <1>8, <1>9 DEF PoolInv

\* A round keeps the blocks, and brings the pooling nearer to its end.
LEMMA PoolGoesOn ==
  ASSUME NEW g, Grouped(g), NEW s, NEW rounds \in Nat, PoolInv(s, g, rounds)
  PROVE  PoolInv(PoolStep(s), g, rounds + 1)
<1> DEFINE f == s.g
           i == s.i
           N == Len(g)
<1>1. PICK lo, hi : Blocks(f, lo, hi, g)
  BY DEF PoolInv
<1>2. /\ s \in PoolState /\ f \in Seq(Group) /\ Len(f) \in Nat /\ N \in Nat
      /\ i \in 1..Len(f) /\ i \in Int /\ RisesTo(f, i)
      /\ i = Len(f) \/ 2 * Len(f) - i <= 2 * N - 1 - rounds
      /\ s = [g |-> f, i |-> i]
  BY DEF PoolInv, PoolState, Grouped
<1>3. PoolStep(s) \in PoolState
  BY <1>2, PoolStepType
<1> HIDE DEF f, i, N
<1>4. CASE i >= Len(f)
  <2>1. PoolStep(s) = s /\ i = Len(f)
    BY <1>2, <1>4 DEF PoolStep, f, i
  <2>2. QED
    BY <1>1, <1>2, <2>1 DEF PoolInv, f, i
<1>5. CASE ~(i >= Len(f)) /\ RisesAt(f, i)
  <2> DEFINE r == [g |-> f, i |-> i + 1]
  <2>1. PoolStep(s) = r
    BY <1>2, <1>5 DEF PoolStep, f, i
  <2>2. i + 1 \in 1..Len(f)
    BY <1>2, <1>5
  <2>3. RisesTo(f, i + 1)
    <3>1. AtMost(Quotient(f[i]), Quotient(f[i + 1]))
      BY <1>5 DEF RisesAt, AtMost, Quotient
    <3>2. \A k \in 1..(i + 1) - 1 : k = i \/ k \in 1..i - 1
      BY <1>2
    <3>3. QED
      BY <1>2, <3>1, <3>2 DEF RisesTo
  <2>4. i + 1 = Len(f) \/ 2 * Len(f) - (i + 1) <= 2 * N - 1 - (rounds + 1)
    BY <1>2, <1>5
  <2>5. r.g = f /\ r.i = i + 1
    OBVIOUS
  <2> HIDE DEF r
  <2>6. QED
    BY <1>1, <1>3, <2>1, <2>2, <2>3, <2>4, <2>5 DEF PoolInv, N
<1>6. CASE ~(i >= Len(f)) /\ ~RisesAt(f, i)
  <2> DEFINE F == Merged(f, i)
             j == Greater(1, i - 1)
             r == [g |-> F, i |-> j]
  <2>1. PoolStep(s) = r
    BY <1>6 DEF PoolStep, f, i
  <2>2. i \in 1..Len(f) - 1
    BY <1>2, <1>6
  <2>3. /\ Len(F) = Len(f) - 1
        /\ \A k \in 1..i - 1 : F[k] = f[k]
        /\ \E l, h : Blocks(F, l, h, g)
    BY <1>1, <1>6, <2>2, MergeKeepsBlocks
  <2>4. j \in Int /\ j >= 1 /\ (i = 1 => j = 1) /\ (i > 1 => j = i - 1)
    BY <1>2 DEF Greater
  <2>5. r.g = F /\ r.i = j
    OBVIOUS
  <2> HIDE DEF F, j, r
  <2>6. j \in 1..Len(F)
    BY <1>2, <2>2, <2>3, <2>4
  <2>7. RisesTo(F, j)
    <3>1. \A k \in 1..j - 1 : k \in 1..i - 1 /\ k + 1 \in 1..i - 1
      BY <1>2, <2>4
    <3>2. QED
      BY <1>2, <2>3, <3>1 DEF RisesTo
  <2>8. 2 * Len(F) - j <= 2 * N - 1 - (rounds + 1)
    <3>1. Len(F) \in Int /\ 2 * Len(F) = 2 * Len(f) - 2
      BY <1>2, <2>3
    <3>0. 2 * Len(f) - i <= 2 * N - 1 - rounds
      BY <1>2, <1>6
    <3>2. CASE i = 1
      <4>1. 2 * Len(F) - j = 2 * Len(f) - 3
        BY <1>2, <2>4, <3>1, <3>2
      <4>2. QED
        BY <1>2, <3>0, <3>2, <4>1
    <3>3. CASE i > 1
      <4>1. 2 * Len(F) - j = 2 * Len(f) - i - 1
        BY <1>2, <2>4, <3>1, <3>3
      <4>2. QED
        BY <1>2, <3>0, <4>1
    <3>4. QED
      BY <1>2, <3>2, <3>3
  <2>9. QED
    BY <1>3, <2>1, <2>3, <2>5, <2>6, <2>7, <2>8 DEF PoolInv, N
<1>7. QED
  BY <1>4, <1>5, <1>6

\* When the loop is over all groups are in order.
LEMMA PoolEnds ==
  ASSUME NEW g, Grouped(g)
  PROVE  \E lo, hi : Blocks(Pool(g), lo, hi, g) /\ RisesTo(Pool(g), Len(Pool(g)))
<1> DEFINE n == 2 * Len(g)
<1>1. PICK h : PoolGoes(h, g)
  BY PoolRuns
<1>2. n \in Nat
  BY DEF Grouped
<1> DEFINE P == {k \in 0..n : PoolInv(h[k], g, k)}
<1>3. 0 \in P
  BY <1>1, <1>2, PoolStarts DEF PoolGoes
<1>4. \A k \in 0..n - 1 : k \in P => k + 1 \in P
  <2> SUFFICES ASSUME NEW k \in 0..n - 1, k \in P PROVE k + 1 \in P
    OBVIOUS
  <2> DEFINE q == k + 1
  <2>1. q \in 1..n /\ q - 1 = k /\ k \in Nat /\ q \in 0..n /\ q = k + 1
    BY <1>2
  <2>2. PoolInv(h[k], g, k)
    OBVIOUS
  <2> HIDE DEF q
  <2>3. h[q] = PoolStep(h[k])
    <3>1. h[q] = PoolStep(h[q - 1])
      BY <1>1, <2>1 DEF PoolGoes
    <3>2. QED
      BY <2>1, <3>1
  <2>4. PoolInv(h[q], g, k + 1)
    BY <2>1, <2>2, <2>3, PoolGoesOn
  <2>5. q \in P
    BY <2>1, <2>4
  <2>6. QED
    BY <2>5 DEF q
<1> HIDE DEF P
<1>5. \A k \in 0..n : k \in P
  BY <1>2, <1>3, <1>4, IntervalInduction
<1>6. PoolInv(h[n], g, n)
  <2>1. n \in 0..n
    BY <1>2
  <2>2. n \in P
    BY <1>5, <2>1
  <2>3. QED
    BY <2>2 DEF P
<1> DEFINE s == h[n]
<1>7. Pool(g) = s.g
  BY <1>1 DEF PoolGoes
<1> HIDE DEF s
<1>8. s.i = Len(s.g)
  <2>1. /\ s.i \in 1..Len(s.g) /\ s \in PoolState
        /\ s.i = Len(s.g) \/ 2 * Len(s.g) - s.i <= n - 1 - n
    BY <1>6 DEF PoolInv, s, n
  <2>2. Len(s.g) \in Nat
    BY <2>1 DEF PoolState
  <2>3. 2 * Len(s.g) - s.i >= 0
    BY <2>1, <2>2
  <2>4. n - 1 - n < 0
    BY <1>2
  <2>5. QED
    BY <1>2, <2>1, <2>2, <2>3, <2>4
<1>9. QED
  BY <1>6, <1>7, <1>8 DEF PoolInv, s

\* Of finitely many shares one is the least.
LEMMA LeastShare ==
  ASSUME NEW S \in SUBSET Share, IsFiniteSet(S), S # {}
  PROVE  \E m \in S : \A x \in S : AtMost(m, x)
<1> DEFINE P == {{}} \cup {T \in SUBSET S : \E m \in T : \A x \in T : AtMost(m, x)}
<1>1. ASSUME NEW T \in SUBSET S, T # {}
      PROVE  \E x \in T : T \ {x} \in P => T \in P
  <2>1. PICK x \in T : TRUE
    BY <1>1
  <2>2. x \in Share /\ AtMost(x, x)
    BY ShareIs
  <2>3. ASSUME T \ {x} \in P PROVE T \in P
    <3>1. CASE T \ {x} = {}
      <4>1. \A y \in T : y = x
        BY <3>1
      <4>2. QED
        BY <2>1, <2>2, <4>1
    <3>2. CASE T \ {x} # {}
      <4>1. PICK m \in T \ {x} : \A y \in T \ {x} : AtMost(m, y)
        BY <2>3, <3>2
      <4>2. m \in Share /\ (AtMost(m, x) \/ AtMost(x, m))
        BY <2>2, <4>1, ShareIs
      <4>3. CASE AtMost(m, x)
        <5>1. \A y \in T : AtMost(m, y)
          BY <4>1, <4>3
        <5>2. QED
          BY <4>1, <5>1
      <4>4. CASE AtMost(x, m)
        <5>1. \A y \in T : AtMost(x, y)
          <6> TAKE y \in T
          <6>1. CASE y = x
            BY <2>2, <6>1
          <6>2. CASE y # x
            <7>1. AtMost(m, y) /\ y \in Share
              BY <4>1, <6>2
            <7>2. QED
              BY <2>2, <4>2, <4>4, <7>1, AtMostTrans
          <6>3. QED
            BY <6>1, <6>2
        <5>2. QED
          BY <2>1, <5>1
      <4>5. QED
        BY <4>2, <4>3, <4>4
    <3>3. QED
      BY <3>1, <3>2
  <2>4. QED
    BY <2>1, <2>3
<1>2. S \in P
  <2>1. {} \in P
    OBVIOUS
  <2> HIDE DEF P
  <2>2. QED
    BY <1>1, <2>1, SubsetInduction
<1>3. QED
  BY <1>2

\* The block of a group.
BlockOf(f, lo, hi, k, j) ==
  /\ k \in 1..Len(f) /\ lo[k] <= j /\ j <= hi[k]
  /\ \A i \in 1..Len(f) : j <= hi[i] => k <= i

\* A probability is given its own block's value.
LEMMA BlockExists ==
  ASSUME NEW g, Grouped(g), NEW f, NEW lo, NEW hi, Blocks(f, lo, hi, g), NEW j \in 1..Len(g)
  PROVE  /\ Predicted(f, g[j].upper) = f[Min({i \in 1..Len(f) : j <= hi[i]})]
         /\ BlockOf(f, lo, hi, Min({i \in 1..Len(f) : j <= hi[i]}), j)
<1> DEFINE m == Len(f)
           N == Len(g)
           C == {i \in 1..m : j <= hi[i]}
           k == Min(C)
<1>1. /\ m \in Int /\ m >= 1 /\ N \in Int /\ \A i \in 1..m : hi[i] \in 1..N /\ lo[i] \in 1..N
      /\ lo[1] = 1 /\ hi[m] = N
      /\ \A i \in 1..m - 1 : lo[i + 1] = hi[i] + 1
      /\ \A i \in 1..m : f[i].upper = g[hi[i]].upper
  <2>1. m \in Int /\ m >= 1 /\ N \in Int
    BY DEF Blocks, Grouped
  <2>2. \A i \in 1..m : hi[i] \in 1..N /\ lo[i] \in 1..N
    BY BlockIs
  <2>3. QED
    BY <2>1, <2>2 DEF Blocks
<1>2. C # {} /\ C \in SUBSET Int /\ IsFiniteSet(C)
  <2>1. m \in C
    BY <1>1
  <2>2. IsFiniteSet(1..m) /\ C \in SUBSET (1..m)
    BY <1>1, FS_Interval
  <2> HIDE DEF C
  <2>3. IsFiniteSet(C)
    BY <2>2, FS_Subset
  <2>4. QED
    BY <2>1, <2>2, <2>3
<1>3. k \in C /\ \A i \in C : k <= i
  <2> HIDE DEF C
  <2> QED BY <1>2, MinIsLeast
<1>4. k \in 1..m /\ j <= hi[k] /\ \A i \in 1..m : j <= hi[i] => k <= i
  BY <1>3
<1> HIDE DEF C, k, m, N
<1>5. lo[k] <= j
  <2>1. CASE k = 1
    BY <1>1, <2>1 DEF N
  <2>2. CASE k # 1
    <3> DEFINE i == k - 1
    <3>1. i \in 1..m - 1 /\ i + 1 = k /\ i \in 1..m /\ ~(k <= i)
      BY <1>1, <1>4, <2>2
    <3> HIDE DEF i
    <3>2. ~(j <= hi[i]) /\ lo[k] = hi[i] + 1
      BY <1>1, <1>4, <3>1
    <3>3. hi[i] \in Int /\ j \in Int
      BY <1>1, <3>1
    <3>4. QED
      BY <3>2, <3>3
  <2>3. QED
    BY <2>1, <2>2
<1>6. BlockOf(f, lo, hi, k, j)
  BY <1>4, <1>5 DEF BlockOf, m
<1>7. {i \in 1..m : g[j].upper <= f[i].upper} = C
  <2>1. ASSUME NEW i \in 1..m
        PROVE  g[j].upper <= f[i].upper <=> j <= hi[i]
    <3> DEFINE q == hi[i]
    <3>1. q \in 1..N /\ f[i].upper = g[q].upper /\ j \in 1..N
      BY <1>1 DEF N
    <3>2. /\ \A a, b \in 1..N : a < b => g[a].upper < g[b].upper
          /\ \A a \in 1..N : g[a].upper \in Int
      <4>1. \A a \in 1..N : g[a] \in Group
        BY DEF Grouped, N
      <4>2. \A a \in 1..N : g[a].upper \in Int
        BY <4>1 DEF Group
      <4>3. QED
        BY <4>2 DEF Grouped, N
    <3> HIDE DEF q
    <3>3. g[q].upper \in Int /\ g[j].upper \in Int /\ q \in Int /\ j \in Int
      BY <1>1, <3>1, <3>2
    <3>4. q < j \/ q = j \/ j < q
      BY <3>3
    <3>5. CASE q < j
      <4>1. g[q].upper < g[j].upper
        BY <3>1, <3>2, <3>5
      <4>2. QED
        BY <3>1, <3>3, <3>5, <4>1 DEF q
    <3>6. CASE q = j
      BY <3>1, <3>3, <3>6 DEF q
    <3>7. CASE j < q
      <4>1. g[j].upper < g[q].upper
        BY <3>1, <3>2, <3>7
      <4>2. QED
        BY <3>1, <3>3, <3>7, <4>1 DEF q
    <3>8. QED
      BY <3>4, <3>5, <3>6, <3>7
  <2>2. QED
    BY <2>1 DEF C
<1>8. Predicted(f, g[j].upper) = f[k]
  BY <1>2, <1>7 DEF Predicted, k, m
<1>9. QED
  BY <1>6, <1>8 DEF k, C, m

\* What a block ends with is no more than the block.
LEMMA BlockTail ==
  ASSUME NEW g, Grouped(g), NEW f, NEW lo, NEW hi, Blocks(f, lo, hi, g), NEW k \in 1..Len(f),
         NEW a \in lo[k]..hi[k]
  PROVE  AtMost(Segment(g, a, hi[k]), Quotient(f[k]))
<1>1. /\ Quotient(f[k]) \in Share /\ lo[k] \in 1..Len(g) /\ hi[k] \in 1..Len(g)
      /\ lo[k] <= hi[k] /\ Quotient(f[k]) = Segment(g, lo[k], hi[k])
  BY BlockIs
<1>2. \A b \in lo[k]..hi[k] : AtMost(Quotient(f[k]), Segment(g, lo[k], b))
  BY DEF Blocks
<1>3. Len(g) \in Int
  BY DEF Grouped
<1>4. CASE a = lo[k]
  BY <1>1, <1>4, ShareIs
<1>5. CASE a # lo[k]
  <2> DEFINE b == a - 1
             P == Segment(g, lo[k], b)
             Q == Segment(g, a, hi[k])
  <2>1. /\ b \in lo[k]..hi[k] /\ b \in lo[k]..hi[k] - 1 /\ b \in lo[k]..Len(g) /\ b + 1 = a
        /\ a \in 1..Len(g) /\ hi[k] \in a..Len(g) /\ hi[k] \in lo[k]..Len(g)
    BY <1>1, <1>3, <1>5
  <2> HIDE DEF b
  <2>2. P \in Share /\ Q \in Share
    BY <1>1, <2>1, SegmentsAre
  <2>3. Quotient(f[k]) = Together(P, Q)
    <3>1. Segment(g, lo[k], hi[k]) = Together(Segment(g, lo[k], b), Segment(g, b + 1, hi[k]))
      BY <1>1, <2>1, SegmentsAre
    <3>2. QED
      BY <1>1, <2>1, <3>1
  <2>4. AtMost(Quotient(f[k]), P)
    BY <1>2, <2>1
  <2> HIDE DEF P
  <2>5. AtMost(Q, Together(P, Q))
    <3> HIDE DEF Q
    <3> QED BY <2>2, <2>3, <2>4, Mediant
  <2>6. QED
    BY <2>3, <2>5
<1>6. QED
  BY <1>4, <1>5

\* What a block and more after it begin with is no less than the block ...
LEMMA LaterNoLess ==
  ASSUME NEW g, Grouped(g), NEW f, NEW lo, NEW hi, Blocks(f, lo, hi, g), RisesTo(f, Len(f)),
         NEW k \in 1..Len(f), NEW q \in k..Len(f)
  PROVE  \A b \in lo[q]..hi[q] : AtMost(Quotient(f[k]), Segment(g, lo[k], b))
<1> DEFINE M == Quotient(f[k])
           m == Len(f)
           N == Len(g)
           Good(i) == /\ lo[k] <= lo[i] /\ AtMost(M, Quotient(f[i]))
                      /\ \A b \in lo[i]..hi[i] : AtMost(M, Segment(g, lo[k], b))
           P == {d \in 0..m - k : Good(k + d)}
<1>1. /\ \A i \in 1..m : /\ Quotient(f[i]) \in Share
                         /\ lo[i] \in 1..N /\ hi[i] \in 1..N /\ lo[i] <= hi[i]
      /\ \A i \in 1..m - 1 : lo[i + 1] = hi[i] + 1
      /\ \A i \in 1..m : \A b \in lo[i]..hi[i] :
           AtMost(Quotient(f[i]), Segment(g, lo[i], b))
      /\ \A i \in 1..m - 1 : AtMost(Quotient(f[i]), Quotient(f[i + 1]))
  BY BlockIs DEF Blocks, RisesTo
<1>2. m \in Int /\ N \in Int /\ k \in 1..m /\ q \in k..m /\ m - k \in Nat
  <2>1. m \in Int /\ N \in Int
    BY DEF Blocks, Grouped
  <2>2. QED
    BY <2>1
<1> HIDE DEF m, N
<1>3. M \in Share /\ AtMost(M, M)
  BY <1>1, <1>2, ShareIs
<1>4. Good(k)
  BY <1>1, <1>2, <1>3
<1>5. ASSUME NEW i \in 1..m - 1, Good(i) PROVE Good(i + 1)
  <2> DEFINE j == i + 1
  <2>1. i \in 1..m /\ j \in 1..m /\ lo[j] = hi[i] + 1 /\ AtMost(Quotient(f[i]), Quotient(f[j]))
    BY <1>1, <1>2
  <2> HIDE DEF j
  <2>2. /\ Quotient(f[i]) \in Share /\ Quotient(f[j]) \in Share
        /\ lo[k] \in 1..N /\ lo[i] \in 1..N /\ hi[i] \in 1..N /\ lo[i] <= hi[i]
        /\ lo[j] \in 1..N /\ hi[j] \in 1..N /\ lo[j] <= hi[j]
    BY <1>1, <1>2, <2>1
  <2>3. lo[k] <= lo[i] /\ AtMost(M, Quotient(f[i]))
        /\ \A b \in lo[i]..hi[i] : AtMost(M, Segment(g, lo[k], b))
    BY <1>5
  <2> HIDE DEF M
  <2>4. AtMost(M, Quotient(f[j]))
    BY <1>3, <2>1, <2>2, <2>3, AtMostTrans
  <2>5. lo[k] <= lo[j]
    BY <1>2, <2>1, <2>2, <2>3
  <2>6. ASSUME NEW b \in lo[j]..hi[j] PROVE AtMost(M, Segment(g, lo[k], b))
    <3>1. /\ hi[i] \in lo[i]..hi[i] /\ b \in lo[j]..N /\ b \in lo[k]..N
          /\ hi[i] \in lo[k]..b - 1 /\ hi[i] \in lo[k]..N
      BY <1>2, <2>1, <2>2, <2>3
    <3>2. Segment(g, lo[k], hi[i]) \in Share /\ Segment(g, lo[j], b) \in Share
      BY <2>2, <3>1, SegmentsAre DEF N
    <3>3. Segment(g, lo[k], b) = Together(Segment(g, lo[k], hi[i]), Segment(g, lo[j], b))
      <4>1. Segment(g, lo[k], b) = Together(Segment(g, lo[k], hi[i]), Segment(g, hi[i] + 1, b))
        BY <2>2, <3>1, SegmentsAre DEF N
      <4>2. QED
        BY <2>1, <4>1
    <3>4. AtMost(M, Segment(g, lo[k], hi[i]))
      BY <2>3, <3>1
    <3>5. AtMost(Quotient(f[j]), Segment(g, lo[j], b))
      BY <1>1, <2>1
    <3>6. AtMost(M, Segment(g, lo[j], b))
      BY <1>3, <2>2, <2>4, <3>2, <3>5, AtMostTrans
    <3>7. QED
      BY <1>3, <3>2, <3>3, <3>4, <3>6, AtMostTogether
  <2>7. Good(j)
    BY <2>4, <2>5, <2>6 DEF M
  <2>8. QED
    BY <2>7 DEF j
<1> HIDE DEF Good
<1>6. 0 \in P
  BY <1>2, <1>4
<1>7. \A d \in 0..(m - k) - 1 : d \in P => d + 1 \in P
  <2> SUFFICES ASSUME NEW d \in 0..(m - k) - 1, d \in P PROVE d + 1 \in P
    OBVIOUS
  <2>1. k + d \in 1..m - 1 /\ (k + d) + 1 = k + (d + 1) /\ d + 1 \in 0..m - k
    BY <1>2
  <2>2. Good(k + d)
    OBVIOUS
  <2>3. Good((k + d) + 1)
    BY <1>5, <2>1, <2>2
  <2>4. QED
    BY <2>1, <2>3
<1> HIDE DEF P
<1>8. \A d \in 0..m - k : d \in P
  BY <1>2, <1>6, <1>7, IntervalInduction
<1>9. Good(q)
  <2>1. q - k \in 0..m - k /\ k + (q - k) = q
    BY <1>2
  <2>2. q - k \in P
    BY <1>8, <2>1
  <2>3. Good(k + (q - k))
    BY <2>2 DEF P
  <2>4. QED
    BY <2>1, <2>3
<1>10. QED
  BY <1>9 DEF Good, M

\* ... and what it and more before it end with is no more.
LEMMA EarlierNoMore ==
  ASSUME NEW g, Grouped(g), NEW f, NEW lo, NEW hi, Blocks(f, lo, hi, g), RisesTo(f, Len(f)),
         NEW k \in 1..Len(f), NEW q \in 1..k
  PROVE  \A a \in lo[q]..hi[q] : AtMost(Segment(g, a, hi[k]), Quotient(f[k]))
<1> DEFINE M == Quotient(f[k])
           m == Len(f)
           N == Len(g)
           Good(i) == /\ hi[i] <= hi[k] /\ AtMost(Quotient(f[i]), M)
                      /\ \A a \in lo[i]..hi[i] : AtMost(Segment(g, a, hi[k]), M)
           P == {d \in 0..k - 1 : Good(k - d)}
<1>1. /\ \A i \in 1..m : /\ Quotient(f[i]) \in Share
                         /\ lo[i] \in 1..N /\ hi[i] \in 1..N /\ lo[i] <= hi[i]
      /\ \A i \in 1..m - 1 : lo[i + 1] = hi[i] + 1
      /\ \A i \in 1..m : \A a \in lo[i]..hi[i] :
           AtMost(Segment(g, a, hi[i]), Quotient(f[i]))
      /\ \A i \in 1..m - 1 : AtMost(Quotient(f[i]), Quotient(f[i + 1]))
  BY BlockIs, BlockTail DEF Blocks, RisesTo
<1>2. m \in Int /\ N \in Int /\ k \in 1..m /\ q \in 1..k /\ k - 1 \in Nat
  <2>1. m \in Int /\ N \in Int
    BY DEF Blocks, Grouped
  <2>2. QED
    BY <2>1
<1> HIDE DEF m, N
<1>3. M \in Share /\ AtMost(M, M)
  BY <1>1, <1>2, ShareIs
<1>4. Good(k)
  BY <1>1, <1>2, <1>3
<1>5. ASSUME NEW i \in 1..m - 1, i + 1 \in 1..k, Good(i + 1) PROVE Good(i)
  <2> DEFINE j == i + 1
  <2>1. i \in 1..m /\ j \in 1..m /\ lo[j] = hi[i] + 1 /\ AtMost(Quotient(f[i]), Quotient(f[j]))
    BY <1>1, <1>2
  <2>2. hi[j] <= hi[k] /\ AtMost(Quotient(f[j]), M)
        /\ \A a \in lo[j]..hi[j] : AtMost(Segment(g, a, hi[k]), M)
    BY <1>5
  <2> HIDE DEF j
  <2>3. /\ Quotient(f[i]) \in Share /\ Quotient(f[j]) \in Share
        /\ hi[k] \in 1..N /\ lo[i] \in 1..N /\ hi[i] \in 1..N /\ lo[i] <= hi[i]
        /\ lo[j] \in 1..N /\ hi[j] \in 1..N /\ lo[j] <= hi[j]
    BY <1>1, <1>2, <2>1
  <2> HIDE DEF M
  <2>4. AtMost(Quotient(f[i]), M)
    BY <1>3, <2>1, <2>2, <2>3, AtMostTrans
  <2>5. hi[i] <= hi[k]
    BY <1>2, <2>1, <2>2, <2>3
  <2>6. ASSUME NEW a \in lo[i]..hi[i] PROVE AtMost(Segment(g, a, hi[k]), M)
    <3>1. /\ lo[j] \in lo[j]..hi[j] /\ a \in 1..N /\ hi[i] \in a..N
          /\ hi[k] \in lo[j]..N /\ hi[k] \in a..N /\ hi[i] \in a..hi[k] - 1
      BY <1>2, <2>1, <2>2, <2>3
    <3>2. Segment(g, a, hi[i]) \in Share /\ Segment(g, lo[j], hi[k]) \in Share
      BY <2>3, <3>1, SegmentsAre DEF N
    <3>3. Segment(g, a, hi[k]) = Together(Segment(g, a, hi[i]), Segment(g, lo[j], hi[k]))
      <4>1. Segment(g, a, hi[k]) = Together(Segment(g, a, hi[i]), Segment(g, hi[i] + 1, hi[k]))
        BY <2>3, <3>1, SegmentsAre DEF N
      <4>2. QED
        BY <2>1, <4>1
    <3>4. AtMost(Segment(g, lo[j], hi[k]), M)
      BY <2>2, <3>1
    <3>5. AtMost(Segment(g, a, hi[i]), Quotient(f[i]))
      BY <1>1, <2>1
    <3>6. AtMost(Segment(g, a, hi[i]), M)
      BY <1>3, <2>3, <2>4, <3>2, <3>5, AtMostTrans
    <3>7. QED
      BY <1>3, <3>2, <3>3, <3>4, <3>6, AtMostTogether
  <2>7. QED
    BY <2>4, <2>5, <2>6 DEF M
<1> HIDE DEF Good
<1>6. 0 \in P
  BY <1>2, <1>4
<1>7. \A d \in 0..(k - 1) - 1 : d \in P => d + 1 \in P
  <2> SUFFICES ASSUME NEW d \in 0..(k - 1) - 1, d \in P PROVE d + 1 \in P
    OBVIOUS
  <2> DEFINE i == k - (d + 1)
  <2>1. i \in 1..m - 1 /\ i + 1 = k - d /\ i + 1 \in 1..k /\ d + 1 \in 0..k - 1
    BY <1>2
  <2>2. Good(k - d)
    OBVIOUS
  <2> HIDE DEF i
  <2>3. Good(i)
    BY <1>5, <2>1, <2>2
  <2>4. QED
    BY <2>1, <2>3 DEF i
<1> HIDE DEF P
<1>8. \A d \in 0..k - 1 : d \in P
  BY <1>2, <1>6, <1>7, IntervalInduction
<1>9. Good(q)
  <2>1. k - q \in 0..k - 1 /\ k - (k - q) = q
    BY <1>2
  <2>2. k - q \in P
    BY <1>8, <2>1
  <2>3. Good(k - (k - q))
    BY <2>2 DEF P
  <2>4. QED
    BY <2>1, <2>3
<1>10. QED
  BY <1>9 DEF Good, M

LeastOf(g, j, a) ==
  CHOOSE m \in {Segment(g, a, b) : b \in j..Len(g)} :
    \A b \in j..Len(g) : AtMost(m, Segment(g, a, b))

\* There is a least mean from a group on.
LEMMA LeastOfIs ==
  ASSUME NEW g, Grouped(g), NEW j \in 1..Len(g), NEW a \in 1..j
  PROVE  /\ LeastOf(g, j, a) \in Share
         /\ \E b \in j..Len(g) : LeastOf(g, j, a) = Segment(g, a, b)
         /\ \A b \in j..Len(g) : AtMost(LeastOf(g, j, a), Segment(g, a, b))
<1> DEFINE N == Len(g)
           s == [b \in j..N |-> Segment(g, a, b)]
           S == {s[b] : b \in j..N}
<1>1. N \in Int /\ a \in 1..N
  BY DEF Grouped
<1>2. \A b \in j..N : Segment(g, a, b) \in Share
  <2> TAKE b \in j..N
  <2>1. b \in a..Len(g) /\ a \in 1..Len(g)
    BY <1>1
  <2>2. QED
    BY <2>1, SegmentsAre
<1>3. S = {Segment(g, a, b) : b \in j..N} /\ \A b \in j..N : s[b] = Segment(g, a, b)
  OBVIOUS
<1> HIDE DEF s
<1>4. S \in SUBSET Share
  BY <1>2, <1>3
<1>5. IsFiniteSet(S)
  <2>1. IsFiniteSet(j..N)
    BY <1>1, FS_Interval
  <2>2. QED
    BY <2>1, FiniteImage
<1>6. j \in j..N
  BY <1>1
<1>7. S # {}
  BY <1>6
<1> HIDE DEF S
<1>8. \E m \in S : \A x \in S : AtMost(m, x)
  BY <1>4, <1>5, <1>7, LeastShare
<1>9. \E m \in S : \A b \in j..N : AtMost(m, Segment(g, a, b))
  BY <1>3, <1>8
<1>10. LeastOf(g, j, a) = CHOOSE m \in S : \A b \in j..N : AtMost(m, Segment(g, a, b))
  BY <1>3 DEF LeastOf
<1>11. LeastOf(g, j, a) \in S /\ \A b \in j..N : AtMost(LeastOf(g, j, a), Segment(g, a, b))
  BY <1>9, <1>10
<1>12. QED
  BY <1>3, <1>4, <1>11

\* The pooled group that is used for a group has the max-min share there.
LEMMA PooledIsMaxMin ==
  ASSUME NEW g, Grouped(g), NEW j \in 1..Len(g)
  PROVE  Predicted(Pool(g), g[j].upper).wins * MaxMin(g, j)[2]
           = MaxMin(g, j)[1] * Predicted(Pool(g), g[j].upper).n
<1> DEFINE f == Pool(g)
           N == Len(g)
<1>1. PICK lo, hi : Blocks(f, lo, hi, g) /\ RisesTo(f, Len(f))
  BY PoolEnds
<1> HIDE DEF f
<1> DEFINE k == Min({i \in 1..Len(f) : j <= hi[i]})
           M == Quotient(f[k])
<1>2. Predicted(f, g[j].upper) = f[k] /\ BlockOf(f, lo, hi, k, j)
  BY <1>1, BlockExists
<1> HIDE DEF k
<1>3. /\ k \in 1..Len(f) /\ lo[k] <= j /\ j <= hi[k]
      /\ \A i \in 1..Len(f) : j <= hi[i] => k <= i
  BY <1>2 DEF BlockOf
<1>4. /\ f[k] \in Group /\ M \in Share
      /\ lo[k] \in 1..N /\ hi[k] \in 1..N /\ lo[k] <= hi[k]
  BY <1>1, <1>3, BlockIs
<1>5. N \in Int /\ Len(f) \in Int /\ j \in 1..N /\ lo[k] \in 1..j /\ hi[k] \in j..N
  <2>1. N \in Int /\ Len(f) \in Int
    BY <1>1 DEF Grouped, Blocks
  <2>2. QED
    BY <1>3, <1>4, <2>1
<1>6. \A b \in 1..N : \E i \in 1..Len(f) : BlockOf(f, lo, hi, i, b)
  <2> TAKE b \in 1..N
  <2>1. BlockOf(f, lo, hi, Min({i \in 1..Len(f) : b <= hi[i]}), b)
    BY <1>1, BlockExists
  <2>2. QED
    BY <2>1 DEF BlockOf
<1>7. \A i \in 1..Len(f) : hi[i] \in 1..N /\ lo[i] \in 1..N
  BY <1>1, BlockIs
<1> HIDE DEF M
<1>8. ASSUME NEW b \in j..N PROVE AtMost(M, Segment(g, lo[k], b))
  <2>1. b \in 1..N
    BY <1>5
  <2>2. PICK q \in 1..Len(f) : BlockOf(f, lo, hi, q, b)
    BY <1>6, <2>1
  <2>3. lo[q] <= b /\ b <= hi[q] /\ hi[q] \in 1..N /\ lo[q] \in 1..N
    BY <1>7, <2>2 DEF BlockOf
  <2>4. j <= hi[q] /\ b \in lo[q]..hi[q]
    BY <1>5, <2>1, <2>3
  <2>5. q \in k..Len(f)
    BY <1>3, <1>5, <2>4
  <2>6. QED
    BY <1>1, <1>3, <2>4, <2>5, LaterNoLess DEF M
<1>9. ASSUME NEW a \in 1..j PROVE AtMost(Segment(g, a, hi[k]), M)
  <2>1. a \in 1..N
    BY <1>5
  <2>2. PICK q \in 1..Len(f) : BlockOf(f, lo, hi, q, a)
    BY <1>6, <2>1
  <2>3. lo[q] <= a /\ a <= hi[q] /\ hi[q] \in 1..N /\ lo[q] \in 1..N
        /\ \A i \in 1..Len(f) : a <= hi[i] => q <= i
    BY <1>7, <2>2 DEF BlockOf
  <2>4. a <= hi[k] /\ a \in lo[q]..hi[q]
    BY <1>5, <2>1, <2>3
  <2>5. q \in 1..k
    BY <1>3, <1>5, <2>3, <2>4
  <2>6. QED
    BY <1>1, <1>3, <2>4, <2>5, EarlierNoMore DEF M
<1> DEFINE L(a) == LeastOf(g, j, a)
<1>10. \A a \in 1..j : /\ L(a) \in Share
                       /\ \E b \in j..N : L(a) = Segment(g, a, b)
                       /\ \A b \in j..N : AtMost(L(a), Segment(g, a, b))
  BY LeastOfIs
<1>11. \A a \in 1..j : AtMost(L(a), M)
  <2> TAKE a \in 1..j
  <2>1. L(a) \in Share /\ AtMost(L(a), Segment(g, a, hi[k])) /\ AtMost(Segment(g, a, hi[k]), M)
    BY <1>5, <1>9, <1>10
  <2>2. Segment(g, a, hi[k]) \in Share
    <3>1. a \in 1..Len(g) /\ hi[k] \in a..Len(g)
      BY <1>5
    <3>2. QED
      BY <3>1, SegmentsAre
  <2> HIDE DEF L
  <2>3. M \in Share
    BY <1>4
  <2>4. QED
    BY <2>1, <2>2, <2>3, AtMostTrans
<1>12. AtMost(M, L(lo[k]))
  BY <1>5, <1>8, <1>10
<1> DEFINE S == {L(a) : a \in 1..j}
           m == MaxMin(g, j)
<1>13. m = CHOOSE x \in S : \A a \in 1..j : AtMost(L(a), x)
  BY DEF MaxMin, LeastOf, Segment
<1> HIDE DEF L, m
<1>14. \A a \in 1..j : AtMost(L(a), L(lo[k]))
  <2> TAKE a \in 1..j
  <2>1. L(a) \in Share /\ L(lo[k]) \in Share /\ M \in Share
    BY <1>4, <1>5, <1>10
  <2>2. QED
    BY <1>11, <1>12, <2>1, AtMostTrans
<1>15. m \in S /\ \A a \in 1..j : AtMost(L(a), m)
  <2>1. L(lo[k]) \in S
    BY <1>5
  <2> HIDE DEF S
  <2>2. QED
    BY <1>13, <1>14, <2>1
<1>16. m \in Share /\ AtMost(m, M) /\ AtMost(M, m)
  <2>1. PICK a \in 1..j : m = L(a)
    BY <1>15
  <2>2. m \in Share /\ AtMost(m, M)
    BY <1>10, <1>11, <2>1
  <2>3. AtMost(L(lo[k]), m) /\ L(lo[k]) \in Share /\ M \in Share
    BY <1>4, <1>5, <1>10, <1>15
  <2>4. QED
    BY <1>12, <2>2, <2>3, AtMostTrans
<1>17. M[1] * m[2] = m[1] * M[2]
  <2>1. /\ m[1] \in Int /\ m[2] \in Int /\ M[1] \in Int /\ M[2] \in Int
    BY <1>4, <1>16 DEF Share
  <2>2. m[1] * M[2] <= M[1] * m[2] /\ M[1] * m[2] <= m[1] * M[2]
    BY <1>16 DEF AtMost
  <2>3. m[1] * M[2] \in Int /\ M[1] * m[2] \in Int
    BY <2>1
  <2>4. QED
    BY <2>2, <2>3
<1>18. M[1] = f[k].wins /\ M[2] = f[k].n
  BY DEF M, Quotient
<1>19. QED
  BY <1>2, <1>17, <1>18 DEF f, m

\* The groups of the rows are groups in rising order.
LEMMA GroupsAre ==
  ASSUME NEW rows, IsFiniteSet(rows), Rated(rows), rows # {}
  PROVE  Grouped(Groups(rows)) /\ DOMAIN Groups(rows) = 1..Len(Groups(rows))
<1> DEFINE S == {row.model : row \in rows}
           A == Ascending(S)
           At(p) == {row \in rows : row.model = p}
           g == Groups(rows)
           n == Cardinality(S)
<1>1. S \in SUBSET Int /\ S # {} /\ \A p \in S : At(p) # {}
  BY DEF Rated
<1>2. IsFiniteSet(S)
  <2> DEFINE f == [row \in rows |-> row.model]
  <2>1. S = {f[row] : row \in rows}
    OBVIOUS
  <2> HIDE DEF f, S
  <2>2. QED
    BY <2>1, FiniteImage
<1>3. g = [i \in 1..Len(A) |-> [upper |-> A[i],
             wins |-> Cardinality({row \in At(A[i]) : row.winner}),
             n |-> Cardinality(At(A[i]))]]
  BY DEF Groups
<1>4. \A p : /\ IsFiniteSet(At(p))
             /\ IsFiniteSet({row \in At(p) : row.winner})
  <2> TAKE p
  <2>1. At(p) \in SUBSET rows /\ {row \in At(p) : row.winner} \in SUBSET rows
    OBVIOUS
  <2>2. QED
    BY <2>1, FS_Subset
<1> HIDE DEF S, A, g, n
<1>5. /\ n \in Nat /\ n # 0 /\ Len(A) = n
      /\ \A i \in 1..n : A[i] \in S
      /\ \A i, j \in 1..n : i < j => A[i] < A[j]
  <2>1. n \in Nat /\ n # 0
    BY <1>1, <1>2, FS_CardinalityType, FS_EmptySet DEF n
  <2>2. QED
    BY <1>1, <1>2, <2>1, AscendingIs DEF A, n
<1>6. ASSUME NEW i \in 1..n
      PROVE  g[i] \in Group /\ g[i].upper = A[i]
  <2> DEFINE w == Cardinality({row \in At(A[i]) : row.winner})
             c == Cardinality(At(A[i]))
  <2>1. g[i] = [upper |-> A[i], wins |-> w, n |-> c]
    BY <1>3, <1>5
  <2>2. w \in Nat /\ c \in Nat
    BY <1>4, FS_CardinalityType
  <2>3. c # 0
    <3>1. At(A[i]) # {}
      BY <1>1, <1>5
    <3> HIDE DEF At
    <3>2. QED
      BY <1>4, <3>1, FS_EmptySet
  <2>4. A[i] \in Int
    BY <1>1, <1>5
  <2> HIDE DEF w, c
  <2>5. QED
    BY <2>1, <2>2, <2>3, <2>4 DEF Group
<1>7. DOMAIN g = 1..n /\ g = [i \in 1..n |-> g[i]]
  BY <1>3, <1>5
<1>8. g \in [1..n -> Group]
  BY <1>6, <1>7
<1>9. g \in Seq(Group) /\ Len(g) = n
  BY <1>5, <1>8
<1>10. \A i, j \in 1..n : i < j => g[i].upper < g[j].upper
  BY <1>5, <1>6
<1>11. QED
  BY <1>5, <1>7, <1>9, <1>10 DEF Grouped, g

\* Every isotonic fit is exact.
LEMMA IsotonicAlwaysExact ==
  ASSUME NEW studied, IsFiniteSet(studied), Rated(studied)
  PROVE  IsotonicExact(studied)
<1> DEFINE g == Groups(studied)
<1> SUFFICES ASSUME studied # {}, NEW j \in DOMAIN g
             PROVE  Predicted(Pool(g), g[j].upper).wins * MaxMin(g, j)[2]
                      = MaxMin(g, j)[1] * Predicted(Pool(g), g[j].upper).n
  BY DEF IsotonicExact, FitIsotonic
<1>1. Grouped(g) /\ j \in 1..Len(g)
  BY GroupsAre
<1> HIDE DEF g
<1>2. QED
  BY <1>1, PooledIsMaxMin

---------------------------------------------------------------------------
(* Research: rows of the archive                                           *)

\* What an archive holds at any time.
ArchiveInv == winners \in Seq({0} \cup 1..Len(EventLadder))

Bottom == EventLadder[1].cap
Top    == EventLadder[Len(EventLadder)].floor

\* Quotient and remainder.
LEMMA DivMod ==
  ASSUME NEW a \in Nat, NEW n \in Nat, n > 0
  PROVE  a \div n \in Nat /\ a % n \in 0..n - 1 /\ a = n * (a \div n) + (a % n)
OBVIOUS

\* Quotient and remainder of what is composed of them.
LEMMA DivModOf ==
  ASSUME NEW q \in Nat, NEW r \in Nat, NEW n \in Nat, n > 0, r < n
  PROVE  (q * n + r) \div n = q /\ (q * n + r) % n = r
OBVIOUS

\* Quotients grow with what is divided.
LEMMA DivGrows ==
  ASSUME NEW a \in Nat, NEW b \in Nat, NEW n \in Nat, n > 0, a <= b
  PROVE  a \div n <= b \div n
OBVIOUS

Rung == [kind : {"below", "above", "between"}, floor : Int, cap : Int]

\* The ladder's brackets.
LEMMA LadderType ==
  /\ Len(EventLadder) \in Nat /\ Len(EventLadder) >= 3
  /\ DOMAIN EventLadder = 1..Len(EventLadder)
  /\ \A i \in 1..Len(EventLadder) : EventLadder[i] \in Rung
<1>1. EventLadder \in Seq(Rung) /\ Len(EventLadder) >= 3
  BY ArchiveAssumption DEF ArchiveAssumption, Rung
<1>2. QED
  BY <1>1

\* The brackets of an event lie between the strikes of its tails.
LEMMA LadderIs ==
  /\ Bottom \in Int /\ Top \in Int /\ Bottom < Top
  /\ EventLadder[1] = [kind |-> "below", floor |-> 0, cap |-> Bottom]
  /\ EventLadder[Len(EventLadder)] = [kind |-> "above", floor |-> Top, cap |-> 0]
  /\ \A i \in 2..Len(EventLadder) - 1 :
       /\ EventLadder[i].kind = "between" /\ EventLadder[i].cap = EventLadder[i].floor + 1
       /\ EventLadder[i].floor \in Int /\ EventLadder[i].cap \in Int
       /\ EventLadder[i].floor >= Bottom /\ EventLadder[i].cap <= Top
  /\ EventLadder[2].floor = Bottom
<1> DEFINE n == Len(EventLadder)
           b(i) == EventLadder[i]
<1>1. /\ n \in Nat /\ n >= 3 /\ \A i \in 1..n : b(i) \in Rung
  BY LadderType
<1>2. /\ b(1).kind = "below" /\ b(1).floor = 0
      /\ b(n).kind = "above" /\ b(n).cap = 0
      /\ \A i \in 2..n - 1 : b(i).kind = "between" /\ b(i).cap = b(i).floor + 1
      /\ \A i \in 1..n - 1 : HighEnd(b(i)) = LowEnd(b(i + 1))
  BY ArchiveAssumption DEF ArchiveAssumption
<1>3. Bottom = b(1).cap /\ Top = b(n).floor
  BY DEF Bottom, Top
<1> HIDE DEF b, n
<1>4. /\ \A i \in 1..n : b(i).floor \in Int /\ b(i).cap \in Int
      /\ b(1) = [kind |-> b(1).kind, floor |-> b(1).floor, cap |-> b(1).cap]
      /\ b(n) = [kind |-> b(n).kind, floor |-> b(n).floor, cap |-> b(n).cap]
  <2>1. 1 \in 1..n /\ n \in 1..n
    BY <1>1
  <2>2. QED
    BY <1>1, <2>1 DEF Rung
<1>5. b(2).floor = Bottom
  <2>1. 1 \in 1..n - 1 /\ 2 \in 2..n - 1 /\ 1 \in 1..n /\ 2 \in 1..n /\ 1 + 1 = 2
    BY <1>1
  <2>2. b(1).cap * 100 - 50 = b(2).floor * 100 - 50
    <3>1. HighEnd(b(1)) = LowEnd(b(2)) /\ b(1).kind = "below" /\ b(2).kind = "between"
      BY <1>2, <2>1
    <3>2. QED
      BY <1>4, <2>1, <3>1 DEF HighEnd, LowEnd, Degree, Half
  <2>3. QED
    BY <1>3, <1>4, <2>1, <2>2
<1>6. \A i \in 2..n - 2 : b(i + 1).floor = b(i).cap + 1
  <2> TAKE i \in 2..n - 2
  <2> DEFINE j == i + 1
  <2>1. i \in 1..n - 1 /\ i \in 2..n - 1 /\ j \in 2..n - 1 /\ i \in 1..n /\ j \in 1..n /\ j = i + 1
    BY <1>1
  <2> HIDE DEF j
  <2>2. HighEnd(b(i)) = LowEnd(b(j)) /\ b(i).kind = "between" /\ b(j).kind = "between"
    BY <1>2, <2>1
  <2>3. b(i).cap * 100 + 50 = b(j).floor * 100 - 50
    BY <1>4, <2>1, <2>2 DEF HighEnd, LowEnd, Degree, Half
  <2>4. b(j).floor = b(i).cap + 1
    BY <1>4, <2>1, <2>3
  <2>5. QED
    BY <2>1, <2>4
<1>7. b(n - 1).cap = Top
  <2> DEFINE j == n - 1
  <2>1. j \in 1..n - 1 /\ j \in 2..n - 1 /\ j \in 1..n /\ n \in 1..n /\ j + 1 = n
    BY <1>1
  <2> HIDE DEF j
  <2>2. HighEnd(b(j)) = LowEnd(b(n)) /\ b(j).kind = "between" /\ b(n).kind = "above"
    BY <1>2, <2>1
  <2>3. b(j).cap * 100 + 50 = b(n).floor * 100 + 50
    BY <1>4, <2>1, <2>2 DEF HighEnd, LowEnd, Degree, Half
  <2>4. QED
    BY <1>3, <1>4, <2>1, <2>3 DEF j
<1>8. \A d \in 0..n - 3 : b(2 + d).floor >= Bottom
  <2> DEFINE P == {d \in 0..n - 3 : b(2 + d).floor >= Bottom}
  <2>1. 0 \in P
    BY <1>1, <1>3, <1>4, <1>5
  <2>2. \A d \in 0..(n - 3) - 1 : d \in P => d + 1 \in P
    <3> SUFFICES ASSUME NEW d \in 0..(n - 3) - 1, d \in P PROVE d + 1 \in P
      OBVIOUS
    <3>1. 2 + d \in 2..n - 2 /\ 2 + d \in 2..n - 1 /\ 2 + (d + 1) = (2 + d) + 1 /\ d + 1 \in 0..n - 3
          /\ 2 + d \in 1..n /\ 1 \in 1..n
      BY <1>1
    <3>2. b(2 + (d + 1)).floor = b(2 + d).cap + 1 /\ b(2 + d).cap = b(2 + d).floor + 1
      BY <1>2, <1>6, <3>1
    <3>3. b(2 + d).floor \in Int /\ Bottom \in Int /\ b(2 + d).floor >= Bottom
      BY <1>3, <1>4, <3>1
    <3>4. b(2 + (d + 1)).floor >= Bottom
      BY <3>2, <3>3
    <3>5. QED
      BY <3>1, <3>4
  <2>3. n - 3 \in Nat
    BY <1>1
  <2> HIDE DEF P
  <2>4. \A d \in 0..n - 3 : d \in P
    BY <2>1, <2>2, <2>3, IntervalInduction
  <2>5. QED
    BY <2>4 DEF P
<1>9. \A d \in 0..n - 3 : b((n - 1) - d).cap <= Top
  <2> DEFINE P == {d \in 0..n - 3 : b((n - 1) - d).cap <= Top}
  <2>1. 0 \in P
    <3>1. (n - 1) - 0 = n - 1 /\ n \in 1..n /\ 0 \in 0..n - 3
      BY <1>1
    <3>2. Top \in Int
      BY <1>3, <1>4, <3>1
    <3>3. QED
      BY <1>7, <3>1, <3>2
  <2>2. \A d \in 0..(n - 3) - 1 : d \in P => d + 1 \in P
    <3> SUFFICES ASSUME NEW d \in 0..(n - 3) - 1, d \in P PROVE d + 1 \in P
      OBVIOUS
    <3> DEFINE i == (n - 1) - (d + 1)
               j == (n - 1) - d
    <3>1. i \in 2..n - 2 /\ j \in 2..n - 1 /\ j = i + 1 /\ d + 1 \in 0..n - 3
          /\ i \in 1..n /\ j \in 1..n /\ n \in 1..n
      BY <1>1
    <3>2. b(j).cap <= Top
      OBVIOUS
    <3> HIDE DEF i, j
    <3>3. b(j).floor = b(i).cap + 1 /\ b(j).cap = b(j).floor + 1
      BY <1>2, <1>6, <3>1
    <3>4. b(i).cap \in Int /\ Top \in Int /\ b(j).floor \in Int /\ b(j).cap \in Int
      BY <1>3, <1>4, <3>1
    <3>5. b(i).cap <= Top
      BY <3>2, <3>3, <3>4
    <3>6. QED
      BY <3>1, <3>5 DEF i
  <2>3. n - 3 \in Nat
    BY <1>1
  <2> HIDE DEF P
  <2>4. \A d \in 0..n - 3 : d \in P
    BY <2>1, <2>2, <2>3, IntervalInduction
  <2>5. QED
    BY <2>4 DEF P
<1>10. ASSUME NEW i \in 2..n - 1
       PROVE  /\ b(i).kind = "between" /\ b(i).cap = b(i).floor + 1
              /\ b(i).floor \in Int /\ b(i).cap \in Int
              /\ b(i).floor >= Bottom /\ b(i).cap <= Top
  <2>1. i \in 1..n /\ i - 2 \in 0..n - 3 /\ 2 + (i - 2) = i
        /\ (n - 1) - i \in 0..n - 3 /\ (n - 1) - ((n - 1) - i) = i
    BY <1>1
  <2>2. b(i).floor >= Bottom
    <3>1. b(2 + (i - 2)).floor >= Bottom
      BY <1>8, <2>1
    <3>2. QED
      BY <2>1, <3>1
  <2>3. b(i).cap <= Top
    <3>1. b((n - 1) - ((n - 1) - i)).cap <= Top
      BY <1>9, <2>1
    <3>2. QED
      BY <2>1, <3>1
  <2>4. QED
    BY <1>2, <1>4, <2>1, <2>2, <2>3
<1>11. Bottom \in Int /\ Top \in Int /\ Bottom < Top
  <2>1. 1 \in 1..n /\ n \in 1..n /\ 2 \in 2..n - 1
    BY <1>1
  <2>2. Bottom \in Int /\ Top \in Int
    BY <1>3, <1>4, <2>1
  <2>3. QED
    BY <1>5, <1>10, <2>1, <2>2
<1>12. QED
  BY <1>2, <1>3, <1>4, <1>5, <1>10, <1>11 DEF b, n

\* The whole event of a day, as the exchange returns it.
EventOn(d) == {MarketOf(d, i) : i \in 1..Len(EventLadder)}
Lost(d, i) == d <= GapUntil /\ winners[d] = i

\* The strikes that an event still shows.
LEMMA KnownIs ==
  ASSUME NEW d
  PROVE  /\ Known(EventOn(d)) \in SUBSET (Bottom..Top)
         /\ \A i \in 1..Len(EventLadder) : ~Lost(d, i) =>
              /\ HasFloor(EventLadder[i]) => EventLadder[i].floor \in Known(EventOn(d))
              /\ HasCap(EventLadder[i]) => EventLadder[i].cap \in Known(EventOn(d))
<1> DEFINE n == Len(EventLadder)
           Strikes(m) == IF m.b.kind = "unknown" THEN {}
                         ELSE (IF HasFloor(m.b) THEN {m.b.floor} ELSE {})
                              \cup (IF HasCap(m.b) THEN {m.b.cap} ELSE {})
<1>1. \A x : x \in Known(EventOn(d)) <=> \E i \in 1..n : x \in Strikes(MarketOf(d, i))
  BY DEF Known, EventOn
<1>2. \A i \in 1..n : MarketOf(d, i).b = IF Lost(d, i) THEN NoStrikes ELSE EventLadder[i]
  BY DEF MarketOf, Lost
<1>3. \A i \in 1..n : EventLadder[i].kind # "unknown"
  BY LadderType DEF Rung
<1>4. \A i \in 1..n : Lost(d, i) => Strikes(MarketOf(d, i)) = {}
  BY <1>2 DEF NoStrikes
<1>5. \A i \in 1..n : ~Lost(d, i) =>
        Strikes(MarketOf(d, i)) = (IF HasFloor(EventLadder[i]) THEN {EventLadder[i].floor} ELSE {})
                                  \cup (IF HasCap(EventLadder[i]) THEN {EventLadder[i].cap} ELSE {})
  BY <1>2, <1>3
<1>6. \A i \in 1..n : /\ HasFloor(EventLadder[i]) => EventLadder[i].floor \in Bottom..Top
                      /\ HasCap(EventLadder[i]) => EventLadder[i].cap \in Bottom..Top
  <2> TAKE i \in 1..n
  <2>1. n \in Nat /\ n >= 3 /\ Bottom \in Int /\ Top \in Int /\ Bottom < Top
    BY LadderIs, LadderType
  <2>2. CASE i = 1
    BY <2>1, <2>2, LadderIs DEF HasFloor, HasCap
  <2>3. CASE i = n
    BY <2>1, <2>3, LadderIs DEF HasFloor, HasCap
  <2>4. CASE i \in 2..n - 1
    <3> DEFINE f == EventLadder[i].floor
               c == EventLadder[i].cap
    <3>1. c = f + 1 /\ f \in Int /\ c \in Int /\ f >= Bottom /\ c <= Top
      BY <2>4, LadderIs
    <3> HIDE DEF f, c
    <3>2. f \in Bottom..Top /\ c \in Bottom..Top
      BY <2>1, <3>1
    <3>3. QED
      BY <3>2 DEF f, c
  <2>5. QED
    BY <2>1, <2>2, <2>3, <2>4
<1> HIDE DEF Strikes, n
<1>7. Known(EventOn(d)) \in SUBSET (Bottom..Top)
  BY <1>1, <1>4, <1>5, <1>6
<1>8. ASSUME NEW i \in 1..n, ~Lost(d, i)
      PROVE  /\ HasFloor(EventLadder[i]) => EventLadder[i].floor \in Known(EventOn(d))
             /\ HasCap(EventLadder[i]) => EventLadder[i].cap \in Known(EventOn(d))
  BY <1>1, <1>5, <1>8
<1>9. QED
  BY <1>7, <1>8 DEF n

\* Lost strikes are recovered.
LEMMA RepairedIs ==
  ASSUME NEW d, NEW i \in 1..Len(EventLadder)
  PROVE  Repaired(MarketOf(d, i), EventOn(d)) = EventLadder[i]
<1> DEFINE n == Len(EventLadder)
           m == MarketOf(d, i)
           b == EventLadder[i]
           known == Known(EventOn(d))
           v == m.suffix[2]
<1>1. n \in Nat /\ n >= 3 /\ b \in Rung /\ b.kind # "unknown"
  BY LadderType DEF Rung
<1>2. m.suffix = TickerSuffix(b) /\ m.b = IF Lost(d, i) THEN NoStrikes ELSE b
  BY DEF MarketOf, Lost
<1>3. CASE ~Lost(d, i)
  BY <1>1, <1>2, <1>3 DEF Repaired
<1>4. CASE Lost(d, i)
  <2>1. m.b = NoStrikes /\ m.b.kind = "unknown"
    BY <1>2, <1>4 DEF NoStrikes
  <2>2. ~Lost(d, i) \/ \A j \in 1..n : j # i => ~Lost(d, j)
    BY DEF Lost
  <2>3. /\ known \in SUBSET (Bottom..Top)
        /\ Bottom \in Int /\ Top \in Int /\ Bottom < Top
        /\ i # 1 => Bottom \in known
        /\ i # n => Top \in known
    <3>1. 1 \in 1..n /\ n \in 1..n /\ n # 1
      <4> HIDE DEF n
      <4> QED BY <1>1
    <3>2. /\ HasCap(EventLadder[1]) /\ EventLadder[1].cap = Bottom
          /\ HasFloor(EventLadder[n]) /\ EventLadder[n].floor = Top
      BY LadderIs DEF HasCap, HasFloor
    <3>3. /\ known \in SUBSET (Bottom..Top)
          /\ ~Lost(d, 1) => Bottom \in known
          /\ ~Lost(d, n) => Top \in known
      BY <3>1, <3>2, KnownIs
    <3>4. QED
      BY <1>4, <2>2, <3>1, <3>3, LadderIs
  <2>4. known # {} /\ known \in SUBSET Int /\ IsFiniteSet(known)
    <3>1. IsFiniteSet(Bottom..Top)
      BY <2>3, FS_Interval
    <3>2. i # 1 \/ i # n
      BY <1>1
    <3> HIDE DEF known
    <3>3. known # {}
      BY <2>3, <3>2
    <3>4. \A x \in known : x \in Int
      BY <2>3
    <3>5. IsFiniteSet(known)
      BY <2>3, <3>1, FS_Subset
    <3>6. QED
      BY <3>3, <3>4, <3>5
  <2>5. /\ Max(known) \in known /\ \A x \in known : x <= Max(known)
        /\ Min(known) \in known /\ \A x \in known : Min(known) <= x
    <3> HIDE DEF known
    <3> QED BY <2>4, MaxIsGreatest, MinIsLeast
  <2>6. /\ Max(known) \in Int /\ Max(known) <= Top
        /\ Min(known) \in Int /\ Min(known) >= Bottom
    <3> HIDE DEF known
    <3>1. Max(known) \in Bottom..Top /\ Min(known) \in Bottom..Top
      BY <2>3, <2>5
    <3>2. QED
      BY <2>3, <3>1
  <2>7. Repaired(m, EventOn(d)) =
          IF m.suffix[1] = "B"
          THEN [kind |-> "between", floor |-> (v - 1) \div 2, cap |-> (v + 1) \div 2]
          ELSE IF v >= 2 * Max(known)
          THEN [kind |-> "above", floor |-> v \div 2, cap |-> 0]
          ELSE IF v <= 2 * Min(known)
          THEN [kind |-> "below", floor |-> 0, cap |-> v \div 2]
          ELSE m.b
    BY <2>1, <2>4 DEF Repaired
  <2> HIDE DEF known, m, v
  <2>8. CASE i = 1
    <3>1. b = [kind |-> "below", floor |-> 0, cap |-> Bottom]
      BY <2>8, LadderIs
    <3>2. m.suffix[1] = "T" /\ v = 2 * Bottom
      BY <1>2, <3>1 DEF TickerSuffix, v
    <3>3. Top <= Max(known)
      <4>1. i # n
        <5> HIDE DEF n
        <5> QED BY <1>1, <2>8
      <4>2. QED
        BY <2>3, <2>5, <4>1
    <3>4. ~(v >= 2 * Max(known)) /\ v <= 2 * Min(known) /\ v \div 2 = Bottom
      BY <2>3, <2>6, <3>2, <3>3
    <3>5. QED
      BY <2>7, <3>1, <3>2, <3>4 DEF m
  <2>9. CASE i = n
    <3>1. b = [kind |-> "above", floor |-> Top, cap |-> 0]
      BY <2>9, LadderIs
    <3>2. m.suffix[1] = "T" /\ v = 2 * Top
      BY <1>2, <3>1 DEF TickerSuffix, v
    <3>3. v >= 2 * Max(known) /\ v \div 2 = Top
      BY <2>3, <2>6, <3>2
    <3>4. QED
      BY <2>7, <3>1, <3>2, <3>3 DEF m
  <2>10. CASE i \in 2..n - 1
    <3> DEFINE f == b.floor
    <3>1. b.kind = "between" /\ b.cap = f + 1 /\ f \in Int
      BY <2>10, LadderIs
    <3>2. m.suffix = <<"B", b.floor + b.cap>>
      BY <1>2, <3>1 DEF TickerSuffix
    <3>3. b = [kind |-> "between", floor |-> f, cap |-> f + 1]
      BY <1>1, <3>1 DEF Rung
    <3> HIDE DEF f
    <3>4. m.suffix[1] = "B" /\ v = 2 * f + 1
      BY <3>1, <3>2 DEF v, f
    <3>5. (v - 1) \div 2 = f /\ (v + 1) \div 2 = f + 1
      BY <3>1, <3>4
    <3>6. QED
      BY <2>7, <3>3, <3>4, <3>5 DEF m
  <2>11. QED
    BY <1>1, <2>8, <2>9, <2>10 DEF m
<1>5. QED
  BY <1>3, <1>4

Oldest == Smaller(Len(winners), LiveFrom - 1)

\* Where a market stands in the historical tier.
PlaceOf(d, i) == (Oldest - d) * Len(EventLadder) + i

\* The dates in the historical tier are the first.
LEMMA OldestIs ==
  ASSUME ArchiveInv
  PROVE  /\ Len(winners) \in Nat /\ DOMAIN winners = 1..Len(winners)
         /\ Oldest \in Nat /\ Oldest <= Len(winners) /\ Oldest <= 4
         /\ \A d \in 1..Len(winners) : d >= 5 \/ d \in 1..Oldest
         /\ \A d \in 1..Len(winners) : winners[d] \in {0} \cup 1..Len(EventLadder)
<1>1. Len(winners) \in Nat /\ DOMAIN winners = 1..Len(winners)
  BY DEF ArchiveInv
<1>2. \A d \in 1..Len(winners) : winners[d] \in {0} \cup 1..Len(EventLadder)
  BY <1>1 DEF ArchiveInv
<1>3. QED
  BY <1>1, <1>2 DEF Oldest, Smaller, LiveFrom

\* The historical tier, newest date first.
LEMMA HistoryIs ==
  ASSUME ArchiveInv
  PROVE  /\ Len(EventLadder) * Oldest \in Nat
         /\ Len(History) = Len(EventLadder) * Oldest
         /\ \A k \in 1..Len(EventLadder) * Oldest :
              /\ Oldest - ((k - 1) \div Len(EventLadder)) \in 1..Oldest
              /\ ((k - 1) % Len(EventLadder)) + 1 \in 1..Len(EventLadder)
              /\ History[k] = MarketOf(Oldest - ((k - 1) \div Len(EventLadder)),
                                       ((k - 1) % Len(EventLadder)) + 1)
<1> DEFINE n == Len(EventLadder)
           o == Oldest
<1>1. n \in Nat /\ n >= 3 /\ o \in Nat
  BY LadderType, OldestIs
<1>2. History = [k \in 1..(n * o) |-> MarketOf(o - ((k - 1) \div n), ((k - 1) % n) + 1)]
  BY DEF History, Oldest
<1> HIDE DEF n, o
<1>3. n * o \in Nat
  BY <1>1
<1>4. Len(History) = n * o
  BY <1>2, <1>3
<1>5. ASSUME NEW k \in 1..n * o
      PROVE  o - ((k - 1) \div n) \in 1..o /\ ((k - 1) % n) + 1 \in 1..n
  <2> DEFINE a == k - 1
             q == a \div n
             r == a % n
  <2>1. a \in Nat /\ a < n * o
    BY <1>3
  <2> HIDE DEF a
  <2>2. q \in Nat /\ r \in 0..n - 1 /\ a = n * q + r
    BY <1>1, <2>1, DivMod
  <2> HIDE DEF q, r
  <2>3. q < o
    <3>1. CASE q >= o
      <4>1. n * q >= n * o
        BY <1>1, <2>2, <3>1
      <4>2. r \in Nat /\ n * q \in Nat
        BY <1>1, <2>2
      <4>3. QED
        BY <1>3, <2>1, <2>2, <4>1, <4>2
    <3>2. QED
      BY <1>1, <2>2, <3>1
  <2>4. o - q \in 1..o /\ r + 1 \in 1..n
    BY <1>1, <2>2, <2>3
  <2>5. QED
    BY <2>4 DEF a, q, r
<1>6. QED
  BY <1>2, <1>3, <1>4, <1>5 DEF n, o

\* Where the historical tier holds a market.
LEMMA PlaceIs ==
  ASSUME ArchiveInv, NEW d \in 1..Oldest, NEW i \in 1..Len(EventLadder)
  PROVE  /\ PlaceOf(d, i) \in 1..Len(History)
         /\ (PlaceOf(d, i) - 1) \div Len(EventLadder) = Oldest - d
         /\ History[PlaceOf(d, i)] = MarketOf(d, i)
<1> DEFINE n == Len(EventLadder)
           o == Oldest
           k == PlaceOf(d, i)
           q == o - d
           r == i - 1
<1>1. n \in Nat /\ n >= 3 /\ o \in Nat /\ d \in 1..o /\ i \in 1..n
  BY LadderType, OldestIs
<1>2. k = q * n + i
  BY DEF PlaceOf
<1>3. q \in Nat /\ r \in Nat /\ r < n /\ q + 1 <= o /\ i = r + 1 /\ n > 0 /\ d = o - q
  <2> HIDE DEF n, o
  <2> QED BY <1>1
<1> HIDE DEF n, o, k, q, r
<1>4. q * n \in Nat /\ k - 1 = q * n + r
  BY <1>1, <1>2, <1>3
<1>5. (k - 1) \div n = q /\ (k - 1) % n = r
  <2>1. (q * n + r) \div n = q /\ (q * n + r) % n = r
    BY <1>1, <1>3, DivModOf
  <2>2. QED
    BY <1>4, <2>1
<1>6. k \in 1..n * o
  <2>1. (q + 1) * n <= o * n
    BY <1>1, <1>3
  <2>2. (q + 1) * n = q * n + n /\ o * n = n * o
    BY <1>1, <1>3
  <2>3. n * o \in Nat
    BY <1>1
  <2>4. QED
    BY <1>1, <1>2, <1>4, <2>1, <2>2, <2>3
<1>7. /\ Len(History) = n * o
      /\ History[k] = MarketOf(o - ((k - 1) \div n), ((k - 1) % n) + 1)
  <2>1. k \in 1..Len(EventLadder) * Oldest
    BY <1>6 DEF n, o
  <2> HIDE DEF n, o
  <2>2. /\ Len(History) = Len(EventLadder) * Oldest
        /\ History[k] = MarketOf(Oldest - ((k - 1) \div Len(EventLadder)),
                                 ((k - 1) % Len(EventLadder)) + 1)
    BY <2>1, HistoryIs
  <2>3. QED
    BY <2>2 DEF n, o
<1>8. History[k] = MarketOf(d, i)
  BY <1>3, <1>5, <1>7
<1>9. (k - 1) \div n = o - d
  BY <1>5 DEF q
<1>10. QED
  BY <1>6, <1>7, <1>8, <1>9 DEF n, o, k

\* The pages that are read.
PageOf(p) ==
  {History[i] : i \in ((p - 1) * PageSize + 1)..Smaller(p * PageSize, Len(History))}
StopsAt(p) ==
  \/ p * PageSize >= Len(History)
  \/ p = 20
  \/ \E m \in PageOf(p) : m.date <= StartDate
PagesRead == Min({p \in 1..20 : StopsAt(p)})

\* The pages read are the first up to one that stops.
LEMMA PagesReadIs ==
  /\ HistoricalMarkets(History, StartDate, PageSize) = UNION {PageOf(p) : p \in 1..PagesRead}
  /\ PagesRead \in 1..20 /\ StopsAt(PagesRead)
<1> DEFINE S == {p \in 1..20 : StopsAt(p)}
<1>1. 20 \in S
  BY DEF StopsAt
<1>2. IsFiniteSet(1..20) /\ S \in SUBSET (1..20) /\ 1..20 \in SUBSET Int
  <2>1. IsFiniteSet(1..20)
    <3>1. 1 \in Int /\ 20 \in Int
      OBVIOUS
    <3>2. QED
      BY <3>1, FS_Interval
  <2>2. QED
    BY <2>1
<1> HIDE DEF S
<1>3. S \in SUBSET Int /\ IsFiniteSet(S) /\ S # {}
  BY <1>1, <1>2, FS_Subset
<1>4. Min(S) \in S
  BY <1>3, MinIsLeast
<1>5. PagesRead \in 1..20 /\ StopsAt(PagesRead)
  BY <1>4 DEF PagesRead, S
<1>6. HistoricalMarkets(History, StartDate, PageSize) = UNION {PageOf(p) : p \in 1..PagesRead}
  BY DEF HistoricalMarkets, PageOf, StopsAt, PagesRead
<1>7. QED
  BY <1>5, <1>6

Settled == Live \cup HistoricalMarkets(History, StartDate, PageSize)

\* Nothing but markets of the archive's days.
LEMMA SettledAre ==
  ASSUME ArchiveInv, NEW m \in Settled
  PROVE  m.date \in 1..Len(winners) /\ m \in EventOn(m.date)
<1>1. /\ \A d, i : MarketOf(d, i).date = d
      /\ DOMAIN winners = 1..Len(winners) /\ Len(winners) \in Nat
      /\ DOMAIN EventLadder = 1..Len(EventLadder)
      /\ Oldest \in Nat /\ Oldest <= Len(winners)
  BY OldestIs, LadderType DEF MarketOf
<1>2. CASE m \in Live
  <2>1. PICK d \in 1..Len(winners), i \in 1..Len(EventLadder) : m = MarketOf(d, i)
    BY <1>1, <1>2 DEF Live
  <2>2. QED
    BY <1>1, <2>1 DEF EventOn
<1>3. CASE m \in HistoricalMarkets(History, StartDate, PageSize)
  <2>1. PICK p \in 1..PagesRead : m \in PageOf(p)
    BY <1>3, PagesReadIs
  <2>2. PICK k \in ((p - 1) * PageSize + 1)..Smaller(p * PageSize, Len(History)) :
          m = History[k]
    BY <2>1 DEF PageOf
  <2>3. k \in 1..Len(History)
    <3>1. Len(History) \in Nat
      BY HistoryIs
    <3>2. p \in Int /\ p >= 1
      BY PagesReadIs
    <3>3. QED
      BY <2>2, <3>1, <3>2 DEF Smaller, PageSize
  <2> DEFINE d == Oldest - ((k - 1) \div Len(EventLadder))
             i == ((k - 1) % Len(EventLadder)) + 1
  <2>4. d \in 1..Oldest /\ i \in 1..Len(EventLadder) /\ m = MarketOf(d, i)
    BY <2>2, <2>3, HistoryIs
  <2> HIDE DEF d, i
  <2>5. d \in 1..Len(winners)
    BY <1>1, <2>4
  <2>6. QED
    BY <1>1, <2>4, <2>5 DEF EventOn
<1>4. QED
  BY <1>2, <1>3 DEF Settled

\* What is after the start date is read.
LEMMA PageReached ==
  ASSUME ArchiveInv, NEW d \in 3..Oldest, NEW i \in 1..Len(EventLadder)
  PROVE  MarketOf(d, i) \in HistoricalMarkets(History, StartDate, PageSize)
<1> DEFINE n == Len(EventLadder)
           o == Oldest
           k == PlaceOf(d, i)
           a == k - 1
           p == (a \div 4) + 1
           R == PagesRead
           L == Len(History)
<1>1. /\ n \in Nat /\ n >= 3 /\ o \in Nat /\ o <= 4 /\ d \in 1..o /\ L \in Nat /\ L = n * o
      /\ R \in 1..20 /\ StopsAt(R)
  BY LadderType, OldestIs, HistoryIs, PagesReadIs
<1>2. /\ k \in 1..L /\ a \div n = o - d /\ History[k] = MarketOf(d, i)
  <2>1. d \in 1..Oldest
    BY <1>1
  <2>2. QED
    BY <2>1, PlaceIs
<1> HIDE DEF R
<1>3. a \in Nat /\ a \div n \in Nat /\ a \div n <= 1
  BY <1>1, <1>2
<1>4. k <= 80
  <2>1. n * (LiveFrom - StartDate - 1) <= 20 * PageSize
    BY ArchiveAssumption DEF ArchiveAssumption
  <2>2. n * 2 <= 80
    BY <1>1, <2>1 DEF LiveFrom, StartDate, PageSize
  <2> DEFINE q == a \div n
             r == a % n
  <2> HIDE DEF a, n
  <2>3. q \in Nat /\ r \in 0..n - 1 /\ a = n * q + r
    BY <1>1, <1>3, DivMod
  <2>4. q = 0 \/ q = 1
    BY <1>3, <2>3
  <2> HIDE DEF q, r
  <2>5. a < n * 2
    <3>1. CASE q = 0
      BY <1>1, <2>3, <3>1
    <3>2. CASE q = 1
      BY <1>1, <2>3, <3>2
    <3>3. QED
      BY <2>4, <3>1, <3>2
  <2>6. a < 80
    BY <1>1, <1>3, <2>2, <2>5
  <2>7. a = k - 1
    BY DEF a
  <2>8. QED
    BY <1>2, <1>1, <2>6, <2>7
<1>5. p \in Nat /\ p >= 1 /\ (p - 1) * 4 + 1 <= k /\ k <= p * 4
  <2>1. a \in Nat /\ k = a + 1
    BY <1>1, <1>2, <1>3
  <2> HIDE DEF a, k
  <2>2. QED
    BY <2>1
<1> HIDE DEF p
<1>6. ~(R < p)
  <2> SUFFICES ASSUME R < p PROVE FALSE
    OBVIOUS
  <2>1. R * 4 < k
    <3>1. R \in Int /\ k \in Int
      BY <1>1, <1>2
    <3> HIDE DEF k
    <3>2. QED
      BY <1>5, <3>1
  <2>2. ~(R * PageSize >= L) /\ R # 20
    BY <1>1, <1>2, <1>4, <2>1 DEF PageSize
  <2>3. PICK m \in PageOf(R) : m.date <= StartDate
    BY <1>1, <2>2 DEF StopsAt
  <2>4. PICK c \in ((R - 1) * PageSize + 1)..Smaller(R * PageSize, Len(History)) : m = History[c]
    BY <2>3 DEF PageOf
  <2>5. c \in 1..L /\ c <= R * 4 /\ c - 1 \in Nat /\ c - 1 <= a
    BY <1>1, <1>2, <2>1, <2>4 DEF Smaller, PageSize
  <2> DEFINE e == c - 1
  <2>6. e \in Nat /\ e <= a
    BY <2>5
  <2>7. m.date = o - (e \div n)
    <3>1. c \in 1..Len(EventLadder) * Oldest
      BY <1>1, <2>5
    <3>2. History[c] = MarketOf(Oldest - ((c - 1) \div Len(EventLadder)),
                                ((c - 1) % Len(EventLadder)) + 1)
      BY <3>1, HistoryIs
    <3>3. QED
      BY <2>4, <3>2 DEF MarketOf
  <2> HIDE DEF e, a, n, o
  <2>8. e \div n <= a \div n /\ e \div n \in Nat
    BY <1>1, <1>3, <2>6, DivGrows, DivMod
  <2>9. d \in Int /\ d >= 3
    OBVIOUS
  <2>10. m.date >= 3
    BY <1>1, <1>2, <1>3, <2>7, <2>8, <2>9
  <2>11. m.date \in Int
    BY <1>1, <2>7, <2>8
  <2>12. QED
    BY <2>3, <2>10, <2>11 DEF StartDate
<1>7. p \in 1..R
  BY <1>1, <1>5, <1>6
<1>8. History[k] \in PageOf(p)
  <2>1. k \in ((p - 1) * PageSize + 1)..Smaller(p * PageSize, Len(History))
    BY <1>1, <1>2, <1>5 DEF Smaller, PageSize
  <2> HIDE DEF k
  <2>2. QED
    BY <2>1 DEF PageOf
<1>9. QED
  BY <1>2, <1>7, <1>8, PagesReadIs DEF R

\* Every event after the start date is whole.
LEMMA EventsAreWhole ==
  ASSUME ArchiveInv, NEW d \in 3..Len(winners)
  PROVE  {m \in Settled : m.date = d} = EventOn(d)
<1>1. {m \in Settled : m.date = d} \in SUBSET EventOn(d)
  BY SettledAre
<1>2. ASSUME NEW m \in EventOn(d) PROVE m \in Settled /\ m.date = d
  <2>1. PICK i \in 1..Len(EventLadder) : m = MarketOf(d, i)
    BY DEF EventOn
  <2>2. m.date = d
    BY <2>1 DEF MarketOf
  <2>3. d \in 1..Len(winners) /\ DOMAIN winners = 1..Len(winners)
        /\ DOMAIN EventLadder = 1..Len(EventLadder)
    BY OldestIs, LadderType
  <2>4. CASE d >= 5
    <3>1. MarketOf(d, i) \in Live
      BY <2>3, <2>4 DEF Live, LiveFrom
    <3>2. QED
      BY <2>1, <2>2, <3>1 DEF Settled
  <2>5. CASE ~(d >= 5)
    <3>1. d \in 1..Oldest
      BY <2>3, <2>5, OldestIs
    <3>2. d \in 3..Oldest
      BY <3>1, OldestIs
    <3>3. QED
      BY <2>1, <2>2, <3>2, PageReached DEF Settled
  <2>6. QED
    BY <2>2, <2>4, <2>5
<1>3. QED
  BY <1>1, <1>2

ForecastByDate == [d \in DOMAIN winners |-> Forecast(d)]
SettledOn(d) == {m \in Settled : m.date = d}
WholeOn(d) == {[m EXCEPT !.b = Repaired(m, SettledOn(d))] : m \in SettledOn(d)}
ActualOn(d) == {m.b.floor + m.b.cap :
                  m \in {w \in WholeOn(d) : w.result = "yes" /\ w.b.kind = "between"}}
RowDates == {d \in {m.date : m \in Settled} :
               d \in StartDate..Len(winners) /\ Cardinality(DOMAIN ForecastByDate[d]) >= 2}
RowOf(d, m) == [date |-> d, index |-> m.index, b |-> m.b, outcome |-> m.result = "yes",
                approx |-> ActualOn(d), forecasts |-> ForecastByDate[d]]
RowsOn(d) == {RowOf(d, m) : m \in {w \in WholeOn(d) : w.result \in {"yes", "no"}}}

\* The rows by their dates.
LEMMA RowsAre == Rows = UNION {RowsOn(d) : d \in RowDates}
BY DEF Rows, CollectRows, RowDates, RowsOn, RowOf, ActualOn, WholeOn, SettledOn, Settled, ForecastByDate

\* A row is of its day.
LEMMA RowIs ==
  ASSUME NEW row
  PROVE  row \in Rows <=> \E d \in RowDates : \E m \in WholeOn(d) :
                            m.result \in {"yes", "no"} /\ row = RowOf(d, m)
BY RowsAre DEF RowsOn

\* The rows have finitely many dates.
LEMMA RowsDated ==
  ASSUME ArchiveInv
  PROVE  Dated(Rows)
<1>1. Len(winners) \in Nat
  BY OldestIs
<1>2. DatesOf(Rows) \in SUBSET (StartDate..Len(winners))
  BY RowIs DEF DatesOf, RowOf, RowDates
<1>3. IsFiniteSet(StartDate..Len(winners))
  <2>1. StartDate \in Int
    BY DEF StartDate
  <2>2. QED
    BY <1>1, <2>1, FS_Interval
<1>4. IsFiniteSet(DatesOf(Rows))
  BY <1>2, <1>3, FS_Subset
<1>5. DatesOf(Rows) \in SUBSET Int
  BY <1>1, <1>2 DEF StartDate
<1>6. QED
  BY <1>4, <1>5 DEF Dated

\* Two forecasts, but on every fourth date one.
LEMMA ForecastCount ==
  ASSUME NEW d \in Nat
  PROVE  Cardinality(DOMAIN Forecast(d)) >= 2 <=> d % 4 # 0
<1>1. CASE d % 4 = 0
  <2>2. DOMAIN Forecast(d) = {"gfs"}
    BY <1>1 DEF Forecast
  <2>3. Cardinality({"gfs"}) = 1
    BY FS_Singleton
  <2>4. QED
    BY <1>1, <2>2, <2>3
<1>2. CASE d % 4 # 0
  <2>1. DOMAIN Forecast(d) = {"gfs"} \cup {"ecmwf"}
    BY <1>2 DEF Forecast
  <2>2. IsFiniteSet({"gfs"}) /\ Cardinality({"gfs"}) = 1
    BY FS_Singleton
  <2>3. Cardinality({"gfs"} \cup {"ecmwf"}) = 2
    <3>1. "ecmwf" \notin {"gfs"}
      OBVIOUS
    <3>2. Cardinality({"gfs"} \cup {"ecmwf"}) = Cardinality({"gfs"}) + 1
      BY <2>2, <3>1, FS_AddElement
    <3>3. QED
      BY <2>2, <3>2
  <2>4. QED
    BY <1>2, <2>1, <2>3
<1>3. QED
  BY <1>1, <1>2

\* After the start date the ladders are whole.
LEMMA WholeAre ==
  ASSUME ArchiveInv, NEW d \in 3..Len(winners)
  PROVE  /\ SettledOn(d) = EventOn(d)
         /\ \A m : m \in WholeOn(d) <=> \E i \in 1..Len(EventLadder) :
              m = [date |-> d, index |-> i, suffix |-> TickerSuffix(EventLadder[i]),
                   b |-> EventLadder[i], result |-> Result(d, i)]
<1>1. SettledOn(d) = EventOn(d)
  BY EventsAreWhole DEF SettledOn
<1>2. \A i \in 1..Len(EventLadder) :
        [MarketOf(d, i) EXCEPT !.b = Repaired(MarketOf(d, i), EventOn(d))]
          = [date |-> d, index |-> i, suffix |-> TickerSuffix(EventLadder[i]),
             b |-> EventLadder[i], result |-> Result(d, i)]
  <2> TAKE i \in 1..Len(EventLadder)
  <2>1. Repaired(MarketOf(d, i), EventOn(d)) = EventLadder[i]
    BY RepairedIs
  <2>2. QED
    BY <2>1 DEF MarketOf
<1>3. \A m : m \in WholeOn(d) <=> \E i \in 1..Len(EventLadder) :
        m = [MarketOf(d, i) EXCEPT !.b = Repaired(MarketOf(d, i), EventOn(d))]
  BY <1>1 DEF WholeOn, EventOn
<1> DEFINE Left(i) == [MarketOf(d, i) EXCEPT !.b = Repaired(MarketOf(d, i), EventOn(d))]
           Right(i) == [date |-> d, index |-> i, suffix |-> TickerSuffix(EventLadder[i]),
                        b |-> EventLadder[i], result |-> Result(d, i)]
<1>4. /\ \A i \in 1..Len(EventLadder) : Left(i) = Right(i)
      /\ \A m : m \in WholeOn(d) <=> \E i \in 1..Len(EventLadder) : m = Left(i)
  BY <1>2, <1>3
<1> HIDE DEF Left, Right
<1>5. \A m : m \in WholeOn(d) <=> \E i \in 1..Len(EventLadder) : m = Right(i)
  BY <1>4
<1>6. QED
  BY <1>1, <1>5 DEF Right

\* Every settled event with two forecasts is there with its whole ladder.
LEMMA LaddersAlwaysWhole ==
  ASSUME ArchiveInv
  PROVE  LaddersWhole(Rows)
<1> DEFINE n == Len(EventLadder)
<1>1. /\ Len(winners) \in Nat /\ DOMAIN winners = 1..Len(winners)
      /\ n \in Nat /\ n >= 3 /\ DOMAIN EventLadder = 1..n
      /\ \A d \in 1..Len(winners) : winners[d] \in {0} \cup 1..n
  BY OldestIs, LadderType
<1> HIDE DEF n
<1>2. ASSUME NEW d \in 3..Len(winners)
      PROVE  {<<row.index, row.b, row.outcome>> : row \in {r \in Rows : r.date = d}}
               = IF winners[d] = 0 \/ d % 4 = 0 THEN {}
                 ELSE {<<i, EventLadder[i], winners[d] = i>> : i \in DOMAIN EventLadder}
  <2> DEFINE A == {<<row.index, row.b, row.outcome>> : row \in {r \in Rows : r.date = d}}
             B == {<<i, EventLadder[i], winners[d] = i>> : i \in DOMAIN EventLadder}
  <2>1. d \in 1..Len(winners) /\ d \in Nat /\ winners[d] \in {0} \cup 1..n
    BY <1>1
  <2>2. \A row : row \in Rows /\ row.date = d <=>
          d \in RowDates /\ \E m \in WholeOn(d) : m.result \in {"yes", "no"} /\ row = RowOf(d, m)
    <3>1. \A e, m : RowOf(e, m).date = e
      BY DEF RowOf
    <3>2. QED
      BY <3>1, RowIs
  <2>3. d \in RowDates <=> d % 4 # 0
    <3>1. ForecastByDate[d] = Forecast(d)
      BY <1>1, <2>1 DEF ForecastByDate
    <3>2. \E m \in Settled : m.date = d
      <4>1. 1 \in 1..n /\ MarketOf(d, 1) \in EventOn(d) /\ MarketOf(d, 1).date = d
        BY <1>1 DEF EventOn, MarketOf, n
      <4>2. QED
        BY <4>1, EventsAreWhole
    <3>3. d \in StartDate..Len(winners)
      BY <1>1, <2>1 DEF StartDate
    <3>4. Cardinality(DOMAIN Forecast(d)) >= 2 <=> d % 4 # 0
      BY <2>1, ForecastCount
    <3>5. QED
      BY <3>1, <3>2, <3>3, <3>4 DEF RowDates
  <2> DEFINE M(i) == [date |-> d, index |-> i, suffix |-> TickerSuffix(EventLadder[i]),
                      b |-> EventLadder[i], result |-> Result(d, i)]
  <2>4. \A m : m \in WholeOn(d) <=> \E i \in 1..n : m = M(i)
    BY WholeAre DEF n
  <2>5. \A i \in 1..n : /\ M(i).result \in {"yes", "no"} <=> winners[d] # 0
                        /\ RowOf(d, M(i)).index = i /\ RowOf(d, M(i)).b = EventLadder[i]
                        /\ winners[d] # 0 => RowOf(d, M(i)).outcome = (winners[d] = i)
    BY <1>1, <2>1 DEF RowOf, Result
  <2> HIDE DEF M
  <2>6. CASE winners[d] = 0 \/ d % 4 = 0
    <3>1. \A row \in Rows : row.date # d
      BY <2>2, <2>3, <2>4, <2>5, <2>6
    <3>2. A = {}
      BY <3>1
    <3>3. QED
      BY <2>6, <3>2
  <2>7. CASE ~(winners[d] = 0 \/ d % 4 = 0)
    <3>1. \A row : row \in Rows /\ row.date = d <=> \E i \in 1..n : row = RowOf(d, M(i))
      BY <2>2, <2>3, <2>4, <2>5, <2>7
    <3>2. A \in SUBSET B
      BY <1>1, <2>5, <2>7, <3>1
    <3>3. ASSUME NEW i \in 1..n PROVE <<i, EventLadder[i], winners[d] = i>> \in A
      <4>1. RowOf(d, M(i)) \in Rows /\ RowOf(d, M(i)).date = d
        BY <3>1
      <4> DEFINE row == RowOf(d, M(i))
      <4>2. <<row.index, row.b, row.outcome>> = <<i, EventLadder[i], winners[d] = i>>
        BY <2>5, <2>7
      <4> HIDE DEF row
      <4>3. <<row.index, row.b, row.outcome>> \in A
        BY <4>1 DEF row
      <4>4. QED
        BY <4>2, <4>3
    <3>4. B \in SUBSET A
      BY <1>1, <3>3
    <3>5. A = B
      BY <3>2, <3>4
    <3>6. QED
      BY <2>7, <3>5
  <2>8. QED
    BY <2>6, <2>7
<1>3. \A d \in (StartDate + 1)..Len(winners) : d \in 3..Len(winners)
  BY DEF StartDate
<1>4. QED
  BY <1>2, <1>3 DEF LaddersWhole

\* A day's rows share its temperature and forecasts.
ResidualOf(row) ==
  LET n == Cardinality(DOMAIN row.forecasts)
      sum == MapThenSumSet(LAMBDA k : row.forecasts[k], DOMAIN row.forecasts)
  IN  n * Max(row.approx) - 2 * sum

\* Every day counts once among the residuals.
LEMMA ResidualsAlwaysOnce ==
  ASSUME ArchiveInv
  PROVE  ResidualsOnce(Rows)
<1> DEFINE pooled == DatedResiduals(Rows)
           D == {x.date : x \in pooled}
           W == {row.date : row \in {r \in Rows : r.outcome /\ r.b.kind = "between"}}
<1>1. pooled = {[date |-> row.date, residual |-> ResidualOf(row)] :
                  row \in {r \in Rows : r.approx # {}}}
  BY DEF DatedResiduals, ResidualOf
<1>2. \A row \in Rows : row.approx = ActualOn(row.date) /\ row.forecasts = ForecastByDate[row.date]
  BY RowIs DEF RowOf
<1> HIDE DEF pooled
<1>3. \A x, y \in pooled : x.date = y.date => x = y
  <2> SUFFICES ASSUME NEW x \in pooled, NEW y \in pooled, x.date = y.date PROVE x = y
    OBVIOUS
  <2>1. PICK r \in Rows : x = [date |-> r.date, residual |-> ResidualOf(r)]
    BY <1>1
  <2>2. PICK s \in Rows : y = [date |-> s.date, residual |-> ResidualOf(s)]
    BY <1>1
  <2>3. r.date = s.date
    BY <2>1, <2>2
  <2>4. r.approx = s.approx /\ r.forecasts = s.forecasts
    BY <1>2, <2>3
  <2>5. ResidualOf(r) = ResidualOf(s)
    BY <2>4 DEF ResidualOf
  <2>6. QED
    BY <2>1, <2>2, <2>3, <2>5
<1>4. \A e : e \in D <=> \E row \in Rows : row.date = e /\ row.approx # {}
  <2>1. \A row, z : [date |-> row.date, residual |-> z].date = row.date
    OBVIOUS
  <2> DEFINE P(row) == [date |-> row.date, residual |-> ResidualOf(row)]
  <2>2. pooled = {P(row) : row \in {r \in Rows : r.approx # {}}}
    BY <1>1
  <2>3. \A row : P(row).date = row.date
    BY <2>1
  <2> HIDE DEF P
  <2>4. \A x : x \in pooled <=> \E row \in Rows : row.approx # {} /\ x = P(row)
    BY <2>2
  <2>5. QED
    BY <2>3, <2>4
<1>5. IsFiniteSet(D)
  <2>1. D \in SUBSET DatesOf(Rows)
    BY <1>4 DEF DatesOf
  <2> HIDE DEF D
  <2>2. QED
    BY <2>1, RowsDated, FS_Subset DEF Dated
<1>6. Cardinality(pooled) = Cardinality(D)
  <2> DEFINE f == [x \in pooled |-> x.date]
  <2>1. f \in Injection(pooled, D) /\ f \in Surjection(pooled, D)
    <3>1. f \in [pooled -> D] /\ \A x \in pooled : f[x] = x.date
      OBVIOUS
    <3>2. \A e \in D : \E x \in pooled : x.date = e
      OBVIOUS
    <3> HIDE DEF f, D
    <3>3. QED
      BY <1>3, <3>1, <3>2 DEF Injection, IsInjective, Surjection
  <2> HIDE DEF f, D
  <2>2. IsFiniteSet(pooled) /\ Cardinality(pooled) = Cardinality(D)
    <3>1. IsFiniteSet(pooled) /\ Cardinality(pooled) <= Cardinality(D)
      BY <1>5, <2>1, FS_Injection
    <3>2. Cardinality(D) <= Cardinality(pooled)
      BY <2>1, <3>1, FS_Surjection
    <3>3. Cardinality(D) \in Int /\ Cardinality(pooled) \in Int
      BY <1>5, <3>1, FS_CardinalityType
    <3>4. QED
      BY <3>1, <3>2, <3>3
  <2>3. QED
    BY <2>2
<1>7. D = W
  <2>1. ASSUME NEW e \in D PROVE e \in W
    <3>1. PICK row \in Rows : row.date = e /\ row.approx # {}
      BY <1>4
    <3>2. PICK d \in RowDates : row.date = d
      BY <3>1, RowIs DEF RowOf
    <3>3. PICK m \in WholeOn(e) : m.result = "yes" /\ m.b.kind = "between"
      BY <1>2, <3>1 DEF ActualOn
    <3>4. RowOf(e, m) \in Rows /\ e \in RowDates
      BY <3>1, <3>2, <3>3, RowIs DEF RowOf
    <3>5. RowOf(e, m).date = e /\ RowOf(e, m).outcome /\ RowOf(e, m).b.kind = "between"
      BY <3>3 DEF RowOf
    <3>6. QED
      BY <3>4, <3>5
  <2>2. ASSUME NEW e \in W PROVE e \in D
    <3>1. PICK row \in Rows : row.date = e /\ row.outcome /\ row.b.kind = "between"
      OBVIOUS
    <3>2. PICK d \in RowDates : \E m \in WholeOn(d) : row = RowOf(d, m)
      BY <3>1, RowIs
    <3> PICK m \in WholeOn(d) : row = RowOf(d, m)
      BY <3>2
    <3>3. d = e /\ m.result = "yes" /\ m.b.kind = "between"
      BY <3>1, <3>2 DEF RowOf
    <3>4. m.b.floor + m.b.cap \in ActualOn(e)
      BY <3>2, <3>3 DEF ActualOn
    <3>5. row.approx # {}
      BY <1>2, <3>1, <3>4
    <3>6. QED
      BY <1>4, <3>1, <3>5
  <2> HIDE DEF D, W
  <2>3. QED
    BY <2>1, <2>2
<1>8. QED
  BY <1>6, <1>7 DEF ResidualsOnce, pooled

---------------------------------------------------------------------------
(* Research: the archive itself                                            *)

\* The empty archive.
LEMMA ArchiveStarts == ArchiveInit => ArchiveInv
BY DEF ArchiveInit, ArchiveInv

\* A date more.
LEMMA ArchiveGrows == ArchiveInv /\ [ArchiveNext]_archiveVars => ArchiveInv'
<1> SUFFICES ASSUME ArchiveInv, [ArchiveNext]_archiveVars PROVE ArchiveInv'
  OBVIOUS
<1> DEFINE E == {0} \cup 1..Len(EventLadder)
<1>1. winners \in Seq(E)
  BY DEF ArchiveInv
<1>2. CASE NextEvent
  <2>1. PICK w \in {0} \cup DOMAIN EventLadder : winners' = Append(winners, w)
    BY <1>2 DEF NextEvent
  <2>2. w \in E
    BY <2>1, LadderType
  <2> HIDE DEF E
  <2>3. Append(winners, w) \in Seq(E)
    BY <1>1, <2>2
  <2>4. QED
    BY <2>1, <2>3 DEF ArchiveInv, E
<1>3. CASE winners' = winners
  BY <1>1, <1>3 DEF ArchiveInv
<1>4. QED
  BY <1>2, <1>3 DEF ArchiveNext, archiveVars

\* The model's and the market's odds of a bracket are whole percentages.
LEMMA TurnIs ==
  ASSUME NEW table \in {ModelOdds, MarketOdds}, NEW d \in Nat,
         NEW i \in 1..Len(EventLadder)
  PROVE  Turn(table, d)[i] \in Int
<1> DEFINE Odds == [1..Len(EventLadder) -> 0..100]
<1>1. table # <<>> /\ table \in Seq(Odds)
  BY ArchiveAssumption DEF ArchiveAssumption
<1> HIDE DEF Odds
<1>2. Len(table) \in Nat /\ Len(table) > 0
  BY <1>1
<1> DEFINE n == Len(table)
<1> HIDE DEF n
<1>3. d % n \in 0..n - 1
  BY <1>2, DivMod DEF n
<1>4. (d % n) + 1 \in 1..n
  BY <1>2, <1>3 DEF n
<1>5. table[(d % n) + 1] \in Odds
  BY <1>1, <1>4 DEF n
<1>6. Turn(table, d) \in Odds
  BY <1>5 DEF Turn, n
<1>7. \A x \in Odds : x[i] \in 0..100
  BY DEF Odds
<1>8. Turn(table, d)[i] \in 0..100
  BY <1>6, <1>7
<1>9. \A x \in 0..100 : x \in Int
  OBVIOUS
<1>10. QED
  BY <1>8, <1>9, Zenon

\* A studied row is an alert's, in what the studies read of it.
LEMMA StudiedIs ==
  ASSUME NEW row \in Studied
  PROVE  \E d \in DOMAIN winners, i \in DOMAIN EventLadder, lead \in {0, 1} :
           /\ row = [date |-> AlertOf(d, i, lead).date, index |-> AlertOf(d, i, lead).index,
                     b |-> AlertOf(d, i, lead).b, city |-> AlertOf(d, i, lead).city,
                     decided |-> AlertOf(d, i, lead).decided,
                     quoted |-> AlertOf(d, i, lead).decided,
                     captured |-> AlertOf(d, i, lead).decided,
                     settled |-> AlertOf(d, i, lead).settled,
                     winner |-> AlertOf(d, i, lead).winner,
                     model |-> AlertOf(d, i, lead).model,
                     market |-> AlertOf(d, i, lead).market,
                     observed |-> AlertOf(d, i, lead).observed]
           /\ AlertOf(d, i, lead).settled # 0
<1>1. PICK a \in Alerts :
        /\ row = [date |-> a.date, index |-> a.index, b |-> a.b, city |-> a.city,
                  decided |-> a.decided, quoted |-> a.decided, captured |-> a.decided,
                  settled |-> a.settled, winner |-> a.winner, model |-> a.model,
                  market |-> a.market, observed |-> a.observed]
        /\ a.settled # 0
  BY DEF Studied, FetchRows
<1>2. \E d \in DOMAIN winners, i \in DOMAIN EventLadder, lead \in {0, 1} :
        a = AlertOf(d, i, lead)
  BY DEF Alerts
<1>3. QED
  BY <1>1, <1>2

\* What a studied row was decided on was known, and it settled later.
LEMMA StudiedRows ==
  ASSUME ArchiveInv, NEW row \in Studied
  PROVE  /\ row.date \in 1..Len(winners) /\ row.model \in Int /\ row.market \in Int
         /\ row.quoted = row.decided /\ row.captured = row.decided
         /\ row.decided \in Int /\ row.settled \in Int /\ row.settled > row.decided
<1>1. DOMAIN winners = 1..Len(winners) /\ Len(winners) \in Nat
  BY OldestIs
<1>2. DOMAIN EventLadder = 1..Len(EventLadder)
  BY LadderType
<1>3. PICK d \in DOMAIN winners, i \in DOMAIN EventLadder, lead \in {0, 1} :
        /\ row.date = AlertOf(d, i, lead).date
        /\ row.decided = AlertOf(d, i, lead).decided
        /\ row.quoted = AlertOf(d, i, lead).decided
        /\ row.captured = AlertOf(d, i, lead).decided
        /\ row.settled = AlertOf(d, i, lead).settled
        /\ row.model = AlertOf(d, i, lead).model
        /\ row.market = AlertOf(d, i, lead).market
        /\ AlertOf(d, i, lead).settled # 0
  BY StudiedIs
<1>4. d \in 1..Len(winners) /\ d \in Nat /\ i \in 1..Len(EventLadder)
  BY <1>1, <1>2, <1>3
<1>5. Turn(ModelOdds, d)[i] \in Int /\ Turn(MarketOdds, d)[i] \in Int
  BY <1>4, TurnIs
<1>6. /\ row.date = d /\ row.decided = 2 * d + 1 - lead
      /\ row.settled = (IF winners[d] = 0 THEN 0 ELSE 2 * d + 2) /\ row.settled # 0
      /\ row.model = Turn(ModelOdds, d)[i] /\ row.market = Turn(MarketOdds, d)[i]
  BY <1>3 DEF AlertOf
<1>7. row.settled = 2 * d + 2
  BY <1>6
<1>8. QED
  BY <1>3, <1>4, <1>5, <1>6, <1>7

\* There are finitely many studied rows.
LEMMA StudiedFinite ==
  ASSUME ArchiveInv
  PROVE  IsFiniteSet(Studied)
<1> DEFINE Key == (DOMAIN winners) \X ((DOMAIN EventLadder) \X {0, 1})
           RowFor(k) == [date |-> AlertOf(k[1], k[2][1], k[2][2]).date,
                         index |-> AlertOf(k[1], k[2][1], k[2][2]).index,
                         b |-> AlertOf(k[1], k[2][1], k[2][2]).b,
                         city |-> AlertOf(k[1], k[2][1], k[2][2]).city,
                         decided |-> AlertOf(k[1], k[2][1], k[2][2]).decided,
                         quoted |-> AlertOf(k[1], k[2][1], k[2][2]).decided,
                         captured |-> AlertOf(k[1], k[2][1], k[2][2]).decided,
                         settled |-> AlertOf(k[1], k[2][1], k[2][2]).settled,
                         winner |-> AlertOf(k[1], k[2][1], k[2][2]).winner,
                         model |-> AlertOf(k[1], k[2][1], k[2][2]).model,
                         market |-> AlertOf(k[1], k[2][1], k[2][2]).market,
                         observed |-> AlertOf(k[1], k[2][1], k[2][2]).observed]
           f == [k \in Key |-> RowFor(k)]
<1>1. IsFiniteSet(Key)
  <2>1. IsFiniteSet(DOMAIN winners) /\ IsFiniteSet(DOMAIN EventLadder)
    <3>1. 1 \in Int /\ Len(winners) \in Int /\ Len(EventLadder) \in Int
      BY OldestIs, LadderType
    <3>2. IsFiniteSet(1..Len(winners)) /\ IsFiniteSet(1..Len(EventLadder))
      BY <3>1, FS_Interval
    <3>3. QED
      BY <3>2, OldestIs, LadderType
  <2>2. IsFiniteSet({0, 1})
    <3>1. IsFiniteSet({0} \cup {1})
      BY FS_Singleton, FS_Union
    <3>2. {0, 1} = {0} \cup {1}
      OBVIOUS
    <3>3. QED
      BY <3>1, <3>2
  <2>3. IsFiniteSet((DOMAIN EventLadder) \X {0, 1})
    BY <2>1, <2>2, FS_Product
  <2>4. QED
    BY <2>1, <2>3, FS_Product
<1>2. \A row \in Studied : \E k \in Key : row = RowFor(k)
  <2> TAKE row \in Studied
  <2>1. PICK d \in DOMAIN winners, i \in DOMAIN EventLadder, lead \in {0, 1} :
          row = RowFor(<<d, <<i, lead>>>>)
    BY StudiedIs
  <2>2. <<d, <<i, lead>>>> \in Key
    OBVIOUS
  <2> HIDE DEF Key, RowFor
  <2>3. QED
    BY <2>1, <2>2
<1> HIDE DEF Key, RowFor
<1>3. Studied \in SUBSET {f[k] : k \in Key}
  BY <1>2
<1> HIDE DEF f
<1>4. IsFiniteSet({f[k] : k \in Key})
  BY <1>1, FiniteImage
<1>5. QED
  BY <1>3, <1>4, FS_Subset

\* The studied rows have finitely many dates, are numbers, and look at nothing that came later.
LEMMA StudiedDated ==
  ASSUME ArchiveInv
  PROVE  Dated(Studied) /\ Rated(Studied) /\ LookaheadViolations(Studied) = {}
<1>1. Len(winners) \in Nat
  BY OldestIs
<1>2. DatesOf(Studied) \in SUBSET (1..Len(winners))
  BY StudiedRows DEF DatesOf
<1>3. IsFiniteSet(1..Len(winners))
  <2>1. 1 \in Int /\ Len(winners) \in Int
    BY <1>1
  <2>2. QED
    BY <2>1, FS_Interval
<1>4. Dated(Studied)
  <2>1. IsFiniteSet(DatesOf(Studied))
    BY <1>2, <1>3, FS_Subset
  <2>2. DatesOf(Studied) \in SUBSET Int
    BY <1>1, <1>2
  <2>3. QED
    BY <2>1, <2>2 DEF Dated
<1>5. Rated(Studied)
  BY StudiedRows DEF Rated
<1>6. LookaheadViolations(Studied) = {}
  <2>1. ASSUME NEW row \in Studied
        PROVE  ~(\/ row.quoted > row.decided \/ row.captured > row.decided
                 \/ row.settled <= row.decided)
    BY StudiedRows
  <2>2. QED
    BY <2>1 DEF LookaheadViolations
<1>7. QED
  BY <1>4, <1>5, <1>6

\* What was known is all an archive's research uses.
LEMMA ArchiveIsHonest == ArchiveInv => ResearchHonest
<1> SUFFICES ASSUME ArchiveInv PROVE ResearchHonest
  OBVIOUS
<1>1. LaddersWhole(Rows)
  BY LaddersAlwaysWhole
<1>2. ResidualsOnce(Rows)
  BY ResidualsAlwaysOnce
<1>3. BacktestInOrder(Rows)
  BY RowsDated, BacktestsAreInOrder
<1>4. InvestigationInOrder(Studied)
  BY StudiedDated, InvestigationsAreInOrder
<1>5. IsotonicExact(Studied)
  BY StudiedFinite, StudiedDated, IsotonicAlwaysExact
<1>6. PopulationsAgree(Studied)
  BY StudiedFinite, PopulationsAlwaysAgree
<1>7. StabilityMeansSkill(Studied)
  BY StudiedFinite, StudiedDated, StabilityAlwaysMeansSkill
<1>8. QED
  BY <1>1, <1>2, <1>3, <1>4, <1>5, <1>6, <1>7 DEF ResearchHonest

\* The research is done on what was known, in every archive.
THEOREM ResearchIsHonest == ArchiveSpec => []ResearchHonest
<1>1. ArchiveInit => ArchiveInv
  BY ArchiveStarts
<1>2. ArchiveInv /\ [ArchiveNext]_archiveVars => ArchiveInv'
  BY ArchiveGrows
<1>3. ArchiveInv => ResearchHonest
  BY ArchiveIsHonest
<1>4. QED
  BY <1>1, <1>2, <1>3, PTL DEF ArchiveSpec
=============================================================================
