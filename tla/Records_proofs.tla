---------------------------- MODULE Records_proofs ----------------------------
(***************************************************************************)
(* What holds of the order-book stream, for any number of markets,         *)
(* messages, losses and broken connections, and of the records that are    *)
(* judged in hindsight: a city's settlement day, for any temperatures,     *)
(* ladder and forecasts, and an account's trades, for any results, limits  *)
(* and order of opening and closing.                                       *)
(***************************************************************************)
EXTENDS OrderBookStream, SettlementDay, TradeHistory, FoldLemmas, SequenceTheorems

Message == [type : {"snapshot"}, market : Markets, seq : Nat, depth : Int]
           \cup [type : {"delta"}, market : Markets, seq : Nat, by : Int]

\* The messages on the wire are numbered upwards, after what was received and
\* without what is lost.
WireNumbered ==
  /\ wire \in Seq(Message)
  /\ \A k \in 1..Len(wire) :
       seen < wire[k].seq /\ wire[k].seq <= sent /\ wire[k].seq \notin lost
  /\ \A j, k \in 1..Len(wire) : j < k => wire[j].seq < wire[k].seq

\* What a connection remembers of the numbers so far.
LossRecorded ==
  /\ seen <= sent
  /\ seen \notin lost
  /\ first = 0 <=> seen = 0
  /\ \A n \in lost : n \in Nat /\ n <= sent
  /\ \A n \in lost : first # 0 /\ first < n /\ n < seen => n \in noticed

StreamInv ==
  /\ depth \in [Markets -> Int]
  /\ sent \in Nat /\ seen \in Nat /\ first \in Nat
  /\ link = "based" => seen = 0 /\ first = 0 /\ lost = {}
  /\ link = "up" => WireNumbered /\ LossRecorded

---------------------------------------------------------------------------
(* The order the exchange announces the markets in                         *)

LEMMA OrderIs ==
  /\ SetToSeq(Markets) \in Seq(Markets)
  /\ Len(SetToSeq(Markets)) = Cardinality(Markets)
  /\ \A i, j \in DOMAIN SetToSeq(Markets) :
       SetToSeq(Markets)[i] = SetToSeq(Markets)[j] => i = j
  /\ \A m \in Markets : \E i \in DOMAIN SetToSeq(Markets) : SetToSeq(Markets)[i] = m
<1> DEFINE n == Cardinality(Markets)
<1>1. n \in Nat /\ ExistsBijection(1..n, Markets)
  BY FS_CardinalityType, StreamAssumption
<1>2. PICK f \in [1..n -> Markets] : IsInjective(f)
  BY <1>1 DEF ExistsBijection, Bijection, Injection, IsInjective
<1> DEFINE s == SetToSeq(Markets)
<1>3. s \in [1..n -> Markets] /\ IsInjective(s)
  BY <1>2 DEF SetToSeq
<1> HIDE DEF s, n
<1>4. s \in Seq(Markets) /\ Len(s) = n /\ DOMAIN s = 1..n
  BY <1>1, <1>3
<1>5. \A i, j \in 1..n : s[i] = s[j] => i = j
  BY <1>3 DEF IsInjective
<1>6. s \in Injection(1..n, Markets)
  BY <1>3, <1>5 DEF Injection
<1>7. Cardinality(1..n) = n /\ IsFiniteSet(1..n)
  <2>1. 1 \in Int /\ n \in Int
    BY <1>1
  <2>2. QED
    BY <1>1, <2>1, FS_Interval
<1>8. s \in Surjection(1..n, Markets)
  <2>1. Cardinality(Markets) = n /\ IsFiniteSet(Markets)
    BY StreamAssumption DEF n
  <2>2. QED
    BY <1>6, <1>7, <2>1, FS_Injection
<1>9. \A m \in Markets : \E i \in 1..n : s[i] = m
  BY <1>8 DEF Surjection
<1>10. QED
  BY <1>4, <1>5, <1>9 DEF s, n

LEMMA MessageSeq ==
  ASSUME NEW w \in Seq(Message), NEW k \in 1..Len(w)
  PROVE  w[k] \in Message /\ w[k].seq \in Nat
<1>1. w[k] \in Message
  OBVIOUS
<1>2. QED
  BY <1>1 DEF Message

---------------------------------------------------------------------------
(* The steps                                                               *)

LEMMA StreamStart == Init => StreamInv
  BY DEF Init, StreamInv

LEMMA ChangeKeepsInv ==
  ASSUME StreamInv, NEW m \in Markets, Change(m) PROVE StreamInv'
<1>1. PICK by \in {-1, 1} :
        /\ depth' = [depth EXCEPT ![m] = @ + by]
        /\ IF link # "up" THEN UNCHANGED <<wire, sent, lost, dirty, faults>>
           ELSE /\ sent' = sent + 1
                /\ \/ /\ wire' = Append(wire, Delta(m, sent + 1, by))
                      /\ UNCHANGED <<lost, dirty, faults>>
                   \/ /\ lost' = lost \cup {sent + 1}
                      /\ UNCHANGED wire
  BY DEF Change
<1>2. UNCHANGED <<link, books, seen, db, noticed, first>>
  BY DEF Change, memory
<1>3. depth' \in [Markets -> Int]
  BY <1>1 DEF StreamInv
<1>4. CASE link # "up"
  BY <1>1, <1>2, <1>3, <1>4 DEF StreamInv
<1>5. CASE link = "up" /\ wire' = Append(wire, Delta(m, sent + 1, by)) /\ lost' = lost
  <2>1. sent' = sent + 1 /\ sent' \in Nat
    BY <1>1, <1>5 DEF StreamInv
  <2>2. Delta(m, sent + 1, by) \in Message /\ Delta(m, sent + 1, by).seq = sent + 1
    BY DEF Delta, Message, StreamInv
  <2>3. /\ wire \in Seq(Message) /\ wire' \in Seq(Message)
        /\ Len(wire') = Len(wire) + 1
        /\ \A k \in 1..Len(wire) : wire'[k] = wire[k] /\ wire[k].seq \in Nat
        /\ wire'[Len(wire) + 1].seq = sent + 1
    BY <1>5, <2>2, MessageSeq DEF StreamInv, WireNumbered
  <2>4. sent + 1 \notin lost
    BY <1>5 DEF StreamInv, LossRecorded
  <2>5. WireNumbered'
    BY <1>2, <1>5, <2>1, <2>3, <2>4 DEF StreamInv, WireNumbered, LossRecorded
  <2>6. LossRecorded'
    BY <1>2, <1>5, <2>1 DEF StreamInv, LossRecorded
  <2>7. QED
    BY <1>2, <1>3, <1>5, <2>1, <2>5, <2>6 DEF StreamInv
<1>6. CASE link = "up" /\ lost' = lost \cup {sent + 1} /\ wire' = wire
  <2>1. sent' = sent + 1 /\ sent' \in Nat
    BY <1>1, <1>6 DEF StreamInv
  <2>2. \A k \in 1..Len(wire) : wire[k].seq \in Nat
    BY <1>6, MessageSeq DEF StreamInv, WireNumbered
  <2>3. WireNumbered'
    <3>1. /\ wire \in Seq(Message) /\ sent \in Nat
          /\ \A k \in 1..Len(wire) :
               seen < wire[k].seq /\ wire[k].seq <= sent /\ wire[k].seq \notin lost
          /\ \A j, k \in 1..Len(wire) : j < k => wire[j].seq < wire[k].seq
      BY <1>6 DEF StreamInv, WireNumbered
    <3>2. \A k \in 1..Len(wire) : /\ wire[k].seq <= sent + 1
                                 /\ wire[k].seq # sent + 1
      BY <2>2, <3>1
    <3>3. seen' = seen /\ wire' = wire /\ lost' = lost \cup {sent + 1}
      BY <1>2, <1>6
    <3>4. QED
      BY <2>1, <3>1, <3>2, <3>3 DEF WireNumbered
  <2>4. LossRecorded'
    BY <1>2, <1>6, <2>1 DEF StreamInv, LossRecorded
  <2>5. QED
    BY <1>2, <1>3, <1>6, <2>1, <2>3, <2>4 DEF StreamInv
<1>7. QED
  BY <1>1, <1>4, <1>5, <1>6

LEMMA SubscribeKeepsInv ==
  ASSUME StreamInv, Subscribe PROVE StreamInv'
<1> DEFINE order == SetToSeq(Markets)
<1>1. order \in Seq(Markets)
  BY OrderIs
<1> HIDE DEF order
<1>2. /\ link' = "up" /\ sent' = Len(order)
      /\ seen' = seen /\ first' = first /\ noticed' = noticed /\ depth' = depth
      /\ seen = 0 /\ first = 0 /\ lost = {}
      /\ \/ /\ wire' = [k \in DOMAIN order |-> Snapshot(order[k], k)]
            /\ lost' = lost
         \/ \E gone \in DOMAIN order :
              /\ lost' = {gone}
              /\ wire' = [k \in 1..Len(order) - 1 |->
                            LET n == IF k < gone THEN k ELSE k + 1 IN
                            Snapshot(order[n], n)]
  BY DEF Subscribe, memory, order, StreamInv
<1>3. \A k \in 1..Len(order) :
        Snapshot(order[k], k) \in Message /\ Snapshot(order[k], k).seq = k
  BY <1>1 DEF Snapshot, Message, StreamInv
<1>4. depth' \in [Markets -> Int] /\ sent' \in Nat /\ seen' \in Nat /\ first' \in Nat
  BY <1>1, <1>2 DEF StreamInv
<1>5. CASE wire' = [k \in DOMAIN order |-> Snapshot(order[k], k)] /\ lost' = lost
  <2>1. lost = {}
    BY <1>2
  <2>2. wire' \in Seq(Message) /\ Len(wire') = Len(order)
    BY <1>1, <1>3, <1>5
  <2>3. \A k \in 1..Len(order) : wire'[k].seq = k
    BY <1>1, <1>3, <1>5
  <2>4. Len(order) \in Nat /\ lost' = {} /\ sent' = Len(order) /\ seen' = 0 /\ first' = 0
    BY <1>1, <1>2, <1>5, <2>1
  <2>5. WireNumbered'
    BY <2>2, <2>3, <2>4 DEF WireNumbered
  <2>6. LossRecorded'
    BY <2>4 DEF LossRecorded
  <2>7. QED
    BY <1>2, <1>4, <2>5, <2>6 DEF StreamInv
<1>6. ASSUME NEW gone \in DOMAIN order, lost' = {gone},
             wire' = [k \in 1..Len(order) - 1 |->
                        LET n == IF k < gone THEN k ELSE k + 1 IN Snapshot(order[n], n)]
      PROVE  StreamInv'
  <2>1. gone \in 1..Len(order) /\ Len(order) \in Nat
    BY <1>1
  <2> DEFINE at(k) == IF k < gone THEN k ELSE k + 1
  <2>2. \A k \in 1..Len(order) - 1 : at(k) \in 1..Len(order) /\ at(k) # gone
    BY <2>1
  <2>3. \A k \in 1..Len(order) - 1 :
          wire'[k] \in Message /\ wire'[k].seq = at(k)
    BY <1>3, <1>6, <2>2
  <2>4. wire' \in Seq(Message) /\ Len(wire') = Len(order) - 1
    BY <1>6, <2>1, <2>3
  <2>5. \A j, k \in 1..Len(order) - 1 : j < k => at(j) < at(k)
    BY <2>1
  <2>6. WireNumbered'
    <3> HIDE DEF at
    <3> QED
      BY <1>2, <1>6, <2>1, <2>2, <2>3, <2>4, <2>5 DEF WireNumbered
  <2>7. LossRecorded'
    BY <1>2, <1>6, <2>1 DEF LossRecorded
  <2>8. QED
    BY <1>2, <1>4, <2>6, <2>7 DEF StreamInv
<1>7. QED
  BY <1>2, <1>5, <1>6

\* One message: what it shows to be missing is recorded.
LEMMA ReceiveKeepsInv ==
  ASSUME StreamInv, Receive PROVE StreamInv'
<1> DEFINE msg == Head(wire)
<1> HIDE DEF msg
<1>1. /\ link = "up" /\ wire # <<>>
      /\ seen' = msg.seq
      /\ first' = IF first = 0 THEN msg.seq ELSE first
      /\ noticed' = IF Gap(msg) THEN noticed \cup (seen + 1)..(msg.seq - 1) ELSE noticed
      /\ link' = "down" \/ (link' = link /\ wire' = Tail(wire))
      /\ UNCHANGED <<depth, sent, lost>>
  BY DEF Receive, Break, msg
<1>2. WireNumbered /\ LossRecorded
  BY <1>1 DEF StreamInv
<1>3. /\ 1 \in 1..Len(wire) /\ msg = wire[1] /\ wire \in Seq(Message)
      /\ msg.seq \in Nat /\ seen < msg.seq /\ msg.seq <= sent /\ msg.seq \notin lost
  <2>1. 1 \in 1..Len(wire) /\ msg = wire[1] /\ wire \in Seq(Message)
    BY <1>1, <1>2 DEF WireNumbered, msg
  <2>2. QED
    BY <1>2, <2>1, MessageSeq DEF WireNumbered
<1>4. depth' \in [Markets -> Int] /\ sent' \in Nat /\ seen' \in Nat /\ first' \in Nat
  BY <1>1, <1>3 DEF StreamInv
<1>5. CASE link' = "down"
  BY <1>4, <1>5 DEF StreamInv
<1>6. CASE link' = "up" /\ wire' = Tail(wire)
  <2>1. /\ wire' \in Seq(Message) /\ Len(wire') = Len(wire) - 1
        /\ \A k \in 1..Len(wire') : k + 1 \in 1..Len(wire) /\ wire'[k] = wire[k + 1]
    BY <1>1, <1>3, <1>6
  <2>2. \A k \in 1..Len(wire) : wire[k].seq \in Nat
    BY <1>3, MessageSeq
  <2>3. \A k \in 1..Len(wire') : msg.seq < wire'[k].seq
    BY <1>2, <1>3, <2>1 DEF WireNumbered
  <2>4. WireNumbered'
    <3>1. \A k \in 1..Len(wire') : wire'[k].seq <= sent /\ wire'[k].seq \notin lost
      BY <1>2, <2>1 DEF WireNumbered
    <3>2. ASSUME NEW j \in 1..Len(wire'), NEW k \in 1..Len(wire'), j < k
          PROVE  wire'[j].seq < wire'[k].seq
      <4>1. j + 1 \in 1..Len(wire) /\ k + 1 \in 1..Len(wire) /\ j + 1 < k + 1
        BY <2>1, <3>2
      <4>2. wire[j + 1].seq < wire[k + 1].seq
        BY <1>2, <4>1 DEF WireNumbered
      <4>3. QED
        BY <2>1, <4>2
    <3>3. QED
      BY <1>1, <2>1, <2>3, <3>1, <3>2 DEF WireNumbered
  <2>5. LossRecorded'
    <3>1. ASSUME NEW n \in lost, first' # 0, first' < n, n < msg.seq
          PROVE  n \in noticed'
      <4>1. n \in Nat /\ n # seen
        BY <1>2, <3>1 DEF LossRecorded
      <4>2. first # 0 /\ first < n
        BY <1>1, <3>1, <1>3, <4>1
      <4>3. CASE n < seen
        BY <1>1, <1>2, <4>2, <4>3 DEF LossRecorded
      <4>4. CASE seen < n
        <5>1. seen # 0 /\ msg.seq # seen + 1
          BY <1>2, <1>3, <3>1, <4>1, <4>2, <4>4 DEF LossRecorded, StreamInv
        <5>2. n \in (seen + 1)..(msg.seq - 1)
          BY <1>3, <3>1, <4>1, <4>4 DEF StreamInv
        <5>3. QED
          BY <1>1, <5>1, <5>2 DEF Gap
      <4>5. QED
        BY <4>1, <4>3, <4>4 DEF StreamInv
    <3>2. first' = 0 <=> seen' = 0
      BY <1>1, <1>2, <1>3 DEF LossRecorded, StreamInv
    <3>3. QED
      BY <1>1, <1>2, <1>3, <3>1, <3>2 DEF LossRecorded
  <2>6. QED
    BY <1>4, <1>6, <2>4, <2>5 DEF StreamInv
<1>7. QED
  BY <1>1, <1>5, <1>6

LEMMA StreamStep ==
  ASSUME StreamInv, [Next]_vars PROVE StreamInv'
<1>1. ASSUME NEW m \in Markets, Change(m) PROVE StreamInv'
  BY <1>1, ChangeKeepsInv
<1>2. CASE Baseline
  BY <1>2 DEF Baseline, StreamInv, exchange
<1>3. CASE Subscribe
  BY <1>3, SubscribeKeepsInv
<1>4. CASE Receive
  BY <1>4, ReceiveKeepsInv
<1>5. CASE DatabaseError
  <2>1. WireNumbered /\ wire # <<>>
    BY <1>5 DEF DatabaseError, StreamInv
  <2>2. 1 \in 1..Len(wire) /\ Head(wire) = wire[1] /\ wire \in Seq(Message)
    BY <2>1 DEF WireNumbered
  <2>3. Head(wire).seq \in Nat
    BY <2>2, MessageSeq
  <2>4. QED
    BY <1>5, <2>3 DEF DatabaseError, Break, StreamInv
<1>6. CASE Drop
  BY <1>6 DEF Drop, Break, StreamInv, memory, history
<1>7. CASE UNCHANGED vars
  BY <1>7 DEF vars, StreamInv, WireNumbered, LossRecorded, exchange, memory, history
<1>8. QED
  BY <1>1, <1>2, <1>3, <1>4, <1>5, <1>6, <1>7 DEF Next

\* A lost message of a live connection is in a recorded gap as soon as a later
\* one, of whatever market, is received, unless nothing was received before
\* it: _sequence_gap compares the numbers of the whole subscription, and the
\* numbers are forgotten with the connection.
THEOREM GapsAreNoticed == Spec => []GapsNoticed
<1>1. Init => StreamInv
  BY StreamStart
<1>2. StreamInv /\ [Next]_vars => StreamInv'
  BY StreamStep
<1>3. StreamInv => GapsNoticed
  BY DEF StreamInv, LossRecorded, GapsNoticed
<1>4. QED
  BY <1>1, <1>2, <1>3, PTL DEF Spec

---------------------------------------------------------------------------
(* The books                                                               *)

\* The changes of a market on a wire, and their sum.
ByOf(w)         == [k \in DOMAIN w |-> w[k].by]
DeltasIn(w, m)  == {k \in DOMAIN w : w[k].market = m /\ w[k].type = "delta"}
SumOn(w, m)     == Sum(ByOf(w), DeltasIn(w, m))
SnapIn(w, k, m) == w[k].market = m /\ w[k].type = "snapshot"

\* What the exchange sends: one snapshot of a market, before any change.
WireShaped(w) ==
  /\ w \in Seq(Message)
  /\ \A k \in DOMAIN w : w[k].type = "snapshot" =>
       /\ w[k].depth \in Nat
       /\ \A j \in DOMAIN w : w[j].market = w[k].market /\ w[j].type = "snapshot" => j = k
       /\ \A j \in DOMAIN w : w[j].type = "delta" => k < j

\* The snapshot of a market on the wire, or else its book, gives the
\* exchange's depth together with the changes on the wire, if it is not dirty.
Tracked(w, m, book, dirt, d) ==
  /\ \A k \in DOMAIN w : SnapIn(w, k, m) /\ ~(dirt > w[k].seq) =>
       w[k].depth + SumOn(w, m) = d
  /\ dirt = 0 /\ (\A k \in DOMAIN w : ~SnapIn(w, k, m)) =>
       book # NoBook /\ book + SumOn(w, m) = d

\* Without a live connection nothing is on the wire, and one that has not
\* subscribed has nothing to remember.
LinkRests ==
  /\ link # "up" => wire = <<>>
  /\ link = "based" => noticed = {} /\ \A m \in Markets : dirty[m] = 0

BookInv ==
  /\ TypeOK
  /\ LinkRests
  /\ link = "up" => WireShaped(wire)
  /\ link = "up" => \A m \in Markets : Tracked(wire, m, books[m], dirty[m], depth[m])

\* The changes that BooksTrack counts are those summed here.
LEMMA UnreceivedIs ==
  ASSUME NEW m
  PROVE  Unreceived(m) = SumOn(wire, m)
<1> DEFINE S == DeltasIn(wire, m)
           w == ByOf(wire)
           E1(g, T) == IF T = {} THEN 0 ELSE wire[Pick(T)].by + g[T \ {Pick(T)}]
           E2(g, T) == IF T = {} THEN 0 ELSE w[Pick(T)] + g[T \ {Pick(T)}]
           F1(g) == g = [T \in SUBSET S |-> E1(g, T)]
           F2(g) == g = [T \in SUBSET S |-> E2(g, T)]
<1>1. ASSUME NEW g, NEW T \in SUBSET S PROVE E1(g, T) = E2(g, T)
  <2>1. T # {} => Pick(T) \in DOMAIN wire
    BY DEF Pick, DeltasIn
  <2>2. \A k \in DOMAIN wire : w[k] = wire[k].by
    BY DEF ByOf
  <2> HIDE DEF w
  <2>3. QED
    BY <2>1, <2>2
<1>2. ASSUME NEW g PROVE F1(g) <=> F2(g)
  <2> HIDE DEF E1, E2
  <2>1. [T \in SUBSET S |-> E1(g, T)] = [T \in SUBSET S |-> E2(g, T)]
    BY <1>1
  <2>2. QED
    BY <2>1
<1>3. (CHOOSE g : F1(g)) = (CHOOSE g : F2(g))
  <2> HIDE DEF F1, F2
  <2>1. QED
    BY <1>2
<1>4. Unreceived(m) = (CHOOSE g : F1(g))[S]
  BY DEF Unreceived, Waiting, DeltasIn, MapThenSumSet, MapThenFoldSet, Pick
<1>5. SumOn(wire, m) = (CHOOSE g : F2(g))[S]
  <2> HIDE DEF w
  <2>1. QED
    BY DEF SumOn, Sum, MapThenSumSet, MapThenFoldSet, Pick, w
<1>6. QED
  BY <1>3, <1>4, <1>5

LEMMA SumOnType ==
  ASSUME NEW w \in Seq(Message), NEW m
  PROVE  /\ DeltasIn(w, m) \in SUBSET (1..Len(w)) /\ DeltasIn(w, m) \in SUBSET Int
         /\ Summable(ByOf(w), DeltasIn(w, m))
         /\ SumOn(w, m) \in Int
         /\ DeltasIn(w, m) = {} => SumOn(w, m) = 0
<1>1. DeltasIn(w, m) \in SUBSET (1..Len(w)) /\ DeltasIn(w, m) \in SUBSET Int
  BY DEF DeltasIn
<1>2. IsFiniteSet(DeltasIn(w, m))
  <2>1. IsFiniteSet(1..Len(w))
    <3>1. Len(w) \in Int /\ 1 \in Int
      OBVIOUS
    <3>2. QED
      BY <3>1, FS_Interval
  <2>2. QED
    BY <1>1, <2>1, FS_Subset
<1>3. \A k \in DeltasIn(w, m) : ByOf(w)[k] \in Int
  <2>1. SUFFICES ASSUME NEW k \in DeltasIn(w, m) PROVE w[k].by \in Int
    BY DEF ByOf, DeltasIn
  <2>2. w[k] \in Message /\ w[k].type = "delta"
    BY <1>1, MessageSeq DEF DeltasIn
  <2>3. QED
    BY <2>2 DEF Message
<1>4. Summable(ByOf(w), DeltasIn(w, m))
  BY <1>2, <1>3 DEF Summable
<1>5. QED
  BY <1>1, <1>4, SumType DEF SumOn

LEMMA SumOnAppend ==
  ASSUME NEW w \in Seq(Message), NEW msg \in Message, msg.type = "delta", NEW m
  PROVE  SumOn(Append(w, msg), m)
           = SumOn(w, m) + (IF msg.market = m THEN msg.by ELSE 0)
<1> DEFINE u == Append(w, msg)
           n == Len(w) + 1
           S == DeltasIn(w, m)
<1>1. /\ u \in Seq(Message) /\ Len(u) = n /\ n \in Nat
      /\ DOMAIN u = 1..n /\ DOMAIN w = 1..Len(w) /\ Len(w) \in Nat
      /\ u[n] = msg /\ \A k \in 1..Len(w) : u[k] = w[k]
  OBVIOUS
<1> HIDE DEF u
<1>2. S \in SUBSET (1..Len(w)) /\ Summable(ByOf(w), S) /\ SumOn(w, m) \in Int
  BY SumOnType
<1>3. \A k \in S : ByOf(u)[k] = ByOf(w)[k]
  BY <1>1, <1>2 DEF ByOf
<1>4. Sum(ByOf(u), S) = Sum(ByOf(w), S)
  <2> HIDE DEF S
  <2> QED BY <1>2, <1>3, SumSame
<1>5. CASE msg.market # m
  <2>1. DeltasIn(u, m) = S
    BY <1>1, <1>5 DEF DeltasIn
  <2>2. QED
    BY <1>2, <1>4, <1>5, <2>1 DEF SumOn, u
<1>6. CASE msg.market = m
  <2>1. DeltasIn(u, m) = S \cup {n} /\ n \notin S
    BY <1>1, <1>6 DEF DeltasIn
  <2>2. n \in DeltasIn(u, m) /\ DeltasIn(u, m) \ {n} = S
    BY <2>1
  <2>3. Summable(ByOf(u), DeltasIn(u, m))
    BY <1>1, SumOnType
  <2>4. Sum(ByOf(u), DeltasIn(u, m)) = ByOf(u)[n] + Sum(ByOf(u), S)
    <3> HIDE DEF S, n
    <3> QED BY <2>2, <2>3, SumRemove
  <2>5. ByOf(u)[n] = msg.by /\ ByOf(u)[n] \in Int
    <3>1. n \in DOMAIN u
      BY <1>1
    <3>2. ByOf(u)[n] = msg.by
      BY <1>1, <3>1 DEF ByOf
    <3>3. msg.by \in Int
      BY DEF Message
    <3>4. QED
      BY <3>2, <3>3
  <2>6. SumOn(u, m) = msg.by + SumOn(w, m)
    BY <1>4, <2>4, <2>5 DEF SumOn
  <2>7. QED
    BY <1>2, <1>6, <2>5, <2>6 DEF u
<1>7. QED
  BY <1>5, <1>6

LEMMA SumOnTail ==
  ASSUME NEW w \in Seq(Message), w # <<>>, NEW m
  PROVE  SumOn(w, m) = SumOn(Tail(w), m)
           + (IF Head(w).type = "delta" /\ Head(w).market = m THEN Head(w).by ELSE 0)
<1> DEFINE t == Tail(w)
           h == Head(w)
           S == DeltasIn(t, m)
           T == {k + 1 : k \in S}
<1>1. /\ t \in Seq(Message) /\ Len(t) \in Nat /\ Len(w) = Len(t) + 1 /\ h = w[1]
      /\ DOMAIN t = 1..Len(t) /\ DOMAIN w = 1..(Len(t) + 1)
      /\ \A k \in 1..Len(t) : t[k] = w[k + 1]
  OBVIOUS
<1>2. h \in Message
  BY <1>1
<1> HIDE DEF t, h
<1>3. S \in SUBSET (1..Len(t)) /\ S \in SUBSET Int /\ Summable(ByOf(t), S) /\ SumOn(t, m) \in Int
  BY <1>1, SumOnType
<1>4. \A k \in S : ByOf(w)[k + 1] = ByOf(t)[k]
  BY <1>1, <1>3 DEF ByOf
<1>5. Sum(ByOf(w), T) = SumOn(t, m)
  <2>1. Sum(ByOf(w), T) = Sum(ByOf(t), S)
    <3> HIDE DEF S
    <3> QED BY <1>3, <1>4, SumShift
  <2>2. QED
    BY <2>1 DEF SumOn
<1>6. \A k \in 2..(Len(t) + 1) : k \in DeltasIn(w, m) <=> k \in T
  <2>1. SUFFICES ASSUME NEW k \in 2..(Len(t) + 1)
                 PROVE  k \in DeltasIn(w, m) <=> k \in T
    OBVIOUS
  <2>2. k - 1 \in 1..Len(t) /\ k \in 1..(Len(t) + 1) /\ (k - 1) + 1 = k
    BY <1>1
  <2>3. k \in DeltasIn(w, m) <=> k - 1 \in S
    BY <1>1, <2>2 DEF DeltasIn
  <2>4. k - 1 \in S <=> k \in T
    BY <1>3, <2>2
  <2>5. QED
    BY <2>3, <2>4
<1>7. T \in SUBSET (2..(Len(t) + 1)) /\ 1 \notin T
  BY <1>1, <1>3
<1>8. DeltasIn(w, m) \in SUBSET (1..(Len(t) + 1)) /\ Summable(ByOf(w), DeltasIn(w, m))
  BY <1>1, SumOnType
<1>9. 1 \in DeltasIn(w, m) <=> h.type = "delta" /\ h.market = m
  BY <1>1 DEF DeltasIn
<1>10. CASE ~(h.type = "delta" /\ h.market = m)
  <2>1. DeltasIn(w, m) = T
    <3> HIDE DEF T
    <3>1. \A k \in 1..(Len(t) + 1) : k = 1 \/ k \in 2..(Len(t) + 1)
      BY <1>1
    <3>2. QED
      BY <1>6, <1>7, <1>8, <1>9, <1>10, <3>1
  <2>2. QED
    BY <1>3, <1>5, <1>10, <2>1 DEF SumOn, t, h
<1>11. CASE h.type = "delta" /\ h.market = m
  <2>1. DeltasIn(w, m) \ {1} = T /\ 1 \in DeltasIn(w, m)
    <3> HIDE DEF T
    <3>1. \A k \in 1..(Len(t) + 1) : k = 1 \/ k \in 2..(Len(t) + 1)
      BY <1>1
    <3>2. QED
      BY <1>6, <1>7, <1>8, <1>9, <1>11, <3>1
  <2>2. Sum(ByOf(w), DeltasIn(w, m)) = ByOf(w)[1] + Sum(ByOf(w), T)
    <3> HIDE DEF T
    <3> QED BY <1>8, <2>1, SumRemove
  <2>3. ByOf(w)[1] = h.by /\ ByOf(w)[1] \in Int
    BY <1>1, <1>8, <2>1 DEF ByOf, Summable
  <2>4. SumOn(w, m) = h.by + SumOn(t, m)
    BY <1>5, <2>2, <2>3 DEF SumOn
  <2>5. QED
    BY <1>3, <1>11, <2>3, <2>4 DEF t, h
<1>12. QED
  BY <1>10, <1>11

\* A change joins the wire.
LEMMA ShapedAppend ==
  ASSUME NEW w, WireShaped(w), NEW msg \in Message, msg.type = "delta"
  PROVE  /\ WireShaped(Append(w, msg))
         /\ \A k \in DOMAIN Append(w, msg) : \A m :
              SnapIn(Append(w, msg), k, m) => k \in DOMAIN w /\ SnapIn(w, k, m)
<1> DEFINE u == Append(w, msg)
<1>1. /\ u \in Seq(Message) /\ Len(w) \in Nat
      /\ DOMAIN u = 1..(Len(w) + 1) /\ DOMAIN w = 1..Len(w)
      /\ u[Len(w) + 1] = msg /\ \A k \in 1..Len(w) : u[k] = w[k]
  BY DEF WireShaped
<1> HIDE DEF u
<1>2. \A k \in DOMAIN u : u[k].type = "snapshot" => k \in 1..Len(w)
  BY <1>1
<1>3. \A j \in DOMAIN u : j \in 1..Len(w) \/ j = Len(w) + 1
  BY <1>1
<1>4. ASSUME NEW k \in DOMAIN u, u[k].type = "snapshot"
      PROVE  /\ u[k].depth \in Nat
             /\ \A j \in DOMAIN u : u[j].market = u[k].market /\ u[j].type = "snapshot" => j = k
             /\ \A j \in DOMAIN u : u[j].type = "delta" => k < j
  <2>1. k \in 1..Len(w) /\ w[k].type = "snapshot" /\ u[k] = w[k]
    BY <1>1, <1>2, <1>4
  <2>2. u[k].depth \in Nat
    BY <1>1, <2>1 DEF WireShaped
  <2>3. \A j \in DOMAIN u : u[j].market = u[k].market /\ u[j].type = "snapshot" => j = k
    BY <1>1, <1>2, <2>1 DEF WireShaped
  <2>4. \A j \in DOMAIN u : u[j].type = "delta" => k < j
    BY <1>1, <1>3, <2>1 DEF WireShaped
  <2>5. QED
    BY <2>2, <2>3, <2>4
<1>5. WireShaped(u)
  BY <1>1, <1>4 DEF WireShaped
<1>6. \A k \in DOMAIN u : \A m : SnapIn(u, k, m) => k \in DOMAIN w /\ SnapIn(w, k, m)
  BY <1>1, <1>2 DEF SnapIn
<1>7. QED
  BY <1>5, <1>6 DEF u

LEMMA TrackedAppend ==
  ASSUME NEW w, WireShaped(w), NEW msg \in Message, msg.type = "delta",
         NEW m, NEW book \in Int, NEW dirt, NEW d \in Int, Tracked(w, m, book, dirt, d)
  PROVE  Tracked(Append(w, msg), m, book, dirt,
                 d + (IF msg.market = m THEN msg.by ELSE 0))
<1> DEFINE u == Append(w, msg)
           by == IF msg.market = m THEN msg.by ELSE 0
<1>1. w \in Seq(Message) /\ SumOn(w, m) \in Int
  BY SumOnType DEF WireShaped
<1>2. SumOn(u, m) = SumOn(w, m) + by /\ by \in Int
  <2>1. msg.by \in Int
    BY DEF Message
  <2>2. QED
    BY <1>1, <2>1, SumOnAppend
<1>3. /\ DOMAIN w \subseteq DOMAIN u /\ \A k \in DOMAIN w : u[k] = w[k]
  BY <1>1
<1>4. \A k \in DOMAIN u : SnapIn(u, k, m) => k \in DOMAIN w /\ SnapIn(w, k, m)
  BY ShapedAppend
<1> HIDE DEF u, by
<1>5. ASSUME NEW k \in DOMAIN u, SnapIn(u, k, m), ~(dirt > u[k].seq)
      PROVE  u[k].depth + SumOn(u, m) = d + by
  <2>1. k \in DOMAIN w /\ SnapIn(w, k, m) /\ u[k] = w[k]
    BY <1>3, <1>4, <1>5
  <2>2. w[k].depth + SumOn(w, m) = d
    BY <1>5, <2>1 DEF Tracked
  <2>3. w[k].depth \in Nat
    BY <2>1 DEF WireShaped, SnapIn
  <2>4. QED
    BY <1>1, <1>2, <2>1, <2>2, <2>3
<1>6. ASSUME dirt = 0, \A k \in DOMAIN u : ~SnapIn(u, k, m)
      PROVE  book # NoBook /\ book + SumOn(u, m) = d + by
  <2>1. \A k \in DOMAIN w : ~SnapIn(w, k, m)
    BY <1>3, <1>6 DEF SnapIn
  <2>2. book # NoBook /\ book + SumOn(w, m) = d
    BY <1>6, <2>1 DEF Tracked
  <2>3. QED
    BY <1>1, <1>2, <2>2
<1>7. Tracked(u, m, book, dirt, d + by)
  BY <1>5, <1>6 DEF Tracked
<1>8. QED
  BY <1>7 DEF u, by

\* A message is taken off the wire.
LEMMA TailIs ==
  ASSUME NEW w, WireShaped(w), w # <<>>
  PROVE  /\ Tail(w) \in Seq(Message) /\ Head(w) = w[1] /\ Head(w) \in Message
         /\ 1 \in DOMAIN w
         /\ \A k \in DOMAIN Tail(w) : k + 1 \in DOMAIN w /\ Tail(w)[k] = w[k + 1] /\ k \in Nat /\ k + 1 # 1
         /\ \A k \in DOMAIN w : k \in Nat /\ k >= 1 /\ (k # 1 => k - 1 \in DOMAIN Tail(w) /\ w[k] = Tail(w)[k - 1])
<1>1. w \in Seq(Message)
  BY DEF WireShaped
<1>2. /\ Tail(w) \in Seq(Message) /\ Len(w) \in Nat /\ Len(w) >= 1
      /\ Len(Tail(w)) = Len(w) - 1 /\ Head(w) = w[1]
      /\ DOMAIN w = 1..Len(w) /\ DOMAIN Tail(w) = 1..(Len(w) - 1)
      /\ \A k \in 1..(Len(w) - 1) : Tail(w)[k] = w[k + 1]
  BY <1>1
<1>3. Head(w) \in Message /\ 1 \in DOMAIN w
  BY <1>1, <1>2
<1>4. \A k \in DOMAIN Tail(w) : k + 1 \in DOMAIN w /\ Tail(w)[k] = w[k + 1] /\ k \in Nat /\ k + 1 # 1
  BY <1>2
<1>5. ASSUME NEW k \in DOMAIN w
      PROVE  k \in Nat /\ k >= 1 /\ (k # 1 => k - 1 \in DOMAIN Tail(w) /\ w[k] = Tail(w)[k - 1])
  <2>1. k \in Nat /\ k >= 1
    BY <1>2
  <2>2. CASE k # 1
    <3>1. k - 1 \in 1..(Len(w) - 1) /\ (k - 1) + 1 = k
      BY <1>2, <2>2
    <3>2. QED
      BY <1>2, <2>1, <3>1
  <2>3. QED
    BY <2>1, <2>2
<1>6. QED
  BY <1>2, <1>3, <1>4, <1>5

LEMMA ShapedTail ==
  ASSUME NEW w, WireShaped(w), w # <<>>
  PROVE  WireShaped(Tail(w))
<1> DEFINE t == Tail(w)
<1>1. t \in Seq(Message) /\ \A k \in DOMAIN t : k + 1 \in DOMAIN w /\ t[k] = w[k + 1] /\ k \in Nat
  BY TailIs
<1> HIDE DEF t
<1>2. ASSUME NEW k \in DOMAIN t, t[k].type = "snapshot"
      PROVE  /\ t[k].depth \in Nat
             /\ \A j \in DOMAIN t : t[j].market = t[k].market /\ t[j].type = "snapshot" => j = k
             /\ \A j \in DOMAIN t : t[j].type = "delta" => k < j
  <2>1. k + 1 \in DOMAIN w /\ w[k + 1].type = "snapshot" /\ t[k] = w[k + 1] /\ k \in Nat
    BY <1>1, <1>2
  <2>2. t[k].depth \in Nat
    BY <2>1 DEF WireShaped
  <2>3. ASSUME NEW j \in DOMAIN t
        PROVE  /\ t[j].market = t[k].market /\ t[j].type = "snapshot" => j = k
               /\ t[j].type = "delta" => k < j
    <3>1. j + 1 \in DOMAIN w /\ t[j] = w[j + 1] /\ j \in Nat
      BY <1>1
    <3>2. w[j + 1].market = w[k + 1].market /\ w[j + 1].type = "snapshot" => j + 1 = k + 1
      BY <2>1, <3>1 DEF WireShaped
    <3>3. w[j + 1].type = "delta" => k + 1 < j + 1
      BY <2>1, <3>1 DEF WireShaped
    <3>4. QED
      BY <2>1, <3>1, <3>2, <3>3
  <2>4. QED
    BY <2>2, <2>3
<1>3. QED
  BY <1>1, <1>2 DEF WireShaped, t

\* What follows the first message, and what follows it of its own market.
LEMMA TailSnaps ==
  ASSUME NEW w, WireShaped(w), w # <<>>, NEW m
  PROVE  /\ \A k \in DOMAIN Tail(w) : SnapIn(Tail(w), k, m) =>
              k + 1 \in DOMAIN w /\ SnapIn(w, k + 1, m) /\ Tail(w)[k] = w[k + 1]
         /\ Head(w).market = m => \A k \in DOMAIN Tail(w) : ~SnapIn(Tail(w), k, m)
         /\ Head(w).market # m /\ (\A k \in DOMAIN Tail(w) : ~SnapIn(Tail(w), k, m)) =>
              \A k \in DOMAIN w : ~SnapIn(w, k, m)
         /\ Head(w).market = m /\ Head(w).type = "delta" => \A k \in DOMAIN w : ~SnapIn(w, k, m)
<1>1. /\ Head(w) = w[1] /\ Head(w) \in Message /\ 1 \in DOMAIN w
      /\ \A k \in DOMAIN Tail(w) : k + 1 \in DOMAIN w /\ Tail(w)[k] = w[k + 1] /\ k \in Nat /\ k + 1 # 1
      /\ \A k \in DOMAIN w : k \in Nat /\ k >= 1 /\ (k # 1 => k - 1 \in DOMAIN Tail(w) /\ w[k] = Tail(w)[k - 1])
  BY TailIs
<1>2. Head(w).type \in {"snapshot", "delta"}
  BY <1>1 DEF Message
<1>3. \A k \in DOMAIN Tail(w) : SnapIn(Tail(w), k, m) =>
        k + 1 \in DOMAIN w /\ SnapIn(w, k + 1, m) /\ Tail(w)[k] = w[k + 1]
  BY <1>1 DEF SnapIn
<1>4. Head(w).type = "delta" => \A k \in DOMAIN w : ~SnapIn(w, k, m)
  BY <1>1 DEF WireShaped, SnapIn
<1>5. Head(w).market = m /\ Head(w).type = "snapshot" =>
        \A k \in DOMAIN Tail(w) : ~SnapIn(Tail(w), k, m)
  <2>1. SUFFICES ASSUME Head(w).market = m, Head(w).type = "snapshot",
                        NEW k \in DOMAIN Tail(w), SnapIn(Tail(w), k, m)
                 PROVE  FALSE
    OBVIOUS
  <2>2. k + 1 \in DOMAIN w /\ w[k + 1].market = m /\ w[k + 1].type = "snapshot"
    BY <1>3, <2>1 DEF SnapIn
  <2>3. k + 1 = 1
    BY <1>1, <2>1, <2>2 DEF WireShaped
  <2>4. QED
    BY <1>1, <2>3
<1>6. Head(w).market # m /\ (\A k \in DOMAIN Tail(w) : ~SnapIn(Tail(w), k, m)) =>
        \A k \in DOMAIN w : ~SnapIn(w, k, m)
  BY <1>1 DEF SnapIn
<1>7. QED
  BY <1>2, <1>3, <1>4, <1>5, <1>6

\* A message of another market changes nothing.
LEMMA TrackedOther ==
  ASSUME NEW w, WireShaped(w), w # <<>>, NEW m, Head(w).market # m,
         NEW book, NEW dirt, NEW d, Tracked(w, m, book, dirt, d)
  PROVE  Tracked(Tail(w), m, book, dirt, d)
<1>1. SumOn(w, m) = SumOn(Tail(w), m)
  <2>1. w \in Seq(Message) /\ Tail(w) \in Seq(Message)
    BY TailIs DEF WireShaped
  <2>2. SumOn(Tail(w), m) \in Int
    BY <2>1, SumOnType
  <2>3. QED
    BY <2>1, <2>2, SumOnTail
<1>2. \A k \in DOMAIN Tail(w) : SnapIn(Tail(w), k, m) =>
        k + 1 \in DOMAIN w /\ SnapIn(w, k + 1, m) /\ Tail(w)[k] = w[k + 1]
  BY TailSnaps
<1>3. (\A k \in DOMAIN Tail(w) : ~SnapIn(Tail(w), k, m)) => \A k \in DOMAIN w : ~SnapIn(w, k, m)
  BY TailSnaps
<1>4. QED
  BY <1>1, <1>2, <1>3 DEF Tracked

\* A snapshot becomes the book.
LEMMA TrackedSnapshot ==
  ASSUME NEW w, WireShaped(w), w # <<>>, NEW m, Head(w).market = m,
         Head(w).type = "snapshot", NEW book, NEW dirt \in Nat, NEW d \in Int,
         Tracked(w, m, book, dirt, d)
  PROVE  Tracked(Tail(w), m, Head(w).depth, IF dirt > Head(w).seq THEN dirt ELSE 0, d)
<1>1. /\ Head(w) = w[1] /\ 1 \in DOMAIN w /\ Head(w) \in Message
      /\ Tail(w) \in Seq(Message) /\ w \in Seq(Message)
  BY TailIs DEF WireShaped
<1>2. SumOn(w, m) = SumOn(Tail(w), m) /\ SumOn(Tail(w), m) \in Int
  <2>1. SumOn(Tail(w), m) \in Int
    BY <1>1, SumOnType
  <2>2. QED
    BY <1>1, <2>1, SumOnTail
<1>3. \A k \in DOMAIN Tail(w) : ~SnapIn(Tail(w), k, m)
  BY TailSnaps
<1>4. Head(w).depth \in Nat /\ SnapIn(w, 1, m)
  BY <1>1 DEF WireShaped, SnapIn
<1>5. ~(dirt > Head(w).seq) => Head(w).depth + SumOn(Tail(w), m) = d
  BY <1>1, <1>2, <1>4 DEF Tracked
<1>6. Head(w).seq \in Nat
  BY <1>1 DEF Message
<1>7. QED
  <2>1. ASSUME (IF dirt > Head(w).seq THEN dirt ELSE 0) = 0
        PROVE  ~(dirt > Head(w).seq)
    BY <1>6, <2>1
  <2>2. Head(w).depth # NoBook
    BY <1>4 DEF NoBook
  <2>3. QED
    BY <1>3, <1>5, <2>1, <2>2 DEF Tracked

\* A change is applied to the book.
LEMMA TrackedApplied ==
  ASSUME NEW w, WireShaped(w), w # <<>>, NEW m, Head(w).market = m,
         Head(w).type = "delta", NEW book \in Int, NEW dirt, NEW d \in Int,
         book + Head(w).by >= 0, Tracked(w, m, book, dirt, d)
  PROVE  Tracked(Tail(w), m, book + Head(w).by, dirt, d)
<1>1. Head(w) \in Message /\ Tail(w) \in Seq(Message) /\ w \in Seq(Message)
  BY TailIs DEF WireShaped
<1>2. Head(w).by \in Int
  BY <1>1 DEF Message
<1>3. SumOn(w, m) = SumOn(Tail(w), m) + Head(w).by /\ SumOn(Tail(w), m) \in Int
  BY <1>1, SumOnType, SumOnTail
<1>4. /\ \A k \in DOMAIN Tail(w) : ~SnapIn(Tail(w), k, m)
      /\ \A k \in DOMAIN w : ~SnapIn(w, k, m)
  BY TailSnaps
<1>5. dirt = 0 => book + SumOn(w, m) = d
  BY <1>4 DEF Tracked
<1>6. book + Head(w).by # NoBook
  BY <1>2 DEF NoBook
<1>7. dirt = 0 => (book + Head(w).by) + SumOn(Tail(w), m) = d
  BY <1>2, <1>3, <1>5
<1>8. QED
  BY <1>4, <1>6, <1>7 DEF Tracked

\* The book is fetched: it has the changes that are still on the wire.
LEMMA TrackedFetched ==
  ASSUME NEW w, WireShaped(w), w # <<>>, NEW m, Head(w).market = m,
         Head(w).type = "delta", NEW dirt \in Nat, NEW d \in Nat,
         dirt = 0 => DeltasIn(w, m) \ {1} = {}
  PROVE  Tracked(Tail(w), m, d, dirt, d)
<1>1. Tail(w) \in Seq(Message)
  BY TailIs
<1>2. \A k \in DOMAIN Tail(w) : ~SnapIn(Tail(w), k, m)
  BY TailSnaps
<1>3. \A k \in DeltasIn(Tail(w), m) : k + 1 \in DeltasIn(w, m) \ {1}
  BY TailIs DEF DeltasIn
<1>4. dirt = 0 => SumOn(Tail(w), m) = 0
  BY <1>1, <1>3, SumOnType
<1>5. d # NoBook
  BY DEF NoBook
<1>6. QED
  BY <1>2, <1>4, <1>5 DEF Tracked

\* The greatest number of some messages on the wire.
LEMMA GreatestNumber ==
  ASSUME NEW last \in Nat, NEW S \in SUBSET (1..last)
  PROVE  Max0(S) \in 0..last /\ (Max0(S) = 0 => S = {})
<1> DEFINE T == S \cup {0}
<1>1. T \in SUBSET Int /\ T # {} /\ T \subseteq 0..last
  OBVIOUS
<1>2. IsFiniteSet(T)
  <2>1. IsFiniteSet(0..last)
    <3>1. 0 \in Int /\ last \in Int
      OBVIOUS
    <3>2. QED
      BY <3>1, FS_Interval
  <2>2. QED
    BY <1>1, <2>1, FS_Subset
<1>3. Max(T) \in T /\ \A y \in T : y <= Max(T)
  <2> HIDE DEF T
  <2> QED BY <1>1, <1>2, MaxIsGreatest
<1>4. Max0(S) = Max(T)
  BY DEF Max0
<1>5. Max(T) = 0 => S = {}
  <2>1. \A y \in S : y \in T /\ ~(y <= 0)
    OBVIOUS
  <2>2. QED
    <3> HIDE DEF T
    <3> QED BY <1>3, <2>1
<1>6. Max(T) \in 0..last
  <2> HIDE DEF T
  <2> QED BY <1>1, <1>3
<1>7. QED
  BY <1>4, <1>5, <1>6

---------------------------------------------------------------------------
(* The steps and the books                                                 *)

Bound == Max({MaxSeq, Cardinality(Markets)})

LEMMA BoundIs ==
  /\ MaxSeq \in Nat /\ MaxDepth \in Nat /\ Cardinality(Markets) \in Nat /\ Bound \in Nat
  /\ MaxSeq <= Bound /\ Cardinality(Markets) <= Bound
<1>1. MaxSeq \in Nat /\ MaxDepth \in Nat /\ Cardinality(Markets) \in Nat
  BY StreamAssumption, FS_CardinalityType
<1> DEFINE S == {MaxSeq, Cardinality(Markets)}
<1>2. S \in SUBSET Int /\ S # {}
  BY <1>1
<1>3. IsFiniteSet(S)
  <2>1. S = {MaxSeq} \cup {Cardinality(Markets)}
    OBVIOUS
  <2>2. IsFiniteSet({MaxSeq}) /\ IsFiniteSet({Cardinality(Markets)})
    BY FS_Singleton
  <2>3. QED
    BY <2>1, <2>2, FS_Union
<1>4. Max(S) \in S /\ \A y \in S : y <= Max(S)
  <2> HIDE DEF S
  <2> QED BY <1>2, <1>3, MaxIsGreatest
<1>5. QED
  BY <1>1, <1>4 DEF Bound

LEMMA BookStart ==
  ASSUME Init
  PROVE  BookInv
<1>1. /\ wire = <<>> /\ sent = 0 /\ link = "down" /\ seen = 0 /\ db = "ok"
      /\ lost = {} /\ noticed = {} /\ first = 0
      /\ books = [m \in Markets |-> NoBook] /\ dirty = [m \in Markets |-> 0]
      /\ depth \in [Markets -> {1}]
  BY DEF Init
<1>2. 1 \in 0..MaxDepth /\ Bound \in Nat
  BY BoundIs, StreamAssumption
<1>3. TypeOK
  BY <1>1, <1>2 DEF TypeOK, Bound
<1>4. QED
  BY <1>1, <1>3 DEF BookInv, LinkRests

\* Where every market's book is tracked after a step.
LEMMA ChangeKeepsBooks ==
  ASSUME StreamInv, BookInv, NEW m \in Markets, Change(m)
  PROVE  BookInv'
<1>1. PICK by \in {-1, 1} :
        /\ sent < MaxSeq
        /\ depth[m] + by \in 0..MaxDepth
        /\ depth' = [depth EXCEPT ![m] = @ + by]
        /\ IF link # "up" THEN UNCHANGED <<wire, sent, lost, dirty, faults>>
           ELSE /\ sent' = sent + 1
                /\ \/ /\ wire' = Append(wire, Delta(m, sent + 1, by))
                      /\ UNCHANGED <<lost, dirty, faults>>
                   \/ /\ lost' = lost \cup {sent + 1}
                      /\ dirty' = [dirty EXCEPT ![m] = sent + 1]
                      /\ UNCHANGED wire
  BY DEF Change
<1>2. UNCHANGED <<link, books, seen, db, noticed, first>>
  BY DEF Change, memory
<1>3. /\ depth \in [Markets -> 0..MaxDepth] /\ depth' \in [Markets -> 0..MaxDepth]
      /\ MaxSeq \in Nat /\ sent \in 0..Bound /\ Bound \in Nat /\ MaxSeq <= Bound
  BY <1>1, BoundIs DEF BookInv, TypeOK, Bound
<1>4. CASE link # "up"
  <2>1. TypeOK'
    BY <1>1, <1>2, <1>3, <1>4 DEF BookInv, TypeOK
  <2>2. LinkRests'
    BY <1>1, <1>2, <1>4 DEF BookInv, LinkRests
  <2>3. QED
    BY <1>2, <1>4, <2>1, <2>2 DEF BookInv
<1>5. ASSUME link = "up"
      PROVE  /\ sent' = sent + 1 /\ sent' \in 0..Bound
             /\ 0..sent \subseteq 0..sent' /\ 1..sent \subseteq 1..sent' /\ sent + 1 \in 1..sent'
  BY <1>1, <1>3, <1>5
<1>6. CASE link = "up" /\ wire' = Append(wire, Delta(m, sent + 1, by)) /\ lost' = lost /\ dirty' = dirty
  <2> DEFINE msg == Delta(m, sent + 1, by)
  <2>1. msg \in Message /\ msg.type = "delta" /\ msg.market = m /\ msg.seq = sent + 1 /\ msg.by = by
    BY <1>3 DEF Delta, Message
  <2> HIDE DEF msg
  <2>2. WireShaped(wire) /\ wire' = Append(wire, msg) /\ wire \in Seq(Message)
    BY <1>6 DEF BookInv, WireShaped, msg
  <2>3. WireShaped(wire')
    BY <2>1, <2>2, ShapedAppend
  <2>4. \A k \in DOMAIN wire' : wire'[k].market \in Markets /\ wire'[k].seq \in 1..sent'
    <3>1. \A k \in DOMAIN wire' : (k \in DOMAIN wire /\ wire'[k] = wire[k]) \/ wire'[k] = msg
      BY <2>2, <2>1
    <3>2. \A k \in DOMAIN wire : wire[k].market \in Markets /\ wire[k].seq \in 1..sent
      BY DEF BookInv, TypeOK
    <3>3. QED
      BY <1>5, <1>6, <2>1, <3>1, <3>2
  <2>5. TypeOK'
    BY <1>2, <1>3, <1>5, <1>6, <2>4 DEF BookInv, TypeOK, Bound
  <2>6. ASSUME NEW x \in Markets
        PROVE  Tracked(wire', x, books'[x], dirty'[x], depth'[x])
    <3>1. Tracked(wire, x, books[x], dirty[x], depth[x])
      BY <1>6 DEF BookInv
    <3>2. books[x] \in Int /\ depth[x] \in Int
      BY <1>3 DEF BookInv, TypeOK, NoBook
    <3>3. Tracked(Append(wire, msg), x, books[x], dirty[x],
                  depth[x] + (IF msg.market = x THEN msg.by ELSE 0))
      BY <2>1, <2>2, <3>1, <3>2, TrackedAppend
    <3>4. depth'[x] = depth[x] + (IF msg.market = x THEN msg.by ELSE 0)
      BY <1>1, <1>3, <2>1, <3>2
    <3>5. QED
      BY <1>2, <1>6, <2>2, <3>3, <3>4
  <2>7. LinkRests'
    BY <1>2, <1>6 DEF BookInv, LinkRests
  <2>8. QED
    BY <1>2, <1>6, <2>3, <2>5, <2>6, <2>7 DEF BookInv
<1>7. CASE /\ link = "up" /\ wire' = wire /\ lost' = lost \cup {sent + 1}
           /\ dirty' = [dirty EXCEPT ![m] = sent + 1]
  <2>1. \A k \in DOMAIN wire : wire[k].market \in Markets /\ wire[k].seq \in 1..sent
    BY DEF BookInv, TypeOK
  <2>2. dirty \in [Markets -> 0..sent] /\ dirty' \in [Markets -> 0..sent']
    BY <1>3, <1>5, <1>7 DEF BookInv, TypeOK
  <2>3. TypeOK'
    BY <1>2, <1>3, <1>5, <1>7, <2>1, <2>2 DEF BookInv, TypeOK, Bound
  <2>4. ASSUME NEW x \in Markets
        PROVE  Tracked(wire', x, books'[x], dirty'[x], depth'[x])
    <3>1. CASE x # m
      <4>1. dirty'[x] = dirty[x] /\ depth'[x] = depth[x] /\ books'[x] = books[x]
        BY <1>1, <1>2, <1>3, <1>7, <2>2, <3>1
      <4>2. Tracked(wire, x, books[x], dirty[x], depth[x])
        BY <1>7 DEF BookInv
      <4>3. QED
        BY <1>7, <4>1, <4>2
    <3>2. CASE x = m
      <4>1. dirty'[x] = sent + 1 /\ dirty'[x] # 0
        BY <1>3, <1>7, <2>2, <3>2
      <4>2. \A k \in DOMAIN wire : dirty'[x] > wire[k].seq
        BY <1>3, <2>1, <4>1
      <4>3. QED
        BY <1>7, <4>1, <4>2 DEF Tracked
    <3>3. QED
      BY <3>1, <3>2
  <2>5. LinkRests' /\ (link' = "up" => WireShaped(wire'))
    BY <1>2, <1>7 DEF BookInv, LinkRests
  <2>6. QED
    BY <1>2, <2>3, <2>4, <2>5 DEF BookInv
<1>8. QED
  BY <1>1, <1>4, <1>6, <1>7

LEMMA BaselineKeepsBooks ==
  ASSUME StreamInv, BookInv, Baseline
  PROVE  BookInv'
<1>1. PICK S : books' = Captured(S)
  BY DEF Baseline
<1>2. /\ link = "down" /\ link' = "based" /\ seen' = 0
      /\ lost' = {} /\ noticed' = {} /\ first' = 0
      /\ dirty' = [m \in Markets |-> 0] /\ UNCHANGED <<depth, wire, sent, db>>
  BY DEF Baseline, exchange
<1>3. books' \in [Markets -> Nat \cup {NoBook}]
  <2>1. \A m \in Markets : depth[m] \in Nat /\ books[m] \in Nat \cup {NoBook}
    BY BoundIs DEF BookInv, TypeOK
  <2>2. QED
    BY <1>1, <2>1 DEF Captured
<1>4. sent \in 0..Bound /\ Bound \in Nat /\ wire = <<>>
  BY <1>2, BoundIs DEF BookInv, TypeOK, Bound, LinkRests
<1>5. 0 \in 0..sent
  BY <1>4
<1>6. TypeOK'
  BY <1>2, <1>3, <1>4, <1>5 DEF BookInv, TypeOK
<1>7. QED
  BY <1>2, <1>4, <1>6 DEF BookInv, LinkRests

\* What a subscription sends for the markets numbered at[1], at[2], ...
LEMMA SnapshotsTracked ==
  ASSUME StreamInv, BookInv, NEW order, order = SetToSeq(Markets),
         NEW n \in Nat, NEW at, NEW w,
         \A k \in 1..n : at[k] \in DOMAIN order,
         \A j, k \in 1..n : at[j] = at[k] => j = k,
         w = [k \in 1..n |-> Snapshot(order[at[k]], at[k])]
  PROVE  /\ WireShaped(w)
         /\ \A k \in DOMAIN w : w[k].market \in Markets /\ w[k].seq \in 1..Len(order)
         /\ \A m \in Markets : Tracked(w, m, books[m], 0, depth[m])
              \/ \A k \in 1..n : order[at[k]] # m
<1>1. /\ order \in Seq(Markets) /\ DOMAIN order = 1..Len(order) /\ Len(order) \in Nat
      /\ \A i, j \in DOMAIN order : order[i] = order[j] => i = j
  BY OrderIs
<1>2. \A m \in Markets : depth[m] \in Nat
  BY BoundIs DEF BookInv, TypeOK
<1>3. \A k \in 1..n :
        /\ w[k].type = "snapshot" /\ w[k].market = order[at[k]] /\ w[k].seq = at[k]
        /\ w[k].depth = depth[order[at[k]]] /\ order[at[k]] \in Markets /\ at[k] \in 1..Len(order)
        /\ w[k] \in [type : {"snapshot"}, market : Markets, seq : Nat, depth : Int]
  <2>1. SUFFICES ASSUME NEW k \in 1..n
        PROVE  /\ w[k].type = "snapshot" /\ w[k].market = order[at[k]] /\ w[k].seq = at[k]
               /\ w[k].depth = depth[order[at[k]]] /\ order[at[k]] \in Markets
               /\ at[k] \in 1..Len(order)
               /\ w[k] \in [type : {"snapshot"}, market : Markets, seq : Nat, depth : Int]
    OBVIOUS
  <2>2. w[k] = Snapshot(order[at[k]], at[k]) /\ at[k] \in 1..Len(order)
    BY <1>1
  <2>3. order[at[k]] \in Markets /\ at[k] \in Nat
    BY <1>1, <2>2
  <2>4. depth[order[at[k]]] \in Int
    BY <1>2, <2>3
  <2>5. QED
    BY <2>2, <2>3, <2>4 DEF Snapshot
<1>4. DOMAIN w = 1..n
  OBVIOUS
<1>5. w \in Seq(Message)
  <2>1. \A k \in 1..n : w[k] \in Message
    BY <1>3 DEF Message
  <2>2. w \in [1..n -> Message]
    BY <2>1
  <2>3. QED
    BY <2>2
<1>6. WireShaped(w)
  <2>1. ASSUME NEW k \in 1..n
        PROVE  /\ w[k].depth \in Nat
               /\ \A j \in 1..n : w[j].market = w[k].market => j = k
               /\ \A j \in 1..n : w[j].type # "delta"
    <3>1. w[k].depth \in Nat
      BY <1>2, <1>3
    <3>2. \A j \in 1..n : w[j].market = w[k].market => j = k
      BY <1>1, <1>3
    <3>3. QED
      BY <1>3, <3>1, <3>2
  <2>2. QED
    BY <1>4, <1>5, <2>1 DEF WireShaped
<1>7. ASSUME NEW m \in Markets, NEW k \in 1..n, order[at[k]] = m
      PROVE  Tracked(w, m, books[m], 0, depth[m])
  <2>1. SnapIn(w, k, m)
    BY <1>3, <1>7 DEF SnapIn
  <2>2. DeltasIn(w, m) = {}
    BY <1>3, <1>4 DEF DeltasIn
  <2>3. SumOn(w, m) = 0
    BY <1>5, <2>2, SumOnType
  <2>4. \A j \in DOMAIN w : SnapIn(w, j, m) => w[j].depth + SumOn(w, m) = depth[m]
    BY <1>2, <1>3, <1>4, <2>3 DEF SnapIn
  <2>5. QED
    BY <1>4, <2>1, <2>4 DEF Tracked
<1>8. QED
  BY <1>3, <1>4, <1>6, <1>7

LEMMA SubscribeKeepsBooks ==
  ASSUME StreamInv, BookInv, Subscribe
  PROVE  BookInv'
<1> DEFINE order == SetToSeq(Markets)
<1>1. /\ order \in Seq(Markets) /\ Len(order) = Cardinality(Markets)
      /\ DOMAIN order = 1..Len(order) /\ Len(order) \in Nat
      /\ \A i, j \in DOMAIN order : order[i] = order[j] => i = j
      /\ \A m \in Markets : \E i \in DOMAIN order : order[i] = m
  BY OrderIs
<1>2. /\ link' = "up" /\ sent' = Len(order) /\ UNCHANGED <<depth, books, seen, db, noticed, first>>
      /\ seen = 0 /\ first = 0 /\ lost = {} /\ noticed = {} /\ \A m \in Markets : dirty[m] = 0
      /\ \/ /\ wire' = [k \in DOMAIN order |-> Snapshot(order[k], k)]
            /\ lost' = lost /\ dirty' = dirty
         \/ \E gone \in DOMAIN order :
              /\ lost' = {gone}
              /\ dirty' = [dirty EXCEPT ![order[gone]] = gone]
              /\ wire' = [k \in 1..Len(order) - 1 |->
                            LET n == IF k < gone THEN k ELSE k + 1 IN
                            Snapshot(order[n], n)]
  BY DEF Subscribe, memory, StreamInv, BookInv, LinkRests
<1> HIDE DEF order
<1>3. dirty \in [Markets -> Nat] /\ sent' \in 0..Bound /\ Bound \in Nat
  <2>1. Bound \in Nat /\ Cardinality(Markets) <= Bound
    BY BoundIs
  <2>2. sent \in 0..Bound /\ dirty \in [Markets -> 0..sent]
    BY DEF BookInv, TypeOK, Bound
  <2>3. QED
    BY <1>1, <1>2, <2>1, <2>2
<1>4. ASSUME \A k \in DOMAIN wire' : wire'[k].market \in Markets /\ wire'[k].seq \in 1..sent',
             lost' \in SUBSET (1..sent'), dirty' \in [Markets -> 0..sent'],
             WireShaped(wire'),
             \A m \in Markets : Tracked(wire', m, books[m], dirty'[m], depth[m])
      PROVE  BookInv'
  <2>1. 0 \in 0..sent'
    BY <1>1, <1>2
  <2>2. TypeOK'
    BY <1>2, <1>3, <1>4, <2>1 DEF BookInv, TypeOK, Bound
  <2>3. QED
    BY <1>2, <1>4, <2>2 DEF BookInv, LinkRests
<1>5. CASE wire' = [k \in DOMAIN order |-> Snapshot(order[k], k)] /\ lost' = lost /\ dirty' = dirty
  <2> DEFINE n == Len(order)
             at == [k \in 1..n |-> k]
             w == [k \in 1..n |-> Snapshot(order[at[k]], at[k])]
  <2>1. wire' = w
    BY <1>1, <1>5
  <2>2. /\ n \in Nat /\ \A k \in 1..n : at[k] = k /\ at[k] \in DOMAIN order
    BY <1>1
  <2>3. /\ WireShaped(w)
        /\ \A k \in DOMAIN w : w[k].market \in Markets /\ w[k].seq \in 1..Len(order)
        /\ \A m \in Markets : Tracked(w, m, books[m], 0, depth[m])
             \/ \A k \in 1..n : order[at[k]] # m
    <3> HIDE DEF at
    <3>1. \A j, k \in 1..n : at[j] = at[k] => j = k
      BY <2>2
    <3>2. \A k \in 1..n : at[k] \in DOMAIN order
      BY <2>2
    <3>3. n \in Nat
      BY <2>2
    <3> HIDE DEF n
    <3>4. QED
      BY <3>1, <3>2, <3>3, SnapshotsTracked DEF order
  <2>4. \A m \in Markets : \E k \in 1..n : order[at[k]] = m
    BY <1>1, <2>2
  <2>5. \A m \in Markets : dirty'[m] = 0
    BY <1>2, <1>5
  <2>6. dirty' \in [Markets -> 0..sent'] /\ lost' \in SUBSET (1..sent')
    BY <1>1, <1>2, <1>3, <1>5, <2>5
  <2>7. \A m \in Markets : Tracked(wire', m, books[m], dirty'[m], depth[m])
    <3> HIDE DEF w, at, n
    <3> QED BY <2>1, <2>3, <2>4, <2>5
  <2>8. QED
    <3> HIDE DEF w, at, n
    <3> QED BY <1>2, <1>4, <2>1, <2>3, <2>6, <2>7
<1>6. ASSUME NEW gone \in DOMAIN order, lost' = {gone},
             dirty' = [dirty EXCEPT ![order[gone]] = gone],
             wire' = [k \in 1..Len(order) - 1 |->
                        LET n == IF k < gone THEN k ELSE k + 1 IN Snapshot(order[n], n)]
      PROVE  BookInv'
  <2> DEFINE n == Len(order) - 1
             at == [k \in 1..n |-> IF k < gone THEN k ELSE k + 1]
             w == [k \in 1..n |-> Snapshot(order[at[k]], at[k])]
  <2>1. gone \in 1..Len(order) /\ n \in Nat /\ gone \in Nat /\ gone # 0
    BY <1>1
  <2>2. wire' = w
    <3>1. \A k \in 1..n : at[k] = IF k < gone THEN k ELSE k + 1
      OBVIOUS
    <3> HIDE DEF at
    <3>2. QED
      BY <1>6, <3>1
  <2>3. \A k \in 1..n : at[k] \in 1..Len(order) /\ at[k] # gone
    BY <1>1, <2>1
  <2>4. \A j, k \in 1..n : at[j] = at[k] => j = k
    BY <1>1, <2>1
  <2>5. /\ WireShaped(w)
        /\ \A k \in DOMAIN w : w[k].market \in Markets /\ w[k].seq \in 1..Len(order)
        /\ \A m \in Markets : Tracked(w, m, books[m], 0, depth[m])
             \/ \A k \in 1..n : order[at[k]] # m
    <3> HIDE DEF at
    <3>1. \A k \in 1..n : at[k] \in DOMAIN order
      BY <1>1, <2>3
    <3>2. n \in Nat
      BY <2>1
    <3> HIDE DEF n
    <3>3. QED
      BY <2>4, <3>1, <3>2, SnapshotsTracked DEF order
  <2>6. \A i \in 1..Len(order) : i # gone => \E k \in 1..n : at[k] = i
    <3>1. SUFFICES ASSUME NEW i \in 1..Len(order), i # gone PROVE \E k \in 1..n : at[k] = i
      OBVIOUS
    <3>2. CASE i < gone
      <4>1. i \in 1..n
        BY <1>1, <2>1, <3>2
      <4>2. QED
        BY <3>2, <4>1
    <3>3. CASE i > gone
      <4>1. i - 1 \in 1..n /\ ~(i - 1 < gone) /\ (i - 1) + 1 = i
        BY <1>1, <2>1, <3>3
      <4>2. QED
        BY <4>1
    <3>4. QED
      BY <2>1, <3>1, <3>2, <3>3
  <2>7. order[gone] \in Markets /\ dirty' \in [Markets -> Nat]
        /\ dirty'[order[gone]] = gone /\ \A m \in Markets \ {order[gone]} : dirty'[m] = 0
    BY <1>1, <1>2, <1>3, <1>6, <2>1
  <2>8. dirty' \in [Markets -> 0..sent'] /\ lost' \in SUBSET (1..sent')
    <3>1. \A m \in Markets : dirty'[m] \in 0..sent'
      BY <1>2, <2>1, <2>7
    <3>2. QED
      BY <1>2, <1>6, <2>1, <2>7, <3>1
  <2>9. ASSUME NEW m \in Markets
        PROVE  Tracked(wire', m, books[m], dirty'[m], depth[m])
    <3>1. CASE m # order[gone]
      <4>1. PICK i \in 1..Len(order) : order[i] = m
        BY <1>1
      <4>2. PICK k \in 1..n : at[k] = i
        BY <2>6, <3>1, <4>1
      <4>3. Tracked(w, m, books[m], 0, depth[m])
        <5> HIDE DEF w, at, n
        <5> QED BY <2>5, <4>1, <4>2
      <4>4. QED
        <5> HIDE DEF w, at, n
        <5> QED BY <2>2, <2>7, <3>1, <4>3
    <3>2. CASE m = order[gone]
      <4>1. ASSUME NEW k \in DOMAIN w PROVE ~SnapIn(w, k, m)
        <5>1. k \in 1..n
          OBVIOUS
        <5>2. at[k] \in DOMAIN order /\ at[k] # gone
          BY <1>1, <2>3, <5>1
        <5>3. order[at[k]] # order[gone]
          <6> HIDE DEF at
          <6> QED BY <1>1, <5>2
        <5>4. w[k].market = order[at[k]]
          <6>1. w[k] = Snapshot(order[at[k]], at[k])
            BY <5>1
          <6>2. QED
            <7> HIDE DEF w, at
            <7> QED BY <6>1 DEF Snapshot
        <5>5. QED
          <6> HIDE DEF w, at
          <6> QED BY <3>2, <5>3, <5>4 DEF SnapIn
      <4>2. dirty'[m] # 0
        BY <2>1, <2>7, <3>2
      <4>3. QED
        <5> HIDE DEF w, at, n
        <5> QED BY <2>2, <4>1, <4>2 DEF Tracked
    <3>3. QED
      BY <3>1, <3>2
  <2>10. QED
    <3> HIDE DEF w, at, n
    <3> QED BY <1>2, <1>4, <2>2, <2>5, <2>8, <2>9
<1>7. QED
  BY <1>2, <1>5, <1>6

LEMMA ProcessTracks ==
  ASSUME BookInv, link = "up", wire # <<>>, Process(Head(wire))
  PROVE  /\ books' \in [Markets -> Nat \cup {NoBook}] /\ dirty' \in [Markets -> 0..sent]
         /\ ~Refused(Head(wire)) =>
              \A m \in Markets : Tracked(Tail(wire), m, books'[m], dirty'[m], depth[m])
<1> DEFINE msg == Head(wire)
<1>1. /\ WireShaped(wire) /\ wire \in Seq(Message) /\ msg = wire[1] /\ 1 \in DOMAIN wire
      /\ msg \in Message /\ msg.market \in Markets /\ msg.seq \in 1..sent
      /\ \A m \in Markets : Tracked(wire, m, books[m], dirty[m], depth[m])
  <2>1. WireShaped(wire) /\ msg = wire[1] /\ 1 \in DOMAIN wire /\ msg \in Message
    BY TailIs DEF BookInv
  <2>2. QED
    BY <2>1 DEF BookInv, TypeOK, WireShaped
<1>2. /\ books \in [Markets -> Nat \cup {NoBook}] /\ dirty \in [Markets -> 0..sent]
      /\ \A m \in Markets : depth[m] \in Nat
      /\ sent \in Nat /\ 0 \in 0..sent
  <2>1. sent \in Nat
    BY BoundIs DEF BookInv, TypeOK, Bound
  <2>2. QED
    BY <2>1, BoundIs DEF BookInv, TypeOK
<1> HIDE DEF msg
<1>3. CASE Refused(msg)
  BY <1>2, <1>3 DEF Process, msg
<1>4. CASE ~Refused(msg)
  <2> DEFINE m == msg.market
             after == BookAfter(msg)
             dirt == DirtAfter(msg)
  <2>1. books' = [books EXCEPT ![m] = after] /\ dirty' = [dirty EXCEPT ![m] = dirt]
    BY <1>4 DEF Process, msg
  <2>2. after \in Nat /\ dirt \in 0..sent /\ Tracked(Tail(wire), m, after, dirt, depth[m])
    <3>1. msg.type \in {"snapshot", "delta"}
      BY <1>1 DEF Message
    <3>2. CASE msg.type = "snapshot"
      <4>1. after = msg.depth /\ dirt = IF dirty[m] > msg.seq THEN dirty[m] ELSE 0
        BY <3>2 DEF BookAfter, DirtAfter
      <4>2. after \in Nat
        BY <1>1, <3>2, <4>1 DEF WireShaped
      <4>3. dirt \in 0..sent
        BY <1>1, <1>2, <4>1
      <4>4. Tracked(Tail(wire), m, msg.depth, IF dirty[m] > msg.seq THEN dirty[m] ELSE 0, depth[m])
        <5>1. dirty[m] \in Nat /\ depth[m] \in Int /\ Tracked(wire, m, books[m], dirty[m], depth[m])
          BY <1>1, <1>2
        <5>2. QED
          BY <1>1, <3>2, <5>1, TrackedSnapshot DEF msg
      <4>5. QED
        BY <4>1, <4>2, <4>3, <4>4
    <3>3. CASE msg.type = "delta" /\ ~Fetched(msg)
      <4>1. after = books[m] + msg.by /\ dirt = dirty[m]
        BY <3>3 DEF BookAfter, DirtAfter
      <4>2. books[m] \in Nat /\ ~(books[m] + msg.by < 0)
        BY <1>1, <1>2, <1>4, <3>3 DEF Fetched, Refused
      <4>3. msg.by \in Int
        BY <1>1, <3>3 DEF Message
      <4>4. after \in Nat /\ books[m] + msg.by >= 0
        BY <4>1, <4>2, <4>3
      <4>5. Tracked(Tail(wire), m, books[m] + msg.by, dirty[m], depth[m])
        <5>1. books[m] \in Int /\ depth[m] \in Int /\ Tracked(wire, m, books[m], dirty[m], depth[m])
          BY <1>1, <1>2, <4>2
        <5>2. QED
          BY <1>1, <3>3, <4>4, <5>1, TrackedApplied DEF msg
      <4>6. dirt \in 0..sent
        BY <1>1, <1>2, <4>1
      <4>7. QED
        BY <4>1, <4>4, <4>5, <4>6
    <3>4. CASE msg.type = "delta" /\ Fetched(msg)
      <4> DEFINE S == {wire[k].seq : k \in Waiting(m) \ {1}}
      <4>1. after = depth[m] /\ dirt = Max0(S)
        BY <3>4 DEF BookAfter, DirtAfter
      <4>2. Waiting(m) = DeltasIn(wire, m)
        BY DEF Waiting, DeltasIn
      <4>3. S \in SUBSET (1..sent)
        BY DEF BookInv, TypeOK, Waiting
      <4>4. Max0(S) \in 0..sent /\ (Max0(S) = 0 => S = {})
        <5> HIDE DEF S
        <5> QED BY <1>2, <4>3, GreatestNumber
      <4>5. dirt = 0 => DeltasIn(wire, m) \ {1} = {}
        BY <4>1, <4>2, <4>4
      <4>6. dirt \in Nat /\ depth[m] \in Nat
        <5> HIDE DEF S
        <5> QED BY <1>1, <1>2, <4>1, <4>4
      <4>7. Tracked(Tail(wire), m, depth[m], dirt, depth[m])
        <5> HIDE DEF dirt
        <5> QED BY <1>1, <3>4, <4>5, <4>6, TrackedFetched DEF msg
      <4>8. QED
        <5> HIDE DEF S
        <5> QED BY <4>1, <4>4, <4>6, <4>7
    <3>5. QED
      BY <3>1, <3>2, <3>3, <3>4
  <2> HIDE DEF after, dirt
  <2>3. books' \in [Markets -> Nat \cup {NoBook}] /\ dirty' \in [Markets -> 0..sent]
    BY <1>1, <1>2, <2>1, <2>2
  <2>4. ASSUME NEW x \in Markets
        PROVE  Tracked(Tail(wire), x, books'[x], dirty'[x], depth[x])
    <3>1. CASE x = m
      BY <1>1, <1>2, <2>1, <2>2, <3>1
    <3>2. CASE x # m
      <4>1. books'[x] = books[x] /\ dirty'[x] = dirty[x]
        BY <1>2, <2>1, <3>2
      <4>2. Tracked(Tail(wire), x, books[x], dirty[x], depth[x])
        BY <1>1, <3>2, TrackedOther DEF msg
      <4>3. QED
        BY <4>1, <4>2
    <3>3. QED
      BY <3>1, <3>2
  <2>5. QED
    BY <2>3, <2>4
<1>5. QED
  BY <1>3, <1>4

LEMMA ReceiveKeepsBooks ==
  ASSUME StreamInv, BookInv, Receive
  PROVE  BookInv'
<1> DEFINE msg == Head(wire)
<1>1. /\ link = "up" /\ wire # <<>> /\ Process(msg)
      /\ seen' = msg.seq /\ first' = IF first = 0 THEN msg.seq ELSE first
      /\ noticed' = IF Gap(msg) THEN noticed \cup (seen + 1)..(msg.seq - 1) ELSE noticed
      /\ IF Refused(msg) THEN Break ELSE wire' = Tail(wire) /\ UNCHANGED link
      /\ UNCHANGED <<depth, sent, db, lost, faults>>
  BY DEF Receive
<1>2. /\ books' \in [Markets -> Nat \cup {NoBook}] /\ dirty' \in [Markets -> 0..sent]
      /\ ~Refused(msg) =>
           \A m \in Markets : Tracked(Tail(wire), m, books'[m], dirty'[m], depth[m])
  BY <1>1, ProcessTracks
<1>3. WireShaped(wire) /\ msg = wire[1] /\ 1 \in DOMAIN wire
  BY <1>1, TailIs DEF BookInv
<1>4. /\ msg.seq \in 1..sent /\ sent \in Nat /\ seen \in Nat /\ noticed \subseteq 1..sent
      /\ first \in 0..sent /\ sent \in 0..Bound
  BY <1>3, BoundIs DEF BookInv, TypeOK, Bound
<1>5. noticed' \subseteq 1..sent /\ seen' \in 0..sent /\ first' \in 0..sent
  <2> HIDE DEF msg
  <2> DEFINE between == (seen + 1)..(msg.seq - 1)
  <2>1. between \subseteq 1..sent
    BY <1>4
  <2>2. noticed' \in {noticed, noticed \cup between}
    BY <1>1
  <2>3. noticed' \subseteq 1..sent
    <3> HIDE DEF between
    <3> QED BY <1>4, <2>1, <2>2
  <2>4. seen' \in 0..sent /\ first' \in 0..sent
    BY <1>1, <1>4
  <2>5. QED
    BY <2>3, <2>4
<1>6. CASE Refused(msg)
  <2>1. link' = "down" /\ wire' = <<>>
    BY <1>1, <1>6 DEF Break
  <2>2. TypeOK'
    <3> HIDE DEF msg
    <3> QED BY <1>1, <1>2, <1>5, <2>1 DEF BookInv, TypeOK
  <2>3. QED
    BY <2>1, <2>2 DEF BookInv, LinkRests
<1>7. CASE ~Refused(msg)
  <2>1. link' = "up" /\ wire' = Tail(wire)
    BY <1>1, <1>7
  <2>2. WireShaped(wire')
    BY <1>1, <1>3, <2>1, ShapedTail
  <2>3. \A k \in DOMAIN wire' : wire'[k].market \in Markets /\ wire'[k].seq \in 1..sent
    <3>1. \A k \in DOMAIN Tail(wire) : k + 1 \in DOMAIN wire /\ Tail(wire)[k] = wire[k + 1]
      BY <1>1, <1>3, TailIs
    <3>2. QED
      BY <2>1, <3>1 DEF BookInv, TypeOK
  <2>4. TypeOK'
    <3> HIDE DEF msg
    <3> QED BY <1>1, <1>2, <1>5, <2>1, <2>3 DEF BookInv, TypeOK
  <2>5. \A m \in Markets : Tracked(wire', m, books'[m], dirty'[m], depth'[m])
    BY <1>1, <1>2, <1>7, <2>1
  <2>6. QED
    BY <2>1, <2>2, <2>4, <2>5 DEF BookInv, LinkRests
<1>8. QED
  BY <1>6, <1>7

LEMMA ErrorKeepsBooks ==
  ASSUME StreamInv, BookInv, DatabaseError
  PROVE  BookInv'
<1>1. /\ link = "up" /\ wire # <<>> /\ Process(Head(wire)) /\ db' = "aborted"
      /\ seen' = Head(wire).seq /\ link' = "down" /\ wire' = <<>>
      /\ UNCHANGED <<depth, sent, lost, noticed, first>>
  BY DEF DatabaseError, Break
<1>2. books' \in [Markets -> Nat \cup {NoBook}] /\ dirty' \in [Markets -> 0..sent]
  BY <1>1, ProcessTracks
<1>3. Head(wire) = wire[1] /\ 1 \in DOMAIN wire
  BY <1>1, TailIs DEF BookInv
<1>4. seen' \in 0..sent
  <2>1. Head(wire).seq \in 1..sent
    BY <1>3 DEF BookInv, TypeOK
  <2>2. QED
    BY <1>1, <2>1
<1>5. TypeOK'
  BY <1>1, <1>2, <1>4 DEF BookInv, TypeOK
<1>6. QED
  BY <1>1, <1>5 DEF BookInv, LinkRests

LEMMA BookStep ==
  ASSUME StreamInv, BookInv, [Next]_vars
  PROVE  BookInv'
<1>1. CASE Drop
  <2>1. TypeOK'
    BY <1>1 DEF Drop, Break, BookInv, TypeOK, memory, history
  <2>2. QED
    BY <1>1, <2>1 DEF Drop, Break, BookInv, LinkRests
<1>2. CASE UNCHANGED vars
  BY <1>2 DEF vars, BookInv, TypeOK, LinkRests
<1>3. QED
  BY <1>1, <1>2, ChangeKeepsBooks, BaselineKeepsBooks, SubscribeKeepsBooks,
     ReceiveKeepsBooks, ErrorKeepsBooks DEF Next

\* process_websocket_message and capture_rest_books: with the changes still on
\* their way the book of a live connection is the exchange's, whatever was
\* lost or refused of other markets, and however often the connection broke,
\* unless one of its own messages went missing since it was last replaced or
\* it was fetched while changes were on their way.  No depth is negative.
THEOREM BooksAreTracked == Spec => []BooksTrack
<1>1. Init => StreamInv /\ BookInv
  BY StreamStart, BookStart
<1>2. StreamInv /\ BookInv /\ [Next]_vars => (StreamInv /\ BookInv)'
  BY StreamStep, BookStep
<1>3. StreamInv /\ BookInv => BooksTrack
  <2> SUFFICES ASSUME StreamInv, BookInv PROVE BooksTrack
    OBVIOUS
  <2>1. ASSUME NEW m \in Markets, link = "up", dirty[m] = 0, ~Announced(m)
        PROVE  books[m] # NoBook /\ books[m] + Unreceived(m) = depth[m]
    <3>1. \A k \in DOMAIN wire : ~SnapIn(wire, k, m)
      BY <2>1 DEF Announced, SnapIn
    <3>2. Tracked(wire, m, books[m], 0, depth[m])
      BY <2>1 DEF BookInv
    <3>3. books[m] # NoBook /\ books[m] + SumOn(wire, m) = depth[m]
      BY <3>1, <3>2 DEF Tracked
    <3>4. QED
      BY <3>3, UnreceivedIs
  <2>2. QED
    BY <2>1 DEF BookInv, BooksTrack
<1>4. QED
  BY <1>1, <1>2, <1>3, PTL DEF Spec

---------------------------------------------------------------------------
(* A city's day                                                            *)

Bracket == [kind : {"below", "above", "between"}, floor : Nat, cap : Nat]
Report  == [c : Int, minute : Int]

\* Temperature e is at least as extreme as temperature f.
Beyond(m, e, f) == IF m = "max" THEN f <= e ELSE e <= f

\* There is one true extreme, and it is no rounding tie.
OneExtreme ==
  /\ \A e \in extreme : e \in Int /\ ~Tie(e)
  /\ \A e, d \in extreme : e = d

\* The hourly and special reports tell temperatures the day really had; the
\* 5-minute feed, which may overstate them, is not among these.
ReportsTrue ==
  \A i \in 1..Len(readings) :
    IsMetar(readings[i]) => \E e \in extreme : Beyond(metric, e, Fahrenheit(readings[i].c))

SettledOnExtreme == \A t \in final, e \in extreme : t = NearestDegree(e)

DayInv ==
  /\ metric \in Metrics
  /\ readings \in Seq(Report)
  /\ OneExtreme
  /\ ReportsTrue
  /\ SettledOnExtreme

---------------------------------------------------------------------------
(* Arithmetic of the rounding                                              *)

LEMMA DegreeBounds ==
  ASSUME NEW f \in Int
  PROVE  /\ NearestDegree(f) \in Int
         /\ 100 * NearestDegree(f) <= f + 50
         /\ f + 50 < 100 * NearestDegree(f) + 100
  BY DEF NearestDegree, Degree, Half

LEMMA TieIsHalf ==
  ASSUME NEW f \in Int, NEW k \in Int, ~Tie(f)
  PROVE  f # 100 * k + 50 /\ f # 100 * k - 50
<1>1. f = 100 * k + 50 => f % 100 = 50
  OBVIOUS
<1>2. f = 100 * k - 50 => f % 100 = 50
  <2>1. f = 100 * k - 50 => f = 100 * (k - 1) + 50
    OBVIOUS
  <2>2. QED
    BY <2>1
<1>3. QED
  BY <1>1, <1>2 DEF Tie, Degree, Half

\* No report of the 5-minute feed passes for an hourly or a special one.
LEMMA FeedIsNotMetar ==
  ASSUME NEW c \in Int
  PROVE  /\ FiveMinute(c) \in Int
         /\ ~IsMetar([c |-> FiveMinute(c), minute |-> 15])
<1> DEFINE d == (c + 5) \div 10
<1>1. d \in Int /\ FiveMinute(c) = 10 * d
  BY DEF FiveMinute
<1>2. (10 * d) % 10 = 0 /\ 15 % 5 = 0
  BY <1>1
<1>3. QED
  BY <1>1, <1>2 DEF IsMetar

LEMMA FahrenheitInt ==
  ASSUME NEW c \in Int PROVE Fahrenheit(c) \in Int
  BY DEF Fahrenheit

\* A status decided by an observation the day's extreme is beyond agrees
\* with the degree the extreme is settled as.
LEMMA StatusAgrees ==
  ASSUME NEW m \in Metrics, NEW told, NEW b \in Bracket,
         NEW e \in Int, ~Tie(e),
         \A f \in told : f \in Int /\ Beyond(m, e, f)
  PROVE  LET status == LockStatus(m, told, b)
         IN  /\ status = "LOCKED_TRUE"  => InBracket(NearestDegree(e), b)
             /\ status = "LOCKED_FALSE" => ~InBracket(NearestDegree(e), b)
<1> DEFINE t == NearestDegree(e)
<1> DEFINE status == LockStatus(m, told, b)
<1>1. /\ t \in Int /\ 100 * t <= e + 50 /\ e + 50 < 100 * t + 100
  BY DegreeBounds
<1>2. /\ b.floor \in Int /\ b.cap \in Int /\ b.kind \in {"below", "above", "between"}
  BY DEF Bracket
<1>3. /\ e # 100 * b.floor + 50 /\ e # 100 * b.floor - 50
  BY <1>2, TieIsHalf
<1> HIDE DEF t
<1>4. ASSUME status = "LOCKED_TRUE" PROVE InBracket(t, b)
  <2>1. PICK f \in told : IF m = "max"
                          THEN b.kind = "above" /\ f > LowEnd(b)
                          ELSE b.kind = "below" /\ f < HighEnd(b)
    BY <1>4 DEF LockStatus
  <2>2. CASE m = "max"
    <3>1. b.kind = "above" /\ f > b.floor * 100 + 50 /\ f <= e /\ f \in Int
      BY <2>1, <2>2 DEF LowEnd, Degree, Half, Beyond
    <3>2. t > b.floor
      BY <3>1, <1>1, <1>2
    <3>3. QED
      BY <3>1, <3>2 DEF InBracket
  <2>3. CASE m = "min"
    <3>1. b.kind = "below" /\ f < b.cap * 100 - 50 /\ e <= f /\ f \in Int
      BY <2>1, <2>3, <1>2 DEF HighEnd, Degree, Half, Beyond
    <3>2. t < b.cap
      BY <3>1, <1>1, <1>2
    <3>3. QED
      BY <3>1, <3>2 DEF InBracket
  <2>4. QED
    BY <2>2, <2>3 DEF Metrics
<1>5. ASSUME status = "LOCKED_FALSE" PROVE ~InBracket(t, b)
  <2>1. PICK f \in told : IF m = "max"
                          THEN HasCap(b)   /\ f >= HighEnd(b)
                          ELSE HasFloor(b) /\ f <= LowEnd(b)
    BY <1>5 DEF LockStatus
  <2>2. CASE m = "max" /\ b.kind = "below"
    <3>1. f >= b.cap * 100 - 50 /\ f <= e /\ f \in Int
      BY <2>1, <2>2, <1>2 DEF HighEnd, Degree, Half, Beyond
    <3>2. ~(t < b.cap)
      BY <3>1, <1>1, <1>2
    <3>3. QED
      BY <2>2, <3>2 DEF InBracket
  <2>3. CASE m = "max" /\ b.kind = "between"
    <3>1. f >= b.cap * 100 + 50 /\ f <= e /\ f \in Int
      BY <2>1, <2>3, <1>2 DEF HighEnd, Degree, Half, Beyond
    <3>2. ~(t <= b.cap)
      BY <3>1, <1>1, <1>2
    <3>3. QED
      BY <2>3, <3>2 DEF InBracket
  <2>4. CASE m = "min" /\ b.kind = "above"
    <3>1. f <= b.floor * 100 + 50 /\ e <= f /\ f \in Int
      BY <2>1, <2>4, <1>2 DEF LowEnd, Degree, Half, Beyond
    <3>2. ~(t > b.floor)
      BY <3>1, <1>1, <1>2, <1>3
    <3>3. QED
      BY <2>4, <3>2 DEF InBracket
  <2>5. CASE m = "min" /\ b.kind = "between"
    <3>1. f <= b.floor * 100 - 50 /\ e <= f /\ f \in Int
      BY <2>1, <2>5, <1>2 DEF LowEnd, Degree, Half, Beyond
    <3>2. ~(b.floor <= t)
      BY <3>1, <1>1, <1>2, <1>3
    <3>3. QED
      BY <2>5, <3>2 DEF InBracket
  <2>6. (m = "max" => b.kind # "above") /\ (m = "min" => b.kind # "below")
    BY <2>1 DEF HasCap, HasFloor
  <2>7. QED
    BY <2>2, <2>3, <2>4, <2>5, <2>6, <1>2 DEF Metrics
<1>6. QED
  BY <1>4, <1>5 DEF t, status

---------------------------------------------------------------------------
(* The day                                                                 *)

\* The extreme after one more temperature is beyond it and the one before.
LEMMA ExtremeGrows ==
  ASSUME NEW m \in Metrics, NEW E, NEW f \in Int,
         \A e \in E : e \in Int, \A e, d \in E : e = d
  PROVE  \E x \in Extreme(m, E \cup {f}) :
           x \in Int /\ Beyond(m, x, f) /\ \A e \in E : Beyond(m, x, e)
<1>1. CASE E = {}
  <2>1. f \in Extreme(m, E \cup {f})
    BY <1>1 DEF Extreme
  <2>2. QED
    BY <2>1, <1>1 DEF Beyond
<1>2. CASE E # {}
  <2>1. PICK e \in E : TRUE
    BY <1>2
  <2>2. E = {e} /\ e \in Int
    BY <2>1
  <2>3. CASE Beyond(m, e, f)
    <3>1. e \in Extreme(m, E \cup {f})
      BY <2>2, <2>3 DEF Extreme, Beyond
    <3>2. QED
      BY <2>2, <2>3, <3>1 DEF Beyond
  <2>4. CASE ~Beyond(m, e, f)
    <3>1. f \in Extreme(m, E \cup {f})
      BY <2>2, <2>4 DEF Extreme, Beyond
    <3>2. QED
      BY <2>2, <2>4, <3>1 DEF Beyond
  <2>5. QED
    BY <2>3, <2>4
<1>3. QED
  BY <1>1, <1>2

LEMMA ExtremeIsOne ==
  ASSUME NEW m, NEW F, \A f \in F : f \in Int
  PROVE  /\ Extreme(m, F) \subseteq F
         /\ \A e, d \in Extreme(m, F) : e = d
  BY DEF Extreme

\* What was published of a temperature, if it counts, is the temperature.
LEMMA PublishedTrue ==
  ASSUME NEW c \in Int, NEW report \in Published(c), NEW j \in 1..Len(report)
  PROVE  IsMetar(report[j]) => report[j].c = c
<1>1. CASE report = <<[c |-> c, minute |-> 53]>>
  BY <1>1
<1>2. CASE report = <<[c |-> c, minute |-> 15]>>
  BY <1>2
<1>3. CASE report = <<[c |-> FiveMinute(c), minute |-> 15]>>
  <2>1. report[j] = [c |-> FiveMinute(c), minute |-> 15]
    BY <1>3
  <2>2. QED
    BY <2>1, FeedIsNotMetar
<1>4. CASE report = <<>>
  BY <1>4
<1>5. QED
  BY <1>1, <1>2, <1>3, <1>4 DEF Published

LEMMA PublishedType ==
  ASSUME NEW c \in Int, NEW report \in Published(c)
  PROVE  report \in Seq(Report)
<1>1. \A d \in Int, k \in Int : [c |-> d, minute |-> k] \in Report
  BY DEF Report
<1>2. FiveMinute(c) \in Int
  BY FeedIsNotMetar
<1>3. \A r \in Report : <<r>> \in Seq(Report)
  OBVIOUS
<1>4. <<>> \in Seq(Report)
  OBVIOUS
<1>5. CASE report = <<>>
  BY <1>4, <1>5
<1>6. CASE report # <<>>
  <2>1. PICK d \in Int, k \in Int : report = <<[c |-> d, minute |-> k]>>
    BY <1>2, <1>6 DEF Published
  <2>2. QED
    BY <1>1, <1>3, <2>1
<1>7. QED
  BY <1>5, <1>6

LEMMA DayStart == DayInit => DayInv
  BY DEF DayInit, DayInv, OneExtreme, ReportsTrue, SettledOnExtreme

LEMMA WeatherKeepsInv ==
  ASSUME DayInv, Weather PROVE DayInv'
<1>1. PICK c \in Temperatures : \E report \in Published(c) :
        /\ readings' = readings \o report
        /\ extreme' = Extreme(metric, extreme \cup {Fahrenheit(c)})
  BY DEF Weather
<1>2. PICK report \in Published(c) :
        /\ readings' = readings \o report
        /\ extreme' = Extreme(metric, extreme \cup {Fahrenheit(c)})
  BY <1>1
<1>3. c \in Int /\ ~Tie(Fahrenheit(c)) /\ Fahrenheit(c) \in Int
  BY LadderCovers, FahrenheitInt
<1>4. metric' = metric /\ final' = final /\ final = {}
  BY DEF Weather
<1> DEFINE f == Fahrenheit(c)
<1> HIDE DEF f
<1>5. f \in Int /\ ~Tie(f) /\ extreme' = Extreme(metric, extreme \cup {f})
  BY <1>2, <1>3 DEF f
<1>6. OneExtreme'
  <2>1. \A e \in extreme \cup {f} : e \in Int /\ ~Tie(e)
    BY <1>5 DEF DayInv, OneExtreme
  <2>2. QED
    BY <1>5, <2>1, ExtremeIsOne DEF OneExtreme
<1>7. PICK x \in extreme' :
        x \in Int /\ Beyond(metric, x, f) /\ \A e \in extreme : Beyond(metric, x, e)
  BY <1>5, ExtremeGrows DEF DayInv, OneExtreme
<1>8. report \in Seq(Report)
  BY <1>3, PublishedType
<1>9. readings' \in Seq(Report)
  BY <1>2, <1>8 DEF DayInv
<1>10. ReportsTrue'
  <2> SUFFICES ASSUME NEW i \in 1..Len(readings'), IsMetar(readings'[i])
               PROVE  Beyond(metric, x, Fahrenheit(readings'[i].c))
    BY <1>4, <1>7 DEF ReportsTrue
  <2>1. CASE i \in 1..Len(readings)
    <3>0. readings'[i] = readings[i] /\ readings[i] \in Report
      BY <1>2, <1>8, <2>1 DEF DayInv
    <3>1. readings'[i] = readings[i] /\ readings[i].c \in Int
      BY <3>0 DEF Report
    <3>2. PICK e \in extreme : Beyond(metric, e, Fahrenheit(readings[i].c))
      BY <2>1, <3>1 DEF DayInv, ReportsTrue
    <3>3. Beyond(metric, x, e) /\ e \in Int
      BY <1>7, <3>2 DEF DayInv, OneExtreme
    <3>4. Fahrenheit(readings[i].c) \in Int
      BY <3>1, FahrenheitInt
    <3>5. QED
      BY <1>7, <3>1, <3>2, <3>3, <3>4 DEF Beyond
  <2>2. CASE i \notin 1..Len(readings)
    <3>1. /\ i - Len(readings) \in 1..Len(report)
          /\ readings'[i] = report[i - Len(readings)]
      BY <1>2, <1>8, <2>2 DEF DayInv
    <3>2. readings'[i].c = c
      BY <1>3, <3>1, PublishedTrue
    <3>3. QED
      BY <1>7, <3>2 DEF f
  <2>3. QED
    BY <2>1, <2>2
<1>11. QED
  BY <1>4, <1>6, <1>9, <1>10 DEF DayInv, SettledOnExtreme

LEMMA DayKeepsInv ==
  ASSUME DayInv, [DayNext]_dayVars PROVE DayInv'
<1>1. CASE Weather
  BY <1>1, WeatherKeepsInv
<1>2. CASE Settle
  BY <1>2 DEF Settle, DayInv, OneExtreme, ReportsTrue, SettledOnExtreme
<1>3. CASE UNCHANGED dayVars
  BY <1>3 DEF dayVars, DayInv, OneExtreme, ReportsTrue, SettledOnExtreme
<1>4. QED
  BY <1>1, <1>2, <1>3 DEF DayNext

\* What was seen after any number of readings, the true extreme is beyond.
LEMMA SeenBefore ==
  ASSUME DayInv, NEW n \in 0..Len(readings), NEW f \in SeenAfter(n)
  PROVE  f \in Int /\ \E e \in extreme : Beyond(metric, e, f)
<1>1. PICK i \in 1..n : IsMetar(readings[i]) /\ f = Fahrenheit(readings[i].c)
  BY DEF SeenAfter, TodayExtreme, Extreme
<1>2. i \in 1..Len(readings) /\ readings[i] \in Report
  BY DEF DayInv
<1>3. readings[i].c \in Int
  BY <1>2 DEF Report
<1>4. QED
  BY <1>1, <1>2, <1>3, FahrenheitInt DEF DayInv, ReportsTrue

\* A settled day agrees with everything its readings decided.
LEMMA InvLocks == DayInv => LocksHold
<1> SUFFICES ASSUME DayInv, NEW t \in final, NEW n \in 0..Len(readings),
                    NEW i \in DOMAIN Ladder
             PROVE  LET status == LockStatus(metric, SeenAfter(n), Ladder[i])
                    IN  /\ status = "LOCKED_TRUE"  => InBracket(t, Ladder[i])
                        /\ status = "LOCKED_FALSE" => ~InBracket(t, Ladder[i])
  BY DEF LocksHold
<1>0. Ladder \in Seq(Bracket)
  BY LadderCovers DEF LadderWhole, Bracket
<1>1. Ladder[i] \in Bracket /\ metric \in Metrics
  BY <1>0 DEF DayInv
<1>2. CASE SeenAfter(n) = {}
  BY <1>2 DEF LockStatus
<1>3. CASE SeenAfter(n) # {}
  <2>1. PICK e \in extreme : TRUE
    BY <1>3, SeenBefore
  <2>2. e \in Int /\ ~Tie(e) /\ t = NearestDegree(e)
    BY <2>1 DEF DayInv, OneExtreme, SettledOnExtreme
  <2>3. \A f \in SeenAfter(n) : f \in Int /\ Beyond(metric, e, f)
    BY <2>1, SeenBefore DEF DayInv, OneExtreme
  <2>4. QED
    BY <1>1, <2>2, <2>3, StatusAgrees
<1>4. QED
  BY <1>2, <1>3

\* A bracket classify_lock_status calls decided by the readings so far, at
\* any moment of the day, is settled as it says: the 5-minute feed that may
\* overstate the extreme is kept out, and the half-degree boundaries agree
\* with the rounding of the settlement.
THEOREM LocksAreFinal == DaySpec => []LocksHold
<1>1. DayInit => DayInv
  BY DayStart
<1>2. DayInv /\ [DayNext]_dayVars => DayInv'
  BY DayKeepsInv
<1>3. DayInv => LocksHold
  BY InvLocks
<1>4. QED
  BY <1>1, <1>2, <1>3, PTL DEF DaySpec

---------------------------------------------------------------------------
(* What the day is worth                                                   *)

\* A sum of differences.
LEMMA Telescopes ==
  ASSUME NEW n \in Nat, NEW g, \A i \in 0..n : g[i] \in Int,
         NEW w, \A i \in 1..n : w[i] = g[i] - g[i - 1]
  PROVE  Sum(w, 1..n) = g[n] - g[0]
<1> DEFINE P == {T \in SUBSET (1..n) : \A k \in 0..n : T = 1..k => Sum(w, T) = g[k] - g[0]}
<1>1. IsFiniteSet(1..n) /\ \A T \in SUBSET (1..n) : Summable(w, T)
  <2>1. IsFiniteSet(1..n)
    BY FS_Interval
  <2>2. \A i \in 1..n : w[i] \in Int
    BY DEF Summable
  <2>3. QED
    BY <2>1, <2>2, FS_Subset DEF Summable
<1>2. {} \in P
  <2>1. Sum(w, {}) = 0
    BY <1>1, SumType
  <2>2. \A k \in 0..n : {} = 1..k => k = 0
    OBVIOUS
  <2>3. QED
    BY <2>1, <2>2
<1>3. ASSUME NEW T \in SUBSET (1..n), T # {}
      PROVE  \E x \in T : T \ {x} \in P => T \in P
  <2>1. CASE \E k \in 1..n : T = 1..k
    <3>1. PICK k \in 1..n : T = 1..k
      BY <2>1
    <3>2. k \in T /\ T \ {k} = 1..(k - 1) /\ k - 1 \in 0..n
      BY <3>1
    <3>3. ASSUME T \ {k} \in P PROVE T \in P
      <4>1. Sum(w, T \ {k}) = g[k - 1] - g[0]
        BY <3>2, <3>3
      <4>2. Sum(w, T) = w[k] + Sum(w, T \ {k})
        BY <1>1, <3>2, SumRemove
      <4>3. Sum(w, T) = g[k] - g[0]
        BY <3>2, <4>1, <4>2
      <4>4. \A j \in 0..n : T = 1..j => j = k
        <5> SUFFICES ASSUME NEW j \in 0..n, 1..j = 1..k PROVE j = k
          BY <3>1
        <5>1. k \in 1..j
          BY <3>1
        <5>2. j \in 1..k
          BY <5>1
        <5>3. QED
          BY <5>1, <5>2
      <4>5. QED
        BY <4>3, <4>4
    <3>4. QED
      BY <3>2, <3>3
  <2>2. CASE ~\E k \in 1..n : T = 1..k
    <3>1. \A k \in 0..n : T # 1..k
      BY <1>3, <2>2
    <3>2. T \in P
      BY <3>1
    <3>3. QED
      BY <1>3, <3>2
  <2>3. QED
    BY <2>1, <2>2
<1>4. \A T \in SUBSET (1..n) : T \in P
  <2> DEFINE S == 1..n
  <2>1. IsFiniteSet(S)
    BY <1>1
  <2>2. \A T \in SUBSET S : T # {} => \E x \in T : T \ {x} \in P => T \in P
    BY <1>3
  <2>3. \A T \in SUBSET S : T \in P
    <3> HIDE DEF P, S
    <3> QED BY <1>2, <2>1, <2>2, SubsetInduction
  <2>4. QED
    BY <2>3
<1>5. QED
  <2>1. 1..n \in P
    BY <1>4
  <2>2. QED
    BY <2>1

Distribution(dist) ==
  DOMAIN dist \subseteq Int /\ IsFiniteSet(DOMAIN dist) /\ dist \in [DOMAIN dist -> Nat]

LEMMA WeightsSum ==
  ASSUME NEW dist, Distribution(dist), NEW T \in SUBSET DOMAIN dist
  PROVE  WeightOf(dist, T) = Sum(dist, T) /\ Summable(dist, T)
<1>1. WeightOf(dist, T) = Sum(dist, T)
  BY DEF WeightOf, Sum
<1>2. Summable(dist, T)
  BY FS_Subset DEF Summable, Distribution
<1>3. QED
  BY <1>1, <1>2

\* A cdf rises from nothing to the whole.
LEMMA CdfRises ==
  ASSUME NEW dist, Distribution(dist), NEW x \in Int, NEW y \in Int, x <= y
  PROVE  /\ Total(dist) \in Nat /\ Cdf(dist, x) \in Nat /\ Sf(dist, x) \in Nat
         /\ Cdf(dist, x) <= Cdf(dist, y)
         /\ Cdf(dist, x) + Sf(dist, x) = Total(dist)
<1> DEFINE D == DOMAIN dist
           L(z) == {f \in D : f <= z}
           H == {f \in D : f > x}
<1>1. L(x) \cap H = {} /\ L(x) \cup H = D /\ L(x) \subseteq L(y)
  BY DEF Distribution
<1>2. \A T \in SUBSET D : WeightOf(dist, T) = Sum(dist, T) /\ Summable(dist, T)
  BY WeightsSum
<1>3. \A T \in SUBSET D : Sum(dist, T) \in Nat
  <2> SUFFICES ASSUME NEW T \in SUBSET D PROVE Sum(dist, T) \in Nat
    OBVIOUS
  <2>1. \A f \in T \ {} : dist[f] >= 0
    BY DEF Distribution
  <2>2. Sum(dist, {}) <= Sum(dist, T)
    BY <1>2, <2>1, SumGrows
  <2>3. Sum(dist, {}) = 0 /\ Sum(dist, T) \in Int
    BY <1>2, SumType
  <2>4. QED
    BY <2>2, <2>3
<1>4. /\ L(x) \in SUBSET D /\ L(y) \in SUBSET D /\ H \in SUBSET D
      /\ Total(dist) = Sum(dist, D) /\ Cdf(dist, x) = Sum(dist, L(x))
      /\ Cdf(dist, y) = Sum(dist, L(y)) /\ Sf(dist, x) = Sum(dist, H)
  BY <1>2 DEF Total, Cdf, Sf
<1>5. \A f \in L(y) \ L(x) : dist[f] >= 0
  BY DEF Distribution
<1> HIDE DEF L, H
<1>6. Sum(dist, L(x)) <= Sum(dist, L(y))
  BY <1>1, <1>2, <1>4, <1>5, SumGrows
<1>7. Sum(dist, L(x) \cup H) = Sum(dist, L(x)) + Sum(dist, H)
  BY <1>1, <1>2, <1>4, SumJoins
<1>8. QED
  BY <1>1, <1>3, <1>4, <1>6, <1>7

---------------------------------------------------------------------------
(* The ladder                                                              *)

Rungs == 1..Len(Ladder)

LEMMA LadderShape ==
  /\ Len(Ladder) \in Nat /\ Len(Ladder) > 1 /\ DOMAIN Ladder = Rungs
  /\ \A i \in Rungs :
       /\ Ladder[i] \in Bracket
       /\ HasFloor(Ladder[i]) <=> i > 1
       /\ HasCap(Ladder[i]) <=> i < Len(Ladder)
       /\ LowEnd(Ladder[i]) \in Int /\ HighEnd(Ladder[i]) \in Int
       /\ (i > 1 /\ i < Len(Ladder)) => LowEnd(Ladder[i]) <= HighEnd(Ladder[i])
       /\ i > 1 => LowEnd(Ladder[i]) = HighEnd(Ladder[i - 1])
<1> DEFINE n == Len(Ladder)
<1>1. /\ Ladder \in Seq(Bracket) /\ n > 1 /\ Ladder[1].kind = "below" /\ Ladder[n].kind = "above"
      /\ \A i \in 2..(n - 1) : Ladder[i].kind = "between" /\ Ladder[i].floor <= Ladder[i].cap
      /\ \A i \in 1..(n - 1) : HighEnd(Ladder[i]) = LowEnd(Ladder[i + 1])
  BY LadderCovers DEF LadderWhole, Bracket
<1>2. n \in Nat /\ DOMAIN Ladder = Rungs /\ \A i \in Rungs : Ladder[i] \in Bracket
  BY <1>1 DEF Rungs
<1> HIDE DEF n
<1>3. ASSUME NEW i \in Rungs
      PROVE  /\ HasFloor(Ladder[i]) <=> i > 1
             /\ HasCap(Ladder[i]) <=> i < n
             /\ LowEnd(Ladder[i]) \in Int /\ HighEnd(Ladder[i]) \in Int
             /\ (i > 1 /\ i < n) => LowEnd(Ladder[i]) <= HighEnd(Ladder[i])
             /\ i > 1 => LowEnd(Ladder[i]) = HighEnd(Ladder[i - 1])
  <2>0. i \in 1..n
    BY DEF Rungs, n
  <2>1. /\ Ladder[i].floor \in Nat /\ Ladder[i].cap \in Nat
    BY <1>2 DEF Bracket
  <2>2. LowEnd(Ladder[i]) \in Int /\ HighEnd(Ladder[i]) \in Int
    BY <2>1 DEF LowEnd, HighEnd, Degree, Half
  <2>3. i > 1 => LowEnd(Ladder[i]) = HighEnd(Ladder[i - 1])
    <3>1. ASSUME i > 1 PROVE LowEnd(Ladder[i]) = HighEnd(Ladder[i - 1])
      <4>1. i - 1 \in 1..(n - 1) /\ (i - 1) + 1 = i
        BY <1>2, <2>0, <3>1
      <4>2. QED
        BY <1>1, <4>1
    <3>2. QED
      BY <3>1
  <2>4. CASE i = 1
    BY <1>1, <1>2, <2>2, <2>4 DEF HasFloor, HasCap
  <2>5. CASE i = n
    BY <1>1, <1>2, <2>2, <2>3, <2>5 DEF HasFloor, HasCap
  <2>6. CASE i \in 2..(n - 1)
    <3>1. Ladder[i].kind = "between" /\ Ladder[i].floor <= Ladder[i].cap
      BY <1>1, <2>6
    <3>2. LowEnd(Ladder[i]) <= HighEnd(Ladder[i])
      BY <2>1, <3>1 DEF LowEnd, HighEnd, Degree, Half
    <3>3. QED
      BY <1>2, <2>2, <2>3, <2>6, <3>1, <3>2 DEF HasFloor, HasCap
  <2>7. QED
    BY <1>2, <2>0, <2>4, <2>5, <2>6
<1>4. QED
  BY <1>1, <1>2, <1>3 DEF n

\* No end of a rung is a temperature that is no tie.
LEMMA EndsAreTies ==
  ASSUME NEW b \in Bracket, NEW f \in Int, ~Tie(f)
  PROVE  f # LowEnd(b) /\ f # HighEnd(b)
<1>1. b.floor \in Int /\ b.cap \in Int
  BY DEF Bracket
<1>2. /\ f # 100 * b.floor + 50 /\ f # 100 * b.floor - 50
      /\ f # 100 * b.cap + 50 /\ f # 100 * b.cap - 50
  BY <1>1, TieIsHalf
<1>3. QED
  BY <1>1, <1>2 DEF LowEnd, HighEnd, Degree, Half

---------------------------------------------------------------------------
(* The prices of a ladder                                                  *)

\* The forecast's mass up to the end of a rung.
Below(dist, i) == IF i = 0 THEN 0 ELSE MassToHigh(dist, Ladder[i])

LEMMA MassBelow ==
  ASSUME NEW dist, Distribution(dist)
  PROVE  /\ Total(dist) \in Nat
         /\ Below(dist, 0) = 0 /\ Below(dist, Len(Ladder)) = Total(dist)
         /\ \A i \in 0..Len(Ladder) : Below(dist, i) \in Nat
         /\ \A i \in Rungs : /\ MassToLow(dist, Ladder[i]) = Below(dist, i - 1)
                             /\ MassToHigh(dist, Ladder[i]) = Below(dist, i)
                             /\ Below(dist, i - 1) <= Below(dist, i)
<1> DEFINE n == Len(Ladder)
<1>1. n \in Nat /\ n > 1
  BY LadderShape
<1>2. \A x \in Int : /\ Total(dist) \in Nat /\ Cdf(dist, x) \in Nat
                     /\ Cdf(dist, x) <= Total(dist)
  BY CdfRises
<1>3. ASSUME NEW i \in Rungs
      PROVE  Below(dist, i) = IF i < n THEN Cdf(dist, HighEnd(Ladder[i])) ELSE Total(dist)
  BY LadderShape DEF Below, MassToHigh, Rungs
<1>4. ASSUME NEW i \in Rungs
      PROVE  MassToLow(dist, Ladder[i]) = IF i > 1 THEN Cdf(dist, LowEnd(Ladder[i])) ELSE 0
  BY LadderShape DEF MassToLow
<1>5. Total(dist) \in Nat
  BY <1>2
<1>6. n \in Rungs
  BY <1>1 DEF Rungs
<1>7. Below(dist, n) = Total(dist) /\ Below(dist, 0) = 0
  BY <1>3, <1>6 DEF Below
<1>8. \A i \in Rungs : Below(dist, i) \in Nat
  BY <1>2, <1>3, LadderShape
<1>9. ASSUME NEW i \in Rungs
      PROVE  /\ MassToLow(dist, Ladder[i]) = Below(dist, i - 1)
             /\ MassToHigh(dist, Ladder[i]) = Below(dist, i)
             /\ Below(dist, i - 1) <= Below(dist, i)
  <2>0. i \in 1..n /\ i \in Int
    BY DEF Rungs
  <2>1. MassToHigh(dist, Ladder[i]) = Below(dist, i)
    BY <2>0 DEF Below
  <2>2. CASE i = 1
    <3>1. Below(dist, i - 1) = 0
      BY <2>2 DEF Below
    <3>2. QED
      BY <1>4, <1>8, <2>1, <2>2, <3>1
  <2>3. CASE i > 1
    <3>1. i - 1 \in Rungs /\ i - 1 < n
      BY <1>1, <2>0, <2>3 DEF Rungs
    <3>2. /\ Below(dist, i - 1) = Cdf(dist, HighEnd(Ladder[i - 1]))
          /\ HighEnd(Ladder[i - 1]) = LowEnd(Ladder[i])
          /\ LowEnd(Ladder[i]) \in Int /\ HighEnd(Ladder[i]) \in Int
      BY <1>3, <2>3, <3>1, LadderShape
    <3>3. MassToLow(dist, Ladder[i]) = Below(dist, i - 1)
      BY <1>4, <2>3, <3>2
    <3>4. CASE i < n
      <4>1. LowEnd(Ladder[i]) <= HighEnd(Ladder[i])
        BY <2>3, <3>4, LadderShape
      <4>2. Cdf(dist, LowEnd(Ladder[i])) <= Cdf(dist, HighEnd(Ladder[i]))
        BY <3>2, <4>1, CdfRises
      <4>3. QED
        BY <1>3, <2>1, <3>2, <3>3, <3>4, <4>2
    <3>5. CASE ~(i < n)
      BY <1>2, <1>3, <2>1, <3>2, <3>3, <3>5
    <3>6. QED
      BY <3>4, <3>5
  <2>4. QED
    BY <2>0, <2>2, <2>3
<1>10. \A i \in 0..n : Below(dist, i) \in Nat
  <2>1. \A i \in 0..n : i = 0 \/ i \in Rungs
    BY <1>1 DEF Rungs
  <2>2. QED
    BY <1>7, <1>8, <2>1
<1>11. QED
  BY <1>5, <1>7, <1>9, <1>10

\* Is a temperature in one of the first i rungs?
Reached(f, i) == i > 0 /\ (HasCap(Ladder[i]) => f <= HighEnd(Ladder[i]))

LEMMA ReachedFirst ==
  ASSUME NEW f \in Int, ~Tie(f), NEW i \in Rungs
  PROVE  /\ Reached(f, i - 1) => Reached(f, i)
         /\ Within(f, Ladder[i]) <=> (Reached(f, i) /\ ~Reached(f, i - 1))
         /\ ~Reached(f, 0) /\ Reached(f, Len(Ladder))
<1> DEFINE n == Len(Ladder)
<1>0. n \in Nat /\ n > 1 /\ i \in 1..n /\ i \in Int
  BY LadderShape DEF Rungs
<1>1. /\ Ladder[i] \in Bracket
      /\ HasFloor(Ladder[i]) <=> i > 1
      /\ HasCap(Ladder[i]) <=> i < n
      /\ LowEnd(Ladder[i]) \in Int /\ HighEnd(Ladder[i]) \in Int
      /\ (i > 1 /\ i < n) => LowEnd(Ladder[i]) <= HighEnd(Ladder[i])
      /\ i > 1 => LowEnd(Ladder[i]) = HighEnd(Ladder[i - 1])
  BY LadderShape
<1>2. f # LowEnd(Ladder[i]) /\ f # HighEnd(Ladder[i])
  BY <1>1, EndsAreTies
<1>3. Reached(f, i) <=> (i < n => f <= HighEnd(Ladder[i]))
  BY <1>0, <1>1 DEF Reached
<1>4. Reached(f, i - 1) <=> (i > 1 /\ f <= LowEnd(Ladder[i]))
  <2>1. CASE i = 1
    BY <2>1 DEF Reached
  <2>2. CASE i > 1
    <3>1. i - 1 \in Rungs /\ i - 1 < n /\ i - 1 > 0
      BY <1>0, <2>2 DEF Rungs
    <3>2. HasCap(Ladder[i - 1])
      BY <3>1, LadderShape
    <3>3. QED
      BY <1>1, <2>2, <3>1, <3>2 DEF Reached
  <2>3. QED
    BY <1>0, <2>1, <2>2
<1>5. Within(f, Ladder[i]) <=> ((i > 1 => f >= LowEnd(Ladder[i])) /\ (i < n => f <= HighEnd(Ladder[i])))
  BY <1>1 DEF Within
<1>6. ~Reached(f, 0) /\ Reached(f, n)
  <2>1. n \in Rungs
    BY <1>0 DEF Rungs
  <2>2. ~HasCap(Ladder[n])
    BY <2>1, LadderShape
  <2>3. QED
    BY <1>0, <2>2 DEF Reached
<1>7. QED
  BY <1>0, <1>1, <1>2, <1>3, <1>4, <1>5, <1>6

\* The mass an observation has realised.
Realised(dist, m, f) == IF m = "max" THEN Cdf(dist, f) ELSE Sf(dist, f)

\* The price of the first i rungs together.
PriceTo(dist, m, seenNow, i) ==
  IF seenNow = {} THEN Below(dist, i)
  ELSE LET f == CHOOSE f \in seenNow : TRUE IN
       (IF m = "max" THEN Greater(Below(dist, i), Cdf(dist, f))
        ELSE Smaller(Below(dist, i), Cdf(dist, f)))
       + (IF Reached(f, i) THEN Realised(dist, m, f) ELSE 0)

\* What a city has been seen to reach: one temperature or none.
Observed(seenNow) ==
  \A f \in seenNow : f \in Int /\ ~Tie(f) /\ seenNow = {f}

LEMMA RungPriced ==
  ASSUME NEW dist, Distribution(dist), NEW m \in Metrics,
         NEW seenNow, Observed(seenNow), NEW i \in Rungs
  PROVE  Price(dist, Ladder[i], m, seenNow)
           = PriceTo(dist, m, seenNow, i) - PriceTo(dist, m, seenNow, i - 1)
<1> DEFINE b == Ladder[i]
           n == Len(Ladder)
<1>1. /\ MassToLow(dist, b) = Below(dist, i - 1) /\ MassToHigh(dist, b) = Below(dist, i)
      /\ Below(dist, i - 1) <= Below(dist, i)
      /\ Below(dist, i - 1) \in Nat /\ Below(dist, i) \in Nat
  <2>1. i \in 0..n /\ i - 1 \in 0..n
    BY LadderShape DEF Rungs
  <2>2. QED
    BY <2>1, MassBelow
<1>2. CASE seenNow = {}
  <2>1. BracketProbability(dist, b) = Below(dist, i) - Below(dist, i - 1)
    <3>1. b.kind \in {"below", "above", "between"} /\ LowEnd(b) \in Int
      BY LadderShape DEF Bracket
    <3>2. CASE b.kind = "below"
      BY <1>1, <3>2 DEF BracketProbability, MassToLow, MassToHigh, HasFloor, HasCap
    <3>3. CASE b.kind = "between"
      BY <1>1, <3>3 DEF BracketProbability, MassToLow, MassToHigh, HasFloor, HasCap
    <3>4. CASE b.kind = "above"
      <4>1. /\ Cdf(dist, LowEnd(b)) \in Nat /\ Sf(dist, LowEnd(b)) \in Nat
            /\ Cdf(dist, LowEnd(b)) + Sf(dist, LowEnd(b)) = Total(dist)
        BY <3>1, CdfRises
      <4>2. MassToHigh(dist, b) = Total(dist) /\ MassToLow(dist, b) = Cdf(dist, LowEnd(b))
        BY <3>4 DEF MassToHigh, MassToLow, HasFloor, HasCap
      <4>3. BracketProbability(dist, b) = Sf(dist, LowEnd(b))
        BY <3>4 DEF BracketProbability
      <4>4. QED
        BY <1>1, <4>1, <4>2, <4>3
    <3>5. QED
      BY <3>1, <3>2, <3>3, <3>4
  <2>2. QED
    BY <1>2, <2>1 DEF Price, PriceTo
<1>3. CASE seenNow # {}
  <2> DEFINE f == CHOOSE f \in seenNow : TRUE
             c == Cdf(dist, f)
             r == Realised(dist, m, f)
             atom == IF ~Within(f, b) THEN 0 ELSE r
             up == Below(dist, i)
             low == Below(dist, i - 1)
  <2>1. f \in Int /\ ~Tie(f)
    BY <1>3 DEF Observed
  <2>2. Price(dist, b, m, seenNow) = Conditioned(dist, b, m, f)
    BY <1>3 DEF Price
  <2> HIDE DEF f
  <2>3. c \in Nat /\ r \in Nat
    BY <2>1, CdfRises DEF Realised
  <2>4. Conditioned(dist, b, m, f)
          = AtLeastZero(IF m = "max" THEN up - Greater(low, c) ELSE Smaller(up, c) - low) + atom
    BY <1>1 DEF Conditioned, Realised
  <2>5. atom = (IF Reached(f, i) THEN r ELSE 0) - (IF Reached(f, i - 1) THEN r ELSE 0)
    <3>1. /\ Reached(f, i - 1) => Reached(f, i)
          /\ Within(f, b) <=> (Reached(f, i) /\ ~Reached(f, i - 1))
      BY <2>1, ReachedFirst
    <3> HIDE DEF r
    <3>2. QED
      BY <2>3, <3>1
  <2>6. PriceTo(dist, m, seenNow, i)
          = (IF m = "max" THEN Greater(up, c) ELSE Smaller(up, c))
            + (IF Reached(f, i) THEN r ELSE 0)
    BY <1>3 DEF PriceTo, f
  <2>7. PriceTo(dist, m, seenNow, i - 1)
          = (IF m = "max" THEN Greater(low, c) ELSE Smaller(low, c))
            + (IF Reached(f, i - 1) THEN r ELSE 0)
    BY <1>3 DEF PriceTo, f
  <2>8. up \in Nat /\ low \in Nat /\ low <= up
    BY <1>1
  <2> HIDE DEF up, low, c, r, atom
  <2>9. CASE m = "max"
    <3>1. AtLeastZero(up - Greater(low, c)) = Greater(up, c) - Greater(low, c)
      BY <2>3, <2>8 DEF AtLeastZero, Greater
    <3>2. Greater(up, c) \in Nat /\ Greater(low, c) \in Nat
      BY <2>3, <2>8 DEF Greater
    <3>3. QED
      BY <2>2, <2>3, <2>4, <2>5, <2>6, <2>7, <2>9, <3>1, <3>2
  <2>10. CASE m = "min"
    <3>1. AtLeastZero(Smaller(up, c) - low) = Smaller(up, c) - Smaller(low, c)
      BY <2>3, <2>8 DEF AtLeastZero, Smaller
    <3>2. Smaller(up, c) \in Nat /\ Smaller(low, c) \in Nat
      BY <2>3, <2>8 DEF Smaller
    <3>3. QED
      BY <2>2, <2>3, <2>4, <2>5, <2>6, <2>7, <2>10, <3>1, <3>2
  <2>11. QED
    BY <2>9, <2>10 DEF Metrics
<1>4. QED
  BY <1>2, <1>3

\* The prices of a ladder add up to the forecast's whole mass.
LEMMA LadderTotal ==
  ASSUME NEW dist, Distribution(dist), NEW m \in Metrics,
         NEW seenNow, Observed(seenNow)
  PROVE  Total([i \in DOMAIN Ladder |-> Price(dist, Ladder[i], m, seenNow)])
           = Total(dist)
<1> DEFINE n == Len(Ladder)
           g == [i \in 0..n |-> PriceTo(dist, m, seenNow, i)]
           w == [i \in DOMAIN Ladder |-> Price(dist, Ladder[i], m, seenNow)]
<1>1. n \in Nat /\ n > 1 /\ DOMAIN Ladder = 1..n
  BY LadderShape DEF Rungs
<1>2. Total(w) = Sum(w, 1..n)
  <2>1. DOMAIN w = 1..n
    BY <1>1
  <2> HIDE DEF w
  <2>2. QED
    BY <2>1 DEF Total, WeightOf, Sum
<1>3. /\ Total(dist) \in Nat
      /\ Below(dist, 0) = 0 /\ Below(dist, n) = Total(dist)
      /\ \A i \in 0..n : Below(dist, i) \in Nat
  BY MassBelow
<1>4. \A i \in 0..n : g[i] \in Int
  <2> SUFFICES ASSUME NEW i \in 0..n PROVE PriceTo(dist, m, seenNow, i) \in Int
    OBVIOUS
  <2>1. CASE seenNow = {}
    BY <1>3, <2>1 DEF PriceTo
  <2>2. CASE seenNow # {}
    <3> DEFINE f == CHOOSE f \in seenNow : TRUE
    <3>1. f \in Int
      BY <2>2 DEF Observed
    <3> HIDE DEF f
    <3>2. Cdf(dist, f) \in Nat /\ Sf(dist, f) \in Nat
      BY <3>1, CdfRises
    <3>3. Realised(dist, m, f) \in Int
      BY <3>2 DEF Realised
    <3>4. Greater(Below(dist, i), Cdf(dist, f)) \in Int /\ Smaller(Below(dist, i), Cdf(dist, f)) \in Int
      BY <1>3, <3>2 DEF Greater, Smaller
    <3>5. PriceTo(dist, m, seenNow, i)
            = (IF m = "max" THEN Greater(Below(dist, i), Cdf(dist, f))
               ELSE Smaller(Below(dist, i), Cdf(dist, f)))
              + (IF Reached(f, i) THEN Realised(dist, m, f) ELSE 0)
      BY <2>2 DEF PriceTo, f
    <3>6. QED
      BY <3>3, <3>4, <3>5
  <2>3. QED
    BY <2>1, <2>2
<1>5. ASSUME NEW i \in 1..n PROVE w[i] = g[i] - g[i - 1]
  <2>1. i \in Rungs /\ i \in 0..n /\ i - 1 \in 0..n
    BY <1>1 DEF Rungs
  <2>2. w[i] = PriceTo(dist, m, seenNow, i) - PriceTo(dist, m, seenNow, i - 1)
    BY <2>1, RungPriced
  <2>3. QED
    BY <2>1, <2>2
<1>6. Sum(w, 1..n) = g[n] - g[0]
  <2> HIDE DEF w, g, n
  <2> QED BY <1>1, <1>4, <1>5, Telescopes
<1>7. g[n] - g[0] = Total(dist)
  <2>0. g[n] = PriceTo(dist, m, seenNow, n) /\ g[0] = PriceTo(dist, m, seenNow, 0)
    BY <1>1
  <2>1. CASE seenNow = {}
    BY <1>3, <2>0, <2>1 DEF PriceTo
  <2>2. CASE seenNow # {}
    <3> DEFINE f == CHOOSE f \in seenNow : TRUE
               c == Cdf(dist, f)
               s == Sf(dist, f)
               total == Total(dist)
    <3>1. f \in Int /\ ~Tie(f)
      BY <2>2 DEF Observed
    <3>2. /\ PriceTo(dist, m, seenNow, n)
               = (IF m = "max" THEN Greater(Below(dist, n), Cdf(dist, f))
                  ELSE Smaller(Below(dist, n), Cdf(dist, f)))
                 + (IF Reached(f, n) THEN Realised(dist, m, f) ELSE 0)
          /\ PriceTo(dist, m, seenNow, 0)
               = (IF m = "max" THEN Greater(Below(dist, 0), Cdf(dist, f))
                  ELSE Smaller(Below(dist, 0), Cdf(dist, f)))
                 + (IF Reached(f, 0) THEN Realised(dist, m, f) ELSE 0)
      BY <2>2 DEF PriceTo
    <3> HIDE DEF f
    <3>3. c \in Nat /\ s \in Nat /\ c + s = total /\ total \in Nat
      BY <3>1, CdfRises
    <3>4. ~Reached(f, 0) /\ Reached(f, n)
      <4>1. 1 \in Rungs
        BY <1>1 DEF Rungs
      <4>2. QED
        BY <3>1, <4>1, ReachedFirst
    <3> HIDE DEF n, g
    <3>5. CASE m = "max"
      <4>1. g[n] = Greater(total, c) + c /\ g[0] = Greater(0, c) + 0
        BY <1>3, <2>0, <3>2, <3>4, <3>5 DEF Realised
      <4>2. Greater(total, c) = total /\ Greater(0, c) = c
        <5> HIDE DEF c, s, total
        <5> QED BY <3>3 DEF Greater
      <4>3. QED
        <5> HIDE DEF c, s
        <5> QED BY <3>3, <4>1, <4>2
    <3>6. CASE m = "min"
      <4>1. g[n] = Smaller(total, c) + s /\ g[0] = Smaller(0, c) + 0
        BY <1>3, <2>0, <3>2, <3>4, <3>6 DEF Realised
      <4>2. Smaller(total, c) = c /\ Smaller(0, c) = 0
        <5> HIDE DEF c, s, total
        <5> QED BY <3>3 DEF Smaller
      <4>3. QED
        <5> HIDE DEF c, s
        <5> QED BY <3>3, <4>1, <4>2
    <3>7. QED
      BY <3>5, <3>6 DEF Metrics
  <2>3. QED
    BY <2>1, <2>2
<1>8. QED
  BY <1>2, <1>6, <1>7

\* A bracket that is decided is priced as decided.
LEMMA LockPriced ==
  ASSUME NEW dist, Distribution(dist), NEW m \in Metrics,
         NEW seenNow, Observed(seenNow), NEW i \in Rungs
  PROVE  LET status == LockStatus(m, seenNow, Ladder[i])
             price == Price(dist, Ladder[i], m, seenNow)
         IN  /\ status = "LOCKED_FALSE" => price = 0
             /\ status = "LOCKED_TRUE"  => price = Total(dist)
<1> DEFINE b == Ladder[i]
           status == LockStatus(m, seenNow, b)
<1>1. SUFFICES ASSUME status \in {"LOCKED_FALSE", "LOCKED_TRUE"}
               PROVE  /\ status = "LOCKED_FALSE" => Price(dist, b, m, seenNow) = 0
                      /\ status = "LOCKED_TRUE"  => Price(dist, b, m, seenNow) = Total(dist)
  OBVIOUS
<1>2. seenNow # {}
  BY <1>1 DEF LockStatus
<1> DEFINE f == CHOOSE f \in seenNow : TRUE
           c == Cdf(dist, f)
           r == Realised(dist, m, f)
           atom == IF ~Within(f, b) THEN 0 ELSE r
           total == Total(dist)
           high == MassToHigh(dist, b)
           low == MassToLow(dist, b)
<1>3. f \in Int /\ ~Tie(f) /\ seenNow = {f}
  BY <1>2 DEF Observed
<1>4. Price(dist, b, m, seenNow) = Conditioned(dist, b, m, f)
  BY <1>2 DEF Price
<1> HIDE DEF f
<1>5. /\ c \in Nat /\ Sf(dist, f) \in Nat /\ c + Sf(dist, f) = total /\ total \in Nat
  BY <1>3, CdfRises
<1>6. Conditioned(dist, b, m, f)
        = AtLeastZero(IF m = "max" THEN high - Greater(low, c) ELSE Smaller(high, c) - low) + atom
  BY DEF Conditioned, Realised
<1>7. b \in Bracket /\ LowEnd(b) \in Int /\ HighEnd(b) \in Int
  BY LadderShape
<1>8. f # LowEnd(b) /\ f # HighEnd(b)
  BY <1>3, <1>7, EndsAreTies
<1>9. high \in Nat /\ low \in Nat
  BY <1>5, <1>7, CdfRises DEF MassToHigh, MassToLow
<1>10. CASE m = "max"
  <2>1. status = "LOCKED_TRUE" <=> (b.kind = "above" /\ f > LowEnd(b))
    BY <1>3, <1>10 DEF LockStatus
  <2>2. CASE status = "LOCKED_TRUE"
    <3>1. high = total /\ low = Cdf(dist, LowEnd(b)) /\ Within(f, b)
      BY <1>3, <1>7, <2>1, <2>2 DEF MassToHigh, MassToLow, HasFloor, HasCap, Within
    <3>2. low <= c
      BY <1>3, <1>7, <2>1, <2>2, <3>1, CdfRises
    <3>3. atom = c
      BY <1>10, <3>1 DEF Realised
    <3> HIDE DEF c, total, high, low, atom
    <3>4. Greater(low, c) = c /\ AtLeastZero(total - c) = total - c
      BY <1>5, <1>9, <3>2 DEF Greater, AtLeastZero
    <3>5. Conditioned(dist, b, m, f) = total
      BY <1>5, <1>6, <1>10, <3>1, <3>3, <3>4
    <3>6. QED
      BY <1>4, <2>2, <3>5 DEF total
  <2>3. CASE status = "LOCKED_FALSE"
    <3>1. HasCap(b) /\ f >= HighEnd(b)
      BY <1>3, <1>10, <2>3 DEF LockStatus
    <3>2. f > HighEnd(b) /\ ~Within(f, b) /\ high = Cdf(dist, HighEnd(b))
      BY <1>3, <1>7, <1>8, <3>1 DEF Within, MassToHigh
    <3>3. high <= c
      BY <1>3, <1>7, <3>2, CdfRises
    <3>4. atom = 0
      BY <3>2
    <3> HIDE DEF c, total, high, low, atom
    <3>5. AtLeastZero(high - Greater(low, c)) = 0
      BY <1>5, <1>9, <3>3 DEF Greater, AtLeastZero
    <3>6. QED
      BY <1>4, <1>6, <1>10, <2>3, <3>4, <3>5
  <2>4. QED
    BY <1>1, <2>2, <2>3
<1>11. CASE m = "min"
  <2>1. status = "LOCKED_TRUE" <=> (b.kind = "below" /\ f < HighEnd(b))
    BY <1>3, <1>11 DEF LockStatus
  <2>2. CASE status = "LOCKED_TRUE"
    <3>1. low = 0 /\ high = Cdf(dist, HighEnd(b)) /\ Within(f, b)
      BY <1>3, <1>7, <2>1, <2>2 DEF MassToHigh, MassToLow, HasFloor, HasCap, Within
    <3>2. c <= high
      BY <1>3, <1>7, <2>1, <2>2, <3>1, CdfRises
    <3>3. atom = Sf(dist, f)
      BY <1>11, <3>1 DEF Realised
    <3> HIDE DEF c, total, high, low, atom
    <3>4. Smaller(high, c) = c /\ AtLeastZero(c - 0) = c
      BY <1>5, <1>9, <3>2 DEF Smaller, AtLeastZero
    <3>5. Conditioned(dist, b, m, f) = total
      BY <1>5, <1>6, <1>11, <3>1, <3>3, <3>4
    <3>6. QED
      BY <1>4, <2>2, <3>5 DEF total
  <2>3. CASE status = "LOCKED_FALSE"
    <3>1. HasFloor(b) /\ f <= LowEnd(b)
      BY <1>3, <1>11, <2>3 DEF LockStatus
    <3>2. f < LowEnd(b) /\ ~Within(f, b) /\ low = Cdf(dist, LowEnd(b))
      BY <1>3, <1>7, <1>8, <3>1 DEF Within, MassToLow
    <3>3. c <= low
      BY <1>3, <1>7, <3>2, CdfRises
    <3>4. atom = 0
      BY <3>2
    <3> HIDE DEF c, total, high, low, atom
    <3>5. AtLeastZero(Smaller(high, c) - low) = 0
      BY <1>5, <1>9, <3>3 DEF Smaller, AtLeastZero
    <3>6. QED
      BY <1>4, <1>6, <1>11, <2>3, <3>4, <3>5
  <2>4. QED
    BY <1>1, <2>2, <2>3
<1>12. QED
  BY <1>10, <1>11 DEF Metrics

---------------------------------------------------------------------------
(* The forecasts' side                                                     *)

\* A temperature that is no tie lies in a bracket exactly when the degree it
\* is settled as does.
LEMMA WithinIsSettled ==
  ASSUME NEW b \in Bracket, NEW f \in Int, ~Tie(f)
  PROVE  Within(f, b) <=> InBracket(NearestDegree(f), b)
<1> DEFINE t == NearestDegree(f)
<1>1. t \in Int /\ 100 * t <= f + 50 /\ f + 50 < 100 * t + 100
  BY DegreeBounds
<1>2. b.floor \in Int /\ b.cap \in Int /\ b.kind \in {"below", "above", "between"}
  BY DEF Bracket
<1>3. /\ f # 100 * b.floor + 50 /\ f # 100 * b.floor - 50
      /\ f # 100 * b.cap + 50 /\ f # 100 * b.cap - 50
  BY <1>2, TieIsHalf
<1> HIDE DEF t
<1>4. CASE b.kind = "below"
  <2>1. Within(f, b) <=> f <= 100 * b.cap - 50
    BY <1>2, <1>4 DEF Within, HasFloor, HasCap, HighEnd, Degree, Half
  <2>2. InBracket(t, b) <=> t < b.cap
    BY <1>4 DEF InBracket
  <2>3. f <= 100 * b.cap - 50 <=> t < b.cap
    BY <1>1, <1>2, <1>3
  <2>4. QED
    BY <2>1, <2>2, <2>3 DEF t
<1>5. CASE b.kind = "above"
  <2>1. Within(f, b) <=> f >= 100 * b.floor + 50
    BY <1>2, <1>5 DEF Within, HasFloor, HasCap, LowEnd, Degree, Half
  <2>2. InBracket(t, b) <=> t > b.floor
    BY <1>5 DEF InBracket
  <2>3. f >= 100 * b.floor + 50 <=> t > b.floor
    BY <1>1, <1>2, <1>3
  <2>4. QED
    BY <2>1, <2>2, <2>3 DEF t
<1>6. CASE b.kind = "between"
  <2>1. Within(f, b) <=> f >= 100 * b.floor - 50 /\ f <= 100 * b.cap + 50
    BY <1>2, <1>6 DEF Within, HasFloor, HasCap, LowEnd, HighEnd, Degree, Half
  <2>2. InBracket(t, b) <=> b.floor <= t /\ t <= b.cap
    BY <1>6 DEF InBracket
  <2>3. f >= 100 * b.floor - 50 <=> b.floor <= t
    BY <1>1, <1>2, <1>3
  <2>4. f <= 100 * b.cap + 50 <=> t <= b.cap
    BY <1>1, <1>2, <1>3
  <2>5. QED
    BY <2>1, <2>2, <2>3, <2>4 DEF t
<1>7. QED
  BY <1>2, <1>4, <1>5, <1>6

\* A temperature reached by one rung and by none up to another lies in a
\* rung between them.
LEMMA ReachedBetween ==
  ASSUME NEW f \in Int, ~Tie(f), NEW i \in 0..Len(Ladder), NEW k \in Rungs,
         ~Reached(f, i), Reached(f, k), i < k
  PROVE  \E j \in Rungs : i < j /\ j <= k /\ Within(f, Ladder[j])
<1> DEFINE R == {j \in (i + 1)..k : Reached(f, j)}
           j == Min(R)
<1>1. Len(Ladder) \in Nat /\ k \in 1..Len(Ladder) /\ i \in Nat
  BY LadderShape DEF Rungs
<1>2. R \in SUBSET Int /\ R # {} /\ IsFiniteSet(R)
  <2>1. IsFiniteSet((i + 1)..k)
    BY <1>1, FS_Interval
  <2>2. IsFiniteSet(R)
    BY <2>1, FS_Subset
  <2>3. k \in R
    BY <1>1
  <2>4. QED
    BY <1>1, <2>2, <2>3
<1>3. j \in R /\ \A y \in R : j <= y
  <2> HIDE DEF R
  <2> QED BY <1>2, MinIsLeast
<1> HIDE DEF j
<1>4. j \in Rungs /\ i < j /\ j <= k /\ Reached(f, j)
  BY <1>1, <1>3 DEF Rungs
<1>5. ~Reached(f, j - 1)
  <2>1. CASE j - 1 = i
    BY <2>1
  <2>2. CASE j - 1 # i
    <3>1. j - 1 \in (i + 1)..k /\ j - 1 < j
      BY <1>1, <1>3, <1>4, <2>2
    <3>2. QED
      BY <1>3, <3>1
  <2>3. QED
    BY <2>1, <2>2
<1>6. QED
  BY <1>4, <1>5, ReachedFirst

LEMMA RungsJudge ==
  ASSUME NEW f \in Int, ~Tie(f), NEW i \in Rungs
  PROVE  /\ ForecastSide(f, Ladder[i]) \in {"hot", "cold", "inside"}
         /\ ForecastSide(f, Ladder[i]) = "hot" =>
              \E j \in Rungs : j > i /\ InBracket(NearestDegree(f), Ladder[j])
         /\ ForecastSide(f, Ladder[i]) = "cold" =>
              \E j \in Rungs : j < i /\ InBracket(NearestDegree(f), Ladder[j])
         /\ ForecastSide(f, Ladder[i]) = "inside" => InBracket(NearestDegree(f), Ladder[i])
<1> DEFINE b == Ladder[i]
           n == Len(Ladder)
           hot == HasCap(b) /\ f > HighEnd(b)
           cold == HasFloor(b) /\ f < LowEnd(b)
<1>1. n \in Nat /\ n > 1 /\ i \in 1..n /\ n \in Rungs /\ i - 1 \in 0..n
  BY LadderShape DEF Rungs
<1>2. /\ b \in Bracket /\ LowEnd(b) \in Int /\ HighEnd(b) \in Int
      /\ HasFloor(b) <=> i > 1
      /\ HasCap(b) <=> i < n
      /\ i > 1 => LowEnd(b) = HighEnd(Ladder[i - 1])
      /\ i > 1 => (LowEnd(b) <= HighEnd(b) \/ i = n)
  BY <1>1, LadderShape
<1>3. ~(hot /\ cold)
  <2>1. ASSUME hot, cold PROVE FALSE
    <3>1. i > 1 /\ i # n
      BY <1>2, <2>1
    <3>2. f > HighEnd(b) /\ f < LowEnd(b) /\ LowEnd(b) <= HighEnd(b)
      BY <1>2, <2>1, <3>1
    <3>3. QED
      BY <1>2, <3>2
  <2>2. QED
    BY <2>1
<1>4. ASSUME hot PROVE \E j \in Rungs : j > i /\ InBracket(NearestDegree(f), Ladder[j])
  <2>1. ~Reached(f, i) /\ i \in 0..n /\ i < n
    BY <1>1, <1>2, <1>4 DEF Reached
  <2>2. Reached(f, n)
    BY ReachedFirst
  <2>3. PICK j \in Rungs : i < j /\ Within(f, Ladder[j])
    BY <1>1, <2>1, <2>2, ReachedBetween
  <2>4. Ladder[j] \in Bracket
    BY LadderShape
  <2>5. j > i
    BY <1>1, <2>3 DEF Rungs
  <2>6. QED
    BY <2>3, <2>4, <2>5, WithinIsSettled
<1>5. ASSUME cold, i > 1
      PROVE \E j \in Rungs : j < i /\ InBracket(NearestDegree(f), Ladder[j])
  <2>1. i - 1 \in Rungs /\ Reached(f, i - 1)
    <3>1. i - 1 \in Rungs /\ i - 1 > 0
      BY <1>1, <1>5 DEF Rungs
    <3>2. f <= HighEnd(Ladder[i - 1])
      <4>1. f < LowEnd(b) /\ LowEnd(b) = HighEnd(Ladder[i - 1])
        BY <1>2, <1>5
      <4>2. QED
        BY <1>2, <4>1
    <3>3. QED
      BY <3>1, <3>2 DEF Reached
  <2>2. ~Reached(f, 0) /\ 0 \in 0..n /\ 0 < i - 1
    BY <1>1, <1>5, ReachedFirst
  <2>3. PICK j \in Rungs : j <= i - 1 /\ Within(f, Ladder[j])
    BY <2>1, <2>2, ReachedBetween
  <2>4. Ladder[j] \in Bracket
    BY LadderShape
  <2>5. j < i
    BY <1>1, <2>3 DEF Rungs
  <2>6. QED
    BY <2>3, <2>4, <2>5, WithinIsSettled
<1>6. ASSUME ~hot, ~cold PROVE InBracket(NearestDegree(f), b)
  <2>1. Within(f, b)
    BY <1>2, <1>6 DEF Within
  <2>2. QED
    BY <1>2, <2>1, WithinIsSettled
<1>7. cold => i > 1
  BY <1>2
<1> HIDE DEF hot, cold
<1> DEFINE side == CASE hot -> "hot" [] cold -> "cold" [] OTHER -> "inside"
<1>8. /\ hot /\ ~cold => side = "hot"
      /\ ~hot /\ cold => side = "cold"
      /\ ~hot /\ ~cold => side = "inside"
  BY Zenon
<1> HIDE DEF side
<1>9. ForecastSide(f, b) = side
  BY DEF ForecastSide, side, hot, cold
<1>10. CASE hot
  BY <1>3, <1>4, <1>8, <1>9, <1>10
<1>11. CASE ~hot /\ cold
  BY <1>5, <1>7, <1>8, <1>9, <1>11
<1>12. CASE ~hot /\ ~cold
  BY <1>6, <1>8, <1>9, <1>12
<1>13. QED
  BY <1>10, <1>11, <1>12

---------------------------------------------------------------------------
(* The day's prices                                                        *)

\* The day is priced with a forecast, and no report that counts is a tie.
DayKnown ==
  /\ forecast \in Forecasts
  /\ \A i \in 1..Len(readings) : IsMetar(readings[i]) => ~Tie(Fahrenheit(readings[i].c))

LEMMA KnownStart == DayInit => DayKnown
  BY DEF DayInit, DayKnown

LEMMA KnownStep ==
  ASSUME DayInv, DayKnown, [DayNext]_dayVars PROVE DayKnown'
<1>1. CASE Weather
  <2>1. PICK c \in Temperatures : \E report \in Published(c) : readings' = readings \o report
    BY <1>1 DEF Weather
  <2>2. PICK report \in Published(c) : readings' = readings \o report
    BY <2>1
  <2>3. c \in Int /\ ~Tie(Fahrenheit(c)) /\ forecast' = forecast
    BY <1>1, LadderCovers DEF Weather
  <2>4. report \in Seq(Report)
    BY <2>3, PublishedType
  <2>5. ASSUME NEW i \in 1..Len(readings'), IsMetar(readings'[i])
        PROVE  ~Tie(Fahrenheit(readings'[i].c))
    <3>1. CASE i \in 1..Len(readings)
      <4>1. readings'[i] = readings[i]
        BY <2>2, <2>4, <3>1 DEF DayInv
      <4>2. QED
        BY <2>5, <3>1, <4>1 DEF DayKnown
    <3>2. CASE i \notin 1..Len(readings)
      <4>1. /\ i - Len(readings) \in 1..Len(report)
            /\ readings'[i] = report[i - Len(readings)]
        BY <2>2, <2>4, <3>2 DEF DayInv
      <4>2. readings'[i].c = c
        BY <2>3, <2>5, <4>1, PublishedTrue
      <4>3. QED
        BY <2>3, <4>2
    <3>3. QED
      BY <3>1, <3>2
  <2>6. QED
    BY <2>3, <2>5 DEF DayKnown
<1>2. CASE Settle
  BY <1>2 DEF Settle, DayKnown
<1>3. CASE UNCHANGED dayVars
  BY <1>3 DEF dayVars, DayKnown
<1>4. QED
  BY <1>1, <1>2, <1>3 DEF DayNext

\* What the code has seen is one temperature of the day, or none.
LEMMA SeenIsObserved == DayInv /\ DayKnown => Observed(Seen)
<1> SUFFICES ASSUME DayInv, DayKnown, NEW f \in Seen
             PROVE  f \in Int /\ ~Tie(f) /\ Seen = {f}
  BY DEF Observed
<1> DEFINE F == {Fahrenheit(r.c) : r \in {x \in {readings[i] : i \in 1..Len(readings)} : IsMetar(x)}}
<1>1. Seen = Extreme(metric, F)
  BY DEF Seen, SeenAfter, TodayExtreme
<1>2. ASSUME NEW g \in F PROVE g \in Int /\ ~Tie(g)
  <2>1. PICK i \in 1..Len(readings) : IsMetar(readings[i]) /\ g = Fahrenheit(readings[i].c)
    OBVIOUS
  <2>2. readings[i] \in Report
    BY DEF DayInv
  <2>3. readings[i].c \in Int
    BY <2>2 DEF Report
  <2>4. QED
    BY <2>1, <2>3, FahrenheitInt DEF DayKnown
<1> HIDE DEF F
<1>3. Extreme(metric, F) \subseteq F /\ \A e, d \in Extreme(metric, F) : e = d
  BY <1>2, ExtremeIsOne
<1>4. QED
  BY <1>1, <1>2, <1>3

LEMMA ForecastIsDistribution == DayKnown => Distribution(forecast)
  BY LadderCovers DEF DayKnown, Distribution

LEMMA InvPrices == DayInv /\ DayKnown => PricesHold
<1> SUFFICES ASSUME DayInv, DayKnown PROVE PricesHold
  OBVIOUS
<1>1. Distribution(forecast) /\ Observed(Seen) /\ metric \in Metrics
  BY ForecastIsDistribution, SeenIsObserved DEF DayInv
<1>2. DOMAIN Ladder = Rungs
  BY LadderShape
<1>3. LadderPriced
  <2> DEFINE prices == [i \in DOMAIN Ladder |-> Price(forecast, Ladder[i], metric, Seen)]
  <2>1. Total(prices) = Total(forecast)
    BY <1>1, LadderTotal
  <2>2. ASSUME NEW i \in DOMAIN Ladder
        PROVE  LET status == LockStatus(metric, Seen, Ladder[i])
               IN  /\ status = "LOCKED_FALSE" => prices[i] = 0
                   /\ status = "LOCKED_TRUE"  => prices[i] = Total(forecast)
    <3>1. prices[i] = Price(forecast, Ladder[i], metric, Seen)
      OBVIOUS
    <3>2. QED
      <4> HIDE DEF prices
      <4> QED BY <1>1, <1>2, <3>1, LockPriced
  <2>3. QED
    BY <2>1, <2>2 DEF LadderPriced
<1>4. ForecastsJudged
  <2> SUFFICES ASSUME NEW f \in DOMAIN forecast, ~Tie(f), NEW i \in DOMAIN Ladder
               PROVE  LET side     == ForecastSide(f, Ladder[i])
                          Meets(j) == InBracket(NearestDegree(f), Ladder[j])
                      IN  /\ side = "hot"    => \E j \in DOMAIN Ladder : j > i /\ Meets(j)
                          /\ side = "cold"   => \E j \in DOMAIN Ladder : j < i /\ Meets(j)
                          /\ side = "inside" => Meets(i)
    BY DEF ForecastsJudged
  <2>1. f \in Int
    BY <1>1 DEF Distribution
  <2>2. QED
    BY <1>2, <2>1, RungsJudge
<1>5. QED
  BY <1>3, <1>4 DEF PricesHold

\* At every moment of a day the prices of an event's brackets share out
\* exactly the whole probability, a bracket the readings decide is priced as
\* decided, and a forecast is called hot or cold exactly when it would have
\* settled above or below: for every ladder that covers the temperatures,
\* every forecast and any number of readings.
THEOREM PricesAreWhole == DaySpec => []PricesHold
<1>1. DayInit => DayInv /\ DayKnown
  BY DayStart, KnownStart
<1>2. (DayInv /\ DayKnown) /\ [DayNext]_dayVars => (DayInv /\ DayKnown)'
  <2>1. DayInv /\ [DayNext]_dayVars => DayInv'
    BY DayKeepsInv
  <2>2. DayInv /\ DayKnown /\ [DayNext]_dayVars => DayKnown'
    BY KnownStep
  <2>3. QED
    BY <2>1, <2>2
<1>3. DayInv /\ DayKnown => PricesHold
  BY InvPrices
<1>4. QED
  BY <1>1, <1>2, <1>3, PTL DEF DaySpec

---------------------------------------------------------------------------
(* Loss breakers: the replay of the streaks                                *)

\* The closed trades of a history, in the order of their closing.
ClosedTrade == [id : Nat, status : {"closed"}, date : Nat \ {0}, at : Nat, pnl : Int]
Ordered(c) ==
  /\ c \in Seq(ClosedTrade)
  /\ \A i \in 1..Len(c) : c[i].at = i
  /\ \A i, j \in 1..Len(c) : i <= j => c[i].date <= c[j].date

\* A row of the report.
Activation == [type : {"daily_loss", "consecutive_loss"}, date : Nat, at : Nat,
               trade : Nat, losses : Int, blocks : {TRUE}]

LEMMA TradeOf ==
  ASSUME NEW c, Ordered(c), NEW i \in 1..Len(c)
  PROVE  /\ Len(c) \in Nat /\ DOMAIN c = 1..Len(c)
         /\ c[i] \in ClosedTrade
         /\ c[i].status = "closed" /\ c[i].pnl \in Int /\ c[i].id \in Nat
         /\ c[i].date \in Nat /\ c[i].date >= 1 /\ c[i].at = i
<1>1. c[i] \in ClosedTrade
  BY ElementOfSeq DEF Ordered
<1>2. QED
  BY <1>1 DEF Ordered, ClosedTrade

LEMMA OrderedLen ==
  ASSUME NEW c, Ordered(c) PROVE Len(c) \in Nat /\ DOMAIN c = 1..Len(c)
BY DEF Ordered

\* The streak that ends with a trade: the longest run of losses.
LEMMA RunIs ==
  ASSUME NEW c, Ordered(c), NEW k \in 0..Len(c)
  PROVE  /\ LossRun(c, k) \in 0..k
         /\ \A n \in 0..k : n <= LossRun(c, k) <=> \A j \in (k - n + 1)..k : c[j].pnl < 0
<1> DEFINE Ns == {n \in 0..k : \A j \in (k - n + 1)..k : c[j].pnl < 0}
<1>1. 0 \in Ns /\ Ns \in SUBSET Int
  OBVIOUS
<1>2. IsFiniteSet(Ns)
  <2>1. IsFiniteSet(0..k)
    BY FS_Interval
  <2>2. Ns \in SUBSET (0..k)
    OBVIOUS
  <2>3. QED
    <3> HIDE DEF Ns
    <3> QED BY <2>1, <2>2, FS_Subset
<1>3. LossRun(c, k) \in Ns /\ \A n \in Ns : n <= LossRun(c, k)
  <2>1. LossRun(c, k) = Max(Ns)
    BY DEF LossRun
  <2> HIDE DEF Ns
  <2>2. QED
    BY <1>1, <1>2, <2>1, MaxIsGreatest
<1>4. PICK run \in Ns : run = LossRun(c, k) /\ \A n \in Ns : n <= run
  BY <1>3
<1>5. ASSUME NEW n \in 0..k, n <= run
      PROVE  n \in Ns
  <2>1. \A j \in (k - n + 1)..k : j \in (k - run + 1)..k
    BY <1>5
  <2>2. QED
    BY <2>1
<1>6. \A n \in 0..k : n <= run <=> n \in Ns
  <2> HIDE DEF Ns
  <2> QED BY <1>4, <1>5
<1>7. QED
  BY <1>4, <1>6

LEMMA RunGrows ==
  ASSUME NEW c, Ordered(c), NEW k \in 0..Len(c) - 1
  PROVE  LossRun(c, k + 1) = IF c[k + 1].pnl < 0 THEN LossRun(c, k) + 1 ELSE 0
<1> DEFINE run  == LossRun(c, k)
           next == LossRun(c, k + 1)
<1>0. Len(c) \in Nat
  BY OrderedLen
<1>1. /\ run \in 0..k
      /\ \A n \in 0..k : n <= run <=> \A j \in (k - n + 1)..k : c[j].pnl < 0
  BY <1>0, RunIs
<1>2. /\ next \in 0..k + 1
      /\ \A n \in 0..k + 1 : n <= next <=> \A j \in (k + 1 - n + 1)..k + 1 : c[j].pnl < 0
  <2>1. k + 1 \in 0..Len(c)
    BY <1>0
  <2>2. QED
    BY <2>1, RunIs
<1> HIDE DEF run, next
<1>3. CASE c[k + 1].pnl < 0
  <2>1. ASSUME NEW n \in 0..k PROVE n <= run <=> n + 1 <= next
    <3>1. n + 1 \in 0..k + 1 /\ k + 1 - (n + 1) + 1 = k - n + 1
      OBVIOUS
    <3>2. n + 1 <= next <=> \A j \in (k - n + 1)..k + 1 : c[j].pnl < 0
      BY <1>2, <3>1
    <3>3. (\A j \in (k - n + 1)..k + 1 : c[j].pnl < 0)
            <=> (\A j \in (k - n + 1)..k : c[j].pnl < 0)
      <4>1. \A j \in (k - n + 1)..k + 1 : j = k + 1 \/ j \in (k - n + 1)..k
        OBVIOUS
      <4>2. \A j \in (k - n + 1)..k : j \in (k - n + 1)..k + 1
        OBVIOUS
      <4>3. QED
        BY <1>3, <4>1, <4>2
    <3>4. QED
      BY <1>1, <3>2, <3>3
  <2>2. run + 1 <= next
    BY <1>1, <2>1
  <2>3. next <= run + 1
    <3>1. CASE next = 0
      BY <1>1, <3>1
    <3>2. CASE next # 0
      <4>1. next - 1 \in 0..k /\ (next - 1) + 1 <= next
        BY <1>2, <3>2
      <4>2. next - 1 <= run
        BY <2>1, <4>1
      <4>3. QED
        BY <1>1, <1>2, <4>2
    <3>3. QED
      BY <3>1, <3>2
  <2>4. next = run + 1
    BY <1>1, <1>2, <2>2, <2>3
  <2>5. QED
    BY <1>3, <2>4 DEF run, next
<1>4. CASE ~(c[k + 1].pnl < 0)
  <2>1. ~(1 <= next)
    <3>1. 1 \in 0..k + 1 /\ k + 1 \in (k + 1 - 1 + 1)..k + 1
      OBVIOUS
    <3>2. QED
      BY <1>2, <1>4, <3>1
  <2>2. next = 0
    BY <1>2, <2>1
  <2>3. QED
    BY <1>4, <2>2 DEF next
<1>5. QED
  BY <1>3, <1>4

\* The trades up to one of them.
LEMMA PrefixIs ==
  ASSUME NEW X, NEW c \in Seq(X), NEW k \in 0..Len(c)
  PROVE  /\ SubSeq(c, 1, k) \in Seq(X)
         /\ Len(SubSeq(c, 1, k)) = k
         /\ \A i \in 1..k : SubSeq(c, 1, k)[i] = c[i]
         /\ k > 0 => SubSeq(c, 1, k) = Append(SubSeq(c, 1, k - 1), c[k])
<1>1. Len(c) \in Nat /\ \A i \in 1..Len(c) : c[i] \in X
  BY ElementOfSeq
<1>2. ASSUME NEW m \in 0..Len(c)
      PROVE  /\ SubSeq(c, 1, m) \in Seq(X)
             /\ Len(SubSeq(c, 1, m)) = m
             /\ \A i \in 1..m : SubSeq(c, 1, m)[i] = c[i]
  <2>1. \A i \in 1..m : c[i] \in X
    BY <1>1
  <2>2. 1 \in Int /\ m \in Int /\ m - 1 + 1 = m /\ \A i \in 1..m : 1 + i - 1 = i
    BY <1>1
  <2>3. /\ SubSeq(c, 1, m) \in Seq(X)
        /\ Len(SubSeq(c, 1, m)) = IF 1 <= m THEN m - 1 + 1 ELSE 0
        /\ \A i \in 1..m - 1 + 1 : SubSeq(c, 1, m)[i] = c[1 + i - 1]
    BY <2>1, <2>2, SubSeqProperties
  <2>4. QED
    BY <1>1, <2>2, <2>3
<1>3. ASSUME k > 0
      PROVE  SubSeq(c, 1, k) = Append(SubSeq(c, 1, k - 1), c[k])
  <2> DEFINE s == SubSeq(c, 1, k)
             t == SubSeq(c, 1, k - 1)
  <2>1. /\ s \in Seq(X) /\ Len(s) = k /\ \A i \in 1..k : s[i] = c[i]
        /\ t \in Seq(X) /\ Len(t) = k - 1 /\ \A i \in 1..k - 1 : t[i] = c[i]
    <3>1. k - 1 \in 0..Len(c)
      BY <1>1, <1>3
    <3>2. QED
      BY <1>2, <3>1
  <2> HIDE DEF s, t
  <2>2. c[k] \in X
    BY <1>1, <1>3
  <2>3. /\ Append(t, c[k]) \in Seq(X)
        /\ Len(Append(t, c[k])) = k
        /\ \A i \in 1..k - 1 : Append(t, c[k])[i] = t[i]
        /\ Append(t, c[k])[k] = c[k]
    <3>1. Len(t) + 1 = k
      BY <1>1, <2>1
    <3>2. QED
      BY <2>1, <2>2, <3>1, AppendProperties
  <2>4. \A i \in 1..k : s[i] = Append(t, c[k])[i]
    BY <1>1, <2>1, <2>3
  <2>5. s = Append(t, c[k])
    BY <2>1, <2>3, <2>4, SeqEqual
  <2>6. QED
    BY <2>5 DEF s, t
<1>4. QED
  BY <1>2, <1>3

\* The breaker looks at the last trades only.
LEMMA BreachIsRun ==
  ASSUME NEW c, Ordered(c), NEW k \in 0..Len(c), NEW limit \in Nat \ {0}
  PROVE  ConsecutiveLossBreached(SubSeq(c, 1, k), limit) <=> LossRun(c, k) >= limit
<1> DEFINE s == SubSeq(c, 1, k)
<1>1. Len(s) = k /\ \A i \in 1..k : s[i] = c[i]
  BY PrefixIs DEF Ordered
<1> HIDE DEF s
<1>2. \A i \in 1..k : IsLoss(s[i]) <=> c[i].pnl < 0
  <2>1. \A i \in 1..k : i \in 1..Len(c)
    BY OrderedLen
  <2>2. \A i \in 1..k : c[i].status = "closed"
    BY <2>1, TradeOf
  <2>3. QED
    BY <1>1, <2>2 DEF IsLoss
<1>3. k \in Nat /\ k - limit + 1 \in Int /\ LossRun(c, k) \in 0..k
  BY RunIs
<1>4. CASE limit <= k
  <2>1. limit \in 0..k /\ \A i \in (k - limit + 1)..k : i \in 1..k
    BY <1>3, <1>4
  <2>2. limit <= LossRun(c, k) <=> \A j \in (k - limit + 1)..k : c[j].pnl < 0
    BY <2>1, RunIs
  <2>3. ConsecutiveLossBreached(s, limit) <=> \A i \in (k - limit + 1)..k : c[i].pnl < 0
    BY <1>1, <1>2, <1>4, <2>1 DEF ConsecutiveLossBreached
  <2>4. QED
    BY <1>3, <2>2, <2>3 DEF s
<1>5. CASE ~(limit <= k)
  <2>1. ~ConsecutiveLossBreached(s, limit)
    BY <1>1, <1>3, <1>5 DEF ConsecutiveLossBreached
  <2>2. QED
    BY <1>3, <1>5, <2>1 DEF s
<1>6. QED
  BY <1>4, <1>5

\* The rows of the streaks among the first k trades.
StreakRow(c, i, limit) ==
  [type |-> "consecutive_loss", date |-> c[i].date, at |-> i, trade |-> c[i].id,
   losses |-> limit, blocks |-> TRUE]

StreakRowsAre(rows, c, k, limit) ==
  /\ rows \in Seq(Activation)
  /\ \A a \in 1..Len(rows) : \E i \in 1..k :
       LossRun(c, i) = limit /\ rows[a] = StreakRow(c, i, limit)
  /\ \A i \in 1..k : LossRun(c, i) = limit =>
       \E a \in 1..Len(rows) : rows[a] = StreakRow(c, i, limit)
  /\ \A a, b \in 1..Len(rows) : a < b => rows[a].at < rows[b].at

StreakStart == [seen |-> <<>>, streak |-> 0, activated |-> FALSE, rows |-> <<>>]

StreaksTo(g, c, limit) ==
  g = [T \in SUBSET DOMAIN c |->
         IF T = {} THEN StreakStart
         ELSE StreakStep(g[T \ {Max(T)}], c[Max(T)], limit)]

LEMMA StreakPassDef ==
  ASSUME NEW c, NEW limit
  PROVE  StreakPass(c, limit) = (CHOOSE g : StreaksTo(g, c, limit))[DOMAIN c].rows
BY DEF StreakPass, StreaksTo, StreakStart, FoldLeft, MapThenFoldSet

\* What the pass remembers.
StreakState == [seen : Seq(ClosedTrade), streak : Int, activated : BOOLEAN,
                rows : Seq(Activation)]

LEMMA StreakStepType ==
  ASSUME NEW s \in StreakState, NEW t \in ClosedTrade, NEW limit
  PROVE  StreakStep(s, t, limit) \in StreakState
<1>1. /\ s.seen \in Seq(ClosedTrade) /\ s.streak \in Int /\ s.rows \in Seq(Activation)
      /\ t.pnl \in Int /\ t.date \in Nat /\ t.at \in Nat /\ t.id \in Nat
  BY DEF StreakState, ClosedTrade
<1> DEFINE r == StreakStep(s, t, limit)
<1>2. r.seen = Append(s.seen, t) /\ r.seen \in Seq(ClosedTrade)
  BY <1>1, AppendProperties DEF StreakStep
<1>3. r.streak \in Int
  BY <1>1 DEF StreakStep
<1>4. r.activated \in BOOLEAN
  BY DEF StreakStep
<1>5. r.rows \in Seq(Activation)
  <2> DEFINE losses == IF t.pnl < 0 THEN s.streak + 1 ELSE 0
             row == [type |-> "consecutive_loss", date |-> t.date, at |-> t.at,
                     trade |-> t.id, losses |-> losses, blocks |-> TRUE]
  <2>1. losses \in Int
    BY <1>1
  <2>2. row \in Activation
    <3> HIDE DEF losses
    <3> QED BY <1>1, <2>1 DEF Activation
  <2>3. r.rows = Append(s.rows, row) \/ r.rows = s.rows
    BY DEF StreakStep
  <2>4. QED
    <3> HIDE DEF row
    <3>1. Append(s.rows, row) \in Seq(Activation)
      BY <1>1, <2>2, AppendProperties
    <3>2. QED
      BY <1>1, <2>3, <3>1
<1>6. r = [seen |-> r.seen, streak |-> r.streak, activated |-> r.activated, rows |-> r.rows]
  BY DEF StreakStep
<1>7. QED
  <2> HIDE DEF r
  <2>1. r \in StreakState
    BY <1>2, <1>3, <1>4, <1>5, <1>6 DEF StreakState
  <2>2. QED
    BY <2>1 DEF r

\* The pass goes through the trades one by one.
StreaksGo(h, c, limit) ==
  /\ h[0] = StreakStart
  /\ \A k \in 1..Len(c) : h[k] = StreakStep(h[k - 1], c[k], limit)
  /\ StreakPass(c, limit) = h[Len(c)].rows

LEMMA StreaksRun ==
  ASSUME NEW c, Ordered(c), NEW limit
  PROVE  \E h : StreaksGo(h, c, limit)
<1> DEFINE n == Len(c)
           op == [p \in (1..n) \X StreakState |-> StreakStep(p[2], c[p[1]], limit)]
<1>1. n \in Nat /\ DOMAIN c = 1..n /\ \A i \in 1..n : c[i] \in ClosedTrade
  BY OrderedLen, TradeOf
<1>2. StreakStart \in StreakState
  BY EmptySeq DEF StreakStart, StreakState
<1>3. /\ op \in [(1..n) \X StreakState -> StreakState]
      /\ \A i \in 1..n, s \in StreakState : op[<<i, s>>] = StreakStep(s, c[i], limit)
  <2> HIDE DEF n
  <2>1. \A p \in (1..n) \X StreakState : StreakStep(p[2], c[p[1]], limit) \in StreakState
    BY <1>1, StreakStepType
  <2>2. QED
    BY <2>1
<1> HIDE DEF n, op
<1>4. PICK f : LeftTo(f, n, op, StreakStart) /\ \A T \in SUBSET (1..n) : f[T] \in StreakState
  BY <1>1, <1>2, <1>3, LeftExists
<1>5. StreaksTo(f, c, limit)
  <2>1. ASSUME NEW T \in SUBSET (1..n), T # {}
        PROVE  op[<<Max(T), f[T \ {Max(T)}]>>] = StreakStep(f[T \ {Max(T)}], c[Max(T)], limit)
    <3>1. Max(T) \in T
      BY <1>1, <2>1, LastIs
    <3>2. f[T \ {Max(T)}] \in StreakState
      BY <1>4
    <3>3. QED
      BY <1>3, <3>1, <3>2
  <2>2. [T \in SUBSET (1..n) |-> IF T = {} THEN StreakStart ELSE op[<<Max(T), f[T \ {Max(T)}]>>]]
          = [T \in SUBSET (1..n) |->
               IF T = {} THEN StreakStart ELSE StreakStep(f[T \ {Max(T)}], c[Max(T)], limit)]
    BY <2>1
  <2>3. QED
    BY <1>1, <1>4, <2>2 DEF LeftTo, StreaksTo
<1>6. PICK g : StreaksTo(g, c, limit) /\ StreakPass(c, limit) = g[1..n].rows
  BY <1>1, <1>5, StreakPassDef
<1> DEFINE h == [k \in 0..n |-> g[1..k]]
<1>7. h[0] = StreakStart
  <2>1. 1..0 = {} /\ {} \in SUBSET (1..n) /\ 0 \in 0..n
    BY <1>1
  <2>2. g[{}] = StreakStart
    BY <1>1, <1>6 DEF StreaksTo
  <2>3. QED
    BY <2>1, <2>2
<1>8. ASSUME NEW k \in 1..n PROVE h[k] = StreakStep(h[k - 1], c[k], limit)
  <2>1. 1..k \in SUBSET (1..n) /\ 1..k # {} /\ Max(1..k) = k /\ (1..k) \ {k} = 1..(k - 1)
    BY <1>1, LastRemoved
  <2>2. g[1..k] = StreakStep(g[1..(k - 1)], c[k], limit)
    BY <1>1, <1>6, <2>1 DEF StreaksTo
  <2>3. k \in 0..n /\ k - 1 \in 0..n
    BY <1>1
  <2>4. QED
    BY <2>2, <2>3
<1>9. StreakPass(c, limit) = h[n].rows
  BY <1>1, <1>6
<1>10. QED
  <2> HIDE DEF h
  <2> QED BY <1>7, <1>8, <1>9 DEF n, StreaksGo

\* After k trades: the streak so far, whether it has its row already, and
\* the rows.
StreakInv(s, c, k, limit) ==
  /\ s.seen = SubSeq(c, 1, k)
  /\ s.streak = LossRun(c, k)
  /\ s.activated \in BOOLEAN
  /\ s.activated <=> LossRun(c, k) >= limit
  /\ StreakRowsAre(s.rows, c, k, limit)

\* A row more, of a later trade.
LEMMA StreakRowAdded ==
  ASSUME NEW c, Ordered(c), NEW k \in 0..Len(c) - 1, NEW limit \in Nat \ {0}, NEW rows,
         StreakRowsAre(rows, c, k, limit),
         NEW more, more = IF LossRun(c, k + 1) = limit
                          THEN Append(rows, StreakRow(c, k + 1, limit)) ELSE rows
  PROVE  StreakRowsAre(more, c, k + 1, limit)
<1> DEFINE row == StreakRow(c, k + 1, limit)
           m   == Len(rows)
<1>0. Len(c) \in Nat /\ k + 1 \in 1..Len(c) /\ \A i \in 1..k : i \in 1..k + 1
  BY OrderedLen
<1>1. /\ rows \in Seq(Activation) /\ m \in Nat
      /\ \A a \in 1..m : rows[a] \in Activation /\ rows[a].at \in 1..k
  <2>1. \A i \in 1..k : StreakRow(c, i, limit).at = i
    BY DEF StreakRow
  <2>2. rows \in Seq(Activation) /\ m \in Nat
    BY DEF StreakRowsAre
  <2>3. \A a \in 1..m : rows[a] \in Activation
    BY <2>2, ElementOfSeq
  <2>4. \A a \in 1..m : rows[a].at \in 1..k
    BY <2>1 DEF StreakRowsAre
  <2>5. QED
    BY <2>2, <2>3, <2>4
<1>2. row \in Activation /\ row.at = k + 1
  <2>1. c[k + 1].date \in Nat /\ c[k + 1].id \in Nat /\ k + 1 \in Nat /\ limit \in Int
    BY <1>0, TradeOf
  <2>2. QED
    BY <2>1 DEF StreakRow, Activation
<1> HIDE DEF row
<1>3. CASE LossRun(c, k + 1) = limit
  <2>1. /\ more \in Seq(Activation) /\ Len(more) = m + 1
        /\ \A a \in 1..m : more[a] = rows[a]
        /\ more[m + 1] = row
    <3>1. more = Append(rows, row)
      BY <1>3 DEF row
    <3>2. QED
      BY <1>1, <1>2, <3>1, AppendProperties
  <2> HIDE DEF m
  <2>2. ASSUME NEW a \in 1..Len(more)
        PROVE  \E i \in 1..k + 1 : LossRun(c, i) = limit /\ more[a] = StreakRow(c, i, limit)
    <3>1. CASE a = m + 1
      BY <1>0, <1>3, <2>1, <3>1 DEF row
    <3>2. CASE a \in 1..m
      <4>1. PICK i \in 1..k : LossRun(c, i) = limit /\ rows[a] = StreakRow(c, i, limit)
        BY <3>2 DEF StreakRowsAre, m
      <4>2. QED
        BY <1>0, <2>1, <3>2, <4>1
    <3>3. QED
      BY <1>1, <2>1, <3>1, <3>2
  <2>3. ASSUME NEW i \in 1..k + 1, LossRun(c, i) = limit
        PROVE  \E a \in 1..Len(more) : more[a] = StreakRow(c, i, limit)
    <3>1. CASE i = k + 1
      <4>1. m + 1 \in 1..Len(more)
        BY <1>1, <2>1
      <4>2. QED
        BY <2>1, <3>1, <4>1 DEF row
    <3>2. CASE i # k + 1
      <4>1. i \in 1..k
        BY <3>2
      <4>2. PICK a \in 1..m : rows[a] = StreakRow(c, i, limit)
        BY <2>3, <4>1 DEF StreakRowsAre, m
      <4>3. a \in 1..Len(more) /\ more[a] = rows[a]
        BY <1>1, <2>1
      <4>4. QED
        BY <4>2, <4>3
    <3>3. QED
      BY <3>1, <3>2
  <2>4. ASSUME NEW a \in 1..Len(more), NEW b \in 1..Len(more), a < b
        PROVE  more[a].at < more[b].at
    <3>1. a \in 1..m /\ more[a] = rows[a] /\ rows[a].at \in 1..k
      BY <1>1, <2>1, <2>4
    <3>2. CASE b = m + 1
      BY <1>2, <2>1, <3>1, <3>2
    <3>3. CASE b # m + 1
      <4>1. b \in 1..m /\ more[b] = rows[b]
        BY <1>1, <2>1, <3>3
      <4>2. rows[a].at < rows[b].at
        BY <2>4, <3>1, <4>1 DEF StreakRowsAre, m
      <4>3. QED
        BY <3>1, <4>1, <4>2
    <3>4. QED
      BY <3>2, <3>3
  <2>5. QED
    BY <2>1, <2>2, <2>3, <2>4 DEF StreakRowsAre
<1>4. CASE LossRun(c, k + 1) # limit
  <2>1. more = rows
    BY <1>4
  <2>2. \A i \in 1..k + 1 : LossRun(c, i) = limit => i \in 1..k
    BY <1>4
  <2>3. QED
    BY <1>0, <2>1, <2>2 DEF StreakRowsAre
<1>5. QED
  BY <1>3, <1>4

LEMMA StreakStepKeeps ==
  ASSUME NEW c, Ordered(c), NEW k \in 0..Len(c) - 1, NEW limit \in Nat \ {0},
         NEW s, StreakInv(s, c, k, limit)
  PROVE  StreakInv(StreakStep(s, c[k + 1], limit), c, k + 1, limit)
<1> DEFINE t   == c[k + 1]
           run == LossRun(c, k)
           new == LossRun(c, k + 1)
           r   == StreakStep(s, t, limit)
<1>1. /\ k + 1 \in 1..Len(c) /\ k \in 0..Len(c) /\ k + 1 \in 0..Len(c)
      /\ Len(c) \in Nat /\ k + 1 - 1 = k
  BY OrderedLen
<1>2. t.pnl \in Int /\ t.date \in Nat /\ t.id \in Nat /\ t.at = k + 1
  BY <1>1, TradeOf
<1>3. run \in 0..k /\ new \in 0..k + 1 /\ new = IF t.pnl < 0 THEN run + 1 ELSE 0
  BY <1>1, RunIs, RunGrows
<1>4. r.seen = SubSeq(c, 1, k + 1) /\ Append(s.seen, t) = SubSeq(c, 1, k + 1)
  <2>1. SubSeq(c, 1, k + 1) = Append(SubSeq(c, 1, k), t)
    BY <1>1, PrefixIs DEF Ordered
  <2>2. QED
    BY <2>1 DEF StreakInv, StreakStep
<1>5. r.streak = new
  BY <1>3 DEF StreakInv, StreakStep
<1> DEFINE armed == t.pnl >= 0 \/ ~s.activated
           fires == ConsecutiveLossBreached(SubSeq(c, 1, k + 1), limit) /\ armed
<1>6. ConsecutiveLossBreached(SubSeq(c, 1, k + 1), limit) <=> new >= limit
  BY <1>1, BreachIsRun
<1>7. fires <=> new = limit
  <2> HIDE DEF run, new, t
  <2>1. armed <=> (t.pnl >= 0 \/ run < limit)
    BY <1>3 DEF StreakInv, run
  <2>2. QED
    <3> HIDE DEF armed
    <3> QED BY <1>2, <1>3, <1>6, <2>1
<1>8. r.activated = (fires \/ ~armed)
  BY <1>4 DEF StreakStep
<1>9. r.activated \in BOOLEAN /\ (r.activated <=> new >= limit)
  <2> HIDE DEF run, new, t, r, fires
  <2>1. armed <=> (t.pnl >= 0 \/ run < limit)
    BY <1>3 DEF StreakInv, run
  <2> HIDE DEF armed
  <2>2. (fires \/ ~armed) <=> new >= limit
    BY <1>2, <1>3, <1>7, <2>1
  <2>3. r.activated \in BOOLEAN
    BY <1>8
  <2>4. QED
    BY <1>8, <2>2, <2>3
<1>10. r.rows = IF new = limit THEN Append(s.rows, StreakRow(c, k + 1, limit)) ELSE s.rows
  <2>1. r.rows = IF fires
                 THEN Append(s.rows, [type |-> "consecutive_loss", date |-> t.date,
                                      at |-> t.at, trade |-> t.id, losses |-> r.streak,
                                      blocks |-> TRUE])
                 ELSE s.rows
    BY <1>4 DEF StreakStep
  <2>2. new = limit => [type |-> "consecutive_loss", date |-> t.date,
                        at |-> t.at, trade |-> t.id, losses |-> r.streak,
                        blocks |-> TRUE] = StreakRow(c, k + 1, limit)
    <3> HIDE DEF r
    <3> QED BY <1>2, <1>5 DEF StreakRow
  <2>3. QED
    <3> HIDE DEF r, fires, t, new
    <3> QED BY <1>7, <2>1, <2>2
<1>11. StreakRowsAre(r.rows, c, k + 1, limit)
  <2> HIDE DEF r
  <2>1. StreakRowsAre(s.rows, c, k, limit)
    BY DEF StreakInv
  <2>2. QED
    BY <1>10, <2>1, StreakRowAdded
<1>12. QED
  <2> HIDE DEF r
  <2>1. StreakInv(r, c, k + 1, limit)
    BY <1>4, <1>5, <1>9, <1>11 DEF StreakInv
  <2>2. QED
    BY <2>1 DEF r

LEMMA StreakStarts ==
  ASSUME NEW c, Ordered(c), NEW limit \in Nat \ {0}
  PROVE  StreakInv(StreakStart, c, 0, limit)
<1>1. SubSeq(c, 1, 0) = <<>>
  BY SubSeqEmpty
<1>2. LossRun(c, 0) = 0
  <2>1. 0 \in 0..Len(c)
    BY OrderedLen
  <2>2. LossRun(c, 0) \in 0..0
    BY <2>1, RunIs
  <2>3. QED
    BY <2>2
<1>3. StreakRowsAre(<<>>, c, 0, limit)
  <2>1. <<>> \in Seq(Activation) /\ Len(<<>>) = 0
    BY EmptySeq
  <2>2. 1..0 = {}
    OBVIOUS
  <2>3. QED
    BY <2>1, <2>2 DEF StreakRowsAre
<1>4. QED
  BY <1>1, <1>2, <1>3 DEF StreakInv, StreakStart

\* The pass has one row for each streak, at the trade that made it as long as
\* the limit.
LEMMA StreakPassExact ==
  ASSUME NEW c, Ordered(c), NEW limit \in Nat \ {0}
  PROVE  StreakRowsAre(StreakPass(c, limit), c, Len(c), limit)
<1> DEFINE n == Len(c)
<1>1. n \in Nat
  BY OrderedLen
<1>2. PICK h : /\ h[0] = StreakStart
               /\ \A k \in 1..n : h[k] = StreakStep(h[k - 1], c[k], limit)
               /\ StreakPass(c, limit) = h[n].rows
  BY StreaksRun DEF StreaksGo
<1> DEFINE P == {k \in 0..n : StreakInv(h[k], c, k, limit)}
<1>3. 0 \in P
  BY <1>1, <1>2, StreakStarts
<1>4. ASSUME NEW k \in 0..n - 1, k \in P PROVE k + 1 \in P
  <2>1. k + 1 \in 1..n /\ k + 1 \in 0..n /\ k + 1 - 1 = k
    BY <1>1
  <2>2. h[k + 1] = StreakStep(h[k], c[k + 1], limit)
    BY <1>2, <2>1
  <2>3. StreakInv(h[k], c, k, limit)
    BY <1>4
  <2>4. StreakInv(h[k + 1], c, k + 1, limit)
    BY <2>2, <2>3, StreakStepKeeps
  <2>5. QED
    BY <2>1, <2>4
<1>5. n \in P
  <2> HIDE DEF P
  <2>1. \A k \in 0..n : k \in P
    BY <1>1, <1>3, <1>4, IntervalInduction
  <2>2. QED
    BY <1>1, <2>1
<1>6. QED
  BY <1>2, <1>5 DEF StreakInv

---------------------------------------------------------------------------
(* Loss breakers: the replay of the days                                   *)

\* The results by position.
PnlOf(s) == [i \in DOMAIN s |-> s[i].pnl]

\* What trades gained is the sum of their results.
LEMMA PnLIs ==
  ASSUME NEW s
  PROVE  PnL(s) = Sum(PnlOf(s), DOMAIN s)
<1> DEFINE S == DOMAIN s
           w == PnlOf(s)
           E1(g, T) == IF T = {} THEN 0 ELSE s[Pick(T)].pnl + g[T \ {Pick(T)}]
           E2(g, T) == IF T = {} THEN 0 ELSE w[Pick(T)] + g[T \ {Pick(T)}]
           F1(g) == g = [T \in SUBSET S |-> E1(g, T)]
           F2(g) == g = [T \in SUBSET S |-> E2(g, T)]
<1>1. ASSUME NEW g, NEW T \in SUBSET S PROVE E1(g, T) = E2(g, T)
  <2>1. T # {} => Pick(T) \in DOMAIN s
    BY DEF Pick
  <2>2. \A k \in DOMAIN s : w[k] = s[k].pnl
    BY DEF PnlOf
  <2> HIDE DEF w
  <2>3. QED
    BY <2>1, <2>2
<1>2. ASSUME NEW g PROVE F1(g) <=> F2(g)
  <2> HIDE DEF E1, E2
  <2>1. [T \in SUBSET S |-> E1(g, T)] = [T \in SUBSET S |-> E2(g, T)]
    BY <1>1
  <2>2. QED
    BY <2>1
<1>3. (CHOOSE g : F1(g)) = (CHOOSE g : F2(g))
  <2> HIDE DEF F1, F2
  <2>1. QED
    BY <1>2
<1>4. PnL(s) = (CHOOSE g : F1(g))[S]
  BY DEF PnL, MapThenSumSet, MapThenFoldSet, Pick
<1>5. Sum(w, S) = (CHOOSE g : F2(g))[S]
  <2> HIDE DEF w
  <2>1. QED
    BY DEF Sum, MapThenSumSet, MapThenFoldSet, Pick, w
<1>6. QED
  <2> HIDE DEF F1, F2, S, w
  <2>1. PnL(s) = Sum(w, S)
    BY <1>3, <1>4, <1>5
  <2>2. QED
    BY <2>1 DEF S, w

LEMMA PnLGrows ==
  ASSUME NEW c \in Seq(ClosedTrade)
  PROVE  /\ PnL(<<>>) = 0
         /\ \A k \in 0..Len(c) : PnL(SubSeq(c, 1, k)) \in Int
         /\ \A k \in 1..Len(c) : PnL(SubSeq(c, 1, k)) = PnL(SubSeq(c, 1, k - 1)) + c[k].pnl
<1> DEFINE w == PnlOf(c)
<1>1. /\ Len(c) \in Nat /\ DOMAIN c = 1..Len(c)
      /\ \A i \in 1..Len(c) : w[i] = c[i].pnl /\ c[i].pnl \in Int
  <2>1. \A i \in 1..Len(c) : c[i] \in ClosedTrade
    BY ElementOfSeq
  <2>2. QED
    BY <2>1 DEF PnlOf, ClosedTrade
<1> HIDE DEF w
<1>2. ASSUME NEW k \in 0..Len(c)
      PROVE  /\ Summable(w, 1..k)
             /\ PnL(SubSeq(c, 1, k)) = Sum(w, 1..k)
  <2> DEFINE s == SubSeq(c, 1, k)
  <2>1. Len(s) = k /\ s \in Seq(ClosedTrade) /\ \A i \in 1..k : s[i] = c[i]
    BY PrefixIs
  <2>2. DOMAIN s = 1..k
    BY <2>1
  <2> HIDE DEF s
  <2>3. \A i \in 1..k : PnlOf(s)[i] = w[i]
    BY <1>1, <2>1, <2>2 DEF PnlOf
  <2>4. IsFiniteSet(1..k)
    BY FS_Interval
  <2>5. \A i \in 1..k : i \in 1..Len(c)
    BY <1>1
  <2>6. Summable(w, 1..k)
    BY <1>1, <2>4, <2>5 DEF Summable
  <2>7. Sum(PnlOf(s), 1..k) = Sum(w, 1..k)
    BY <2>3, <2>6, SumSame
  <2>8. QED
    BY <2>2, <2>6, <2>7, PnLIs DEF s
<1>3. ASSUME NEW k \in 1..Len(c)
      PROVE  PnL(SubSeq(c, 1, k)) = PnL(SubSeq(c, 1, k - 1)) + c[k].pnl
  <2>1. k \in 0..Len(c) /\ k - 1 \in 0..Len(c) /\ k \in 1..k /\ (1..k) \ {k} = 1..(k - 1)
    BY <1>1
  <2>2. Sum(w, 1..k) = w[k] + Sum(w, 1..(k - 1))
    BY <1>2, <2>1, SumRemove
  <2>3. Sum(w, 1..(k - 1)) \in Int /\ w[k] = c[k].pnl /\ c[k].pnl \in Int
    BY <1>1, <1>2, <2>1, SumType
  <2>4. QED
    BY <1>2, <2>1, <2>2, <2>3
<1>4. ASSUME NEW k \in 0..Len(c) PROVE PnL(SubSeq(c, 1, k)) \in Int
  BY <1>2, SumType
<1>5. PnL(<<>>) = 0
  <2>1. 0 \in 0..Len(c) /\ 1..0 = {}
    BY <1>1
  <2>2. SubSeq(c, 1, 0) = <<>>
    BY SubSeqEmpty
  <2>3. Sum(w, {}) = 0
    BY <1>2, <2>1, SumType
  <2>4. QED
    BY <1>2, <2>1, <2>2, <2>3
<1>6. QED
  BY <1>3, <1>4, <1>5

\* The number of trades that ended up to a date.
Ended(c, d) == Cardinality({i \in DOMAIN c : c[i].date <= d})

LEMMA EndedIs ==
  ASSUME NEW c, Ordered(c), NEW d \in Int
  PROVE  /\ Ended(c, d) \in 0..Len(c)
         /\ \A i \in 1..Len(c) : c[i].date <= d <=> i <= Ended(c, d)
         /\ UpTo(c, d) = SubSeq(c, 1, Ended(c, d))
         /\ Len(UpTo(c, d)) = Ended(c, d)
<1> DEFINE n == Len(c)
           T == {i \in 1..n : c[i].date <= d}
<1>1. /\ n \in Nat /\ DOMAIN c = 1..n /\ c \in Seq(ClosedTrade)
      /\ \A i \in 1..n : c[i].date \in Nat
      /\ \A i, j \in 1..n : i <= j => c[i].date <= c[j].date
  BY OrderedLen, TradeOf DEF Ordered
<1>2. T \in SUBSET (1..n) /\ \A i \in T : \A j \in 1..i : j \in T
  <2> HIDE DEF n
  <2>1. ASSUME NEW i \in T, NEW j \in 1..i PROVE j \in T
    <3>1. j \in 1..n /\ i \in 1..n /\ j <= i
      BY <1>1
    <3>2. c[j].date <= c[i].date /\ c[i].date <= d /\ c[j].date \in Nat /\ c[i].date \in Nat
      BY <1>1, <3>1
    <3>3. c[j].date <= d
      BY <3>2
    <3>4. QED
      BY <3>1, <3>3
  <2>2. QED
    BY <2>1
<1>3. Cardinality(T) \in 0..n /\ T = 1..Cardinality(T)
  <2> HIDE DEF T, n
  <2> QED BY <1>1, <1>2, SegmentIs
<1>4. Ended(c, d) = Cardinality(T)
  BY <1>1 DEF Ended
<1>5. \A i \in 1..n : c[i].date <= d <=> i <= Ended(c, d)
  <2>1. \A i \in 1..n : i \in T <=> i <= Cardinality(T)
    <3> HIDE DEF T, n
    <3> QED BY <1>1, <1>3
  <2>2. QED
    BY <1>4, <2>1
<1>6. UpTo(c, d) = SubSeq(c, 1, Ended(c, d))
  BY DEF UpTo, Ended
<1>7. Len(SubSeq(c, 1, Ended(c, d))) = Ended(c, d)
  BY <1>1, <1>3, <1>4, PrefixIs
<1>8. QED
  BY <1>3, <1>4, <1>5, <1>6, <1>7

LEMMA EndedGrows ==
  ASSUME NEW c, Ordered(c), NEW d \in Int, NEW e \in Int, d <= e
  PROVE  Ended(c, d) <= Ended(c, e)
<1>1. /\ Ended(c, d) \in 0..Len(c) /\ Ended(c, e) \in 0..Len(c) /\ Len(c) \in Nat
      /\ \A i \in 1..Len(c) : c[i].date <= d <=> i <= Ended(c, d)
      /\ \A i \in 1..Len(c) : c[i].date <= e <=> i <= Ended(c, e)
  BY EndedIs, OrderedLen
<1>2. \A i \in 1..Len(c) : c[i].date \in Nat
  BY TradeOf
<1>3. CASE Ended(c, d) = 0
  BY <1>1, <1>3
<1>4. CASE Ended(c, d) # 0
  <2>1. Ended(c, d) \in 1..Len(c)
    BY <1>1, <1>4
  <2>2. c[Ended(c, d)].date <= e
    BY <1>1, <1>2, <2>1
  <2>3. QED
    BY <1>1, <2>1, <2>2
<1>5. QED
  BY <1>3, <1>4

\* The trades of a date.
LEMMA OfDateIs ==
  ASSUME NEW c, Ordered(c), NEW d \in Int
  PROVE  /\ OfDate(c, d) = SubSeq(c, Ended(c, d - 1) + 1, Ended(c, d))
         /\ OfDate(c, d) # <<>> <=> Ended(c, d - 1) < Ended(c, d)
         /\ Ended(c, d - 1) < Ended(c, d) =>
              /\ OfDate(c, d)[Len(OfDate(c, d))] = c[Ended(c, d)]
              /\ Ended(c, d) \in 1..Len(c)
<1> DEFINE a == Ended(c, d - 1)
           b == Ended(c, d)
           s == SubSeq(c, a + 1, b)
<1>1. /\ a \in 0..Len(c) /\ b \in 0..Len(c) /\ Len(c) \in Nat
      /\ Len(UpTo(c, d - 1)) = a /\ Len(UpTo(c, d)) = b
  <2>1. d - 1 \in Int
    OBVIOUS
  <2>2. QED
    BY <2>1, EndedIs, OrderedLen
<1>2. OfDate(c, d) = s
  BY <1>1 DEF OfDate
<1> HIDE DEF a, b
<1>3. \A i \in a + 1..b : c[i] \in ClosedTrade
  BY <1>1, TradeOf
<1>4. /\ s \in Seq(ClosedTrade)
      /\ Len(s) = IF a + 1 <= b THEN b - (a + 1) + 1 ELSE 0
      /\ \A i \in 1..b - (a + 1) + 1 : s[i] = c[a + 1 + i - 1]
  <2>1. a + 1 \in Int /\ b \in Int
    BY <1>1
  <2>2. QED
    BY <1>3, <2>1, SubSeqProperties
<1> HIDE DEF s
<1>5. CASE a < b
  <2>1. Len(s) = b - a /\ b - a > 0
    BY <1>1, <1>4, <1>5
  <2>2. s # <<>>
    BY <2>1, EmptySeq
  <2>3. s[Len(s)] = c[b]
    <3>1. b - a \in 1..b - (a + 1) + 1 /\ a + 1 + (b - a) - 1 = b
      BY <1>1, <1>5
    <3>2. QED
      BY <1>4, <2>1, <3>1
  <2>4. b \in 1..Len(c)
    BY <1>1, <1>5
  <2>5. QED
    BY <1>2, <1>5, <2>2, <2>3, <2>4 DEF a, b, s
<1>6. CASE ~(a < b)
  <2>1. Len(s) = 0
    BY <1>1, <1>4, <1>6
  <2>2. s = <<>>
    BY <1>4, <2>1, EmptySeq
  <2>3. QED
    BY <1>2, <1>6, <2>2 DEF a, b, s
<1>7. QED
  BY <1>5, <1>6

\* The day lost more than its share of what the account then held.
DayBroken(c, d) ==
  DailyLossBreached(OfDate(c, d), Bankroll(UpTo(c, d)), LossPercent)

DailyRow(c, d) ==
  [type |-> "daily_loss", date |-> d, at |-> Ended(c, d), trade |-> 0, losses |-> 0,
   blocks |-> TRUE]

\* The rows of the days up to a date.
DailyRowsAre(rows, c, d) ==
  /\ rows \in Seq(Activation)
  /\ \A a \in 1..Len(rows) : \E e \in 1..d : DayBroken(c, e) /\ rows[a] = DailyRow(c, e)
  /\ \A e \in 1..d : DayBroken(c, e) => \E a \in 1..Len(rows) : rows[a] = DailyRow(c, e)
  /\ \A a, b \in 1..Len(rows) : a < b => /\ rows[a].date < rows[b].date
                                         /\ rows[a].at < rows[b].at

LEMMA BrokenTraded ==
  ASSUME NEW c, Ordered(c), NEW d \in Int, DayBroken(c, d)
  PROVE  Ended(c, d - 1) < Ended(c, d)
<1>1. OfDate(c, d) # <<>>
  BY DEF DayBroken, DailyLossBreached
<1>2. QED
  BY <1>1, OfDateIs

\* A date without trades brings no row.
LEMMA DaysIdle ==
  ASSUME NEW c, Ordered(c), NEW rows, NEW d \in Int, NEW e \in Int, d <= e,
         Ended(c, d) = Ended(c, e), DailyRowsAre(rows, c, d)
  PROVE  DailyRowsAre(rows, c, e)
<1>1. ASSUME NEW f \in 1..e, DayBroken(c, f) PROVE f \in 1..d
  <2>1. SUFFICES ASSUME ~(f <= d) PROVE FALSE
    OBVIOUS
  <2>2. f \in Int /\ f - 1 \in Int /\ d <= f - 1 /\ f <= e
    BY <2>1
  <2>3. Ended(c, f - 1) < Ended(c, f)
    BY <1>1, <2>2, BrokenTraded
  <2>4. Ended(c, d) <= Ended(c, f - 1) /\ Ended(c, f) <= Ended(c, e)
    BY <2>2, EndedGrows
  <2>5. Ended(c, f) \in 0..Len(c) /\ Ended(c, f - 1) \in 0..Len(c) /\ Ended(c, d) \in 0..Len(c)
        /\ Len(c) \in Nat
    BY <2>2, EndedIs, OrderedLen
  <2>6. QED
    BY <2>3, <2>4, <2>5
<1>2. \A f \in 1..d : f \in 1..e
  OBVIOUS
<1>3. QED
  BY <1>1, <1>2 DEF DailyRowsAre

\* The row of a date's trades.
LEMMA DailyRowIs ==
  ASSUME NEW c, Ordered(c), NEW d \in Nat, DayBroken(c, d)
  PROVE  /\ DailyRow(c, d) \in Activation
         /\ Last(OfDate(c, d)).at = Ended(c, d)
<1>1. Ended(c, d - 1) < Ended(c, d)
  BY BrokenTraded
<1>2. Last(OfDate(c, d)) = c[Ended(c, d)] /\ Ended(c, d) \in 1..Len(c)
  BY <1>1, OfDateIs DEF Last
<1>3. Ended(c, d) \in Nat
  BY <1>2
<1>4. c[Ended(c, d)].at = Ended(c, d)
  BY <1>2, TradeOf
<1>5. DailyRow(c, d) \in Activation
  BY <1>3 DEF DailyRow, Activation
<1>6. QED
  BY <1>2, <1>4, <1>5

\* The rows with that of the next date.
LEMMA DayRowAdded ==
  ASSUME NEW c, Ordered(c), NEW d \in Nat, NEW s, s.date = d,
         s.today = OfDate(c, d), s.bankroll = Bankroll(UpTo(c, d)),
         DailyRowsAre(s.rows, c, d - 1)
  PROVE  DailyRowsAre(s.rows \o DayRow(s, LossPercent), c, d)
<1> DEFINE rows == s.rows
           m    == Len(rows)
           more == rows \o DayRow(s, LossPercent)
<1>1. rows \in Seq(Activation) /\ m \in Nat
  BY DEF DailyRowsAre
<1>2. DailyLossBreached(s.today, s.bankroll, LossPercent) <=> DayBroken(c, d)
  BY DEF DayBroken
<1>3. CASE ~DayBroken(c, d)
  <2>1. more = rows
    <3>1. DayRow(s, LossPercent) = <<>>
      BY <1>2, <1>3 DEF DayRow
    <3>2. QED
      BY <1>1, <3>1, ConcatEmptySeq
  <2>2. \A e \in 1..d : DayBroken(c, e) => e \in 1..d - 1
    BY <1>3
  <2>3. \A e \in 1..d - 1 : e \in 1..d
    OBVIOUS
  <2> HIDE DEF more
  <2>4. DailyRowsAre(rows, c, d)
    BY <2>2, <2>3 DEF DailyRowsAre
  <2>5. QED
    BY <2>1, <2>4 DEF more
<1>4. CASE DayBroken(c, d)
  <2> DEFINE row == DailyRow(c, d)
  <2>0. d \in 1..d
    <3>1. Ended(c, d - 1) < Ended(c, d) /\ Ended(c, d) \in 0..Len(c) /\ Ended(c, d - 1) \in 0..Len(c)
      <4>1. d \in Int /\ d - 1 \in Int
        OBVIOUS
      <4>2. QED
        BY <1>4, <4>1, BrokenTraded, EndedIs
    <3>2. Ended(c, d) \in 1..Len(c) /\ Len(c) \in Nat
      BY <3>1, OrderedLen
    <3>3. c[Ended(c, d)].date >= 1 /\ c[Ended(c, d)].date <= d /\ c[Ended(c, d)].date \in Nat
      <4>1. c[Ended(c, d)].date >= 1 /\ c[Ended(c, d)].date \in Nat
        BY <3>2, TradeOf
      <4>2. d \in Int
        OBVIOUS
      <4>3. \A i \in 1..Len(c) : c[i].date <= d <=> i <= Ended(c, d)
        BY <4>2, EndedIs
      <4>4. QED
        BY <3>2, <4>1, <4>3
    <3>4. QED
      BY <3>3
  <2>1. /\ DayRow(s, LossPercent) = <<row>> /\ row \in Activation
        /\ row.date = d /\ row.at = Ended(c, d)
    <3>1. Last(s.today).at = Ended(c, d) /\ row \in Activation
      BY <1>4, DailyRowIs
    <3>2. QED
      BY <1>2, <1>4, <3>1 DEF DayRow, DailyRow
  <2>2. /\ more \in Seq(Activation) /\ Len(more) = m + 1
        /\ \A a \in 1..m : more[a] = rows[a]
        /\ more[m + 1] = row
    <3> HIDE DEF row, rows
    <3>1. more = Append(rows, row)
      BY <1>1, <2>1, AppendIsConcat
    <3>2. QED
      BY <1>1, <2>1, <3>1, AppendProperties
  <2>3. \A a \in 1..m : \E e \in 1..d - 1 : DayBroken(c, e) /\ rows[a] = DailyRow(c, e)
    BY DEF DailyRowsAre
  <2>4. \A a \in 1..m : rows[a].date < d /\ rows[a].at < Ended(c, d) /\ rows[a] \in Activation
    <3> TAKE a \in 1..m
    <3>1. PICK e \in 1..d - 1 : DayBroken(c, e) /\ rows[a] = DailyRow(c, e)
      BY <2>3
    <3>2. rows[a].date = e /\ rows[a].at = Ended(c, e)
      BY <3>1 DEF DailyRow
    <3>3. e \in Int /\ d - 1 \in Int /\ d \in Int /\ e <= d - 1
      OBVIOUS
    <3>4. Ended(c, e) <= Ended(c, d - 1) /\ Ended(c, d - 1) < Ended(c, d)
      BY <1>4, <3>3, EndedGrows, BrokenTraded
    <3>5. Ended(c, e) \in 0..Len(c) /\ Ended(c, d - 1) \in 0..Len(c) /\ Ended(c, d) \in 0..Len(c)
          /\ Len(c) \in Nat
      BY <3>3, EndedIs, OrderedLen
    <3>6. rows[a] \in Activation
      BY <1>1, ElementOfSeq
    <3>7. QED
      <4> HIDE DEF rows
      <4> QED BY <3>2, <3>3, <3>4, <3>5, <3>6
  <2> HIDE DEF more, row, m, rows
  <2>5. ASSUME NEW a \in 1..Len(more)
        PROVE  \E e \in 1..d : DayBroken(c, e) /\ more[a] = DailyRow(c, e)
    <3>1. CASE a = m + 1
      BY <1>4, <2>0, <2>2, <3>1 DEF row
    <3>2. CASE a # m + 1
      <4>1. a \in 1..m
        BY <1>1, <2>2, <3>2
      <4>2. PICK e \in 1..d - 1 : DayBroken(c, e) /\ rows[a] = DailyRow(c, e)
        BY <2>3, <4>1
      <4>3. e \in 1..d
        OBVIOUS
      <4>4. QED
        BY <2>2, <4>1, <4>2, <4>3
    <3>3. QED
      BY <3>1, <3>2
  <2>6. ASSUME NEW e \in 1..d, DayBroken(c, e)
        PROVE  \E a \in 1..Len(more) : more[a] = DailyRow(c, e)
    <3>1. CASE e = d
      <4>1. m + 1 \in 1..Len(more)
        BY <1>1, <2>2
      <4>2. QED
        BY <2>2, <3>1, <4>1 DEF row
    <3>2. CASE e # d
      <4>1. e \in 1..d - 1
        BY <3>2
      <4>2. PICK a \in 1..m : rows[a] = DailyRow(c, e)
        BY <2>6, <4>1 DEF DailyRowsAre, rows, m
      <4>3. a \in 1..Len(more) /\ more[a] = rows[a]
        BY <1>1, <2>2
      <4>4. QED
        BY <4>2, <4>3
    <3>3. QED
      BY <3>1, <3>2
  <2>7. ASSUME NEW a \in 1..Len(more), NEW b \in 1..Len(more), a < b
        PROVE  more[a].date < more[b].date /\ more[a].at < more[b].at
    <3>1. a \in 1..m /\ more[a] = rows[a]
      BY <1>1, <2>2, <2>7
    <3>2. CASE b = m + 1
      BY <2>1, <2>2, <2>4, <3>1, <3>2
    <3>3. CASE b # m + 1
      <4>1. b \in 1..m /\ more[b] = rows[b]
        BY <1>1, <2>2, <3>3
      <4>2. QED
        BY <2>7, <3>1, <4>1 DEF DailyRowsAre, rows, m
    <3>4. QED
      BY <3>2, <3>3
  <2>8. QED
    BY <2>2, <2>5, <2>6, <2>7 DEF DailyRowsAre, more, rows
<1>5. QED
  BY <1>3, <1>4

\* What the pass over the days remembers.
DailyState == [date : Nat, today : Seq(ClosedTrade), bankroll : Int, rows : Seq(Activation)]

LEMMA DayStepIs ==
  ASSUME NEW s \in DailyState, NEW t \in ClosedTrade, NEW percent
  PROVE  /\ DayStep(s, t, percent) \in DailyState
         /\ DayStep(s, t, percent).date = t.date
         /\ DayStep(s, t, percent).today = Append(IF t.date # s.date THEN <<>> ELSE s.today, t)
         /\ DayStep(s, t, percent).bankroll = s.bankroll + t.pnl
         /\ DayStep(s, t, percent).rows
              = IF t.date # s.date THEN s.rows \o DayRow(s, percent) ELSE s.rows
<1> DEFINE r == DayStep(s, t, percent)
<1>1. /\ s.date \in Nat /\ s.today \in Seq(ClosedTrade) /\ s.bankroll \in Int
      /\ s.rows \in Seq(Activation)
  BY DEF DailyState
<1>2. t.date \in Nat /\ t.pnl \in Int
  BY DEF ClosedTrade
<1>3. DayRow(s, percent) \in Seq(Activation)
  <2>1. CASE DailyLossBreached(s.today, s.bankroll, percent)
    <3>1. s.today # <<>>
      BY <2>1 DEF DailyLossBreached
    <3>2. Len(s.today) \in 1..Len(s.today)
      <4>1. Len(s.today) \in Nat \ {0}
        BY <1>1, <3>1, EmptySeq
      <4>2. QED
        BY <4>1
    <3>3. Last(s.today) \in ClosedTrade
      <4>1. s.today[Len(s.today)] \in ClosedTrade
        BY <1>1, <3>2, ElementOfSeq
      <4>2. QED
        BY <4>1 DEF Last
    <3> DEFINE row == [type |-> "daily_loss", date |-> s.date, at |-> Last(s.today).at,
                       trade |-> 0, losses |-> 0, blocks |-> TRUE]
    <3>4. row \in Activation
      <4>1. Last(s.today).at \in Nat
        BY <3>3 DEF ClosedTrade
      <4>2. QED
        BY <1>1, <4>1 DEF Activation
    <3>5. DayRow(s, percent) = <<row>>
      BY <2>1 DEF DayRow
    <3>6. QED
      <4> HIDE DEF row
      <4> QED BY <3>4, <3>5
  <2>2. CASE ~DailyLossBreached(s.today, s.bankroll, percent)
    BY <2>2, EmptySeq DEF DayRow
  <2>3. QED
    BY <2>1, <2>2
<1>4. Append(s.today, t) \in Seq(ClosedTrade) /\ Append(<<>>, t) \in Seq(ClosedTrade)
  BY <1>1, EmptySeq, AppendProperties
<1>5. s.rows \o DayRow(s, percent) \in Seq(Activation)
  BY <1>1, <1>3, ConcatProperties
<1> DEFINE rows   == s.rows \o DayRow(s, percent)
           rolled == [s EXCEPT !.rows = rows, !.date = t.date, !.today = <<>>]
<1>6. CASE t.date # s.date
  <2>1. r = [rolled EXCEPT !.bankroll = @ + t.pnl, !.today = Append(@, t)]
    BY <1>6 DEF DayStep
  <2> HIDE DEF rows, r
  <2>2. /\ rolled \in DailyState /\ rolled.date = t.date /\ rolled.today = <<>>
        /\ rolled.bankroll = s.bankroll /\ rolled.rows = rows
    <3>1. rows \in Seq(Activation) /\ <<>> \in Seq(ClosedTrade)
      BY <1>5, EmptySeq DEF rows
    <3>2. QED
      BY <1>2, <3>1 DEF DailyState
  <2> HIDE DEF rolled
  <2>3. /\ r.date = t.date /\ r.today = Append(<<>>, t)
        /\ r.bankroll = s.bankroll + t.pnl /\ r.rows = rows /\ r \in DailyState
    <3> DEFINE b == rolled.bankroll + t.pnl
               q == Append(rolled.today, t)
    <3>1. b \in Int /\ q \in Seq(ClosedTrade)
      BY <1>1, <1>2, <1>4, <2>2
    <3>2. r = [rolled EXCEPT !.bankroll = b, !.today = q]
      BY <2>1
    <3> HIDE DEF b, q
    <3>3. /\ r.date = rolled.date /\ r.today = q /\ r.bankroll = b /\ r.rows = rolled.rows
          /\ r \in DailyState
      BY <2>2, <3>1, <3>2 DEF DailyState
    <3>4. QED
      BY <2>2, <3>3 DEF b, q
  <2>4. QED
    BY <1>6, <2>3 DEF r, rows
<1>7. CASE t.date = s.date
  <2>1. r = [s EXCEPT !.bankroll = @ + t.pnl, !.today = Append(@, t)]
    BY <1>7 DEF DayStep
  <2> HIDE DEF r
  <2>2. /\ r.date = s.date /\ r.today = Append(s.today, t)
        /\ r.bankroll = s.bankroll + t.pnl /\ r.rows = s.rows /\ r \in DailyState
    <3> DEFINE b == s.bankroll + t.pnl
               q == Append(s.today, t)
    <3>1. b \in Int /\ q \in Seq(ClosedTrade)
      BY <1>1, <1>2, <1>4
    <3>2. r = [s EXCEPT !.bankroll = b, !.today = q]
      BY <2>1
    <3> HIDE DEF b, q
    <3>3. /\ r.date = s.date /\ r.today = q /\ r.bankroll = b /\ r.rows = s.rows
          /\ r \in DailyState
      BY <3>1, <3>2 DEF DailyState
    <3>4. QED
      BY <3>3 DEF b, q
  <2>3. QED
    BY <1>7, <2>2 DEF r
<1>8. QED
  BY <1>6, <1>7

\* The pass is a fold, too, and goes trade by trade.
DailyStart == [date |-> 0, today |-> <<>>, bankroll |-> StartBankroll, rows |-> <<>>]

DaysTo(g, c) ==
  g = [T \in SUBSET DOMAIN c |->
         IF T = {} THEN DailyStart
         ELSE DayStep(g[T \ {Max(T)}], c[Max(T)], LossPercent)]

LEMMA DailyPassDef ==
  ASSUME NEW c, NEW last, last = (CHOOSE g : DaysTo(g, c))[DOMAIN c]
  PROVE  DailyPass(c, LossPercent, StartBankroll) = last.rows \o DayRow(last, LossPercent)
BY DEF DailyPass, DaysTo, DailyStart, FoldLeft, MapThenFoldSet

DaysGo(h, c) ==
  /\ h[0] = DailyStart
  /\ \A k \in 1..Len(c) : h[k] = DayStep(h[k - 1], c[k], LossPercent)
  /\ DailyPass(c, LossPercent, StartBankroll)
       = h[Len(c)].rows \o DayRow(h[Len(c)], LossPercent)

LEMMA DaysRun ==
  ASSUME NEW c, Ordered(c)
  PROVE  \E h : DaysGo(h, c)
<1> DEFINE n == Len(c)
           op == [p \in (1..n) \X DailyState |-> DayStep(p[2], c[p[1]], LossPercent)]
<1>1. n \in Nat /\ DOMAIN c = 1..n /\ \A i \in 1..n : c[i] \in ClosedTrade
  BY OrderedLen, TradeOf
<1>2. DailyStart \in DailyState
  BY EmptySeq, AccountAssumption DEF DailyStart, DailyState
<1>3. /\ op \in [(1..n) \X DailyState -> DailyState]
      /\ \A i \in 1..n, s \in DailyState : op[<<i, s>>] = DayStep(s, c[i], LossPercent)
  <2> HIDE DEF n
  <2>1. \A p \in (1..n) \X DailyState : DayStep(p[2], c[p[1]], LossPercent) \in DailyState
    BY <1>1, DayStepIs
  <2>2. QED
    BY <2>1
<1> HIDE DEF n, op
<1>4. PICK f : LeftTo(f, n, op, DailyStart) /\ \A T \in SUBSET (1..n) : f[T] \in DailyState
  BY <1>1, <1>2, <1>3, LeftExists
<1>5. DaysTo(f, c)
  <2>1. ASSUME NEW T \in SUBSET (1..n), T # {}
        PROVE  op[<<Max(T), f[T \ {Max(T)}]>>] = DayStep(f[T \ {Max(T)}], c[Max(T)], LossPercent)
    <3>1. Max(T) \in T
      BY <1>1, <2>1, LastIs
    <3>2. f[T \ {Max(T)}] \in DailyState
      BY <1>4
    <3>3. QED
      BY <1>3, <3>1, <3>2
  <2>2. [T \in SUBSET (1..n) |-> IF T = {} THEN DailyStart ELSE op[<<Max(T), f[T \ {Max(T)}]>>]]
          = [T \in SUBSET (1..n) |->
               IF T = {} THEN DailyStart ELSE DayStep(f[T \ {Max(T)}], c[Max(T)], LossPercent)]
    BY <2>1
  <2>3. QED
    BY <1>1, <1>4, <2>2 DEF LeftTo, DaysTo
<1>6. PICK g : /\ DaysTo(g, c)
               /\ DailyPass(c, LossPercent, StartBankroll)
                    = g[1..n].rows \o DayRow(g[1..n], LossPercent)
  <2> DEFINE g == CHOOSE k : DaysTo(k, c)
  <2>1. DaysTo(g, c)
    BY <1>5
  <2>2. DailyPass(c, LossPercent, StartBankroll)
          = g[DOMAIN c].rows \o DayRow(g[DOMAIN c], LossPercent)
    BY DailyPassDef
  <2> HIDE DEF g
  <2>3. QED
    BY <1>1, <2>1, <2>2
<1> DEFINE h == [k \in 0..n |-> g[1..k]]
<1>7. h[0] = DailyStart
  <2>1. 1..0 = {} /\ {} \in SUBSET (1..n) /\ 0 \in 0..n
    BY <1>1
  <2>2. g[{}] = DailyStart
    BY <1>1, <1>6 DEF DaysTo
  <2>3. QED
    BY <2>1, <2>2
<1>8. ASSUME NEW k \in 1..n PROVE h[k] = DayStep(h[k - 1], c[k], LossPercent)
  <2>1. 1..k \in SUBSET (1..n) /\ 1..k # {} /\ Max(1..k) = k /\ (1..k) \ {k} = 1..(k - 1)
    BY <1>1, LastRemoved
  <2>2. g[1..k] = DayStep(g[1..(k - 1)], c[k], LossPercent)
    BY <1>1, <1>6, <2>1 DEF DaysTo
  <2>3. k \in 0..n /\ k - 1 \in 0..n
    BY <1>1
  <2>4. QED
    BY <2>2, <2>3
<1>9. h[n] = g[1..n]
  BY <1>1
<1>10. QED
  <2> HIDE DEF h
  <2> QED BY <1>6, <1>7, <1>8, <1>9 DEF n, DaysGo

---------------------------------------------------------------------------
\* The account after k trades: the date of the last, the trades of it so far,
\* and the rows of the dates before.
DailyInv(s, c, k) ==
  /\ s \in DailyState
  /\ s.date = IF k = 0 THEN 0 ELSE c[k].date
  /\ s.today = SubSeq(c, Ended(c, s.date - 1) + 1, k)
  /\ s.bankroll = Bankroll(SubSeq(c, 1, k))
  /\ DailyRowsAre(s.rows, c, s.date - 1)

\* When the date is over its row is added.
LEMMA DayFinished ==
  ASSUME NEW c, Ordered(c), NEW k \in 0..Len(c), NEW s, DailyInv(s, c, k),
         Ended(c, s.date) = k
  PROVE  DailyRowsAre(s.rows \o DayRow(s, LossPercent), c, s.date)
<1>1. s.date \in Nat /\ s.date \in Int
  BY DEF DailyInv, DailyState
<1>2. s.today = OfDate(c, s.date)
  BY <1>1, OfDateIs DEF DailyInv
<1>3. s.bankroll = Bankroll(UpTo(c, s.date))
  BY <1>1, EndedIs DEF DailyInv
<1>4. QED
  BY <1>1, <1>2, <1>3, DayRowAdded DEF DailyInv

LEMMA DaysStart ==
  ASSUME NEW c, Ordered(c) PROVE DailyInv(DailyStart, c, 0)
<1>1. DailyStart \in DailyState
  BY EmptySeq, AccountAssumption DEF DailyStart, DailyState
<1>2. Len(c) \in Nat /\ SubSeq(c, 1, 0) = <<>>
  BY OrderedLen, SubSeqEmpty
<1>3. Bankroll(SubSeq(c, 1, 0)) = StartBankroll
  <2>1. PnL(<<>>) = 0
    BY PnLGrows DEF Ordered
  <2>2. Bankroll(<<>>) = StartBankroll
    BY <2>1, AccountAssumption DEF Bankroll
  <2>3. QED
    BY <1>2, <2>2
<1>4. SubSeq(c, Ended(c, -1) + 1, 0) = <<>>
  <2>1. Ended(c, -1) \in 0..Len(c)
    BY EndedIs
  <2>2. 0 < Ended(c, -1) + 1 /\ Ended(c, -1) + 1 \in Int
    BY <1>2, <2>1
  <2>3. QED
    BY <2>2, SubSeqEmpty
<1>5. DailyRowsAre(<<>>, c, -1)
  <2>1. <<>> \in Seq(Activation) /\ Len(<<>>) = 0
    BY EmptySeq
  <2>2. 1..0 = {} /\ 1..(-1) = {}
    OBVIOUS
  <2>3. QED
    BY <2>1, <2>2 DEF DailyRowsAre
<1>6. 0 - 1 = -1
  OBVIOUS
<1>7. QED
  BY <1>1, <1>3, <1>4, <1>5, <1>6 DEF DailyInv, DailyStart

LEMMA DayStepKeeps ==
  ASSUME NEW c, Ordered(c), NEW k \in 0..Len(c) - 1, NEW s, DailyInv(s, c, k)
  PROVE  DailyInv(DayStep(s, c[k + 1], LossPercent), c, k + 1)
<1> DEFINE t == c[k + 1]
           r == DayStep(s, t, LossPercent)
           n == Len(c)
<1>1. n \in Nat /\ k + 1 \in 1..n /\ k \in 0..n /\ k + 1 - 1 = k /\ c \in Seq(ClosedTrade)
  BY OrderedLen DEF Ordered
<1>2. t \in ClosedTrade /\ t.date \in Nat /\ t.date >= 1 /\ t.pnl \in Int
  BY <1>1, TradeOf
<1>3. s \in DailyState /\ s.date \in Nat /\ s.today = SubSeq(c, Ended(c, s.date - 1) + 1, k)
  BY DEF DailyInv, DailyState
<1>4. /\ r \in DailyState
      /\ r.date = t.date
      /\ r.today = Append(IF t.date # s.date THEN <<>> ELSE s.today, t)
      /\ r.bankroll = s.bankroll + t.pnl
      /\ r.rows = IF t.date # s.date THEN s.rows \o DayRow(s, LossPercent) ELSE s.rows
  BY <1>2, <1>3, DayStepIs
<1> HIDE DEF r
<1>5. r.bankroll = Bankroll(SubSeq(c, 1, k + 1))
  <2>1. /\ PnL(SubSeq(c, 1, k + 1)) = PnL(SubSeq(c, 1, k)) + t.pnl
        /\ PnL(SubSeq(c, 1, k)) \in Int
    BY <1>1, PnLGrows
  <2>2. s.bankroll = StartBankroll + PnL(SubSeq(c, 1, k))
    BY DEF DailyInv, Bankroll
  <2>3. QED
    <3> HIDE DEF t
    <3> QED BY <1>2, <1>4, <2>1, <2>2, AccountAssumption DEF Bankroll
<1>6. k # 0 => /\ s.date = c[k].date /\ s.date <= t.date
               /\ k \in 1..n
  BY <1>1 DEF Ordered, DailyInv
<1>7. t.date - 1 \in Int /\ s.date - 1 \in Int /\ t.date \in Int /\ s.date \in Int
  BY <1>2, <1>3
<1>8. ASSUME NEW d \in Int
      PROVE  /\ Ended(c, d) \in 0..n
             /\ k # 0 => (s.date <= d <=> k <= Ended(c, d))
             /\ t.date <= d <=> k + 1 <= Ended(c, d)
  <2>1. Ended(c, d) \in 0..n /\ \A i \in 1..n : c[i].date <= d <=> i <= Ended(c, d)
    BY EndedIs
  <2>2. QED
    BY <1>1, <1>6, <2>1
<1>9. CASE t.date # s.date
  <2>1. Ended(c, s.date) = k
    <3> DEFINE e == Ended(c, s.date)
    <3>1. /\ e \in 0..n
          /\ k # 0 => (s.date <= s.date <=> k <= e)
          /\ t.date <= s.date <=> k + 1 <= e
      BY <1>7, <1>8
    <3> HIDE DEF e, t
    <3>2. k = 0 => s.date = 0
      BY DEF DailyInv
    <3>3. ~(t.date <= s.date)
      BY <1>2, <1>3, <1>6, <1>9, <3>2
    <3>4. e = k
      BY <1>1, <1>3, <3>1, <3>3
    <3>5. QED
      BY <3>4 DEF e
  <2>2. s.date <= t.date - 1
    <3>1. CASE k = 0
      <4>1. s.date = 0
        BY <3>1 DEF DailyInv
      <4>2. QED
        <5> HIDE DEF t
        <5> QED BY <1>2, <4>1
    <3>2. CASE k # 0
      <4> HIDE DEF t
      <4> QED BY <1>2, <1>3, <1>6, <1>9, <3>2
    <3>3. QED
      BY <3>1, <3>2
  <2>3. Ended(c, t.date - 1) = k
    <3> DEFINE e == Ended(c, t.date - 1)
    <3>1. /\ e \in 0..n
          /\ k # 0 => (s.date <= t.date - 1 <=> k <= e)
          /\ t.date <= t.date - 1 <=> k + 1 <= e
      BY <1>7, <1>8
    <3> HIDE DEF e, t
    <3>2. ~(t.date <= t.date - 1)
      BY <1>2
    <3>3. e = k
      BY <1>1, <2>2, <3>1, <3>2
    <3>4. QED
      BY <3>3 DEF e
  <2>4. DailyRowsAre(r.rows, c, t.date - 1)
    <3>1. DailyRowsAre(s.rows \o DayRow(s, LossPercent), c, s.date)
      BY <1>1, <2>1, DayFinished
    <3>2. QED
      <4> HIDE DEF t
      <4> QED BY <1>4, <1>7, <1>9, <2>1, <2>2, <2>3, <3>1, DaysIdle
  <2>5. r.today = SubSeq(c, k + 1, k + 1)
    <3>1. r.today = <<t>>
      BY <1>4, <1>9
    <3>2. SubSeq(c, k + 1, k + 1) = <<t>>
      <4> DEFINE u == SubSeq(c, k + 1, k + 1)
      <4>1. k + 1 \in Int /\ \A i \in k + 1..k + 1 : c[i] \in ClosedTrade
        BY <1>1, <1>2
      <4>2. /\ u \in Seq(ClosedTrade)
            /\ Len(u) = IF k + 1 <= k + 1 THEN k + 1 - (k + 1) + 1 ELSE 0
            /\ \A i \in 1..k + 1 - (k + 1) + 1 : u[i] = c[k + 1 + i - 1]
        BY <4>1, SubSeqProperties
      <4> HIDE DEF u
      <4>3. Len(u) = 1 /\ u[1] = t
        <5>1. /\ k + 1 <= k + 1 /\ k + 1 - (k + 1) + 1 = 1 /\ 1 \in 1..1
              /\ k + 1 + 1 - 1 = k + 1
          BY <1>1
        <5>2. Len(u) = 1
          BY <4>2, <5>1
        <5>3. u[1] = c[k + 1]
          BY <4>2, <5>1
        <5>4. QED
          BY <5>2, <5>3
      <4>4. <<t>> \in Seq(ClosedTrade) /\ Len(<<t>>) = 1 /\ <<t>>[1] = t
        <5> HIDE DEF t
        <5> QED BY <1>2
      <4>5. \A i \in 1..Len(u) : u[i] = <<t>>[i]
        <5> HIDE DEF t
        <5> QED BY <4>3, <4>4
      <4>6. u = <<t>>
        <5> HIDE DEF t
        <5> QED BY <4>2, <4>3, <4>4, <4>5, SeqEqual
      <4>7. QED
        BY <4>6 DEF u
    <3>3. QED
      BY <3>1, <3>2
  <2>6. k + 1 # 0
    BY <1>1
  <2>7. DailyInv(r, c, k + 1)
    BY <1>4, <1>5, <2>3, <2>4, <2>5, <2>6 DEF DailyInv
  <2>8. QED
    BY <2>7 DEF r
<1>10. CASE t.date = s.date
  <2>1. k # 0
    <3>1. k = 0 => s.date = 0
      BY DEF DailyInv
    <3>2. QED
      BY <1>2, <1>10, <3>1
  <2> DEFINE a == Ended(c, s.date - 1)
  <2>2. a \in 0..k - 1
    <3>1. ~(s.date <= s.date - 1)
      BY <1>3
    <3>2. a \in 0..n /\ (s.date <= s.date - 1 <=> k <= a)
      BY <1>7, <1>8, <2>1
    <3> HIDE DEF a
    <3>3. QED
      BY <1>1, <3>1, <3>2
  <2> HIDE DEF a
  <2>3. r.today = SubSeq(c, a + 1, k + 1)
    <3>1. r.today = Append(SubSeq(c, a + 1, k), t)
      BY <1>3, <1>4, <1>10 DEF a
    <3>2. a + 1 \in 1..n /\ k + 1 \in a + 1..n /\ a + 1 \in Int /\ k \in Int
      BY <1>1, <2>2
    <3>3. SubSeq(c, a + 1, k + 1) = SubSeq(c, a + 1, k) \o <<t>>
      <4> DEFINE p == a + 1
                 q == k + 1
      <4> HIDE DEF p, q
      <4>1. p \in 1..Len(c) /\ q \in p..Len(c)
        BY <3>2 DEF p, q
      <4>2. SubSeq(c, p, q) = SubSeq(c, p, q - 1) \o <<c[q]>>
        BY <1>1, <4>1, SubSeqRecursiveSecond
      <4>3. q - 1 = k /\ c[q] = t
        BY <1>1 DEF q
      <4>4. QED
        BY <4>2, <4>3 DEF p, q
    <3>4. SubSeq(c, a + 1, k) \in Seq(ClosedTrade)
      <4>1. \A i \in a + 1..k : c[i] \in ClosedTrade
        BY <1>1, <2>2, TradeOf
      <4>2. QED
        BY <3>2, <4>1, SubSeqProperties
    <3>5. Append(SubSeq(c, a + 1, k), t) = SubSeq(c, a + 1, k) \o <<t>>
      BY <1>2, <3>4, AppendIsConcat
    <3>6. QED
      BY <1>1, <3>1, <3>3, <3>5
  <2>4. r.rows = s.rows /\ r.date = s.date
    BY <1>4, <1>10
  <2>5. DailyRowsAre(r.rows, c, r.date - 1)
    BY <2>4 DEF DailyInv
  <2>6. k + 1 # 0
    BY <1>1
  <2>7. r.today = SubSeq(c, Ended(c, r.date - 1) + 1, k + 1)
    BY <2>3, <2>4 DEF a
  <2>8. DailyInv(r, c, k + 1)
    BY <1>4, <1>5, <2>5, <2>6, <2>7 DEF DailyInv
  <2>9. QED
    BY <2>8 DEF r
<1>11. QED
  BY <1>9, <1>10

\* The pass has one row for each day that lost too much.
LEMMA DailyPassExact ==
  ASSUME NEW c, Ordered(c), NEW last \in Nat, \A i \in 1..Len(c) : c[i].date <= last
  PROVE  DailyRowsAre(DailyPass(c, LossPercent, StartBankroll), c, last)
<1> DEFINE n == Len(c)
<1>1. n \in Nat
  BY OrderedLen
<1>2. PICK h : /\ h[0] = DailyStart
               /\ \A k \in 1..n : h[k] = DayStep(h[k - 1], c[k], LossPercent)
               /\ DailyPass(c, LossPercent, StartBankroll)
                    = h[n].rows \o DayRow(h[n], LossPercent)
  BY DaysRun DEF DaysGo
<1> DEFINE P == {k \in 0..n : DailyInv(h[k], c, k)}
<1>3. 0 \in P
  BY <1>1, <1>2, DaysStart
<1>4. ASSUME NEW k \in 0..n - 1, k \in P PROVE k + 1 \in P
  <2>1. k + 1 \in 1..n /\ k + 1 \in 0..n /\ k + 1 - 1 = k
    BY <1>1
  <2>2. h[k + 1] = DayStep(h[k], c[k + 1], LossPercent)
    BY <1>2, <2>1
  <2>3. DailyInv(h[k], c, k)
    BY <1>4
  <2>4. DailyInv(h[k + 1], c, k + 1)
    BY <2>2, <2>3, DayStepKeeps
  <2>5. QED
    BY <2>1, <2>4
<1>5. n \in P
  <2> HIDE DEF P
  <2>1. \A k \in 0..n : k \in P
    BY <1>1, <1>3, <1>4, IntervalInduction
  <2>2. QED
    BY <1>1, <2>1
<1> DEFINE s == h[n]
           d == s.date
<1>6. DailyInv(s, c, n) /\ d \in Nat
  BY <1>5 DEF DailyInv, DailyState
<1>7. d <= last /\ Ended(c, d) = n /\ Ended(c, last) = n
  <2>1. CASE n = 0
    <3>1. d = 0 /\ Ended(c, d) \in 0..n /\ Ended(c, last) \in 0..n
      BY <1>6, <2>1, EndedIs DEF DailyInv
    <3>2. QED
      BY <2>1, <3>1
  <2>2. CASE n # 0
    <3>1. n \in 1..n /\ d = c[n].date
      BY <1>1, <1>6, <2>2 DEF DailyInv
    <3>2. /\ Ended(c, d) \in 0..n /\ Ended(c, last) \in 0..n
          /\ \A i \in 1..n : c[i].date <= d <=> i <= Ended(c, d)
          /\ \A i \in 1..n : c[i].date <= last <=> i <= Ended(c, last)
      <4>1. d \in Int /\ last \in Int
        BY <1>6
      <4> HIDE DEF d
      <4>2. QED
        BY <4>1, EndedIs
    <3> HIDE DEF n, d
    <3>3. QED
      BY <1>1, <1>6, <3>1, <3>2 DEF n
  <2>3. QED
    BY <2>1, <2>2
<1>8. DailyRowsAre(s.rows \o DayRow(s, LossPercent), c, d)
  <2>1. n \in 0..Len(c)
    BY <1>1
  <2>2. QED
    BY <1>6, <1>7, <2>1, DayFinished
<1>9. d \in Int /\ last \in Int /\ Ended(c, d) = Ended(c, last)
  BY <1>6, <1>7
<1>10. QED
  <2> DEFINE rows == s.rows \o DayRow(s, LossPercent)
  <2>1. DailyRowsAre(rows, c, last)
    <3> HIDE DEF rows, d
    <3>1. DailyRowsAre(rows, c, d)
      BY <1>8 DEF rows
    <3>2. QED
      BY <1>7, <1>9, <3>1, DaysIdle
  <2>2. QED
    BY <1>2, <2>1

---------------------------------------------------------------------------
(* Loss breakers: the report                                               *)

\* The ranks of the numbers up to n in a total order of them.
NotAfter(B, n, i) == {j \in 1..n : <<j, i>> \in B}

LEMMA RanksAre ==
  ASSUME NEW n \in Nat, NEW B,
         \A i \in 1..n : <<i, i>> \in B,
         \A i, j \in 1..n : <<i, j>> \in B \/ <<j, i>> \in B,
         \A i, j \in 1..n : <<i, j>> \in B /\ <<j, i>> \in B => i = j,
         \A i, j, k \in 1..n : <<i, j>> \in B /\ <<j, k>> \in B => <<i, k>> \in B
  PROVE  /\ \A i, j \in 1..n : Cardinality(NotAfter(B, n, i)) = Cardinality(NotAfter(B, n, j)) => i = j
         /\ \A k \in 1..n : \E i \in 1..n : Cardinality(NotAfter(B, n, i)) = k
         /\ \A i, j \in 1..n : Cardinality(NotAfter(B, n, i)) < Cardinality(NotAfter(B, n, j))
                                 => <<i, j>> \in B
<1>1. IsFiniteSet(1..n) /\ Cardinality(1..n) = n
  BY FS_Interval
<1>2. ASSUME NEW i \in 1..n
      PROVE  /\ i \in NotAfter(B, n, i) /\ IsFiniteSet(NotAfter(B, n, i))
             /\ Cardinality(NotAfter(B, n, i)) \in 1..n
  <2> DEFINE S == NotAfter(B, n, i)
  <2>1. i \in S /\ S \in SUBSET (1..n)
    BY DEF NotAfter
  <2> HIDE DEF S
  <2>2. IsFiniteSet(S) /\ Cardinality(S) <= n /\ Cardinality(S) \in Nat
    <3>1. IsFiniteSet(S) /\ Cardinality(S) <= Cardinality(1..n)
      BY <1>1, <2>1, FS_Subset
    <3>2. Cardinality(S) \in Nat
      BY <3>1, FS_CardinalityType
    <3>3. QED
      BY <1>1, <3>1, <3>2
  <2>3. Cardinality(S) # 0
    BY <2>1, <2>2, FS_EmptySet
  <2>4. QED
    BY <2>1, <2>2, <2>3 DEF S
<1>3. ASSUME NEW i \in 1..n, NEW j \in 1..n, <<i, j>> \in B, i # j
      PROVE  Cardinality(NotAfter(B, n, i)) < Cardinality(NotAfter(B, n, j))
  <2> DEFINE S == NotAfter(B, n, i)
             T == NotAfter(B, n, j)
  <2>1. <<j, i>> \notin B
    BY <1>3
  <2>2. S \in SUBSET (T \ {j})
    BY <1>3, <2>1 DEF NotAfter
  <2>3. j \in T /\ IsFiniteSet(T) /\ Cardinality(T) \in 1..n /\ Cardinality(S) \in 1..n
    BY <1>2
  <2> HIDE DEF S, T
  <2>4. IsFiniteSet(T \ {j}) /\ Cardinality(T \ {j}) = Cardinality(T) - 1
    BY <2>3, FS_RemoveElement
  <2>5. Cardinality(S) <= Cardinality(T) - 1
    BY <2>2, <2>4, FS_Subset
  <2>6. Cardinality(S) < Cardinality(T)
    BY <2>3, <2>5
  <2>7. QED
    BY <2>6 DEF S, T
<1> DEFINE f == [i \in 1..n |-> Cardinality(NotAfter(B, n, i))]
<1>4. f \in [1..n -> 1..n] /\ \A i \in 1..n : f[i] = Cardinality(NotAfter(B, n, i))
  BY <1>2
<1> HIDE DEF f
<1>5. \A i, j \in 1..n : f[i] = f[j] => i = j
  <2> SUFFICES ASSUME NEW i \in 1..n, NEW j \in 1..n, f[i] = f[j], i # j PROVE FALSE
    OBVIOUS
  <2>1. f[i] < f[j] \/ f[j] < f[i]
    <3>1. <<i, j>> \in B => f[i] < f[j]
      BY <1>3, <1>4
    <3>2. <<j, i>> \in B => f[j] < f[i]
      BY <1>3, <1>4
    <3>3. QED
      BY <3>1, <3>2
  <2>2. f[i] \in Int /\ f[j] \in Int
    BY <1>4
  <2>3. QED
    BY <2>1, <2>2
<1>6. f \in Surjection(1..n, 1..n)
  <2>1. f \in Injection(1..n, 1..n)
    BY <1>4, <1>5 DEF Injection, IsInjective
  <2>2. QED
    BY <1>1, <2>1, FS_Injection
<1>7. \A k \in 1..n : \E i \in 1..n : f[i] = k
  BY <1>6 DEF Surjection
<1>8. ASSUME NEW i \in 1..n, NEW j \in 1..n, f[i] < f[j] PROVE <<i, j>> \in B
  <2>1. SUFFICES ASSUME <<i, j>> \notin B PROVE FALSE
    OBVIOUS
  <2>2. <<j, i>> \in B /\ i # j
    BY <2>1
  <2>3. f[j] < f[i]
    BY <1>3, <1>4, <2>2
  <2>4. f[i] \in Int /\ f[j] \in Int
    BY <1>4
  <2>5. QED
    BY <1>8, <2>3, <2>4
<1>9. QED
  BY <1>4, <1>5, <1>7, <1>8

\* Sorting moves the rows and orders them.
LEMMA SortedIs ==
  ASSUME NEW rows \in Seq(Activation)
  PROVE  /\ Sorted(rows) \in Seq(Activation)
         /\ Len(Sorted(rows)) = Len(rows)
         /\ \E p \in [1..Len(rows) -> 1..Len(rows)] :
              /\ \A k \in 1..Len(rows) : Sorted(rows)[k] = rows[p[k]]
              /\ \A i \in 1..Len(rows) : \E k \in 1..Len(rows) : p[k] = i
              /\ \A k, l \in 1..Len(rows) : p[k] = p[l] => k = l
              /\ \A k, l \in 1..Len(rows) : k < l => rows[p[k]].at <= rows[p[l]].at
<1> DEFINE n == Len(rows)
           B == {q \in (1..n) \X (1..n) :
                   rows[q[1]].at < rows[q[2]].at
                   \/ (rows[q[1]].at = rows[q[2]].at /\ q[1] <= q[2])}
           s == Sorted(rows)
<1>1. n \in Nat /\ DOMAIN rows = 1..n /\ \A i \in 1..n : rows[i] \in Activation /\ rows[i].at \in Nat
  <2>1. \A i \in 1..n : rows[i] \in Activation
    BY ElementOfSeq
  <2>2. \A i \in 1..n : rows[i].at \in Nat
    BY <2>1 DEF Activation
  <2>3. QED
    BY <2>1, <2>2
<1>2. \A i, j \in 1..n : <<i, j>> \in B <=>
        rows[i].at < rows[j].at \/ (rows[i].at = rows[j].at /\ i <= j)
  OBVIOUS
<1> HIDE DEF B, n
<1>3. /\ \A i, j \in 1..n : Cardinality(NotAfter(B, n, i)) = Cardinality(NotAfter(B, n, j)) => i = j
      /\ \A k \in 1..n : \E i \in 1..n : Cardinality(NotAfter(B, n, i)) = k
      /\ \A i, j \in 1..n : Cardinality(NotAfter(B, n, i)) < Cardinality(NotAfter(B, n, j))
                              => <<i, j>> \in B
  <2>1. \A i \in 1..n : <<i, i>> \in B
    BY <1>1, <1>2
  <2>2. ASSUME NEW i \in 1..n, NEW j \in 1..n
        PROVE  <<i, j>> \in B \/ <<j, i>> \in B
    <3>1. i \in Int /\ j \in Int /\ rows[i].at \in Int /\ rows[j].at \in Int
      BY <1>1
    <3>2. \/ rows[i].at < rows[j].at \/ (rows[i].at = rows[j].at /\ i <= j)
          \/ rows[j].at < rows[i].at \/ (rows[j].at = rows[i].at /\ j <= i)
      BY <3>1
    <3>3. QED
      BY <1>2, <3>2
  <2>3. \A i, j \in 1..n : <<i, j>> \in B /\ <<j, i>> \in B => i = j
    BY <1>1, <1>2
  <2>4. \A i, j, k \in 1..n : <<i, j>> \in B /\ <<j, k>> \in B => <<i, k>> \in B
    <3> SUFFICES ASSUME NEW i \in 1..n, NEW j \in 1..n, NEW k \in 1..n,
                        <<i, j>> \in B, <<j, k>> \in B
                 PROVE  <<i, k>> \in B
      OBVIOUS
    <3>1. i \in Int /\ j \in Int /\ k \in Int /\ rows[i].at \in Int /\ rows[j].at \in Int
          /\ rows[k].at \in Int
      BY <1>1
    <3>2. /\ rows[i].at < rows[j].at \/ (rows[i].at = rows[j].at /\ i <= j)
          /\ rows[j].at < rows[k].at \/ (rows[j].at = rows[k].at /\ j <= k)
      BY <1>2
    <3>3. rows[i].at < rows[k].at \/ (rows[i].at = rows[k].at /\ i <= k)
      BY <3>1, <3>2
    <3>4. QED
      BY <1>2, <3>3
  <2>5. QED
    BY <1>1, <2>1, <2>2, <2>3, <2>4, RanksAre
<1> DEFINE r == [i \in 1..n |-> Cardinality(NotAfter(B, n, i))]
           p == [k \in 1..n |-> CHOOSE i \in 1..n : r[i] = k]
<1>4. s = [k \in 1..n |-> rows[p[k]]]
  <2>1. ASSUME NEW i \in 1..n
        PROVE  {j \in 1..n : rows[j].at < rows[i].at \/ (rows[j].at = rows[i].at /\ j <= i)}
                 = NotAfter(B, n, i)
    BY <1>2 DEF NotAfter
  <2> DEFINE R(i) == Cardinality({j \in 1..n : rows[j].at < rows[i].at
                                               \/ (rows[j].at = rows[i].at /\ j <= i)})
  <2>2. \A i \in 1..n : R(i) = r[i]
    BY <2>1
  <2>3. s = [k \in 1..n |-> rows[CHOOSE i \in 1..n : R(i) = k]]
    BY <1>1 DEF Sorted
  <2> HIDE DEF R, r
  <2> DEFINE C(k) == CHOOSE i \in 1..n : R(i) = k
  <2>4. ASSUME NEW k \in 1..n
        PROVE  C(k) = p[k]
    <3>1. \A i : (i \in 1..n /\ R(i) = k) <=> (i \in 1..n /\ r[i] = k)
      BY <2>2
    <3>2. (CHOOSE i : i \in 1..n /\ R(i) = k) = (CHOOSE i : i \in 1..n /\ r[i] = k)
      BY <3>1
    <3>3. QED
      BY <3>2
  <2>5. s = [k \in 1..n |-> rows[C(k)]]
    BY <2>3
  <2> HIDE DEF C, p, s
  <2>6. QED
    BY <2>4, <2>5
<1>5. \A i \in 1..n : r[i] = Cardinality(NotAfter(B, n, i))
  OBVIOUS
<1> HIDE DEF r
<1>6. \A k \in 1..n : p[k] \in 1..n /\ r[p[k]] = k
  BY <1>3, <1>5
<1>7. p \in [1..n -> 1..n]
  <2>1. p = [k \in 1..n |-> p[k]]
    OBVIOUS
  <2> HIDE DEF p
  <2>2. QED
    BY <1>6, <2>1
<1> HIDE DEF p, s
<1>8. \A i \in 1..n : \E k \in 1..n : p[k] = i
  <2> TAKE i \in 1..n
  <2>1. r[i] \in 1..n
    <3>1. IsFiniteSet(1..n) /\ Cardinality(1..n) = n
      BY <1>1, FS_Interval
    <3>2. NotAfter(B, n, i) \in SUBSET (1..n) /\ i \in NotAfter(B, n, i)
      BY <1>1, <1>2 DEF NotAfter
    <3>3. IsFiniteSet(NotAfter(B, n, i)) /\ Cardinality(NotAfter(B, n, i)) <= n
          /\ Cardinality(NotAfter(B, n, i)) \in Nat
      BY <3>1, <3>2, FS_Subset, FS_CardinalityType
    <3>4. Cardinality(NotAfter(B, n, i)) # 0
      BY <3>2, <3>3, FS_EmptySet
    <3>5. QED
      BY <1>1, <1>5, <3>3, <3>4
  <2>2. r[p[r[i]]] = r[i] /\ p[r[i]] \in 1..n
    BY <1>6, <2>1
  <2>3. p[r[i]] = i
    BY <1>3, <1>5, <2>2
  <2>4. QED
    BY <2>1, <2>3
<1>9. \A k, l \in 1..n : p[k] = p[l] => k = l
  BY <1>6
<1>10. ASSUME NEW k \in 1..n, NEW l \in 1..n, k < l
       PROVE  rows[p[k]].at <= rows[p[l]].at
  <2>1. <<p[k], p[l]>> \in B
    <3>1. p[k] \in 1..n /\ p[l] \in 1..n /\ r[p[k]] < r[p[l]]
      BY <1>6, <1>10
    <3>2. QED
      BY <1>3, <1>5, <3>1
  <2>2. rows[p[k]].at < rows[p[l]].at \/ rows[p[k]].at = rows[p[l]].at
    BY <1>2, <1>6, <2>1
  <2>3. rows[p[k]].at \in Nat /\ rows[p[l]].at \in Nat
    BY <1>1, <1>6
  <2>4. QED
    BY <2>2, <2>3
<1>11. s \in Seq(Activation) /\ Len(s) = n /\ \A k \in 1..n : s[k] = rows[p[k]]
  <2>1. s \in [1..n -> Activation]
    BY <1>1, <1>4, <1>6
  <2>2. s \in Seq(Activation)
    BY <1>1, <2>1, SeqDef
  <2>3. DOMAIN s = 1..n /\ DOMAIN s = 1..Len(s) /\ Len(s) \in Nat
    BY <2>1, <2>2, LenProperties
  <2>4. QED
    BY <1>1, <1>4, <2>2, <2>3
<1>12. QED
  BY <1>7, <1>8, <1>9, <1>10, <1>11 DEF n, s

\* Rows of one date and type; only the first is kept.
SameDay(x, y) == x.date = y.date /\ x.type = y.type

Kept(kept, row) ==
  IF \E i \in 1..Len(kept) : kept[i].date = row.date /\ kept[i].type = row.type
  THEN kept ELSE Append(kept, row)

\* Dropping is a fold over the rows.
KeptTo(g, rows) ==
  g = [T \in SUBSET DOMAIN rows |->
         IF T = {} THEN <<>> ELSE Kept(g[T \ {Max(T)}], rows[Max(T)])]

LEMMA DedupedDef ==
  ASSUME NEW rows
  PROVE  Deduped(rows) = (CHOOSE g : KeptTo(g, rows))[DOMAIN rows]
BY DEF Deduped, KeptTo, Kept, FoldLeft, MapThenFoldSet

KeepsGo(h, rows) ==
  /\ h[0] = <<>>
  /\ \A k \in 1..Len(rows) : h[k] = Kept(h[k - 1], rows[k])
  /\ Deduped(rows) = h[Len(rows)]

LEMMA KeptType ==
  ASSUME NEW kept \in Seq(Activation), NEW row \in Activation
  PROVE  Kept(kept, row) \in Seq(Activation)
<1>1. Append(kept, row) \in Seq(Activation)
  BY AppendProperties
<1>2. QED
  BY <1>1 DEF Kept

LEMMA KeepsRun ==
  ASSUME NEW rows \in Seq(Activation)
  PROVE  \E h : KeepsGo(h, rows)
<1> DEFINE n == Len(rows)
           X == Seq(Activation)
           op == [p \in (1..n) \X X |-> Kept(p[2], rows[p[1]])]
<1>1. n \in Nat /\ DOMAIN rows = 1..n /\ \A i \in 1..n : rows[i] \in Activation
  BY ElementOfSeq
<1>2. <<>> \in X
  BY EmptySeq
<1>3. /\ op \in [(1..n) \X X -> X]
      /\ \A i \in 1..n, s \in X : op[<<i, s>>] = Kept(s, rows[i])
  <2>1. \A p \in (1..n) \X X : Kept(p[2], rows[p[1]]) \in X
    <3> HIDE DEF n
    <3> QED BY <1>1, KeptType
  <2> HIDE DEF n, X
  <2>2. QED
    BY <2>1
<1> HIDE DEF n, op, X
<1>4. PICK f : LeftTo(f, n, op, <<>>) /\ \A T \in SUBSET (1..n) : f[T] \in X
  BY <1>1, <1>2, <1>3, LeftExists
<1>5. KeptTo(f, rows)
  <2>1. ASSUME NEW T \in SUBSET (1..n), T # {}
        PROVE  op[<<Max(T), f[T \ {Max(T)}]>>] = Kept(f[T \ {Max(T)}], rows[Max(T)])
    <3>1. Max(T) \in T
      BY <1>1, <2>1, LastIs
    <3>2. f[T \ {Max(T)}] \in X
      BY <1>4
    <3>3. QED
      BY <1>3, <3>1, <3>2
  <2>2. [T \in SUBSET (1..n) |-> IF T = {} THEN <<>> ELSE op[<<Max(T), f[T \ {Max(T)}]>>]]
          = [T \in SUBSET (1..n) |->
               IF T = {} THEN <<>> ELSE Kept(f[T \ {Max(T)}], rows[Max(T)])]
    BY <2>1
  <2>3. QED
    BY <1>1, <1>4, <2>2 DEF LeftTo, KeptTo
<1>6. PICK g : KeptTo(g, rows) /\ Deduped(rows) = g[1..n]
  BY <1>1, <1>5, DedupedDef
<1> DEFINE h == [k \in 0..n |-> g[1..k]]
<1>7. h[0] = <<>>
  <2>1. 1..0 = {} /\ {} \in SUBSET (1..n) /\ 0 \in 0..n
    BY <1>1
  <2>2. g[{}] = <<>>
    BY <1>1, <1>6 DEF KeptTo
  <2>3. QED
    BY <2>1, <2>2
<1>8. ASSUME NEW k \in 1..n PROVE h[k] = Kept(h[k - 1], rows[k])
  <2>1. 1..k \in SUBSET (1..n) /\ 1..k # {} /\ Max(1..k) = k /\ (1..k) \ {k} = 1..(k - 1)
    BY <1>1, LastRemoved
  <2>2. g[1..k] = Kept(g[1..(k - 1)], rows[k])
    BY <1>1, <1>6, <2>1 DEF KeptTo
  <2>3. k \in 0..n /\ k - 1 \in 0..n
    BY <1>1
  <2>4. QED
    BY <2>2, <2>3
<1>9. Deduped(rows) = h[n]
  BY <1>1, <1>6
<1>10. QED
  <2> HIDE DEF h
  <2> QED BY <1>7, <1>8, <1>9 DEF n, KeepsGo

\* What is kept of the first k rows.
KeptOf(kept, rows, k) ==
  /\ kept \in Seq(Activation)
  /\ \A a \in 1..Len(kept) : \E i \in 1..k : kept[a] = rows[i]
  /\ \A i \in 1..k : \E a \in 1..Len(kept) : SameDay(kept[a], rows[i])
  /\ \A a, b \in 1..Len(kept) : SameDay(kept[a], kept[b]) => a = b

LEMMA KeptGrows ==
  ASSUME NEW rows \in Seq(Activation), NEW k \in 0..Len(rows) - 1, NEW kept,
         KeptOf(kept, rows, k)
  PROVE  KeptOf(Kept(kept, rows[k + 1]), rows, k + 1)
<1> DEFINE row == rows[k + 1]
           m   == Len(kept)
           more == Append(kept, row)
<1>1. /\ k + 1 \in 1..Len(rows) /\ \A i \in 1..k : i \in 1..k + 1
      /\ \A i \in 1..k + 1 : i \in 1..k \/ i = k + 1
      /\ k + 1 \in 1..k + 1
  OBVIOUS
<1>2. row \in Activation /\ kept \in Seq(Activation) /\ m \in Nat
  BY <1>1, ElementOfSeq DEF KeptOf
<1>3. CASE \E i \in 1..m : SameDay(kept[i], row)
  <2>1. Kept(kept, row) = kept
    BY <1>3 DEF Kept, SameDay
  <2>2. KeptOf(kept, rows, k + 1)
    <3> HIDE DEF m
    <3> QED BY <1>1, <1>3 DEF KeptOf, m
  <2>3. QED
    BY <2>1, <2>2
<1>4. CASE ~ \E i \in 1..m : SameDay(kept[i], row)
  <2>1. Kept(kept, row) = more
    BY <1>4 DEF Kept, SameDay
  <2>2. /\ more \in Seq(Activation) /\ Len(more) = m + 1
        /\ \A a \in 1..m : more[a] = kept[a]
        /\ more[m + 1] = row
    <3> HIDE DEF row
    <3> QED BY <1>2, AppendProperties
  <2> HIDE DEF more, m
  <2>3. \A a \in 1..Len(more) : a \in 1..m \/ a = m + 1
    BY <1>2, <2>2
  <2>4. \A a \in 1..Len(more) : \E i \in 1..k + 1 : more[a] = rows[i]
    BY <1>1, <2>2, <2>3 DEF KeptOf, m
  <2>5. ASSUME NEW i \in 1..k + 1
        PROVE  \E a \in 1..Len(more) : SameDay(more[a], rows[i])
    <3>1. CASE i = k + 1
      <4>1. m + 1 \in 1..Len(more)
        BY <1>2, <2>2
      <4>2. QED
        BY <2>2, <3>1, <4>1 DEF SameDay
    <3>2. CASE i \in 1..k
      <4>1. PICK a \in 1..m : SameDay(kept[a], rows[i])
        BY <3>2 DEF KeptOf, m
      <4>2. a \in 1..Len(more) /\ more[a] = kept[a]
        BY <1>2, <2>2
      <4>3. QED
        BY <4>1, <4>2
    <3>3. QED
      BY <1>1, <3>1, <3>2
  <2>6. ASSUME NEW a \in 1..Len(more), NEW b \in 1..Len(more), SameDay(more[a], more[b])
        PROVE  a = b
    <3>1. CASE a \in 1..m /\ b \in 1..m
      BY <2>2, <2>6, <3>1 DEF KeptOf, m
    <3>2. CASE a \in 1..m /\ b = m + 1
      BY <1>4, <2>2, <2>6, <3>2
    <3>3. CASE a = m + 1 /\ b \in 1..m
      <4>1. SameDay(kept[b], row)
        BY <2>2, <2>6, <3>3 DEF SameDay
      <4>2. QED
        BY <1>4, <3>3, <4>1
    <3>4. CASE a = m + 1 /\ b = m + 1
      BY <3>4
    <3>5. QED
      BY <2>3, <3>1, <3>2, <3>3, <3>4
  <2>7. KeptOf(more, rows, k + 1)
    BY <2>2, <2>4, <2>5, <2>6 DEF KeptOf
  <2>8. QED
    BY <2>1, <2>7
<1>5. QED
  BY <1>3, <1>4

LEMMA DedupedIs ==
  ASSUME NEW rows \in Seq(Activation)
  PROVE  KeptOf(Deduped(rows), rows, Len(rows))
<1> DEFINE n == Len(rows)
<1>1. n \in Nat
  OBVIOUS
<1>2. PICK h : KeepsGo(h, rows)
  BY KeepsRun
<1> DEFINE P == {k \in 0..n : KeptOf(h[k], rows, k)}
<1>3. 0 \in P
  <2>1. h[0] = <<>> /\ <<>> \in Seq(Activation) /\ Len(<<>>) = 0 /\ 1..0 = {}
    BY <1>2, EmptySeq DEF KeepsGo
  <2>2. KeptOf(h[0], rows, 0)
    BY <2>1 DEF KeptOf
  <2>3. QED
    BY <1>1, <2>2
<1>4. ASSUME NEW k \in 0..n - 1, k \in P PROVE k + 1 \in P
  <2>1. k + 1 \in 1..n /\ k + 1 \in 0..n /\ k + 1 - 1 = k
    BY <1>1
  <2>2. h[k + 1] = Kept(h[k], rows[k + 1])
    BY <1>2, <2>1 DEF KeepsGo
  <2>3. KeptOf(h[k], rows, k)
    BY <1>4
  <2>4. KeptOf(h[k + 1], rows, k + 1)
    BY <2>2, <2>3, KeptGrows
  <2>5. QED
    BY <2>1, <2>4
<1>5. n \in P
  <2> HIDE DEF P
  <2>1. \A k \in 0..n : k \in P
    BY <1>1, <1>3, <1>4, IntervalInduction
  <2>2. QED
    BY <1>1, <2>1
<1>6. QED
  BY <1>2, <1>5 DEF KeepsGo

\* Rows told twice are kept once.
LEMMA DedupedTwice ==
  ASSUME NEW rows \in Seq(Activation)
  PROVE  Deduped(rows \o rows) = Deduped(rows)
<1> DEFINE n == Len(rows)
           twice == rows \o rows
<1>1. /\ n \in Nat /\ twice \in Seq(Activation) /\ Len(twice) = n + n
      /\ \A i \in 1..n : twice[i] = rows[i] /\ twice[n + i] = rows[i]
  <2>1. /\ twice \in Seq(Activation) /\ Len(twice) = n + n
        /\ \A i \in 1..n + n : twice[i] = IF i <= n THEN rows[i] ELSE rows[i - n]
    BY ConcatProperties
  <2> HIDE DEF twice
  <2>2. \A i \in 1..n : i \in 1..n + n /\ n + i \in 1..n + n /\ ~(n + i <= n) /\ n + i - n = i
    OBVIOUS
  <2>3. n \in Nat /\ \A i \in 1..n : i <= n
    OBVIOUS
  <2> HIDE DEF n
  <2>4. \A i \in 1..n : twice[i] = rows[i] /\ twice[n + i] = rows[i]
    BY <2>1, <2>2, <2>3
  <2>5. QED
    BY <2>1, <2>3, <2>4
<1>2. PICK h : KeepsGo(h, rows)
  BY KeepsRun
<1>3. PICK t : KeepsGo(t, twice)
  BY <1>1, KeepsRun
<1> HIDE DEF twice
<1> DEFINE P == {k \in 0..n : t[k] = h[k]}
           Q == {k \in 0..n : t[n + k] = h[n]}
<1>4. \A k \in 0..n : k \in P
  <2>1. 0 \in P
    BY <1>1, <1>2, <1>3 DEF KeepsGo
  <2>2. ASSUME NEW k \in 0..n - 1, k \in P PROVE k + 1 \in P
    <3>1. k + 1 \in 1..n /\ k + 1 \in 0..n /\ k + 1 - 1 = k /\ k + 1 \in 1..Len(twice)
      BY <1>1
    <3>2. h[k + 1] = Kept(h[k], rows[k + 1]) /\ t[k + 1] = Kept(t[k], twice[k + 1])
      BY <1>2, <1>3, <3>1 DEF KeepsGo
    <3>3. QED
      BY <1>1, <2>2, <3>1, <3>2
  <2> HIDE DEF P
  <2>3. QED
    BY <1>1, <2>1, <2>2, IntervalInduction
<1>5. Deduped(rows) = h[n] /\ KeptOf(h[n], rows, n)
  BY <1>2, DedupedIs DEF KeepsGo
<1>6. \A k \in 0..n : k \in Q
  <2>1. 0 \in Q
    <3>1. n \in P /\ n + 0 = n /\ 0 \in 0..n
      BY <1>1, <1>4
    <3>2. QED
      BY <3>1
  <2>2. ASSUME NEW k \in 0..n - 1, k \in Q PROVE k + 1 \in Q
    <3>1. /\ k + 1 \in 1..n /\ k + 1 \in 0..n /\ n + k + 1 \in 1..Len(twice)
          /\ n + k + 1 - 1 = n + k /\ n + (k + 1) = n + k + 1
      BY <1>1
    <3>2. t[n + k + 1] = Kept(t[n + k], twice[n + k + 1])
      BY <1>3, <3>1 DEF KeepsGo
    <3>3. twice[n + k + 1] = rows[k + 1]
      BY <1>1, <3>1
    <3>4. Kept(h[n], rows[k + 1]) = h[n]
      <4>1. PICK a \in 1..Len(h[n]) : SameDay(h[n][a], rows[k + 1])
        BY <1>5, <3>1 DEF KeptOf
      <4>2. QED
        BY <4>1 DEF Kept, SameDay
    <3>5. t[n + (k + 1)] = h[n]
      BY <2>2, <3>1, <3>2, <3>3, <3>4
    <3>6. QED
      BY <3>1, <3>5
  <2> HIDE DEF Q
  <2>3. QED
    BY <1>1, <2>1, <2>2, IntervalInduction
<1>7. t[n + n] = h[n]
  <2>1. n \in Q
    BY <1>1, <1>6
  <2>2. QED
    BY <2>1
<1>8. QED
  BY <1>1, <1>3, <1>5, <1>7 DEF KeepsGo, twice

\* Rows of a type that differ in their dates are as many as these.
LEMMA OfTypeIs ==
  ASSUME NEW rows \in Seq(Activation), NEW type
  PROVE  /\ OfType(rows, type) \in Nat
         /\ OfType(rows, type) > 0 <=> \E i \in 1..Len(rows) : rows[i].type = type
         /\ (\A i, j \in 1..Len(rows) : rows[i].type = type /\ SameDay(rows[i], rows[j]) => i = j)
              => OfType(rows, type)
                   = Cardinality({rows[i].date : i \in {k \in 1..Len(rows) : rows[k].type = type}})
<1> DEFINE n == Len(rows)
           I == {i \in 1..n : rows[i].type = type}
           D == {rows[i].date : i \in I}
           f == [i \in I |-> rows[i].date]
<1>1. n \in Nat /\ DOMAIN rows = 1..n
  OBVIOUS
<1>2. IsFiniteSet(I)
  <2>1. IsFiniteSet(1..n) /\ I \in SUBSET (1..n)
    BY <1>1, FS_Interval
  <2> HIDE DEF I, n
  <2>2. QED
    BY <2>1, FS_Subset
<1>3. OfType(rows, type) = Cardinality(I)
  BY <1>1 DEF OfType
<1>4. Cardinality(I) \in Nat /\ (Cardinality(I) > 0 <=> I # {})
  <2> HIDE DEF I
  <2>1. Cardinality(I) \in Nat /\ (Cardinality(I) = 0 <=> I = {})
    BY <1>2, FS_CardinalityType, FS_EmptySet
  <2>2. QED
    BY <2>1
<1>5. ASSUME \A i, j \in 1..n : rows[i].type = type /\ SameDay(rows[i], rows[j]) => i = j
      PROVE  Cardinality(I) = Cardinality(D)
  <2>1. f \in Surjection(I, D)
    BY DEF Surjection
  <2>2. \A i, j \in I : f[i] = f[j] => i = j
    BY <1>5 DEF SameDay
  <2>3. f \in [I -> D] /\ DOMAIN f = I
    OBVIOUS
  <2> HIDE DEF f, D, I
  <2>4. f \in Injection(I, D)
    BY <2>2, <2>3 DEF Injection, IsInjective
  <2>5. QED
    BY <1>2, <2>1, <2>4, FS_Surjection
<1>6. QED
  BY <1>3, <1>4, <1>5

\* Dropping duplicated rows loses nothing.
LEMMA DroppedRows ==
  ASSUME NEW rows \in Seq(Activation),
         \A i, j \in 1..Len(rows) : rows[i].type = "daily_loss" /\ SameDay(rows[i], rows[j]) => i = j
  PROVE  DuplicatesDropped(rows)
<1> DEFINE kept == Deduped(rows \o rows)
<1>1. kept = Deduped(rows)
  BY DedupedTwice
<1>2. KeptOf(kept, rows, Len(rows))
  BY <1>1, DedupedIs
<1> HIDE DEF kept
<1>3. /\ kept \in Seq(Activation) /\ DOMAIN kept = 1..Len(kept) /\ DOMAIN rows = 1..Len(rows)
      /\ \A i \in 1..Len(kept) : kept[i] \in Activation
      /\ \A i \in 1..Len(rows) : rows[i] \in Activation
  BY <1>2, ElementOfSeq, LenProperties DEF KeptOf
<1>4. /\ \A a \in 1..Len(kept) : \E i \in 1..Len(rows) : kept[a] = rows[i]
      /\ \A i \in 1..Len(rows) : \E a \in 1..Len(kept) : SameDay(kept[a], rows[i])
  BY <1>2 DEF KeptOf
<1>5. Summary(kept).halts = Summary(rows).halts
  <2>1. {row.date : row \in {r \in Range(kept) : r.blocks}}
          = {row.date : row \in {r \in Range(rows) : r.blocks}}
    <3>1. /\ \A r \in Range(kept) : \E a \in 1..Len(kept) : r = kept[a]
          /\ \A r \in Range(rows) : \E i \in 1..Len(rows) : r = rows[i]
          /\ \A a \in 1..Len(kept) : kept[a] \in Range(kept) /\ kept[a].blocks = TRUE
          /\ \A i \in 1..Len(rows) : rows[i] \in Range(rows) /\ rows[i].blocks = TRUE
      BY <1>3 DEF Range, Activation
    <3>2. ASSUME NEW r \in Range(kept) PROVE \E q \in Range(rows) : q.blocks /\ q.date = r.date
      <4>1. PICK a \in 1..Len(kept) : r = kept[a]
        BY <3>1
      <4>2. PICK i \in 1..Len(rows) : kept[a] = rows[i]
        BY <1>4
      <4>3. rows[i] \in Range(rows) /\ rows[i].blocks = TRUE /\ rows[i].date = r.date
        BY <3>1, <4>1, <4>2
      <4>4. QED
        BY <4>3
    <3>3. ASSUME NEW r \in Range(rows) PROVE \E q \in Range(kept) : q.blocks /\ q.date = r.date
      <4>1. PICK i \in 1..Len(rows) : r = rows[i]
        BY <3>1
      <4>2. PICK a \in 1..Len(kept) : SameDay(kept[a], rows[i])
        BY <1>4
      <4>3. kept[a].date = r.date /\ kept[a].blocks /\ kept[a] \in Range(kept)
        BY <3>1, <4>1, <4>2 DEF SameDay
      <4>4. QED
        BY <4>3
    <3>4. QED
      BY <3>2, <3>3
  <2>2. QED
    BY <2>1 DEF Summary
<1>6. OfType(kept, "daily_loss") = OfType(rows, "daily_loss")
  <2> DEFINE D(s) == {s[i].date : i \in {k \in 1..Len(s) : s[k].type = "daily_loss"}}
  <2>1. OfType(kept, "daily_loss") = Cardinality(D(kept))
    <3>1. \A i, j \in 1..Len(kept) :
            kept[i].type = "daily_loss" /\ SameDay(kept[i], kept[j]) => i = j
      BY <1>2 DEF KeptOf
    <3>2. QED
      BY <1>3, <3>1, OfTypeIs
  <2>2. OfType(rows, "daily_loss") = Cardinality(D(rows))
    BY OfTypeIs
  <2>3. D(kept) = D(rows)
    <3>1. ASSUME NEW d \in D(kept) PROVE d \in D(rows)
      BY <1>4
    <3>2. ASSUME NEW d \in D(rows) PROVE d \in D(kept)
      <4>1. PICK i \in 1..Len(rows) : rows[i].type = "daily_loss" /\ d = rows[i].date
        OBVIOUS
      <4>2. PICK a \in 1..Len(kept) : SameDay(kept[a], rows[i])
        BY <1>4
      <4>3. kept[a].type = "daily_loss" /\ kept[a].date = d
        BY <4>1, <4>2 DEF SameDay
      <4>4. QED
        BY <4>3
    <3>3. QED
      BY <3>1, <3>2
  <2>4. QED
    BY <2>1, <2>2, <2>3
<1>7. OfType(kept, "consecutive_loss") > 0 <=> OfType(rows, "consecutive_loss") > 0
  <2>1. (\E i \in 1..Len(kept) : kept[i].type = "consecutive_loss")
          <=> (\E i \in 1..Len(rows) : rows[i].type = "consecutive_loss")
    <3>1. ASSUME NEW i \in 1..Len(rows), rows[i].type = "consecutive_loss"
          PROVE  \E a \in 1..Len(kept) : kept[a].type = "consecutive_loss"
      <4>1. PICK a \in 1..Len(kept) : SameDay(kept[a], rows[i])
        BY <1>4
      <4>2. QED
        BY <3>1, <4>1 DEF SameDay
    <3>2. ASSUME NEW a \in 1..Len(kept), kept[a].type = "consecutive_loss"
          PROVE  \E i \in 1..Len(rows) : rows[i].type = "consecutive_loss"
      BY <1>4, <3>2
    <3>3. QED
      BY <3>1, <3>2
  <2>2. QED
    BY <1>3, <2>1, OfTypeIs
<1>8. QED
  BY <1>1, <1>5, <1>6, <1>7 DEF DuplicatesDropped, Summary, kept

\* The rows of a report, in some order.
ReportIs(rows, c, limit, last) ==
  /\ rows \in Seq(Activation)
  /\ \A a \in 1..Len(rows) :
       \/ \E i \in 1..Len(c) : LossRun(c, i) = limit /\ rows[a] = StreakRow(c, i, limit)
       \/ \E d \in 1..last : DayBroken(c, d) /\ rows[a] = DailyRow(c, d)
  /\ \A i \in 1..Len(c) : LossRun(c, i) = limit =>
       \E a \in 1..Len(rows) : rows[a] = StreakRow(c, i, limit)
  /\ \A d \in 1..last : DayBroken(c, d) => \E a \in 1..Len(rows) : rows[a] = DailyRow(c, d)
  /\ \A a, b \in 1..Len(rows) : rows[a] = rows[b] => a = b
  /\ \A a, b \in 1..Len(rows) :
       rows[a].type = "daily_loss" /\ SameDay(rows[a], rows[b]) => a = b

LEMMA BothPasses ==
  ASSUME NEW c, Ordered(c), NEW limit \in Nat \ {0}, NEW last \in Nat,
         NEW S, StreakRowsAre(S, c, Len(c), limit), NEW D, DailyRowsAre(D, c, last)
  PROVE  ReportIs(S \o D, c, limit, last)
<1> DEFINE rows == S \o D
           m == Len(S)
           n == Len(D)
<1>1. /\ S \in Seq(Activation) /\ D \in Seq(Activation) /\ m \in Nat /\ n \in Nat
      /\ \A a \in 1..m : S[a] \in Activation
      /\ \A b \in 1..n : D[b] \in Activation
  <2>1. S \in Seq(Activation) /\ D \in Seq(Activation)
    BY DEF StreakRowsAre, DailyRowsAre
  <2>2. QED
    BY <2>1, ElementOfSeq, LenProperties
<1>2. /\ rows \in Seq(Activation) /\ Len(rows) = m + n
      /\ \A a \in 1..m + n : rows[a] = IF a <= m THEN S[a] ELSE D[a - m]
  BY <1>1, ConcatProperties
<1>3. /\ \A a \in 1..m : \E i \in 1..Len(c) : LossRun(c, i) = limit /\ S[a] = StreakRow(c, i, limit)
      /\ \A i \in 1..Len(c) : LossRun(c, i) = limit =>
           \E a \in 1..m : S[a] = StreakRow(c, i, limit)
      /\ \A a, b \in 1..m : a < b => S[a].at < S[b].at
  BY DEF StreakRowsAre
<1>4. /\ \A a \in 1..n : \E d \in 1..last : DayBroken(c, d) /\ D[a] = DailyRow(c, d)
      /\ \A d \in 1..last : DayBroken(c, d) => \E a \in 1..n : D[a] = DailyRow(c, d)
      /\ \A a, b \in 1..n : a < b => D[a].date < D[b].date
  BY DEF DailyRowsAre
<1> HIDE DEF rows, m, n
<1>5. /\ \A a \in 1..m : a \in 1..m + n /\ rows[a] = S[a] /\ S[a].type = "consecutive_loss"
      /\ \A b \in 1..n : m + b \in 1..m + n /\ rows[m + b] = D[b] /\ D[b].type = "daily_loss"
  <2>1. \A a \in 1..m : a \in 1..m + n /\ rows[a] = S[a]
    BY <1>1, <1>2
  <2>2. \A b \in 1..n : m + b \in 1..m + n /\ rows[m + b] = D[b]
    <3> TAKE b \in 1..n
    <3> DEFINE x == m + b
    <3>1. x \in 1..m + n /\ ~(x <= m) /\ x - m = b
      BY <1>1
    <3> HIDE DEF x
    <3>2. rows[x] = IF x <= m THEN S[x] ELSE D[x - m]
      BY <1>2, <3>1
    <3>3. rows[x] = D[b]
      BY <3>1, <3>2
    <3>4. QED
      BY <3>1, <3>3 DEF x
  <2>3. ASSUME NEW a \in 1..m PROVE S[a].type = "consecutive_loss"
    <3>1. PICK i \in 1..Len(c) : LossRun(c, i) = limit /\ S[a] = StreakRow(c, i, limit)
      BY <1>3
    <3>2. QED
      BY <3>1 DEF StreakRow
  <2>4. ASSUME NEW b \in 1..n PROVE D[b].type = "daily_loss"
    <3>1. PICK d \in 1..last : DayBroken(c, d) /\ D[b] = DailyRow(c, d)
      BY <1>4
    <3>2. QED
      BY <3>1 DEF DailyRow
  <2>5. QED
    BY <2>1, <2>2, <2>3, <2>4
<1>6. \A a \in 1..m + n : a \in 1..m \/ \E b \in 1..n : a = m + b
  <2> TAKE a \in 1..m + n
  <2>1. ~(a <= m) => a - m \in 1..n /\ a = m + (a - m)
    BY <1>1
  <2>2. a <= m => a \in 1..m
    BY <1>1
  <2>3. QED
    BY <2>1, <2>2
<1>7. ASSUME NEW a \in 1..m + n
      PROVE  \/ \E i \in 1..Len(c) : LossRun(c, i) = limit /\ rows[a] = StreakRow(c, i, limit)
             \/ \E d \in 1..last : DayBroken(c, d) /\ rows[a] = DailyRow(c, d)
  <2>1. CASE a \in 1..m
    BY <1>3, <1>5, <2>1
  <2>2. ASSUME NEW b \in 1..n, a = m + b
        PROVE  \E d \in 1..last : DayBroken(c, d) /\ rows[a] = DailyRow(c, d)
    BY <1>4, <1>5, <2>2
  <2>3. QED
    BY <1>6, <2>1, <2>2
<1>8. \A a, b \in 1..m : S[a].at = S[b].at => a = b
  <2> SUFFICES ASSUME NEW a \in 1..m, NEW b \in 1..m, S[a].at = S[b].at, a # b PROVE FALSE
    OBVIOUS
  <2>1. a < b \/ b < a
    BY <1>1
  <2>2. S[a].at \in Nat /\ S[b].at \in Nat
    BY <1>1 DEF Activation
  <2>3. \A x, y \in 1..m : x < y => S[x].at < S[y].at
    BY <1>3
  <2>4. S[a].at < S[b].at \/ S[b].at < S[a].at
    BY <2>1, <2>3
  <2>5. QED
    BY <2>2, <2>4
<1>9. \A a, b \in 1..n : D[a].date = D[b].date => a = b
  <2> SUFFICES ASSUME NEW a \in 1..n, NEW b \in 1..n, D[a].date = D[b].date, a # b PROVE FALSE
    OBVIOUS
  <2>1. a < b \/ b < a
    BY <1>1
  <2>2. D[a].date \in Nat /\ D[b].date \in Nat
    BY <1>1 DEF Activation
  <2>3. \A x, y \in 1..n : x < y => D[x].date < D[y].date
    BY <1>4
  <2>4. D[a].date < D[b].date \/ D[b].date < D[a].date
    BY <2>1, <2>3
  <2>5. QED
    BY <2>2, <2>4
<1>10. ASSUME NEW a \in 1..m + n, NEW b \in 1..m + n, rows[a].type = "daily_loss",
              SameDay(rows[a], rows[b])
       PROVE  a = b
  <2>1. rows[b].type = "daily_loss" /\ rows[a].date = rows[b].date
    BY <1>10 DEF SameDay
  <2>2. PICK x \in 1..n : a = m + x
    BY <1>5, <1>6, <1>10
  <2>3. PICK y \in 1..n : b = m + y
    BY <1>5, <1>6, <2>1
  <2>4. D[x].date = D[y].date
    BY <1>5, <2>1, <2>2, <2>3
  <2>5. QED
    BY <1>9, <2>2, <2>3, <2>4
<1>11. ASSUME NEW a \in 1..m + n, NEW b \in 1..m + n, rows[a] = rows[b]
       PROVE  a = b
  <2>1. CASE a \in 1..m
    <3>1. b \in 1..m
      <4>1. rows[b].type = "consecutive_loss"
        BY <1>5, <1>11, <2>1
      <4>2. \A y \in 1..n : b # m + y
        BY <1>5, <4>1
      <4>3. QED
        BY <1>6, <4>2
    <3>2. S[a] = S[b]
      BY <1>5, <1>11, <2>1, <3>1
    <3>3. QED
      BY <1>8, <2>1, <3>1, <3>2
  <2>2. CASE a \notin 1..m
    <3>1. rows[a].type = "daily_loss"
      BY <1>5, <1>6, <2>2
    <3>2. SameDay(rows[a], rows[b])
      BY <1>11 DEF SameDay
    <3>3. QED
      BY <1>10, <3>1, <3>2
  <2>3. QED
    BY <2>1, <2>2
<1>12. /\ \A i \in 1..Len(c) : LossRun(c, i) = limit =>
            \E a \in 1..m + n : rows[a] = StreakRow(c, i, limit)
       /\ \A d \in 1..last : DayBroken(c, d) => \E a \in 1..m + n : rows[a] = DailyRow(c, d)
  <2>1. ASSUME NEW i \in 1..Len(c), LossRun(c, i) = limit
        PROVE  \E a \in 1..m + n : rows[a] = StreakRow(c, i, limit)
    <3>1. PICK a \in 1..m : S[a] = StreakRow(c, i, limit)
      BY <1>3, <2>1
    <3>2. a \in 1..m + n /\ rows[a] = S[a]
      BY <1>5
    <3>3. QED
      BY <3>1, <3>2
  <2>2. ASSUME NEW d \in 1..last, DayBroken(c, d)
        PROVE  \E a \in 1..m + n : rows[a] = DailyRow(c, d)
    <3>1. PICK b \in 1..n : D[b] = DailyRow(c, d)
      BY <1>4, <2>2
    <3>2. m + b \in 1..m + n /\ rows[m + b] = D[b]
      BY <1>5
    <3>3. QED
      BY <3>1, <3>2
  <2>3. QED
    BY <2>1, <2>2
<1>13. ReportIs(rows, c, limit, last)
  <2>1. /\ \A a, b \in 1..m + n : rows[a] = rows[b] => a = b
        /\ \A a, b \in 1..m + n :
             rows[a].type = "daily_loss" /\ SameDay(rows[a], rows[b]) => a = b
    BY <1>10, <1>11
  <2>2. QED
    BY <1>2, <1>7, <1>12, <2>1 DEF ReportIs
<1>14. QED
  BY <1>13 DEF rows

LEMMA SortedReport ==
  ASSUME NEW c, NEW limit, NEW last, NEW rows, ReportIs(rows, c, limit, last)
  PROVE  /\ ReportIs(Sorted(rows), c, limit, last)
         /\ \A a, b \in 1..Len(Sorted(rows)) : a < b => Sorted(rows)[a].at <= Sorted(rows)[b].at
<1> DEFINE s == Sorted(rows)
           n == Len(rows)
<1>1. rows \in Seq(Activation)
  BY DEF ReportIs
<1>2. s \in Seq(Activation) /\ Len(s) = n
  BY <1>1, SortedIs
<1>3. PICK p \in [1..n -> 1..n] :
        /\ \A k \in 1..n : s[k] = rows[p[k]]
        /\ \A i \in 1..n : \E k \in 1..n : p[k] = i
        /\ \A k, l \in 1..n : p[k] = p[l] => k = l
        /\ \A k, l \in 1..n : k < l => rows[p[k]].at <= rows[p[l]].at
  BY <1>1, SortedIs
<1> HIDE DEF s, n
<1>4. \A k \in 1..n : p[k] \in 1..n
  OBVIOUS
<1>5. /\ \A a \in 1..n :
            \/ \E i \in 1..Len(c) : LossRun(c, i) = limit /\ rows[a] = StreakRow(c, i, limit)
            \/ \E d \in 1..last : DayBroken(c, d) /\ rows[a] = DailyRow(c, d)
      /\ \A i \in 1..Len(c) : LossRun(c, i) = limit =>
            \E a \in 1..n : rows[a] = StreakRow(c, i, limit)
      /\ \A d \in 1..last : DayBroken(c, d) => \E a \in 1..n : rows[a] = DailyRow(c, d)
      /\ \A a, b \in 1..n : rows[a] = rows[b] => a = b
      /\ \A a, b \in 1..n : rows[a].type = "daily_loss" /\ SameDay(rows[a], rows[b]) => a = b
  BY DEF ReportIs, n
<1>6. \A a \in 1..n :
            \/ \E i \in 1..Len(c) : LossRun(c, i) = limit /\ s[a] = StreakRow(c, i, limit)
            \/ \E d \in 1..last : DayBroken(c, d) /\ s[a] = DailyRow(c, d)
  <2> TAKE a \in 1..n
  <2>1. s[a] = rows[p[a]] /\ p[a] \in 1..n
    BY <1>3, <1>4
  <2>2. \/ \E i \in 1..Len(c) : LossRun(c, i) = limit /\ rows[p[a]] = StreakRow(c, i, limit)
        \/ \E d \in 1..last : DayBroken(c, d) /\ rows[p[a]] = DailyRow(c, d)
    BY <1>5, <2>1
  <2>3. QED
    BY <2>1, <2>2
<1>7. ASSUME NEW x, \E a \in 1..n : rows[a] = x PROVE \E a \in 1..n : s[a] = x
  BY <1>3, <1>7
<1>8. /\ \A i \in 1..Len(c) : LossRun(c, i) = limit => \E a \in 1..n : s[a] = StreakRow(c, i, limit)
      /\ \A d \in 1..last : DayBroken(c, d) => \E a \in 1..n : s[a] = DailyRow(c, d)
  BY <1>5, <1>7
<1>9. ASSUME NEW a \in 1..n, NEW b \in 1..n, s[a] = s[b] PROVE a = b
  <2>1. rows[p[a]] = rows[p[b]]
    BY <1>3, <1>9
  <2>2. p[a] = p[b]
    BY <1>4, <1>5, <2>1
  <2>3. QED
    BY <1>3, <2>2
<1>10. ASSUME NEW a \in 1..n, NEW b \in 1..n, s[a].type = "daily_loss", SameDay(s[a], s[b])
       PROVE  a = b
  <2>1. rows[p[a]].type = "daily_loss" /\ SameDay(rows[p[a]], rows[p[b]])
    BY <1>3, <1>10
  <2>2. p[a] = p[b]
    BY <1>4, <1>5, <2>1
  <2>3. QED
    BY <1>3, <2>2
<1>11. \A a, b \in 1..n : a < b => s[a].at <= s[b].at
  BY <1>3
<1>12. ReportIs(s, c, limit, last)
  BY <1>2, <1>6, <1>8, <1>9, <1>10 DEF ReportIs
<1>13. QED
  BY <1>2, <1>11, <1>12 DEF s

---------------------------------------------------------------------------
(* The history itself                                                      *)

\* The trades of an account, and those that are closed.
AnyTrade == [id : Nat, status : {"open", "closed"}, date : Nat, at : Nat, pnl : Int]
Done == {i \in DOMAIN trades : trades[i].status = "closed"}

\* The trades are known by their numbers; the closed ones were closed one
\* after the other, none on an earlier date than the one before.
HistoryInv ==
  /\ trades \in Seq(AnyTrade)
  /\ today \in Nat \ {0}
  /\ \A i \in DOMAIN trades : trades[i].id = i
  /\ \A i \in Done : /\ trades[i].at \in 1..Cardinality(Done)
                     /\ trades[i].date \in 1..today
  /\ \A k \in 1..Cardinality(Done) : \E i \in Done : trades[i].at = k
  /\ \A i, j \in Done : trades[i].at = trades[j].at => i = j
  /\ \A i, j \in Done : trades[i].at <= trades[j].at => trades[i].date <= trades[j].date

LEMMA PartsOf ==
  ASSUME trades \in Seq(AnyTrade)
  PROVE  /\ DOMAIN trades = 1..Len(trades) /\ Len(trades) \in Nat
         /\ IsFiniteSet(Done) /\ IsFiniteSet(Open)
         /\ Cardinality(Done) \in Nat
         /\ Len(trades) - Cardinality(Open) = Cardinality(Done)
         /\ \A i \in DOMAIN trades : trades[i] \in AnyTrade
         /\ Open = DOMAIN trades \ Done
<1>1. /\ DOMAIN trades = 1..Len(trades) /\ Len(trades) \in Nat
      /\ \A i \in DOMAIN trades : trades[i] \in AnyTrade
  OBVIOUS
<1>2. Open = DOMAIN trades \ Done /\ Done \subseteq DOMAIN trades
  BY <1>1 DEF Open, Done, AnyTrade
<1>3. IsFiniteSet(DOMAIN trades) /\ Cardinality(DOMAIN trades) = Len(trades)
  BY <1>1, FS_Interval
<1>4. IsFiniteSet(Done) /\ IsFiniteSet(Open)
  BY <1>2, <1>3, FS_Subset
<1>5. Cardinality(Done) \in Nat /\ Cardinality(Open) \in Nat
  BY <1>4, FS_CardinalityType
<1>6. Cardinality(Open) = Cardinality(DOMAIN trades) - Cardinality(DOMAIN trades \cap Done)
  BY <1>2, <1>3, FS_Difference
<1>7. DOMAIN trades \cap Done = Done
  BY <1>2
<1>8. Cardinality(Open) = Len(trades) - Cardinality(Done)
  BY <1>3, <1>6, <1>7
<1>9. Len(trades) - Cardinality(Open) = Cardinality(Done)
  BY <1>1, <1>5, <1>8
<1>10. QED
  BY <1>1, <1>2, <1>4, <1>5, <1>9

LEMMA HistoryStarts == HistoryInit => HistoryInv
<1> SUFFICES ASSUME HistoryInit PROVE HistoryInv
  OBVIOUS
<1>1. trades = <<>> /\ today = 1
  BY DEF HistoryInit
<1>2. Done = {} /\ Cardinality(Done) = 0
  BY <1>1, FS_EmptySet DEF Done
<1>3. QED
  BY <1>1, <1>2 DEF HistoryInv

LEMMA HistoryOpens == HistoryInv /\ OpenTrade => HistoryInv'
<1> SUFFICES ASSUME HistoryInv, OpenTrade PROVE HistoryInv'
  OBVIOUS
<1> DEFINE n == Len(trades)
           t == [id |-> n + 1, status |-> "open", date |-> 0, at |-> 0, pnl |-> 0]
<1>1. /\ DOMAIN trades = 1..n /\ n \in Nat
      /\ trades \in Seq(AnyTrade) /\ today' = today /\ today \in Nat \ {0}
  BY PartsOf DEF HistoryInv, OpenTrade
<1>2. t \in AnyTrade
  BY <1>1 DEF AnyTrade
<1>3. trades' = Append(trades, t)
  BY DEF OpenTrade
<1>4. /\ trades' \in Seq(AnyTrade) /\ DOMAIN trades' = 1..n + 1
      /\ \A i \in 1..n : trades'[i] = trades[i]
      /\ trades'[n + 1] = t
  <2>1. trades' \in Seq(AnyTrade) /\ Len(trades') = n + 1
    BY <1>1, <1>2, <1>3, AppendProperties
  <2>2. \A i \in 1..n : trades'[i] = trades[i]
    BY <1>1, <1>2, <1>3, AppendProperties
  <2>3. trades'[n + 1] = t
    BY <1>1, <1>2, <1>3, AppendProperties
  <2>4. QED
    BY <2>1, <2>2, <2>3
<1>5. t.id = n + 1 /\ t.status = "open"
  OBVIOUS
<1> HIDE DEF n, t
<1>6. Done' = Done
  BY <1>1, <1>4, <1>5 DEF Done
<1>7. Done \subseteq 1..n
  BY <1>1 DEF Done
<1>8. \A i \in DOMAIN trades' : trades'[i].id = i
  BY <1>1, <1>4, <1>5 DEF HistoryInv
<1>9. /\ \A i \in Done : trades'[i] = trades[i]
      /\ Cardinality(Done') = Cardinality(Done)
  BY <1>4, <1>6, <1>7
<1>10. QED
  BY <1>1, <1>4, <1>6, <1>8, <1>9 DEF HistoryInv

LEMMA HistoryCloses == HistoryInv /\ CloseTrade => HistoryInv'
<1> SUFFICES ASSUME HistoryInv, CloseTrade PROVE HistoryInv'
  OBVIOUS
<1> DEFINE m == Cardinality(Done)
<1>1. /\ DOMAIN trades = 1..Len(trades) /\ Len(trades) \in Nat
      /\ IsFiniteSet(Done) /\ m \in Nat /\ Len(trades) - Cardinality(Open) + 1 = m + 1
      /\ trades \in Seq(AnyTrade) /\ today' = today /\ today \in Nat \ {0}
      /\ \A i \in DOMAIN trades : trades[i] \in AnyTrade
      /\ Open = DOMAIN trades \ Done
  BY PartsOf DEF HistoryInv, CloseTrade
<1>2. PICK o \in Open, pnl \in Results :
        trades' = [trades EXCEPT ![o] = [@ EXCEPT !.status = "closed", !.date = today,
                     !.pnl = pnl, !.at = Len(trades) - Cardinality(Open) + 1]]
  BY DEF CloseTrade
<1> DEFINE t == [trades[o] EXCEPT !.status = "closed", !.date = today, !.pnl = pnl,
                  !.at = Len(trades) - Cardinality(Open) + 1]
<1>3. /\ t.id = trades[o].id /\ t.status = "closed" /\ t.date = today
      /\ t.pnl = pnl /\ t.at = m + 1
      /\ t \in AnyTrade
  <2>1. trades[o] \in AnyTrade /\ pnl \in Int /\ today \in Nat
    BY <1>1, <1>2, AccountAssumption
  <2> DEFINE at == Len(trades) - Cardinality(Open) + 1
  <2>2. at = m + 1 /\ at \in Nat
    BY <1>1
  <2> HIDE DEF at, m
  <2>3. /\ t.id = trades[o].id /\ t.status = "closed" /\ t.date = today
        /\ t.pnl = pnl /\ t.at = at
    BY <2>1 DEF AnyTrade, at
  <2>4. t \in AnyTrade
    BY <2>1, <2>2 DEF AnyTrade, at
  <2>5. QED
    BY <2>2, <2>3, <2>4
<1>4. trades' = [trades EXCEPT ![o] = t]
  BY <1>2
<1> HIDE DEF t, m
<1>5. o \in DOMAIN trades /\ o \notin Done
  BY <1>1
<1>6. /\ DOMAIN trades' = DOMAIN trades
      /\ trades'[o] = t
      /\ \A i \in DOMAIN trades : i # o => trades'[i] = trades[i]
  BY <1>4, <1>5, <1>1
<1>7. trades' \in Seq(AnyTrade)
  BY <1>1, <1>3, <1>4, <1>5
<1>8. Done' = Done \cup {o}
  BY <1>3, <1>5, <1>6 DEF Done
<1>9. Cardinality(Done') = m + 1
  BY <1>1, <1>5, <1>8, FS_AddElement DEF m
<1>10. \A i \in DOMAIN trades' : trades'[i].id = i
  BY <1>3, <1>5, <1>6 DEF HistoryInv
<1>11. /\ \A i \in Done : /\ trades'[i] = trades[i]
                          /\ trades[i].at \in 1..m /\ trades[i].date \in 1..today
       /\ \A k \in 1..m : \E i \in Done : trades[i].at = k
       /\ \A i, j \in Done : trades[i].at = trades[j].at => i = j
       /\ \A i, j \in Done : trades[i].at <= trades[j].at => trades[i].date <= trades[j].date
  <2>1. \A i \in Done : trades'[i] = trades[i]
    BY <1>5, <1>6 DEF Done
  <2>2. QED
    BY <2>1 DEF HistoryInv, m
<1>12. \A i \in Done' : /\ trades'[i].at \in 1..m + 1
                        /\ trades'[i].date \in 1..today'
  BY <1>1, <1>3, <1>6, <1>8, <1>11
<1>13. \A k \in 1..m + 1 : \E i \in Done' : trades'[i].at = k
  <2> TAKE k \in 1..m + 1
  <2>1. CASE k = m + 1
    BY <1>3, <1>6, <1>8, <2>1
  <2>2. CASE k # m + 1
    <3>1. k \in 1..m
      BY <1>1, <2>2
    <3>2. QED
      BY <1>8, <1>11, <3>1
  <2>3. QED
    BY <2>1, <2>2
<1>14. ASSUME NEW i \in Done', NEW j \in Done', trades'[i].at = trades'[j].at PROVE i = j
  BY <1>1, <1>3, <1>6, <1>8, <1>11, <1>14
<1>15. ASSUME NEW i \in Done', NEW j \in Done', trades'[i].at <= trades'[j].at
       PROVE  trades'[i].date <= trades'[j].date
  BY <1>1, <1>3, <1>6, <1>8, <1>11, <1>15
<1>16. QED
  BY <1>1, <1>7, <1>9, <1>10, <1>12, <1>13, <1>14, <1>15 DEF HistoryInv

LEMMA HistoryIdles == HistoryInv /\ (Midnight \/ UNCHANGED historyVars) => HistoryInv'
<1> SUFFICES ASSUME HistoryInv, Midnight \/ UNCHANGED historyVars PROVE HistoryInv'
  OBVIOUS
<1>1. trades' = trades /\ today' \in Nat \ {0} /\ today <= today' /\ today \in Nat
  BY DEF HistoryInv, Midnight, historyVars
<1>2. Done' = Done
  BY <1>1 DEF Done
<1>3. QED
  BY <1>1, <1>2 DEF HistoryInv

\* Whatever order trades are opened and closed in, the closed ones have
\* consecutive moments, and dates that do not fall.
THEOREM HistoryIsInOrder == HistorySpec => []HistoryInv
<1>1. HistoryInv /\ [HistoryNext]_historyVars => HistoryInv'
  BY HistoryOpens, HistoryCloses, HistoryIdles DEF HistoryNext
<1>2. QED
  BY <1>1, HistoryStarts, PTL DEF HistorySpec

\* Trades with moments 1 to m, each once: there are m, and so many up to each.
LEMMA MomentsCount ==
  ASSUME NEW S, NEW m \in Nat,
         \A u \in S : u.at \in 1..m,
         \A k \in 1..m : \E u \in S : u.at = k,
         \A u, v \in S : u.at = v.at => u = v
  PROVE  IsFiniteSet(S) /\ Cardinality(S) = m
<1> DEFINE f == [k \in 1..m |-> CHOOSE u \in S : u.at = k]
<1>1. \A k \in 1..m : f[k] \in S /\ f[k].at = k
  OBVIOUS
<1>2. f \in [1..m -> S]
  BY <1>1
<1> HIDE DEF f
<1>3. f \in Injection(1..m, S)
  BY <1>1, <1>2 DEF Injection, IsInjective
<1>4. f \in Surjection(1..m, S)
  <2>1. \A u \in S : f[u.at] = u /\ u.at \in 1..m
    BY <1>1
  <2>2. QED
    BY <1>2, <2>1 DEF Surjection
<1>5. f \in Bijection(1..m, S)
  BY <1>3, <1>4 DEF Bijection
<1>6. ExistsBijection(1..m, S)
  BY <1>5 DEF ExistsBijection
<1>7. QED
  BY <1>6, FS_CountingElements, FS_NatBijection

\* What the report replays: the closed trades, one after the other.
LEMMA ClosedIs ==
  ASSUME HistoryInv
  PROVE  /\ Ordered(Closed(trades))
         /\ \A i \in 1..Len(Closed(trades)) : Closed(trades)[i].date <= today
<1> DEFINE done == {t \in Range(trades) : t.status = "closed"}
           m == Cardinality(Done)
           Rank(t) == Cardinality({u \in done : u.at <= t.at})
           c == Closed(trades)
<1>1. /\ DOMAIN trades = 1..Len(trades) /\ m \in Nat /\ today \in Nat \ {0}
      /\ \A i \in DOMAIN trades : trades[i] \in AnyTrade
  BY PartsOf DEF HistoryInv
<1>2. /\ \A i \in Done : /\ trades[i].at \in 1..m /\ trades[i].date \in 1..today
      /\ \A k \in 1..m : \E i \in Done : trades[i].at = k
      /\ \A i, j \in Done : trades[i].at = trades[j].at => i = j
      /\ \A i, j \in Done : trades[i].at <= trades[j].at => trades[i].date <= trades[j].date
  BY DEF HistoryInv
<1>3. \A t \in done : \E i \in Done : t = trades[i]
  BY DEF Range, Done
<1>4. \A i \in Done : trades[i] \in done
  BY DEF Range, Done
<1>5. \A t \in done : t \in ClosedTrade /\ t.at \in 1..m /\ t.date \in 1..today
  <2> TAKE t \in done
  <2>1. PICK i \in Done : t = trades[i]
    BY <1>3
  <2>2. t \in AnyTrade /\ t.status = "closed" /\ t.at \in 1..m /\ t.date \in 1..today
    BY <1>1, <1>2, <2>1 DEF Done
  <2>3. t \in ClosedTrade
    BY <1>1, <2>2 DEF AnyTrade, ClosedTrade
  <2>4. QED
    BY <2>2, <2>3
<1>6. c = [k \in 1..Cardinality(done) |-> CHOOSE t \in done : Rank(t) = k]
  BY DEF Closed
<1> HIDE DEF m, done
<1>7. \A k \in 1..m : \E u \in done : u.at = k
  BY <1>2, <1>4
<1>8. \A u, v \in done : u.at = v.at => u = v
  BY <1>2, <1>3
<1>9. Cardinality(done) = m
  BY <1>1, <1>5, <1>7, <1>8, MomentsCount
<1>10. ASSUME NEW t \in done PROVE Rank(t) = t.at
  <2> DEFINE S == {u \in done : u.at <= t.at}
  <2>1. t.at \in Nat /\ t.at <= m
    BY <1>1, <1>5
  <2>2. \A u \in S : u.at \in 1..t.at
    BY <1>5, <2>1
  <2>3. \A k \in 1..t.at : \E u \in S : u.at = k
    <3> TAKE k \in 1..t.at
    <3>1. k \in 1..m /\ k <= t.at
      BY <1>1, <2>1
    <3>2. PICK u \in done : u.at = k
      BY <1>7, <3>1
    <3>3. QED
      BY <3>1, <3>2
  <2>4. \A u, v \in S : u.at = v.at => u = v
    BY <1>8
  <2> HIDE DEF S
  <2>5. Cardinality(S) = t.at
    BY <2>1, <2>2, <2>3, <2>4, MomentsCount
  <2>6. QED
    BY <2>5 DEF S
<1> HIDE DEF Rank, c
<1>11. ASSUME NEW k \in 1..m PROVE c[k] \in done /\ c[k].at = k
  <2>1. c[k] = CHOOSE t \in done : Rank(t) = k
    BY <1>6, <1>9
  <2>2. \E t \in done : Rank(t) = k
    BY <1>7, <1>10
  <2>3. c[k] \in done /\ Rank(c[k]) = k
    BY <2>1, <2>2
  <2>4. QED
    BY <1>10, <2>3
<1>12. c \in Seq(ClosedTrade) /\ Len(c) = m
  <2>1. c = [k \in 1..m |-> c[k]]
    BY <1>6, <1>9
  <2>2. \A k \in 1..m : c[k] \in ClosedTrade
    BY <1>5, <1>11
  <2>3. c \in [1..m -> ClosedTrade]
    BY <2>1, <2>2
  <2>4. QED
    BY <1>1, <2>3
<1>13. ASSUME NEW i \in 1..m, NEW j \in 1..m, i <= j PROVE c[i].date <= c[j].date
  <2>1. PICK x \in Done : c[i] = trades[x]
    BY <1>3, <1>11
  <2>2. PICK y \in Done : c[j] = trades[y]
    BY <1>3, <1>11
  <2>3. trades[x].at <= trades[y].at
    BY <1>11, <1>13, <2>1, <2>2
  <2>4. QED
    BY <1>2, <2>1, <2>2, <2>3
<1>14. \A k \in 1..m : c[k].at = k /\ c[k].date \in 1..today
  BY <1>5, <1>11
<1>15. \A k \in 1..m : c[k].date <= today
  BY <1>14, <1>1
<1>16. Ordered(c)
  BY <1>12, <1>13, <1>14 DEF Ordered
<1>17. QED
  BY <1>12, <1>15, <1>16 DEF c

LEMMA AllEnded ==
  ASSUME NEW c, Ordered(c), NEW d \in Int, \A i \in 1..Len(c) : c[i].date <= d
  PROVE  Ended(c, d) = Len(c) /\ UpTo(c, d) = c
<1>1. Len(c) \in Nat /\ c \in Seq(ClosedTrade)
  BY DEF Ordered
<1>2. Ended(c, d) \in 0..Len(c) /\ UpTo(c, d) = SubSeq(c, 1, Ended(c, d))
      /\ \A i \in 1..Len(c) : c[i].date <= d <=> i <= Ended(c, d)
  BY EndedIs
<1>3. Ended(c, d) = Len(c)
  <2>1. CASE Len(c) = 0
    BY <1>2, <2>1
  <2>2. CASE Len(c) # 0
    <3>1. Len(c) \in 1..Len(c)
      BY <1>1, <2>2
    <3>2. Len(c) <= Ended(c, d)
      BY <1>2, <3>1
    <3>3. QED
      BY <1>1, <1>2, <3>2
  <2>3. QED
    BY <2>1, <2>2
<1>4. QED
  BY <1>1, <1>2, <1>3, SubSeqFull

LEMMA ReportRowsExact ==
  ASSUME NEW c, Ordered(c), NEW limit \in Nat \ {0}, NEW rows,
         ReportIs(rows, c, limit, today), today \in Nat,
         \A a, b \in 1..Len(rows) : a < b => rows[a].at <= rows[b].at
  PROVE  RowsExact(c, rows, limit)
<1>1. /\ DOMAIN c = 1..Len(c) /\ Len(c) \in Nat
      /\ rows \in Seq(Activation)
      /\ DOMAIN rows = 1..Len(rows) /\ Len(rows) \in Nat
  BY OrderedLen, LenProperties DEF ReportIs
<1>2. /\ \A a \in 1..Len(rows) :
            \/ \E i \in 1..Len(c) : LossRun(c, i) = limit /\ rows[a] = StreakRow(c, i, limit)
            \/ \E d \in 1..today : DayBroken(c, d) /\ rows[a] = DailyRow(c, d)
      /\ \A i \in 1..Len(c) : LossRun(c, i) = limit =>
            \E a \in 1..Len(rows) : rows[a] = StreakRow(c, i, limit)
      /\ \A d \in 1..today : DayBroken(c, d) => \E a \in 1..Len(rows) : rows[a] = DailyRow(c, d)
      /\ \A a, b \in 1..Len(rows) : rows[a] = rows[b] => a = b
  BY DEF ReportIs
<1>3. \A x : x \in Range(rows) <=> \E a \in 1..Len(rows) : x = rows[a]
  BY <1>1 DEF Range
<1>4. /\ \A i : /\ StreakRow(c, i, limit).type = "consecutive_loss"
                /\ StreakRow(c, i, limit).trade = c[i].id
                /\ StreakRow(c, i, limit).losses = limit
      /\ \A d : DailyRow(c, d).type = "daily_loss" /\ DailyRow(c, d).date = d
  BY DEF StreakRow, DailyRow
<1>5. \A x \in Range(rows) : x.type = "consecutive_loss" =>
        \E i \in 1..Len(c) : LossRun(c, i) = limit /\ x = StreakRow(c, i, limit)
  BY <1>2, <1>3, <1>4
<1>6. \A x \in Range(rows) : x.type = "daily_loss" =>
        \E d \in 1..today : DayBroken(c, d) /\ x = DailyRow(c, d)
  BY <1>2, <1>3, <1>4
<1>7. \A i \in 1..Len(c) : LossRun(c, i) = limit => StreakRow(c, i, limit) \in Range(rows)
  BY <1>2, <1>3
<1>8. \A d \in 1..today : DayBroken(c, d) => DailyRow(c, d) \in Range(rows)
  BY <1>2, <1>3
<1> DEFINE Streaks == {<<r.trade, r.losses>> : r \in {x \in Range(rows) : x.type = "consecutive_loss"}}
           Runs == {<<c[i].id, limit>> : i \in {j \in DOMAIN c : LossRun(c, j) = limit}}
           Days == {r.date : r \in {x \in Range(rows) : x.type = "daily_loss"}}
           Broken == {d \in 1..today : DayBroken(c, d)}
<1>9. Streaks = Runs
  <2>1. ASSUME NEW r \in Range(rows), r.type = "consecutive_loss" PROVE <<r.trade, r.losses>> \in Runs
    <3>1. PICK i \in 1..Len(c) : LossRun(c, i) = limit /\ r = StreakRow(c, i, limit)
      BY <1>5, <2>1
    <3>2. <<r.trade, r.losses>> = <<c[i].id, limit>>
      BY <1>4, <3>1
    <3>3. QED
      BY <1>1, <3>1, <3>2
  <2>2. ASSUME NEW i \in DOMAIN c, LossRun(c, i) = limit PROVE <<c[i].id, limit>> \in Streaks
    <3>1. StreakRow(c, i, limit) \in Range(rows)
      BY <1>1, <1>7, <2>2
    <3>2. QED
      BY <1>4, <3>1
  <2>3. QED
    BY <2>1, <2>2
<1>10. Days = Broken
  BY <1>4, <1>6, <1>8
<1>11. Broken = {d \in 1..today :
                   /\ OfDate(c, d) # <<>>
                   /\ Bankroll(UpTo(c, d)) > 0
                   /\ 100 * PnL(OfDate(c, d)) <= -LossPercent * Bankroll(UpTo(c, d))}
  BY DEF DayBroken, DailyLossBreached
<1>12. \A i, j \in DOMAIN rows : i < j => rows[i].at <= rows[j].at /\ rows[i] # rows[j]
  BY <1>1, <1>2
<1> HIDE DEF Streaks, Runs, Days, Broken
<1>13. QED
  BY <1>9, <1>10, <1>11, <1>12 DEF RowsExact, Streaks, Runs, Days

LEMMA ReportVerdictAgrees ==
  ASSUME NEW c, Ordered(c), NEW limit \in Nat \ {0}, NEW rows,
         ReportIs(rows, c, limit, today), today \in Nat \ {0},
         \A i \in 1..Len(c) : c[i].date <= today
  PROVE  VerdictAgrees(c, rows, limit)
<1> DEFINE cash == Bankroll(c)
<1>1. /\ Len(c) \in Nat /\ c \in Seq(ClosedTrade) /\ UpTo(c, today) = c
      /\ rows \in Seq(Activation) /\ DOMAIN rows = 1..Len(rows)
  BY AllEnded, OrderedLen, LenProperties DEF ReportIs, Ordered
<1>2. PnL(c) \in Int
  <2>1. SubSeq(c, 1, Len(c)) = c /\ Len(c) \in 0..Len(c)
    BY <1>1, SubSeqFull
  <2>2. PnL(SubSeq(c, 1, Len(c))) \in Int
    BY <1>1, <2>1, PnLGrows
  <2>3. QED
    BY <2>1, <2>2
<1>3. cash \in Int
  BY <1>2, AccountAssumption DEF Bankroll
<1> HIDE DEF cash
<1> SUFFICES ASSUME Verdict(OfDate(c, today), c, cash, LossPercent, limit, cash) = "none"
             PROVE  /\ cash > 0
                    /\ c # <<>> => LossRun(c, Len(c)) < limit
                    /\ \A r \in Range(rows) : ~(r.type = "daily_loss" /\ r.date = today)
  BY DEF VerdictAgrees, cash
<1>4. /\ ~SolvencyBreached(cash, cash)
      /\ ~DailyLossBreached(OfDate(c, today), cash, LossPercent)
      /\ ~ConsecutiveLossBreached(c, limit)
  BY DEF Verdict
<1>5. cash > 0
  BY <1>3, <1>4 DEF SolvencyBreached
<1>6. LossRun(c, Len(c)) < limit
  <2>1. SubSeq(c, 1, Len(c)) = c /\ Len(c) \in 0..Len(c)
    BY <1>1, SubSeqFull
  <2>2. ConsecutiveLossBreached(SubSeq(c, 1, Len(c)), limit) <=> LossRun(c, Len(c)) >= limit
    BY <2>1, BreachIsRun
  <2>3. LossRun(c, Len(c)) \in 0..Len(c)
    BY <2>1, RunIs
  <2>4. ~(LossRun(c, Len(c)) >= limit)
    BY <1>4, <2>1, <2>2
  <2>5. LossRun(c, Len(c)) \in Int
    BY <1>1, <2>3
  <2> DEFINE run == LossRun(c, Len(c))
  <2> HIDE DEF run
  <2>6. run \in Int /\ ~(run >= limit)
    BY <2>4, <2>5 DEF run
  <2>7. run < limit
    BY <2>6
  <2>8. QED
    BY <2>7 DEF run
<1>7. ~DayBroken(c, today)
  BY <1>1, <1>4 DEF DayBroken, cash
<1>8. ASSUME NEW r \in Range(rows), r.type = "daily_loss", r.date = today PROVE FALSE
  <2>1. PICK a \in 1..Len(rows) : r = rows[a]
    BY <1>1 DEF Range
  <2>2. \/ \E i \in 1..Len(c) : LossRun(c, i) = limit /\ rows[a] = StreakRow(c, i, limit)
        \/ \E d \in 1..today : DayBroken(c, d) /\ rows[a] = DailyRow(c, d)
    BY DEF ReportIs
  <2>3. \A i : StreakRow(c, i, limit).type # "daily_loss"
    BY DEF StreakRow
  <2>4. PICK d \in 1..today : DayBroken(c, d) /\ r = DailyRow(c, d)
    BY <1>8, <2>1, <2>2, <2>3
  <2>5. d = today
    BY <1>8, <2>4 DEF DailyRow
  <2>6. QED
    BY <1>7, <2>4, <2>5
<1>9. QED
  BY <1>5, <1>6, <1>8

LEMMA HistoryReplayed == HistoryInv => ActivationsExact
<1> SUFFICES ASSUME HistoryInv, NEW limit \in LossLimits
             PROVE  /\ RowsExact(Closed(trades),
                         BuildActivationReport(trades, LossPercent, limit, StartBankroll), limit)
                    /\ DuplicatesDropped(
                         BuildActivationReport(trades, LossPercent, limit, StartBankroll))
                    /\ VerdictAgrees(Closed(trades),
                         BuildActivationReport(trades, LossPercent, limit, StartBankroll), limit)
  BY DEF ActivationsExact
<1> DEFINE c == Closed(trades)
           S == StreakPass(c, limit)
           D == DailyPass(c, LossPercent, StartBankroll)
           rows == BuildActivationReport(trades, LossPercent, limit, StartBankroll)
<1>1. rows = Sorted(S \o D)
  BY DEF BuildActivationReport
<1>2. Ordered(c) /\ \A i \in 1..Len(c) : c[i].date <= today
  BY ClosedIs
<1>3. limit \in Nat \ {0} /\ today \in Nat \ {0}
  BY AccountAssumption DEF HistoryInv
<1> HIDE DEF rows, c
<1>4. StreakRowsAre(S, c, Len(c), limit) /\ DailyRowsAre(D, c, today)
  BY <1>2, <1>3, StreakPassExact, DailyPassExact
<1> HIDE DEF S, D
<1>5. ReportIs(S \o D, c, limit, today)
  BY <1>2, <1>3, <1>4, BothPasses
<1>6. ReportIs(rows, c, limit, today)
      /\ \A a, b \in 1..Len(rows) : a < b => rows[a].at <= rows[b].at
  BY <1>1, <1>5, SortedReport
<1>7. RowsExact(c, rows, limit)
  BY <1>2, <1>3, <1>6, ReportRowsExact
<1>8. VerdictAgrees(c, rows, limit)
  BY <1>2, <1>3, <1>6, ReportVerdictAgrees
<1>9. DuplicatesDropped(rows)
  BY <1>6, DroppedRows DEF ReportIs
<1>10. QED
  BY <1>7, <1>8, <1>9 DEF rows, c

\* For every history, limit and share: the report has one row for each streak
\* that reached the limit and one for each day that lost too much, each once
\* and in the order of their moments; dropping duplicates loses no halt; and an
\* account that the verdict lets trade has no halt of today.
THEOREM ActivationsAreExact == HistorySpec => []ActivationsExact
<1>1. QED
  BY HistoryIsInOrder, HistoryReplayed, PTL
===============================================================================
