--------------------------- MODULE OrderBookStream ---------------------------
(***************************************************************************)
(* The order-book stream: trading_readiness/stream.py and the stream mode  *)
(* of trading_readiness/collector.py, a service that keeps the book of     *)
(* every watched market in memory and appends each state of it to the      *)
(* database.  A connection starts from books fetched over REST, then       *)
(* subscribes; the exchange sends a snapshot of each market and then its   *)
(* changes, numbered across the markets of the subscription.  Messages     *)
(* arrive in order but some may be missing.                                *)
(*                                                                         *)
(* A book is the depth of one price level.                                 *)
(***************************************************************************)
EXTENDS Integers, Sequences, SequencesExt, FiniteSets, FiniteSetsExt

CONSTANTS Markets,     \* the watched markets
          MaxDepth,    \* bound: depth of a level
          MaxSeq,      \* bound: messages of a connection
          MaxLost,     \* bound: messages that go missing
          MaxDrops,    \* bound: connections that break
          MaxDbFaults  \* bound: database errors

ASSUME StreamAssumption ==
  /\ IsFiniteSet(Markets)
  /\ MaxDepth \in Nat \ {0}
  /\ {MaxSeq, MaxLost, MaxDrops, MaxDbFaults} \subseteq Nat

VARIABLES
  depth,    \* external: the book at the exchange
  wire,     \* external: what the exchange has sent and was not received
  sent,     \* external: the number of the last message of this subscription
  link,     \* "down", "based" (books fetched, not subscribed) or "up"
  books,    \* OrderbookState of each market, or NoBook
  seen,     \* sequence_by_subscription; 0 before the first message
  db,       \* the connection's transaction: "ok" or "aborted"
  lost,     \* history: numbers that went missing from this connection
  noticed,  \* history: those recorded as a gap
  first,    \* history: the first number received on this connection
  dirty,    \* history: the last change of each market its book must be wrong by
  faults    \* losses, drops and database errors so far

exchange == <<depth, wire, sent>>
memory   == <<books, seen>>
history  == <<lost, noticed, first, dirty>>
vars     == <<depth, wire, sent, link, books, seen, db, lost, noticed,
              first, dirty, faults>>

NoBook == -100

Max0(S) == Max(S \cup {0})

\* The numbers of a market's changes on the wire, and their sum.
Waiting(m)  == {k \in DOMAIN wire : wire[k].market = m /\ wire[k].type = "delta"}
Unreceived(m) == MapThenSumSet(LAMBDA k : wire[k].by, Waiting(m))
Announced(m)  == \E k \in DOMAIN wire : wire[k].market = m /\ wire[k].type = "snapshot"

Init ==
  /\ depth \in [Markets -> {1}]
  /\ wire = <<>> /\ sent = 0
  /\ link = "down"
  /\ books = [m \in Markets |-> NoBook]
  /\ seen = 0
  /\ db = "ok"
  /\ lost = {} /\ noticed = {} /\ first = 0
  /\ dirty = [m \in Markets |-> 0]
  /\ faults = [lost |-> 0, drops |-> 0, db |-> 0]

---------------------------------------------------------------------------
(* The exchange                                                            *)

Snapshot(m, n)  == [type |-> "snapshot", market |-> m, seq |-> n, depth |-> depth[m]]
Delta(m, n, by) == [type |-> "delta", market |-> m, seq |-> n, by |-> by]

\* A trade or an order changes a book; a connection is told, or should be.
Change(m) ==
  /\ sent < MaxSeq
  /\ \E by \in {-1, 1} :
       /\ depth[m] + by \in 0..MaxDepth
       /\ depth' = [depth EXCEPT ![m] = @ + by]
       /\ IF link # "up" THEN UNCHANGED <<wire, sent, lost, dirty, faults>>
          ELSE /\ sent' = sent + 1
               /\ \/ /\ wire' = Append(wire, Delta(m, sent + 1, by))
                     /\ UNCHANGED <<lost, dirty, faults>>
                  \/ /\ faults.lost < MaxLost
                     /\ faults' = [faults EXCEPT !.lost = @ + 1]
                     /\ lost' = lost \cup {sent + 1}
                     /\ dirty' = [dirty EXCEPT ![m] = sent + 1]
                     /\ UNCHANGED wire
  /\ UNCHANGED <<link, memory, db, noticed, first>>

---------------------------------------------------------------------------
(* A connection                                                            *)

\* capture_rest_books: the books of some markets as they are now.
Captured(S) == [m \in Markets |-> IF m \in S THEN depth[m] ELSE books[m]]

\* A new connection: the sequences are forgotten and every market the exchange
\* returns is fetched.  Without a rollback, no statement of an aborted
\* transaction succeeds, that of watched_tickers first.
Baseline ==
  /\ link = "down" /\ db = "ok"
  /\ link' = "based"
  /\ seen' = 0
  /\ \E S \in {Markets} \cup {Markets \ {m} : m \in Markets} : books' = Captured(S)
  /\ lost' = {} /\ noticed' = {} /\ first' = 0
  /\ dirty' = [m \in Markets |-> 0]
  /\ UNCHANGED <<exchange, db, faults>>

\* The subscription, and the exchange's answer.
Subscribe ==
  LET order == SetToSeq(Markets) IN
  /\ link = "based"
  /\ link' = "up"
  /\ sent' = Len(order)
  /\ \/ /\ wire' = [k \in DOMAIN order |-> Snapshot(order[k], k)]
        /\ UNCHANGED <<lost, dirty, faults>>
     \/ \E gone \in DOMAIN order :
          /\ faults.lost < MaxLost
          /\ faults' = [faults EXCEPT !.lost = @ + 1]
          /\ lost' = {gone}
          /\ dirty' = [dirty EXCEPT ![order[gone]] = gone]
          /\ wire' = [k \in 1..Len(order) - 1 |->
                        LET n == IF k < gone THEN k ELSE k + 1 IN
                        Snapshot(order[n], n)]
  /\ UNCHANGED <<depth, memory, db, noticed, first>>

\* Faulty: only a number that comes again is a gap.
Repeated(msg) == seen # 0 /\ msg.seq <= seen

\* _sequence_gap: numbers are compared across the markets of a subscription.
Gap(msg) == seen # 0 /\ msg.seq # seen + 1

\* A change is not applied where a number is missing before it or there is no
\* book: this market's book alone is fetched.
Fetched(msg) == msg.type = "delta" /\ (Gap(msg) \/ books[msg.market] = NoBook)

\* apply_delta refuses what would leave a level negative.
Refused(msg) ==
  msg.type = "delta" /\ ~Fetched(msg) /\ books[msg.market] + msg.by < 0

\* Faulty: the change that shows the gap is applied to the book fetched.
AppliedToFetched(msg) ==
  LET m == msg.market IN
  IF msg.type = "snapshot" THEN msg.depth
  ELSE IF Fetched(msg) THEN depth[m] + msg.by ELSE books[m] + msg.by

\* process_websocket_message: the market's book after a message.
BookAfter(msg) ==
  LET m == msg.market IN
  IF msg.type = "snapshot" THEN msg.depth
  ELSE IF Fetched(msg) THEN depth[m] ELSE books[m] + msg.by

\* A book fetched already has the changes that are still on the wire, and gets
\* them once more.
DirtAfter(msg) ==
  LET m == msg.market IN
  IF msg.type = "snapshot" THEN IF dirty[m] > msg.seq THEN dirty[m] ELSE 0
  ELSE IF Fetched(msg) THEN Max0({wire[k].seq : k \in Waiting(m) \ {1}})
  ELSE dirty[m]

\* Faulty: an error ends the service.
Stop == link' = "stopped" /\ wire' = <<>>

Break == link' = "down" /\ wire' = <<>>

Process(msg) ==
  IF Refused(msg) THEN UNCHANGED <<books, dirty>>
  ELSE /\ books' = [books EXCEPT ![msg.market] = BookAfter(msg)]
       /\ dirty' = [dirty EXCEPT ![msg.market] = DirtAfter(msg)]

\* One message and its commit; a refused one ends the connection.
Receive ==
  /\ link = "up" /\ wire # <<>>
  /\ \E msg \in {Head(wire)} :
       /\ Process(msg)
       /\ seen' = msg.seq
       /\ first' = IF first = 0 THEN msg.seq ELSE first
       /\ noticed' = IF Gap(msg) THEN noticed \cup (seen + 1)..(msg.seq - 1)
                     ELSE noticed
       /\ IF Refused(msg) THEN Break
          ELSE wire' = Tail(wire) /\ UNCHANGED link
  /\ UNCHANGED <<depth, sent, db, lost, faults>>

\* An insert fails: the book has changed, and the transaction stays aborted.
DatabaseError ==
  /\ link = "up" /\ wire # <<>>
  /\ faults.db < MaxDbFaults
  /\ faults' = [faults EXCEPT !.db = @ + 1]
  /\ db' = "aborted"
  /\ Process(Head(wire))
  /\ seen' = Head(wire).seq
  /\ Break
  /\ UNCHANGED <<depth, sent, lost, noticed, first>>

\* The connection breaks, or a REST call of it fails.
Drop ==
  /\ link \in {"based", "up"}
  /\ faults.drops < MaxDrops
  /\ faults' = [faults EXCEPT !.drops = @ + 1]
  /\ Break
  /\ UNCHANGED <<depth, sent, memory, db, history>>

Next == \/ \E m \in Markets : Change(m)
        \/ Baseline \/ Subscribe \/ Receive \/ DatabaseError \/ Drop

Spec == Init /\ [][Next]_vars

\* run_stream_forever reconnects after a delay, and takes what arrives.
FairSpec == Spec /\ WF_vars(Baseline) /\ WF_vars(Subscribe) /\ WF_vars(Receive)

---------------------------------------------------------------------------
(* Properties                                                              *)

\* Every variable holds the values the code allows; no book has a negative
\* depth.
TypeOK ==
  /\ depth \in [Markets -> 0..MaxDepth]
  /\ \A k \in DOMAIN wire : wire[k].market \in Markets /\ wire[k].seq \in 1..sent
  /\ sent \in 0..Max({MaxSeq, Cardinality(Markets)})
  /\ link \in {"down", "based", "up"}
  /\ books \in [Markets -> Nat \cup {NoBook}]
  /\ seen \in 0..sent /\ first \in 0..sent
  /\ db \in {"ok", "aborted"}
  /\ lost \subseteq 1..sent /\ noticed \subseteq 1..sent
  /\ dirty \in [Markets -> 0..sent]

\* A book of a live connection is exact: with the changes still to come it gives
\* the exchange's, through gaps of other markets, refused changes and
\* reconnections, unless one of its own messages went missing since it was last
\* replaced or it was fetched while changes of it were on their way; no depth
\* is ever negative.
BooksTrack ==
  /\ TypeOK
  /\ link = "up" =>
       \A m \in Markets : dirty[m] = 0 /\ ~Announced(m) =>
         books[m] # NoBook /\ books[m] + Unreceived(m) = depth[m]

\* No message of a live connection goes missing unrecorded: once a later one
\* is received, of any market, the number is part of a recorded gap, unless
\* nothing was received before it.
GapsNoticed ==
  \A n \in lost : link = "up" /\ first # 0 /\ first < n /\ n < seen => n \in noticed

\* The service comes back from every broken connection and refused change, and
\* only an aborted transaction, which nothing rolls back, keeps it down.
StreamReturns == []<>(link = "up") \/ <>[](db = "aborted")
=============================================================================
