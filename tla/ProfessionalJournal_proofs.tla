--------------------- MODULE ProfessionalJournal_proofs ---------------------
(***************************************************************************)
(* Proofs about ProfessionalJournal, for any number of runs.               *)
(***************************************************************************)
EXTENDS ProfessionalJournal, FoldLemmas, SequenceTheorems

---------------------------------------------------------------------------
(* The events a row brings                                                 *)

\* What Among folds over the positions T of a sequence.
AmongTo(g, s, A, S) ==
  g = [T \in SUBSET S |->
         IF T = {} THEN <<>>
         ELSE IF s[Max(T)] \in A THEN Append(g[T \ {Max(T)}], s[Max(T)])
         ELSE g[T \ {Max(T)}]]

LEMMA AmongDef ==
  ASSUME NEW s, NEW A
  PROVE  Among(s, A) = (CHOOSE g : AmongTo(g, s, A, DOMAIN s))[DOMAIN s]
BY DEF Among, AmongTo, FoldLeft, MapThenFoldSet

LEMMA Positions ==
  ASSUME NEW n \in Nat, NEW T \in SUBSET (1..n)
  PROVE  /\ IsFiniteSet(T)
         /\ T # {} => Max(T) \in T
         /\ T # {} => IsFiniteSet(T \ {Max(T)}) /\ Cardinality(T \ {Max(T)}) = Cardinality(T) - 1
         /\ Cardinality(T) \in Nat
         /\ Cardinality(1..n) = n
<1>1. IsFiniteSet(1..n) /\ Cardinality(1..n) = n
  BY FS_Interval
<1>2. IsFiniteSet(T)
  BY <1>1, FS_Subset
<1>3. T # {} => Max(T) \in T
  BY <1>2, MaxIsGreatest
<1>4. QED
  BY <1>1, <1>2, <1>3, FS_RemoveElement, FS_CardinalityType

LEMMA AmongExists ==
  ASSUME NEW X, NEW s \in Seq(X), NEW A
  PROVE  \E g : AmongTo(g, s, A, DOMAIN s)
<1> DEFINE S  == DOMAIN s
           op == [p \in S \X Seq(X) |->
                    IF s[p[1]] \in A THEN Append(p[2], s[p[1]]) ELSE p[2]]
           ch == [U \in SUBSET S |-> Max(U)]
<1>1. S = 1..Len(s) /\ Len(s) \in Nat /\ \A i \in S : s[i] \in X
  OBVIOUS
<1>2. Chooses(ch, S) /\ \A U \in SUBSET S : ch[U] = Max(U)
  <2> HIDE DEF S
  <2> QED BY <1>1, Positions DEF Chooses
<1>3. /\ op \in [S \X Seq(X) -> Seq(X)]
      /\ \A i \in S, t \in Seq(X) :
           op[<<i, t>>] = IF s[i] \in A THEN Append(t, s[i]) ELSE t
  <2> HIDE DEF S
  <2>1. \A i \in S, t \in Seq(X) : Append(t, s[i]) \in Seq(X)
    BY <1>1
  <2>2. \A p \in S \X Seq(X) : p[1] \in S /\ p[2] \in Seq(X) /\ p = <<p[1], p[2]>>
    OBVIOUS
  <2>3. QED
    BY <2>1, <2>2
<1>4. IsFiniteSet(S) /\ <<>> \in Seq(X)
  <2> HIDE DEF S
  <2> QED BY <1>1, FS_Interval
<1>5. PICK g : FoldsTo(g, op, <<>>, ch, S)
  <2> HIDE DEF op, ch, S
  <2> QED BY <1>2, <1>4, FoldExists
<1>6. ASSUME NEW T \in SUBSET S PROVE g[T] \in Seq(X)
  <2> HIDE DEF op, ch, S
  <2> QED BY <1>2, <1>3, <1>4, <1>5, <1>6, FoldType
<1>7. AmongTo(g, s, A, S)
  <2> HIDE DEF op, ch, S
  <2>1. ASSUME NEW U \in SUBSET S, U # {}
        PROVE  op[<<ch[U], g[U \ {ch[U]}]>>]
                 = IF s[Max(U)] \in A THEN Append(g[U \ {Max(U)}], s[Max(U)])
                   ELSE g[U \ {Max(U)}]
    <3>1. ch[U] = Max(U) /\ Max(U) \in S
      BY <1>2, <2>1 DEF Chooses
    <3>2. g[U \ {Max(U)}] \in Seq(X)
      BY <1>6
    <3>3. QED
      BY <1>3, <3>1, <3>2
  <2>2. g = [U \in SUBSET S |-> IF U = {} THEN <<>> ELSE op[<<ch[U], g[U \ {ch[U]}]>>]]
    BY <1>5 DEF FoldsTo
  <2>3. [U \in SUBSET S |-> IF U = {} THEN <<>> ELSE op[<<ch[U], g[U \ {ch[U]}]>>]]
          = [U \in SUBSET S |->
               IF U = {} THEN <<>>
               ELSE IF s[Max(U)] \in A THEN Append(g[U \ {Max(U)}], s[Max(U)])
               ELSE g[U \ {Max(U)}]]
    BY <2>1
  <2>4. QED
    BY <2>2, <2>3 DEF AmongTo
<1>8. QED
  BY <1>7

\* The elements of a sequence that are in a set are a sequence, no longer.
LEMMA AmongType ==
  ASSUME NEW X, NEW s \in Seq(X), NEW A
  PROVE  /\ Among(s, A) \in Seq({x \in X : x \in A})
         /\ Len(Among(s, A)) <= Len(s)
<1> DEFINE S == 1..Len(s)
           Y == {x \in X : x \in A}
<1>1. PICK g : AmongTo(g, s, A, S) /\ Among(s, A) = g[S]
  BY AmongExists, AmongDef
<1> DEFINE P == {T \in SUBSET S : g[T] \in Seq(Y) /\ Len(g[T]) <= Cardinality(T)}
<1>2. {} \in P
  <2>1. g[{}] = <<>>
    BY <1>1 DEF AmongTo
  <2>2. Cardinality({}) = 0
    BY FS_EmptySet
  <2>3. <<>> \in Seq(Y) /\ Len(<<>>) = 0
    <3> HIDE DEF Y
    <3> QED BY EmptySeq
  <2>4. QED
    <3> HIDE DEF Y
    <3>1. g[{}] \in Seq(Y)
      BY <2>1, <2>3
    <3>2. Len(g[{}]) = 0
      BY <2>1, <2>3
    <3>3. QED
      BY <2>2, <3>1, <3>2
<1>3. ASSUME NEW T \in SUBSET S, T # {}
      PROVE  \E x \in T : T \ {x} \in P => T \in P
  <2>1. /\ Max(T) \in T /\ Cardinality(T \ {Max(T)}) = Cardinality(T) - 1
        /\ Cardinality(T) \in Nat
    <3>1. Len(s) \in Nat
      OBVIOUS
    <3>2. QED
      BY <1>3, <3>1, Positions
  <2>2. SUFFICES ASSUME T \ {Max(T)} \in P PROVE T \in P
    BY <2>1
  <2>3. g[T] = IF s[Max(T)] \in A THEN Append(g[T \ {Max(T)}], s[Max(T)])
               ELSE g[T \ {Max(T)}]
    BY <1>1, <1>3 DEF AmongTo
  <2>4. s[Max(T)] \in X
    <3>1. Max(T) \in 1..Len(s)
      BY <2>1
    <3>2. QED
      BY <3>1, ElementOfSeq
  <2> DEFINE t == g[T \ {Max(T)}]
  <2>5. t \in Seq(Y) /\ Len(t) <= Cardinality(T) - 1 /\ Len(t) \in Nat
    BY <2>1, <2>2
  <2>6. s[Max(T)] \in A => /\ Append(t, s[Max(T)]) \in Seq(Y)
                            /\ Len(Append(t, s[Max(T)])) = Len(t) + 1
    <3>1. s[Max(T)] \in A => s[Max(T)] \in Y
      BY <2>4
    <3>2. QED
      <4> HIDE DEF t, Y
      <4> QED BY <2>5, <3>1, AppendProperties
  <2>7. g[T] \in Seq(Y) /\ Len(g[T]) <= Cardinality(T)
    <3> HIDE DEF Y
    <3>1. s[Max(T)] \in A => g[T] = Append(t, s[Max(T)])
      BY <2>3
    <3>2. s[Max(T)] \notin A => g[T] = t
      BY <2>3
    <3> HIDE DEF t
    <3>3. CASE s[Max(T)] \in A
      <4>1. g[T] \in Seq(Y) /\ Len(g[T]) = Len(t) + 1
        BY <2>6, <3>1, <3>3
      <4>2. QED
        BY <2>1, <2>5, <4>1
    <3>4. CASE s[Max(T)] \notin A
      BY <2>1, <2>5, <3>2, <3>4
    <3>5. QED
      BY <3>3, <3>4
  <2>8. QED
    BY <1>3, <2>7
<1>4. S \in P
  <2>1. IsFiniteSet(S)
    BY FS_Interval
  <2>2. QED
    <3> HIDE DEF P
    <3>1. \A T \in SUBSET S : T \in P
      BY <1>2, <1>3, <2>1, SubsetInduction
    <3>2. QED
      BY <3>1
<1>5. Cardinality(S) = Len(s)
  <2>1. Len(s) \in Nat
    OBVIOUS
  <2>2. QED
    BY <2>1, Positions
<1>6. QED
  BY <1>1, <1>4, <1>5

LEMMA FunctionIsSequence ==
  ASSUME NEW n \in Nat, NEW f, f = [i \in 1..n |-> f[i]]
  PROVE  f \in Seq(Range(f)) /\ Len(f) = n /\ DOMAIN f = 1..n
<1>1. DOMAIN f = 1..n /\ \A i \in 1..n : f[i] \in Range(f)
  BY DEF Range
<1>2. f \in [1..n -> Range(f)]
  BY <1>1
<1>3. QED
  <2> DEFINE R == Range(f)
  <2>1. f \in [1..n -> R]
    BY <1>2
  <2>2. f \in Seq(R)
    <3> HIDE DEF R
    <3> QED BY <2>1, SeqDef
  <2>3. Len(f) = n
    <3>1. DOMAIN f = 1..Len(f) /\ Len(f) \in Nat
      BY <2>2, LenProperties
    <3>2. QED
      BY <1>1, <3>1
  <2>4. QED
    BY <1>1, <2>2, <2>3

\* A sequence of at most n events.
EventsOf(E, n) ==
  /\ E \in Seq(Range(E)) /\ Len(E) <= n
  /\ \A e \in Range(E) : e.type # "NONE"

LEMMA FactEventsType ==
  ASSUME NEW X, NEW facts \in Seq(X), NEW previous, NEW restored, NEW current,
         NEW stamp, NEW metric
  PROVE  EventsOf(FactEvents(facts, previous, restored, current, stamp, metric),
                  Len(facts))
<1> DEFINE A    == {f \in Range(facts) :
                      /\ current.fact[f] # None
                      /\ ~SameFact(f, previous, restored, current)}
           told == Among(facts, A)
           E    == FactEvents(facts, previous, restored, current, stamp, metric)
<1>1. told \in Seq({x \in X : x \in A}) /\ Len(told) <= Len(facts)
  <2> HIDE DEF A
  <2> QED BY AmongType
<1>2. Len(told) \in Nat /\ DOMAIN told = 1..Len(told)
  <2> HIDE DEF told
  <2> QED BY <1>1, LenProperties
<1>3. E = [i \in DOMAIN told |->
             InformationEvent(TypeOfFact(told[i], previous, metric),
                              stamp[told[i]], previous.fact[told[i]],
                              current.fact[told[i]],
                              MaterialFact(told[i], previous, current))]
  BY DEF FactEvents
<1>4. /\ DOMAIN E = 1..Len(told) /\ E = [i \in 1..Len(told) |-> E[i]]
      /\ \A i \in 1..Len(told) : E[i].type = TypeOfFact(told[i], previous, metric)
  <2> HIDE DEF told, E
  <2>1. DOMAIN E = 1..Len(told)
    BY <1>2, <1>3
  <2>2. E = [i \in 1..Len(told) |-> E[i]]
    BY <1>2, <1>3
  <2>3. \A i \in 1..Len(told) : E[i].type = TypeOfFact(told[i], previous, metric)
    BY <1>2, <1>3 DEF InformationEvent
  <2>4. QED
    BY <2>1, <2>2, <2>3
<1>5. \A f : TypeOfFact(f, previous, metric) # "NONE"
  BY DEF TypeOfFact
<1>6. QED
  <2> HIDE DEF told, E
  <2>1. E \in Seq(Range(E)) /\ Len(E) = Len(told)
    BY <1>2, <1>4, FunctionIsSequence
  <2>2. \A e \in Range(E) : e.type # "NONE"
    BY <1>4, <1>5 DEF Range
  <2>3. Len(facts) \in Nat
    BY LenProperties
  <2>4. EventsOf(E, Len(facts))
    BY <1>1, <2>1, <2>2, <2>3 DEF EventsOf
  <2>5. QED
    BY <2>4 DEF E

LEMMA EventsConcat ==
  ASSUME NEW m \in Nat, NEW n \in Nat, NEW s, NEW t, EventsOf(s, m), EventsOf(t, n)
  PROVE  EventsOf(s \o t, m + n)
<1> DEFINE R == Range(s) \cup Range(t)
<1>1. s \in Seq(R) /\ t \in Seq(R)
  BY SeqMonotonic DEF EventsOf
<1>2. /\ s \o t \in Seq(R) /\ Len(s \o t) = Len(s) + Len(t)
      /\ Range(s \o t) = Range(s) \cup Range(t)
  <2> HIDE DEF R
  <2> QED BY <1>1, ConcatProperties, RangeConcatenation
<1>3. s \o t \in Seq(Range(s \o t))
  BY <1>2
<1>4. Len(s) \in Nat /\ Len(t) \in Nat /\ Len(s) <= m /\ Len(t) <= n
  <2>1. Len(s) \in Nat /\ Len(t) \in Nat
    <3> HIDE DEF R
    <3> QED BY <1>1, LenProperties
  <2>2. QED
    BY <2>1 DEF EventsOf
<1>5. QED
  BY <1>2, <1>3, <1>4 DEF EventsOf

LEMMA FewEvents ==
  ASSUME NEW type, type # "NONE", NEW at, NEW old, NEW new, NEW material
  PROVE  /\ EventsOf(<<InformationEvent(type, at, old, new, material)>>, 1)
         /\ EventsOf(<<>>, 1)
<1> DEFINE e == InformationEvent(type, at, old, new, material)
           s == <<e>>
<1>1. e.type = type
  BY DEF InformationEvent
<1>2. s = [i \in 1..1 |-> e]
  OBVIOUS
<1>3. DOMAIN s = 1..1 /\ s[1] = e
  OBVIOUS
<1>4. s = [i \in 1..1 |-> s[i]]
  BY <1>2, <1>3
<1>5. EventsOf(s, 1)
  <2> HIDE DEF s, e
  <2>1. s \in Seq(Range(s)) /\ Len(s) = 1
    BY <1>4, FunctionIsSequence
  <2>2. \A x \in Range(s) : x = e
    BY <1>3 DEF Range
  <2>3. QED
    BY <1>1, <2>1, <2>2 DEF EventsOf
<1>6. EventsOf(<<>>, 1)
  <2>1. Range(<<>>) = {}
    BY DEF Range
  <2>2. <<>> \in Seq({}) /\ Len(<<>>) = 0
    BY EmptySeq
  <2>3. QED
    BY <2>1, <2>2 DEF EventsOf
<1>7. QED
  BY <1>5, <1>6

\* A row brings at most nine events.
LEMMA DetectedType ==
  ASSUME NEW previous, NEW restored, NEW current, NEW stamp, NEW metric
  PROVE  EventsOf(DetectedEvents(previous, restored, current, stamp, metric), 9)
<1> DEFINE Of(facts) == FactEvents(facts, previous, restored, current, stamp, metric)
           bracket ==
             IF current.impossible /\ ~previous.impossible
             THEN <<InformationEvent("BRACKET_BECAME_IMPOSSIBLE",
                                     stamp["quantity"], FALSE, TRUE, TRUE)>>
             ELSE <<>>
           status ==
             IF current.status \notin {"none", previous.status}
             THEN <<InformationEvent("MARKET_STATUS_CHANGED", stamp["quantity"],
                                     previous.status, current.status, TRUE)>>
             ELSE <<>>
           some == Of(SubSeq(Facts, 1, 3))
           rest == Of(SubSeq(Facts, 4, 7))
<1>1. EventsOf(some, 3) /\ EventsOf(rest, 4)
  <2>1. \A i \in 1..7 : Facts[i] \in Range(Facts)
    BY DEF Facts, Range
  <2>2. /\ SubSeq(Facts, 1, 3) \in Seq(Range(Facts)) /\ Len(SubSeq(Facts, 1, 3)) = 3
        /\ SubSeq(Facts, 4, 7) \in Seq(Range(Facts)) /\ Len(SubSeq(Facts, 4, 7)) = 4
    BY <2>1, SubSeqProperties
  <2>3. EventsOf(some, Len(SubSeq(Facts, 1, 3))) /\ EventsOf(rest, Len(SubSeq(Facts, 4, 7)))
    BY <2>2, FactEventsType
  <2>4. QED
    <3> HIDE DEF some, rest
    <3> QED BY <2>2, <2>3
<1>2. EventsOf(bracket, 1) /\ EventsOf(status, 1)
  <2>1. \A type, at, old, new, material :
          type # "NONE" =>
            /\ EventsOf(<<InformationEvent(type, at, old, new, material)>>, 1)
            /\ EventsOf(<<>>, 1)
    BY FewEvents
  <2>2. EventsOf(bracket, 1)
    <3>1. "BRACKET_BECAME_IMPOSSIBLE" # "NONE"
      OBVIOUS
    <3>2. QED
      BY <2>1, <3>1
  <2>3. EventsOf(status, 1)
    <3>1. "MARKET_STATUS_CHANGED" # "NONE"
      OBVIOUS
    <3>2. QED
      BY <2>1, <3>1
  <2>4. QED
    BY <2>2, <2>3
<1>3. EventsOf(((some \o bracket) \o rest) \o status, 9)
  <2> HIDE DEF some, bracket, rest, status
  <2>1. EventsOf(some \o bracket, 4)
    BY <1>1, <1>2, EventsConcat
  <2>2. EventsOf((some \o bracket) \o rest, 8)
    BY <1>1, <2>1, EventsConcat
  <2>3. QED
    BY <1>2, <2>2, EventsConcat
<1>4. DetectedEvents(previous, restored, current, stamp, metric)
        = ((some \o bracket) \o rest) \o status
  BY DEF DetectedEvents
<1>5. QED
  BY <1>3, <1>4

\* What a row is judged on: one to nine triggers, each an event it brought, or
\* no event.
TriggersOf(found) ==
  /\ \E n \in 1..9 : DOMAIN found.act = 1..n
  /\ \A i \in DOMAIN found.act :
       \/ found.act[i] = NoEvent
       \/ /\ found.act[i].type # "NONE"
          /\ found.act[i].id \in {e.id : e \in Range(found.all)}

LEMMA TriggersType ==
  ASSUME NEW v, NEW row
  PROVE  TriggersOf(Triggers(v, row))
<1> DEFINE first == v.decisions = {}
           old   == IF first THEN NoBasis
                    ELSE LET n == Newest(v.decisions).key[1] IN
                         Basis(CHOOSE o \in v.rows : o.n = n)
           Acted(all) == LET some == Among(all, {e \in Range(all) : e.material}) IN
             IF some = <<>> THEN <<NoEvent>>
             ELSE [i \in DOMAIN some |-> [type |-> some[i].type, id |-> some[i].id]]
           all == DetectedEvents(old, ~first, Basis(row), Stamp(row), "max")
           found == [all |-> all, act |-> Acted(all)]
<1>1. Triggers(v, row) = found
  <2>1. Triggers(v, row) = CHOOSE x \in {[all |-> a, act |-> Acted(a)] : a \in {all}} : TRUE
    BY DEF Triggers
  <2>2. {[all |-> a, act |-> Acted(a)] : a \in {all}} = {found}
    <3> HIDE DEF all
    <3> QED OBVIOUS
  <2>3. \A y : (CHOOSE x \in {y} : TRUE) = y
    OBVIOUS
  <2>4. QED
    <3> HIDE DEF found, all, Acted
    <3> QED BY <2>1, <2>2, <2>3
<1>2. EventsOf(all, 9)
  <2> HIDE DEF old, first
  <2> QED BY DetectedType
<1> DEFINE A == {e \in Range(all) : e.material}
           some == Among(all, A)
<1>3. some \in Seq(Range(all)) /\ Len(some) <= 9
  <2> HIDE DEF all
  <2>1. some \in Seq({x \in Range(all) : x \in A}) /\ Len(some) <= Len(all)
    <3> HIDE DEF A
    <3> QED BY <1>2, AmongType DEF EventsOf
  <2>2. {x \in Range(all) : x \in A} \subseteq Range(all)
    OBVIOUS
  <2>3. some \in Seq(Range(all))
    <3> HIDE DEF A, some
    <3> QED BY <2>1, <2>2, SeqMonotonic
  <2>4. Len(all) \in Nat /\ Len(some) \in Nat
    <3> HIDE DEF A, some
    <3> QED BY <1>2, <2>3, LenProperties DEF EventsOf
  <2>5. QED
    <3> HIDE DEF A, some
    <3> QED BY <1>2, <2>1, <2>3, <2>4 DEF EventsOf
<1> HIDE DEF all, A
<1>4. /\ Len(some) \in Nat /\ DOMAIN some = 1..Len(some)
      /\ some # <<>> => Len(some) # 0
      /\ \A i \in DOMAIN some : some[i] \in Range(all)
  <2> HIDE DEF some
  <2> QED BY <1>3, LenProperties, EmptySeq, ElementOfSeq
<1>5. CASE some = <<>>
  <2>1. found.act = <<NoEvent>>
    BY <1>5 DEF A
  <2>2. DOMAIN <<NoEvent>> = 1..1 /\ <<NoEvent>>[1] = NoEvent
    OBVIOUS
  <2>3. QED
    <3> HIDE DEF found
    <3> QED BY <1>1, <2>1, <2>2 DEF TriggersOf
<1>6. CASE some # <<>>
  <2>1. found.act = [i \in DOMAIN some |-> [type |-> some[i].type, id |-> some[i].id]]
    BY <1>6 DEF A
  <2>2. found.all = all
    OBVIOUS
  <2>3. \A i \in DOMAIN some : some[i].type # "NONE"
    BY <1>2, <1>4 DEF EventsOf
  <2>4. Len(some) \in 1..9
    <3> DEFINE n == Len(some)
    <3>1. n \in Nat /\ n # 0 /\ n <= 9
      <4> HIDE DEF some
      <4> QED BY <1>3, <1>4, <1>6
    <3>2. QED
      <4> HIDE DEF n
      <4>1. n \in 1..9
        BY <3>1
      <4>2. QED
        BY <4>1 DEF n
  <2>5. QED
    <3> HIDE DEF found, some
    <3>1. DOMAIN found.act = 1..Len(some)
      BY <1>4, <2>1
    <3>2. \A i \in DOMAIN found.act :
            /\ found.act[i].type = some[i].type /\ found.act[i].id = some[i].id
      BY <1>4, <2>1, <3>1
    <3>3. \A i \in DOMAIN found.act :
            /\ found.act[i].type # "NONE"
            /\ found.act[i].id \in {e.id : e \in Range(found.all)}
      BY <1>4, <2>2, <2>3, <3>1, <3>2
    <3>4. QED
      BY <1>1, <2>4, <3>1, <3>3 DEF TriggersOf
<1>7. QED
  BY <1>5, <1>6

---------------------------------------------------------------------------
(* The decisions on a row                                                  *)

\* The parent a row's first decision gets, and its i-th decision.
BasisOf(v) == IF v.decisions = {} THEN NoId ELSE Newest(v.decisions).key
ContextOf(v, row, triggers, position, i) ==
  Context(row, position, triggers[i], v.decisions = {})
DecisionAt(v, row, triggers, position, i) ==
  Decided(row, i, BasisOf(v), ContextOf(v, row, triggers, position, i))

LEMMA DecisionsAre ==
  ASSUME NEW v, NEW row, NEW triggers, NEW position
  PROVE  DecisionsOn(v, row, triggers, position)
           = {DecisionAt(v, row, triggers, position, i) : i \in DOMAIN triggers}
BY DEF DecisionsOn, DecisionAt, BasisOf, ContextOf

LEMMA DecisionIs ==
  ASSUME NEW v, NEW row, NEW triggers, NEW position, NEW i
  PROVE  /\ DecisionAt(v, row, triggers, position, i).key = <<row.n, i>>
         /\ DecisionAt(v, row, triggers, position, i).trigger = triggers[i]
         /\ DecisionAt(v, row, triggers, position, i).action
              = Action(ContextOf(v, row, triggers, position, i))
<1>1. ContextOf(v, row, triggers, position, i).trigger = triggers[i]
  BY DEF ContextOf, Context
<1>2. QED
  BY <1>1 DEF DecisionAt, Decided

LEMMA ActionIs ==
  ASSUME NEW c
  PROVE  Action(c) \in Actions
BY DEF Action, EntryAction, Actions, TradeActions, Entries, Rebuys

LEMMA ParentIs ==
  ASSUME NEW v, NEW row, NEW triggers, NEW position, NEW i
  PROVE  DecisionAt(v, row, triggers, position, i).parent
           = IF i = 1 THEN BasisOf(v) ELSE <<row.n, i - 1>>
BY DEF DecisionAt, Decided

---------------------------------------------------------------------------
(* What runs see                                                           *)

Tables == {"rows", "paper", "decisions", "events", "journal", "alerts", "reviews"}

Whole(v)   == v = [t \in Tables |-> v[t]]
Join(v, w) == [t \in Tables |-> v[t] \cup w[t]]

Shaped ==
  /\ Whole(db)
  /\ tx = [r \in Runs |-> tx[r]] /\ \A r \in Runs : Whole(tx[r])

LEMMA WholeEmpty ==
  /\ Whole(Empty)
  /\ \A t \in Tables : Empty[t] = {}
BY DEF Whole, Empty, Tables

LEMMA JoinIs ==
  ASSUME NEW v, NEW w
  PROVE  /\ Whole(Join(v, w))
         /\ \A t \in Tables : Join(v, w)[t] = v[t] \cup w[t]
         /\ Join(v, w).rows = v.rows \cup w.rows
         /\ Join(v, w).paper = v.paper \cup w.paper
         /\ Join(v, w).decisions = v.decisions \cup w.decisions
         /\ Join(v, w).events = v.events \cup w.events
         /\ Join(v, w).journal = v.journal \cup w.journal
         /\ Join(v, w).alerts = v.alerts \cup w.alerts
         /\ Join(v, w).reviews = v.reviews \cup w.reviews
BY DEF Whole, Join, Tables

LEMMA VisibleIs ==
  ASSUME Shaped, NEW r \in Runs
  PROVE  Visible(r) = Join(db, tx[r]) /\ Whole(Visible(r))
<1>1. DOMAIN db = Tables
  BY DEF Shaped, Whole
<1>2. QED
  BY <1>1, JoinIs DEF Visible, Join

\* A run that writes adds to what it sees; the others see no difference.
LEMMA WriteSeen ==
  ASSUME Shaped, NEW r \in Runs, NEW w, Whole(w), Write(r, w), db' = db
  PROVE  /\ Shaped'
         /\ Visible(r)' = Join(Visible(r), w)
         /\ tx'[r] = Join(tx[r], w)
         /\ \A q \in Runs \ {r} : Visible(q)' = Visible(q) /\ tx'[q] = tx[q]
<1>1. DOMAIN db = Tables
  BY DEF Shaped, Whole
<1>2. tx' = [tx EXCEPT ![r] = Join(tx[r], w)]
  BY <1>1 DEF Write, Join
<1>3. DOMAIN tx = Runs
  BY DEF Shaped
<1>4. tx'[r] = Join(tx[r], w) /\ \A q \in Runs \ {r} : tx'[q] = tx[q]
  BY <1>2, <1>3
<1>5. Shaped'
  <2>1. tx' = [q \in Runs |-> tx'[q]]
    BY <1>2, <1>3
  <2>2. \A q \in Runs : Whole(tx'[q])
    BY <1>4, JoinIs DEF Shaped
  <2>3. QED
    BY <2>1, <2>2 DEF Shaped
<1>6. Visible(r)' = Join(db, Join(tx[r], w))
  BY <1>1, <1>4 DEF Visible, Join
<1>7. Join(db, Join(tx[r], w)) = Join(Join(db, tx[r]), w)
  BY DEF Join
<1>8. \A q \in Runs \ {r} : Visible(q)' = Visible(q)
  BY <1>4 DEF Visible
<1>9. QED
  BY <1>4, <1>5, <1>6, <1>7, <1>8, VisibleIs

\* A commit is seen by all.
LEMMA CommitSeen ==
  ASSUME Shaped, NEW r \in Runs, db' = Visible(r), tx' = [tx EXCEPT ![r] = Empty]
  PROVE  /\ Shaped'
         /\ Visible(r)' = Visible(r)
         /\ tx'[r] = Empty
         /\ \A q \in Runs \ {r} : /\ Visible(q)' = Join(Visible(r), Visible(q))
                                  /\ tx'[q] = tx[q]
<1>1. DOMAIN tx = Runs
  BY DEF Shaped
<1>2. tx'[r] = Empty /\ \A q \in Runs \ {r} : tx'[q] = tx[q]
  BY <1>1
<1>3. Visible(r) = Join(db, tx[r]) /\ Whole(Visible(r)) /\ DOMAIN db = Tables
  BY VisibleIs DEF Shaped, Whole
<1>4. DOMAIN db' = Tables
  BY <1>3 DEF Whole
<1>5. Shaped'
  <2>1. tx' = [q \in Runs |-> tx'[q]]
    BY <1>1
  <2>2. \A q \in Runs : Whole(tx'[q])
    BY <1>2, WholeEmpty DEF Shaped
  <2>3. QED
    BY <1>3, <2>1, <2>2 DEF Shaped
<1>6. Visible(r)' = Visible(r)
  <2>1. Visible(r)' = [t \in Tables |-> Visible(r)[t] \cup {}]
    BY <1>2, <1>4, WholeEmpty DEF Visible
  <2>2. [t \in Tables |-> Visible(r)[t] \cup {}] = [t \in Tables |-> Visible(r)[t]]
    OBVIOUS
  <2>3. QED
    BY <1>3, <2>1, <2>2 DEF Whole
<1>7. ASSUME NEW q \in Runs \ {r}
      PROVE  Visible(q)' = Join(Visible(r), Visible(q))
  <2>1. Visible(q)' = [t \in Tables |-> (db[t] \cup tx[r][t]) \cup tx[q][t]]
    BY <1>2, <1>3, <1>4 DEF Visible, Join
  <2>2. Join(Visible(r), Visible(q))
          = [t \in Tables |-> (db[t] \cup tx[r][t]) \cup (db[t] \cup tx[q][t])]
    BY <1>3, VisibleIs DEF Join
  <2>3. [t \in Tables |-> (db[t] \cup tx[r][t]) \cup (db[t] \cup tx[q][t])]
          = [t \in Tables |-> (db[t] \cup tx[r][t]) \cup tx[q][t]]
    OBVIOUS
  <2>4. QED
    BY <2>1, <2>2, <2>3
<1>8. QED
  BY <1>2, <1>5, <1>6, <1>7

\* A run that fails sees what is committed; the others see no difference.
LEMMA AbortSeen ==
  ASSUME Shaped, NEW r \in Runs, db' = db, tx' = [tx EXCEPT ![r] = Empty]
  PROVE  /\ Shaped'
         /\ Visible(r)' = db
         /\ tx'[r] = Empty
         /\ \A q \in Runs \ {r} : Visible(q)' = Visible(q) /\ tx'[q] = tx[q]
<1>1. DOMAIN tx = Runs
  BY DEF Shaped
<1>2. tx'[r] = Empty /\ \A q \in Runs \ {r} : tx'[q] = tx[q]
  BY <1>1
<1>3. DOMAIN db = Tables /\ Whole(db)
  BY DEF Shaped, Whole
<1>4. Shaped'
  <2>1. tx' = [q \in Runs |-> tx'[q]]
    BY <1>1
  <2>2. \A q \in Runs : Whole(tx'[q])
    BY <1>2, WholeEmpty DEF Shaped
  <2>3. QED
    BY <1>3, <2>1, <2>2 DEF Shaped
<1>5. Visible(r)' = db
  <2>1. Visible(r)' = [t \in Tables |-> db[t] \cup {}]
    BY <1>2, <1>3, WholeEmpty DEF Visible
  <2>2. [t \in Tables |-> db[t] \cup {}] = [t \in Tables |-> db[t]]
    OBVIOUS
  <2>3. QED
    BY <1>3, <2>1, <2>2 DEF Whole
<1>6. \A q \in Runs \ {r} : Visible(q)' = Visible(q)
  BY <1>2 DEF Visible
<1>7. QED
  BY <1>2, <1>4, <1>5, <1>6

---------------------------------------------------------------------------
(* What is written refers to what is there                                 *)

Records(v) == {<<j.kind, j.id>> : j \in v.journal}
Keys(v)    == {d.key : d \in v.decisions}
Rows(v)    == {row.n : row \in v.rows}
JudgedRows(v) == {d.key[1] : d \in v.decisions}

Numbered(v, last) ==
  /\ Rows(v) \subseteq 1..last
  /\ Keys(v) \subseteq Ids
  /\ {d.action : d \in v.decisions} \subseteq Actions
  /\ {w.decision : w \in v.reviews} \subseteq Ids

Closed(v) ==
  /\ \A j \in v.journal : j.parent = <<>> \/ j.parent \in Records(v)
  /\ \A d \in v.decisions : d.trigger = NoEvent \/ d.trigger.id \in v.events
  /\ \A d \in v.decisions : <<"DECISION_SNAPSHOT", d.key>> \in Records(v)
  /\ \A e \in v.events : <<"INFORMATION_EVENT", e>> \in Records(v)
  /\ {a[1] : a \in v.alerts} \subseteq Keys(v)
  /\ {w.decision : w \in v.reviews} \subseteq Keys(v)
  /\ JudgedRows(v) \subseteq Rows(v)

LEMMA ClosedJoin ==
  ASSUME NEW v, NEW w, Closed(v), Closed(w)
  PROVE  Closed(Join(v, w))
<1>1. /\ Records(Join(v, w)) = Records(v) \cup Records(w)
      /\ Keys(Join(v, w)) = Keys(v) \cup Keys(w)
      /\ Rows(Join(v, w)) = Rows(v) \cup Rows(w)
      /\ JudgedRows(Join(v, w)) = JudgedRows(v) \cup JudgedRows(w)
  BY JoinIs DEF Records, Keys, Rows, JudgedRows
<1>2. QED
  BY <1>1, JoinIs DEF Closed

\* Rows and paper events refer to nothing.
LEMMA ClosedOrders ==
  ASSUME NEW v, Closed(v), NEW w, w.decisions = {}, w.events = {}, w.journal = {},
         w.alerts = {}, w.reviews = {}
  PROVE  Closed(Join(v, w))
<1>1. /\ Records(Join(v, w)) = Records(v) /\ Keys(Join(v, w)) = Keys(v)
      /\ Rows(v) \subseteq Rows(Join(v, w)) /\ JudgedRows(Join(v, w)) = JudgedRows(v)
  BY JoinIs DEF Records, Keys, Rows, JudgedRows
<1>2. QED
  BY <1>1, JoinIs DEF Closed

LEMMA PaperIs ==
  ASSUME NEW P
  PROVE  /\ Whole([Empty EXCEPT !.paper = P])
         /\ [Empty EXCEPT !.paper = P].paper = P
         /\ [Empty EXCEPT !.paper = P].rows = {}
         /\ [Empty EXCEPT !.paper = P].decisions = {}
         /\ [Empty EXCEPT !.paper = P].events = {}
         /\ [Empty EXCEPT !.paper = P].journal = {}
         /\ [Empty EXCEPT !.paper = P].alerts = {}
         /\ [Empty EXCEPT !.paper = P].reviews = {}
BY DEF Whole, Empty, Tables

LEMMA RowIs ==
  ASSUME NEW R, NEW P
  PROVE  /\ Whole([Empty EXCEPT !.rows = R, !.paper = P])
         /\ [Empty EXCEPT !.rows = R, !.paper = P].paper = P
         /\ [Empty EXCEPT !.rows = R, !.paper = P].rows = R
         /\ [Empty EXCEPT !.rows = R, !.paper = P].decisions = {}
         /\ [Empty EXCEPT !.rows = R, !.paper = P].events = {}
         /\ [Empty EXCEPT !.rows = R, !.paper = P].journal = {}
         /\ [Empty EXCEPT !.rows = R, !.paper = P].alerts = {}
         /\ [Empty EXCEPT !.rows = R, !.paper = P].reviews = {}
BY DEF Whole, Empty, Tables

\* What judging a row writes.
LEMMA JudgedIs ==
  ASSUME NEW v, NEW row, NEW told, NEW decided
  PROVE  LET w == Judged(v, row, told, decided)
             paper == (CHOOSE e \in v.paper : e.row = row.n).type IN
         /\ Whole(w)
         /\ w.rows = {} /\ w.paper = {} /\ w.reviews = {}
         /\ w.decisions = decided /\ w.events = told
         /\ w.journal = {Record("INFORMATION_EVENT", i, <<>>) : i \in told \ v.events}
                        \cup UNION {DecisionRecords(d, paper) : d \in decided}
         /\ w.alerts = {<<d.key, d.alert>> : d \in {x \in decided : x.alert # "NONE"}}
<1> DEFINE paper == (CHOOSE e \in v.paper : e.row = row.n).type
           J == {Record("INFORMATION_EVENT", i, <<>>) : i \in told \ v.events}
                  \cup UNION {DecisionRecords(d, paper) : d \in decided}
           A == {<<d.key, d.alert>> : d \in {x \in decided : x.alert # "NONE"}}
<1>1. Judged(v, row, told, decided)
        = [Empty EXCEPT !.decisions = decided, !.events = told, !.journal = J,
                        !.alerts = A]
  BY DEF Judged
<1> HIDE DEF J, A
<1>2. QED
  <2> DEFINE w == [Empty EXCEPT !.decisions = decided, !.events = told, !.journal = J,
                                !.alerts = A]
  <2>1. /\ Whole(w) /\ w.rows = {} /\ w.paper = {} /\ w.reviews = {}
        /\ w.decisions = decided /\ w.events = told /\ w.journal = J /\ w.alerts = A
    BY DEF Empty, Whole, Tables
  <2>2. QED
    <3> HIDE DEF w
    <3> QED BY <1>1, <2>1 DEF w, J, A

LEMMA ClosedRecords ==
  ASSUME NEW d, NEW paper
  PROVE  /\ <<"DECISION_SNAPSHOT", d.key>>
              \in {<<j.kind, j.id>> : j \in DecisionRecords(d, paper)}
         /\ \A j \in DecisionRecords(d, paper) :
              \/ j.parent = <<>>
              \/ j.parent = <<"INFORMATION_EVENT", d.trigger.id>> /\ d.trigger # NoEvent
              \/ j.parent \in {<<x.kind, x.id>> : x \in DecisionRecords(d, paper)}
<1> DEFINE D == DecisionRecords(d, paper)
           R == {<<j.kind, j.id>> : j \in D}
           decision == <<"DECISION_SNAPSHOT", d.key>>
           intent   == <<"INTENDED_ORDER", Derived("intent", d.key)>>
           actual   == <<"ACTUAL_ORDER", Derived("actual", d.key)>>
           kind     == CASE d.action = "HOLD"   -> {"POSITION_REVIEW"}
                         [] d.action = "EXIT"   -> {"EXIT"}
                         [] d.action \in Rebuys -> {"REENTRY"}
                         [] OTHER               -> {}
           first == Record(decision[1], decision[2],
                           IF d.trigger = NoEvent THEN <<>>
                           ELSE <<"INFORMATION_EVENT", d.trigger.id>>)
           trade == d.action \in TradeActions
           i == Record(intent[1], intent[2], decision)
           a == Record(actual[1], actual[2], intent)
           fill == Record("FILL", Derived("fill", d.key), actual)
<1>1. D = {first} \cup {Record(k, Derived(k, d.key), decision) : k \in kind}
          \cup (IF ~trade THEN {} ELSE {i, a} \cup (IF paper # "FILLED" THEN {} ELSE {fill}))
  BY DEF DecisionRecords
<1>2. \A k, id, p : /\ Record(k, id, p).kind = k /\ Record(k, id, p).id = id
                    /\ Record(k, id, p).parent = p
  BY DEF Record
<1>3. /\ first.kind = "DECISION_SNAPSHOT" /\ first.id = d.key
      /\ first.parent = IF d.trigger = NoEvent THEN <<>>
                        ELSE <<"INFORMATION_EVENT", d.trigger.id>>
      /\ <<i.kind, i.id>> = intent /\ i.parent = decision
      /\ <<a.kind, a.id>> = actual /\ a.parent = intent
      /\ fill.parent = actual
      /\ \A k : Record(k, Derived(k, d.key), decision).parent = decision
  BY <1>2
<1>4. decision \in R
  <2>1. first \in D
    <3> HIDE DEF first, kind, i, a, fill, trade
    <3> QED BY <1>1
  <2>2. <<first.kind, first.id>> = decision
    BY <1>3
  <2>3. QED
    <3> HIDE DEF D, first, decision
    <3> QED BY <2>1, <2>2
<1>5. trade => intent \in R /\ (paper = "FILLED" => actual \in R)
  <2>1. trade => i \in D /\ a \in D
    <3> HIDE DEF first, kind, i, a, fill, trade
    <3> QED BY <1>1
  <2>2. QED
    <3> HIDE DEF D, i, a, intent, actual, trade
    <3> QED BY <1>3, <2>1
<1>6. ASSUME NEW j \in D
      PROVE  \/ j.parent = <<>>
             \/ j.parent = <<"INFORMATION_EVENT", d.trigger.id>> /\ d.trigger # NoEvent
             \/ j.parent \in R
  <2>1. \/ j = first
        \/ \E k \in kind : j = Record(k, Derived(k, d.key), decision)
        \/ trade /\ (j = i \/ j = a)
        \/ trade /\ paper = "FILLED" /\ j = fill
    <3> HIDE DEF first, kind, i, a, fill, trade
    <3> QED BY <1>1, <1>6
  <2> HIDE DEF D, R, first, kind, i, a, fill, trade, intent, actual, decision
  <2>2. QED
    BY <1>3, <1>4, <1>5, <2>1
<1>7. QED
  BY <1>4, <1>6

\* Judging a row leaves nothing that refers to what is not there.
LEMMA ClosedJudge ==
  ASSUME NEW v, Closed(v), NEW row \in v.rows, NEW found, TriggersOf(found),
         NEW position
  PROVE  LET decided == DecisionsOn(v, row, found.act, position)
             told    == {e.id : e \in Range(found.all)}
         IN Closed(Join(v, Judged(v, row, told, decided)))
<1> DEFINE decided == DecisionsOn(v, row, found.act, position)
           told    == {e.id : e \in Range(found.all)}
           w == Judged(v, row, told, decided)
           u == Join(v, w)
           paper == (CHOOSE e \in v.paper : e.row = row.n).type
<1>1. \A d \in decided : \E i \in DOMAIN found.act :
        /\ d.key = <<row.n, i>> /\ d.trigger = found.act[i]
  <2> DEFINE acts == found.act
  <2>1. \A i : /\ DecisionAt(v, row, acts, position, i).key = <<row.n, i>>
               /\ DecisionAt(v, row, acts, position, i).trigger = acts[i]
    <3> HIDE DEF acts
    <3> QED BY DecisionIs
  <2>2. decided = {DecisionAt(v, row, acts, position, i) : i \in DOMAIN acts}
    BY DecisionsAre
  <2>3. QED
    <3> HIDE DEF acts, decided
    <3> QED BY <2>1, <2>2 DEF acts
<1>2. \A d \in decided :
        /\ d.key[1] = row.n
        /\ d.trigger = NoEvent \/ d.trigger.id \in told
  <2> HIDE DEF decided, told
  <2>1. \A i \in DOMAIN found.act : found.act[i] = NoEvent \/ found.act[i].id \in told
    BY DEF TriggersOf, told
  <2>2. QED
    BY <1>1, <2>1
<1> HIDE DEF decided, told
<1>3. /\ w.rows = {} /\ w.paper = {} /\ w.reviews = {}
      /\ w.decisions = decided /\ w.events = told
      /\ w.journal = {Record("INFORMATION_EVENT", i, <<>>) : i \in told \ v.events}
                     \cup UNION {DecisionRecords(d, paper) : d \in decided}
      /\ w.alerts = {<<d.key, d.alert>> : d \in {x \in decided : x.alert # "NONE"}}
  BY JudgedIs
<1> HIDE DEF w
<1>4. /\ u.rows = v.rows /\ u.reviews = v.reviews
      /\ u.decisions = v.decisions \cup decided /\ u.events = v.events \cup told
      /\ u.journal = v.journal \cup w.journal /\ u.alerts = v.alerts \cup w.alerts
  <2>1. /\ u.rows = v.rows \cup w.rows /\ u.reviews = v.reviews \cup w.reviews
        /\ u.decisions = v.decisions \cup w.decisions
        /\ u.events = v.events \cup w.events
        /\ u.journal = v.journal \cup w.journal /\ u.alerts = v.alerts \cup w.alerts
    BY JoinIs
  <2>2. v.rows \cup {} = v.rows /\ v.reviews \cup {} = v.reviews
    OBVIOUS
  <2>3. QED
    <3> HIDE DEF u
    <3> QED BY <1>3, <2>1, <2>2
<1> HIDE DEF u
<1>5. /\ Records(v) \subseteq Records(u) /\ Keys(v) \subseteq Keys(u)
      /\ Rows(u) = Rows(v)
  BY <1>4 DEF Records, Keys, Rows
<1>6. \A e \in told \ v.events : <<"INFORMATION_EVENT", e>> \in Records(u)
  <2>1. SUFFICES ASSUME NEW e \in told \ v.events
                 PROVE  <<"INFORMATION_EVENT", e>> \in Records(u)
    OBVIOUS
  <2> DEFINE j == Record("INFORMATION_EVENT", e, <<>>)
  <2>2. j \in u.journal
    <3> HIDE DEF paper
    <3> QED BY <1>3, <1>4
  <2>3. j.kind = "INFORMATION_EVENT" /\ j.id = e
    BY DEF Record
  <2>4. QED
    <3> HIDE DEF j
    <3> QED BY <2>2, <2>3 DEF Records
<1>7. \A e \in u.events : <<"INFORMATION_EVENT", e>> \in Records(u)
  BY <1>4, <1>5, <1>6 DEF Closed
<1>8. ASSUME NEW j \in u.journal PROVE j.parent = <<>> \/ j.parent \in Records(u)
  <2>1. CASE j \in v.journal
    BY <1>5, <2>1 DEF Closed
  <2>2. CASE \E e : j = Record("INFORMATION_EVENT", e, <<>>)
    BY <2>2 DEF Record
  <2>3. ASSUME NEW d \in decided, j \in DecisionRecords(d, paper)
        PROVE  j.parent = <<>> \/ j.parent \in Records(u)
    <3> HIDE DEF paper
    <3>1. {<<x.kind, x.id>> : x \in DecisionRecords(d, paper)} \subseteq Records(u)
      BY <1>3, <1>4 DEF Records, paper
    <3>2. d.trigger # NoEvent => <<"INFORMATION_EVENT", d.trigger.id>> \in Records(u)
      BY <1>2, <1>4, <1>7
    <3>3. QED
      BY <2>3, <3>1, <3>2, ClosedRecords
  <2>4. QED
    <3> HIDE DEF paper
    <3>1. \/ j \in v.journal
          \/ j \in {Record("INFORMATION_EVENT", i, <<>>) : i \in told \ v.events}
          \/ j \in UNION {DecisionRecords(d, paper) : d \in decided}
      BY <1>3, <1>4, <1>8 DEF paper
    <3>2. j \in UNION {DecisionRecords(d, paper) : d \in decided} =>
            \E d \in decided : j \in DecisionRecords(d, paper)
      OBVIOUS
    <3>3. QED
      BY <2>1, <2>2, <2>3, <3>1, <3>2
<1>9. \A d \in u.decisions : d.trigger = NoEvent \/ d.trigger.id \in u.events
  BY <1>2, <1>4 DEF Closed
<1>10. {a[1] : a \in u.alerts} \subseteq Keys(u)
  <2>1. \A a \in w.alerts : a[1] \in Keys(u)
    BY <1>3, <1>4 DEF Keys
  <2>2. \A a \in v.alerts : a[1] \in Keys(u)
    BY <1>5 DEF Closed
  <2>3. QED
    BY <1>4, <2>1, <2>2
<1>11. {x.decision : x \in u.reviews} \subseteq Keys(u)
  BY <1>4, <1>5 DEF Closed
<1>12. JudgedRows(u) \subseteq Rows(u)
  <2>1. row.n \in Rows(v)
    BY DEF Rows
  <2>2. QED
    BY <1>2, <1>4, <1>5, <2>1 DEF Closed, JudgedRows
<1>13. \A d \in u.decisions : <<"DECISION_SNAPSHOT", d.key>> \in Records(u)
  <2> HIDE DEF paper
  <2>1. \A d \in decided : DecisionRecords(d, paper) \subseteq u.journal
    BY <1>3, <1>4 DEF paper
  <2>2. \A d \in decided : <<"DECISION_SNAPSHOT", d.key>> \in Records(u)
    BY <2>1, ClosedRecords DEF Records
  <2>3. QED
    BY <1>4, <1>5, <2>2 DEF Closed
<1>14. QED
  BY <1>13, <1>7, <1>8, <1>9, <1>10, <1>11, <1>12 DEF Closed, u, w, decided, told

\* What reviewing writes.
ReviewWrites(new) ==
  [Empty EXCEPT !.reviews = new,
                !.journal = UNION {ReviewRecords(w) : w \in new},
                !.alerts  = {<<w.decision, "SETTLED_REVIEW_READY">> : w \in new}]

LEMMA ClosedReview ==
  ASSUME NEW v, Closed(v), NEW new, {w.decision : w \in new} \subseteq Keys(v)
  PROVE  Whole(ReviewWrites(new)) /\ Closed(Join(v, ReviewWrites(new)))
<1> DEFINE w == ReviewWrites(new)
           u == Join(v, w)
<1>1. /\ Whole(w) /\ w.rows = {} /\ w.paper = {} /\ w.decisions = {} /\ w.events = {}
      /\ w.reviews = new /\ w.journal = UNION {ReviewRecords(x) : x \in new}
      /\ w.alerts = {<<x.decision, "SETTLED_REVIEW_READY">> : x \in new}
  <2> DEFINE J == UNION {ReviewRecords(x) : x \in new}
             A == {<<x.decision, "SETTLED_REVIEW_READY">> : x \in new}
  <2>1. w = [Empty EXCEPT !.reviews = new, !.journal = J, !.alerts = A]
    BY DEF ReviewWrites
  <2> HIDE DEF J, A
  <2>2. QED
    BY <2>1 DEF Whole, Empty, Tables, J, A
<1> HIDE DEF w
<1>2. /\ u.rows = v.rows /\ u.decisions = v.decisions /\ u.events = v.events
      /\ u.reviews = v.reviews \cup new /\ u.journal = v.journal \cup w.journal
      /\ u.alerts = v.alerts \cup w.alerts
  <2>1. /\ u.rows = v.rows \cup w.rows /\ u.reviews = v.reviews \cup w.reviews
        /\ u.decisions = v.decisions \cup w.decisions
        /\ u.events = v.events \cup w.events
        /\ u.journal = v.journal \cup w.journal /\ u.alerts = v.alerts \cup w.alerts
    BY JoinIs
  <2>2. v.rows \cup {} = v.rows /\ v.decisions \cup {} = v.decisions
        /\ v.events \cup {} = v.events
    OBVIOUS
  <2>3. QED
    <3> HIDE DEF u
    <3> QED BY <1>1, <2>1, <2>2
<1> HIDE DEF u
<1>3. /\ Records(v) \subseteq Records(u) /\ Keys(u) = Keys(v) /\ Rows(u) = Rows(v)
      /\ JudgedRows(u) = JudgedRows(v)
  BY <1>2 DEF Records, Keys, Rows, JudgedRows
<1>4. ASSUME NEW j \in u.journal PROVE j.parent = <<>> \/ j.parent \in Records(u)
  <2>1. CASE j \in v.journal
    BY <1>3, <2>1 DEF Closed
  <2>2. ASSUME NEW x \in new, j \in ReviewRecords(x)
        PROVE  j.parent \in Records(u)
    <3> DEFINE settlement == <<"SETTLEMENT", <<"settlement", x.decision, x.by>>>>
               s == Record(settlement[1], settlement[2], <<"DECISION_SNAPSHOT", x.decision>>)
               p == Record("POST_TRADE_REVIEW", <<"review", x.decision, x.by>>, settlement)
    <3>1. j = s \/ j = p
      BY <2>2 DEF ReviewRecords
    <3>2. /\ <<s.kind, s.id>> = settlement /\ p.parent = settlement
          /\ s.parent = <<"DECISION_SNAPSHOT", x.decision>>
      BY DEF Record
    <3>3. s \in w.journal
      <4>1. s \in ReviewRecords(x)
        BY DEF ReviewRecords
      <4>2. QED
        <5> HIDE DEF s
        <5> QED BY <1>1, <4>1
    <3>4. settlement \in Records(u)
      <4> HIDE DEF s, settlement
      <4> QED BY <1>2, <3>2, <3>3 DEF Records
    <3>5. <<"DECISION_SNAPSHOT", x.decision>> \in Records(u)
      BY <1>3 DEF Keys, Closed
    <3>6. QED
      <4> HIDE DEF s, p, settlement
      <4> QED BY <3>1, <3>2, <3>4, <3>5
  <2>3. QED
    BY <1>1, <1>2, <1>4, <2>1, <2>2
<1>5. {a[1] : a \in u.alerts} \subseteq Keys(u) /\ {x.decision : x \in u.reviews} \subseteq Keys(u)
  BY <1>1, <1>2, <1>3 DEF Closed
<1>6. QED
  <2>1. Closed(u)
    BY <1>2, <1>3, <1>4, <1>5 DEF Closed
  <2>2. QED
    BY <1>1, <2>1 DEF u, w

---------------------------------------------------------------------------
(* JournalClosed                                                           *)

AllJudged(v) == Rows(v) \subseteq JudgedRows(v)

\* What is stored and what runs see is numbered and closed, and a run about
\* to commit has judged every row.
DataInv ==
  /\ Shaped
  /\ Numbered(db, lastRow) /\ \A r \in Runs : Numbered(tx[r], lastRow)
  /\ Closed(db) /\ \A r \in Runs : Closed(Visible(r))
  /\ AllJudged(db) /\ \A r \in Runs : pc[r] = "commit" => AllJudged(Visible(r))

ScalarsOK ==
  /\ world \in [extreme : Extremes \cup {None}, stamp : 0..MaxTurns,
                price : Prices, kill : BOOLEAN, result : Sides \cup {"none"}]
  /\ world.stamp <= turns
  /\ pc \in [Runs -> {"idle", "settle", "decide", "judge", "commit"}]
  /\ lastRow \in 0..MaxRows /\ turns \in 0..MaxTurns /\ overlapped \in BOOLEAN

\* Nothing is left behind by a run that is over.
IdleEmpty == \A r \in Runs : pc[r] = "idle" => tx[r] = Empty

JournalInv == ScalarsOK /\ IdleEmpty /\ DataInv

LEMMA NumberedJoin ==
  ASSUME NEW v, NEW w, NEW last, Numbered(v, last), Numbered(w, last)
  PROVE  Numbered(Join(v, w), last)
BY JoinIs DEF Numbered, Rows, Keys

LEMMA NumberedLater ==
  ASSUME NEW v, NEW last \in Nat, NEW later \in Nat, last <= later, Numbered(v, last)
  PROVE  Numbered(v, later)
<1>1. 1..last \subseteq 1..later
  OBVIOUS
<1>2. QED
  BY <1>1 DEF Numbered

LEMMA NumberedEmpty ==
  ASSUME NEW last
  PROVE  Numbered(Empty, last)
BY DEF Numbered, Empty, Rows, Keys

LEMMA NumberedVisible ==
  ASSUME DataInv, NEW r \in Runs
  PROVE  Numbered(Visible(r), lastRow)
BY VisibleIs, NumberedJoin DEF DataInv

LEMMA AllJudgedJoin ==
  ASSUME NEW v, NEW w, AllJudged(v), AllJudged(w)
  PROVE  AllJudged(Join(v, w))
<1>1. /\ Rows(Join(v, w)) = Rows(v) \cup Rows(w)
      /\ JudgedRows(Join(v, w)) = JudgedRows(v) \cup JudgedRows(w)
  BY JoinIs DEF Rows, JudgedRows
<1>2. QED
  BY <1>1 DEF AllJudged

\* The four ways a step treats the tables.
LEMMA DataSame ==
  ASSUME DataInv, db' = db, tx' = tx, lastRow' = lastRow,
         \A r \in Runs : pc'[r] = "commit" => pc[r] = "commit"
  PROVE  DataInv'
<1>1. Shaped'
  BY DEF DataInv, Shaped
<1>2. \A r \in Runs : Visible(r)' = Visible(r)
  BY DEF Visible
<1>3. QED
  BY <1>1, <1>2 DEF DataInv

LEMMA DataWrite ==
  ASSUME DataInv, NEW r \in Runs, NEW w, Whole(w), Write(r, w), db' = db,
         lastRow \in Nat, lastRow' \in Nat, lastRow <= lastRow', Numbered(w, lastRow'),
         Closed(Join(Visible(r), w)),
         pc'[r] = "commit" => AllJudged(Join(Visible(r), w)),
         \A q \in Runs \ {r} : pc'[q] = pc[q]
  PROVE  DataInv'
<1>1. /\ Shaped'
      /\ Visible(r)' = Join(Visible(r), w) /\ tx'[r] = Join(tx[r], w)
      /\ \A q \in Runs \ {r} : Visible(q)' = Visible(q) /\ tx'[q] = tx[q]
  BY WriteSeen DEF DataInv
<1>2. Numbered(db', lastRow')
  BY NumberedLater DEF DataInv
<1>3. \A q \in Runs : Numbered(tx'[q], lastRow')
  <2>1. \A q \in Runs : Numbered(tx[q], lastRow')
    BY NumberedLater DEF DataInv
  <2>2. Numbered(tx'[r], lastRow')
    BY <1>1, <2>1, NumberedJoin
  <2>3. QED
    BY <1>1, <2>1, <2>2
<1>4. /\ \A q \in Runs : Closed(Visible(q)')
      /\ \A q \in Runs : pc'[q] = "commit" => AllJudged(Visible(q)')
  BY <1>1 DEF DataInv
<1>5. QED
  BY <1>1, <1>2, <1>3, <1>4 DEF DataInv

LEMMA DataCommit ==
  ASSUME DataInv, NEW r \in Runs, pc[r] = "commit",
         db' = Visible(r), tx' = [tx EXCEPT ![r] = Empty], lastRow' = lastRow,
         pc'[r] # "commit", \A q \in Runs \ {r} : pc'[q] = pc[q]
  PROVE  DataInv'
<1>1. /\ Shaped'
      /\ Visible(r)' = Visible(r) /\ tx'[r] = Empty
      /\ \A q \in Runs \ {r} :
           Visible(q)' = Join(Visible(r), Visible(q)) /\ tx'[q] = tx[q]
  BY CommitSeen DEF DataInv
<1>2. Numbered(db', lastRow')
  BY NumberedVisible
<1>3. \A q \in Runs : Numbered(tx'[q], lastRow')
  BY <1>1, NumberedEmpty DEF DataInv
<1>4. Closed(db') /\ AllJudged(db')
  BY DEF DataInv
<1>5. ASSUME NEW q \in Runs
      PROVE  Closed(Visible(q)') /\ (pc'[q] = "commit" => AllJudged(Visible(q)'))
  <2>1. CASE q = r
    BY <1>1, <2>1 DEF DataInv
  <2>2. CASE q # r
    BY <1>1, <2>2, ClosedJoin, AllJudgedJoin DEF DataInv
  <2>3. QED
    BY <2>1, <2>2
<1>6. QED
  BY <1>1, <1>2, <1>3, <1>4, <1>5 DEF DataInv

LEMMA DataAbort ==
  ASSUME DataInv, NEW r \in Runs, db' = db, tx' = [tx EXCEPT ![r] = Empty],
         lastRow' = lastRow,
         pc'[r] # "commit", \A q \in Runs \ {r} : pc'[q] = pc[q]
  PROVE  DataInv'
<1>1. /\ Shaped'
      /\ Visible(r)' = db /\ tx'[r] = Empty
      /\ \A q \in Runs \ {r} : Visible(q)' = Visible(q) /\ tx'[q] = tx[q]
  BY AbortSeen DEF DataInv
<1>2. \A q \in Runs : Numbered(tx'[q], lastRow')
  BY <1>1, NumberedEmpty DEF DataInv
<1>3. ASSUME NEW q \in Runs
      PROVE  Closed(Visible(q)') /\ (pc'[q] = "commit" => AllJudged(Visible(q)'))
  <2>1. CASE q = r
    BY <1>1, <2>1 DEF DataInv
  <2>2. CASE q # r
    BY <1>1, <2>2 DEF DataInv
  <2>3. QED
    BY <2>1, <2>2
<1>4. QED
  BY <1>1, <1>2, <1>3 DEF DataInv

LEMMA JournalInitially ==
  ASSUME Init
  PROVE  JournalInv
<1>1. MaxRows \in Nat /\ MaxTurns \in Nat
  BY JournalAssumption
<1>2. ScalarsOK
  <2>1. world \in [extreme : Extremes \cup {None}, stamp : {0}, price : Prices,
                   kill : {FALSE}, result : {"none"}]
    BY DEF Init
  <2>2. world.stamp = 0 /\ turns = 0
    BY <2>1 DEF Init
  <2>3. world \in [extreme : Extremes \cup {None}, stamp : 0..MaxTurns,
                   price : Prices, kill : BOOLEAN, result : Sides \cup {"none"}]
    <3> DEFINE E == Extremes \cup {None}
               R == Sides \cup {"none"}
    <3>1. 0 \in 0..MaxTurns /\ "none" \in R
      BY <1>1
    <3>2. world \in [extreme : E, stamp : 0..MaxTurns, price : Prices,
                     kill : BOOLEAN, result : R]
      <4> HIDE DEF E, R
      <4>1. world \in [extreme : E, stamp : {0}, price : Prices, kill : {FALSE},
                       result : {"none"}]
        BY <2>1 DEF E
      <4>2. QED
        BY <3>1, <4>1
    <3>3. QED
      BY <3>2
  <2>4. pc \in [Runs -> {"idle", "settle", "decide", "judge", "commit"}]
    BY DEF Init
  <2>5. lastRow = 0 /\ turns = 0 /\ overlapped = FALSE /\ 0 \in 0..MaxRows /\ 0 \in 0..MaxTurns
    BY <1>1 DEF Init
  <2>6. world.stamp <= turns
    BY <2>2
  <2>7. QED
    BY <2>3, <2>4, <2>5, <2>6 DEF ScalarsOK
<1>3. Shaped /\ IdleEmpty
  BY WholeEmpty DEF Init, Shaped, IdleEmpty
<1>4. \A r \in Runs : Visible(r) = Empty
  <2>1. SUFFICES ASSUME NEW r \in Runs PROVE Visible(r) = Empty
    OBVIOUS
  <2>2. Visible(r) = [t \in Tables |-> Empty[t]]
    <3>1. DOMAIN Empty = Tables /\ tx[r] = Empty /\ db = Empty
      BY DEF Init, Empty, Tables
    <3>2. Visible(r) = [t \in Tables |-> Empty[t] \cup Empty[t]]
      BY <3>1 DEF Visible
    <3>3. QED
      BY <3>2
  <2>3. QED
    BY <2>2, WholeEmpty DEF Whole
<1>5. Closed(Empty) /\ AllJudged(Empty)
  BY DEF Closed, AllJudged, Empty, Keys, Rows, JudgedRows
<1>6. DataInv
  BY <1>3, <1>4, <1>5, NumberedEmpty DEF Init, DataInv
<1>7. QED
  BY <1>2, <1>3, <1>6 DEF JournalInv

LEMMA ScalarsKept ==
  ASSUME ScalarsOK, world' = world, lastRow' = lastRow,
         turns' \in 0..MaxTurns, turns <= turns', overlapped' \in BOOLEAN,
         pc' \in [Runs -> {"idle", "settle", "decide", "judge", "commit"}]
  PROVE  ScalarsOK'
<1>1. world.stamp \in Int /\ turns \in Int /\ turns' \in Int /\ world.stamp <= turns
  BY JournalAssumption DEF ScalarsOK
<1>2. world'.stamp <= turns'
  BY <1>1
<1>3. QED
  BY <1>2 DEF ScalarsOK

LEMMA GotoIs ==
  ASSUME ScalarsOK, NEW r \in Runs,
         NEW at \in {"idle", "settle", "decide", "judge", "commit"}, Goto(r, at)
  PROVE  /\ pc'[r] = at /\ \A q \in Runs \ {r} : pc'[q] = pc[q]
         /\ pc' \in [Runs -> {"idle", "settle", "decide", "judge", "commit"}]
BY DEF ScalarsOK, Goto

LEMMA BeginKeeps ==
  ASSUME JournalInv, NEW r \in Runs, Begin(r)
  PROVE  JournalInv'
<1>1. /\ pc'[r] = "settle" /\ \A q \in Runs \ {r} : pc'[q] = pc[q]
      /\ pc' \in [Runs -> {"idle", "settle", "decide", "judge", "commit"}]
  BY GotoIs DEF JournalInv, Begin
<1>2. ScalarsOK'
  <2>1. turns' \in 0..MaxTurns /\ turns <= turns' /\ overlapped' \in BOOLEAN
    <3>1. turns \in 0..MaxTurns /\ MaxTurns \in Nat
      BY JournalAssumption DEF JournalInv, ScalarsOK
    <3>2. turns' = turns \/ (turns < MaxTurns /\ turns' = turns + 1)
      BY DEF Begin
    <3>3. overlapped' \in BOOLEAN
      BY DEF Begin
    <3>4. QED
      BY <3>1, <3>2, <3>3
  <2>2. QED
    BY <1>1, <2>1, ScalarsKept DEF JournalInv, Begin
<1>3. IdleEmpty'
  BY <1>1 DEF JournalInv, Begin, IdleEmpty
<1>4. DataInv'
  <2>1. \A q \in Runs : pc'[q] = "commit" => pc[q] = "commit"
    BY <1>1
  <2>2. QED
    BY <2>1, DataSame DEF JournalInv, Begin
<1>5. QED
  BY <1>2, <1>3, <1>4 DEF JournalInv

\* The step of a run that writes keeps the scalars and what is left behind.
LEMMA StepKeeps ==
  ASSUME JournalInv, NEW r \in Runs,
         NEW at \in {"settle", "decide", "judge", "commit"},
         pc'[r] = at, \A q \in Runs \ {r} : pc'[q] = pc[q],
         pc' \in [Runs -> {"idle", "settle", "decide", "judge", "commit"}],
         \A q \in Runs \ {r} : tx'[q] = tx[q],
         world' = world, lastRow' \in {lastRow, lastRow + 1},
         lastRow' # lastRow => lastRow < MaxRows,
         turns' = turns, overlapped' = overlapped
  PROVE  /\ ScalarsOK' /\ IdleEmpty'
         /\ lastRow \in Nat /\ lastRow' \in Nat /\ lastRow <= lastRow'
<1>1. MaxRows \in Nat /\ lastRow \in 0..MaxRows /\ lastRow' \in 0..MaxRows
  BY JournalAssumption DEF JournalInv, ScalarsOK
<1>2. world'.stamp <= turns'
  BY DEF JournalInv, ScalarsOK
<1>3. ScalarsOK'
  BY <1>1, <1>2 DEF JournalInv, ScalarsOK
<1>4. IdleEmpty'
  BY DEF JournalInv, IdleEmpty
<1>5. QED
  BY <1>1, <1>3, <1>4

LEMMA Stays ==
  ASSUME ScalarsOK, NEW r \in Runs, pc' = pc, pc[r] # "idle"
  PROVE  /\ \A q \in Runs \ {r} : pc'[q] = pc[q]
         /\ pc' \in [Runs -> {"idle", "settle", "decide", "judge", "commit"}]
         /\ pc'[r] \in {"settle", "decide", "judge", "commit"}
BY DEF ScalarsOK

LEMMA SettleKeeps ==
  ASSUME JournalInv, NEW r \in Runs, SettlePaper(r)
  PROVE  JournalInv'
<1>1. /\ pc'[r] = "decide" /\ \A q \in Runs \ {r} : pc'[q] = pc[q]
      /\ pc' \in [Runs -> {"idle", "settle", "decide", "judge", "commit"}]
  BY GotoIs DEF JournalInv, SettlePaper
<1>2. CASE tx' = tx
  <2>1. ScalarsOK' /\ IdleEmpty'
    BY <1>1, <1>2, StepKeeps DEF SettlePaper
  <2>2. \A q \in Runs : pc'[q] = "commit" => pc[q] = "commit"
    BY <1>1
  <2>3. DataInv'
    BY <1>2, <2>2, DataSame DEF JournalInv, SettlePaper
  <2>4. QED
    BY <2>1, <2>3 DEF JournalInv
<1>3. ASSUME NEW P, Write(r, [Empty EXCEPT !.paper = P])
      PROVE  JournalInv'
  <2> DEFINE w == [Empty EXCEPT !.paper = P]
  <2>1. /\ Whole(w) /\ w.rows = {} /\ w.decisions = {} /\ w.events = {}
        /\ w.journal = {} /\ w.alerts = {} /\ w.reviews = {}
    BY PaperIs
  <2>2. Write(r, w)
    BY <1>3
  <2> HIDE DEF w
  <2>3. Whole(w) /\ Closed(Join(Visible(r), w))
    BY <2>1, ClosedOrders DEF JournalInv, DataInv
  <2>4. Numbered(w, lastRow')
    BY <2>1 DEF Numbered, Rows, Keys
  <2>5. \A q \in Runs \ {r} : tx'[q] = tx[q]
    BY <2>3, <2>2, WriteSeen DEF JournalInv, DataInv, SettlePaper
  <2>6. /\ ScalarsOK' /\ IdleEmpty'
        /\ lastRow \in Nat /\ lastRow' \in Nat /\ lastRow <= lastRow'
    BY <1>1, <2>5, StepKeeps DEF SettlePaper
  <2>7. DataInv'
    BY <1>1, <2>3, <2>4, <2>2, <2>6, DataWrite DEF JournalInv, SettlePaper
  <2>8. QED
    BY <2>6, <2>7 DEF JournalInv
<1>4. QED
  BY <1>2, <1>3 DEF SettlePaper

LEMMA DecideKeeps ==
  ASSUME JournalInv, NEW r \in Runs, DecideRow(r)
  PROVE  JournalInv'
<1>1. /\ pc'[r] = "judge" /\ \A q \in Runs \ {r} : pc'[q] = pc[q]
      /\ pc' \in [Runs -> {"idle", "settle", "decide", "judge", "commit"}]
  BY GotoIs DEF JournalInv, DecideRow
<1> DEFINE row == [n |-> lastRow + 1, extreme |-> world.extreme,
                   stamp |-> world.stamp, price |-> world.price]
<1>2. PICK status : Write(r, [Empty EXCEPT
        !.rows = {row}, !.paper = {[row |-> lastRow + 1, by |-> r, type |-> status]}])
  BY DEF DecideRow
<1> DEFINE P == {[row |-> lastRow + 1, by |-> r, type |-> status]}
           w == [Empty EXCEPT !.rows = {row}, !.paper = P]
<1>3. /\ Whole(w) /\ w.rows = {row} /\ w.decisions = {} /\ w.events = {}
      /\ w.journal = {} /\ w.alerts = {} /\ w.reviews = {}
  <2> HIDE DEF row, P
  <2> QED BY RowIs
<1>4. row.n = lastRow + 1
  OBVIOUS
<1>5. Write(r, w)
  BY <1>2
<1>6. lastRow' = lastRow + 1 /\ lastRow < MaxRows
  BY DEF DecideRow
<1> HIDE DEF w, row
<1>7. Closed(Join(Visible(r), w))
  BY <1>3, ClosedOrders DEF JournalInv, DataInv
<1>8. \A q \in Runs \ {r} : tx'[q] = tx[q]
  BY <1>3, <1>5, WriteSeen DEF JournalInv, DataInv, DecideRow
<1>9. /\ ScalarsOK' /\ IdleEmpty'
      /\ lastRow \in Nat /\ lastRow' \in Nat /\ lastRow <= lastRow'
  BY <1>1, <1>6, <1>8, StepKeeps DEF DecideRow
<1>10. Numbered(w, lastRow')
  <2>1. Rows(w) \subseteq 1..lastRow'
    BY <1>3, <1>4, <1>6, <1>9 DEF Rows
  <2>2. QED
    BY <1>3, <2>1 DEF Numbered, Keys
<1>11. DataInv'
  BY <1>1, <1>3, <1>5, <1>9, <1>10, <1>7, DataWrite DEF JournalInv, DecideRow
<1>12. QED
  BY <1>9, <1>11 DEF JournalInv

LEMMA NoAlertKeeps ==
  ASSUME JournalInv, NEW r \in Runs, NoAlert(r)
  PROVE  JournalInv'
<1>1. /\ pc'[r] = "judge" /\ \A q \in Runs \ {r} : pc'[q] = pc[q]
      /\ pc' \in [Runs -> {"idle", "settle", "decide", "judge", "commit"}]
  BY GotoIs DEF JournalInv, NoAlert
<1>2. ScalarsOK' /\ IdleEmpty'
  BY <1>1, StepKeeps DEF NoAlert
<1>3. DataInv'
  <2>1. \A q \in Runs : pc'[q] = "commit" => pc[q] = "commit"
    BY <1>1
  <2>2. QED
    BY <2>1, DataSame DEF JournalInv, NoAlert
<1>4. QED
  BY <1>2, <1>3 DEF JournalInv

\* What a step that judges a row does.
Judges(r, row, found, position) ==
  LET v       == Visible(r)
      decided == DecisionsOn(v, row, found.act, position)
      told    == {e.id : e \in Range(found.all)}
  IN /\ row \in Pending(v) /\ \A other \in Pending(v) : row.n <= other.n
     /\ found = Triggers(v, row) /\ position = PositionState(v)
     /\ Write(r, Judged(v, row, told, decided))

LEMMA JudgeIs ==
  ASSUME NEW r, JudgeRow(r)
  PROVE  \E row, found, position : Judges(r, row, found, position)
BY DEF JudgeRow, Judges

LEMMA JudgeKeeps ==
  ASSUME JournalInv, NEW r \in Runs, JudgeRow(r)
  PROVE  JournalInv'
<1>1. PICK row, found, position : Judges(r, row, found, position)
  BY JudgeIs
<1> DEFINE v       == Visible(r)
           decided == DecisionsOn(v, row, found.act, position)
           told    == {e.id : e \in Range(found.all)}
           w       == Judged(v, row, told, decided)
<1>2. pc[r] = "judge" /\ pc' = pc
  BY DEF JudgeRow
<1>3. row \in v.rows /\ TriggersOf(found) /\ Write(r, w)
  BY <1>1, TriggersType DEF Judges, Pending
<1>4. Closed(v) /\ Numbered(v, lastRow)
  BY NumberedVisible DEF JournalInv, DataInv
<1>5. /\ Whole(w) /\ w.rows = {} /\ w.reviews = {} /\ w.decisions = decided
  <2> HIDE DEF decided, told, v
  <2> QED BY JudgedIs
<1>6. Closed(Join(v, w))
  <2> HIDE DEF v
  <2> QED BY <1>3, <1>4, ClosedJudge
<1>7. \A d \in decided : d.key \in Ids /\ d.action \in Actions
  <2> DEFINE acts == found.act
  <2>1. PICK n \in 1..9 : DOMAIN acts = 1..n
    BY <1>3 DEF TriggersOf
  <2>2. row.n \in 1..MaxRows
    <3>1. row.n \in 1..lastRow
      <4> HIDE DEF v
      <4> QED BY <1>3, <1>4 DEF Numbered, Rows
    <3>2. lastRow \in 0..MaxRows /\ MaxRows \in Nat
      BY JournalAssumption DEF JournalInv, ScalarsOK
    <3>3. QED
      BY <3>1, <3>2
  <2>3. decided = {DecisionAt(v, row, acts, position, i) : i \in DOMAIN acts}
    BY DecisionsAre
  <2>4. \A i : /\ DecisionAt(v, row, acts, position, i).key = <<row.n, i>>
               /\ DecisionAt(v, row, acts, position, i).action
                    = Action(ContextOf(v, row, acts, position, i))
    <3> HIDE DEF acts, v
    <3> QED BY DecisionIs
  <2>5. \A i \in DOMAIN acts : <<row.n, i>> \in Ids
    BY <2>1, <2>2 DEF Ids
  <2>6. QED
    <3> HIDE DEF acts, v, decided
    <3> QED BY <2>3, <2>4, <2>5, ActionIs
<1>8. Numbered(w, lastRow')
  <2> HIDE DEF w, decided
  <2> QED BY <1>5, <1>7 DEF Numbered, Rows, Keys
<1> HIDE DEF w, v
<1>9. \A q \in Runs \ {r} : tx'[q] = tx[q]
  BY <1>3, <1>5, WriteSeen DEF JournalInv, DataInv, JudgeRow
<1>10. /\ pc'[r] = "judge" /\ \A q \in Runs \ {r} : pc'[q] = pc[q]
       /\ pc' \in [Runs -> {"idle", "settle", "decide", "judge", "commit"}]
  BY <1>2 DEF JournalInv, ScalarsOK
<1>11. /\ ScalarsOK' /\ IdleEmpty'
       /\ lastRow \in Nat /\ lastRow' \in Nat /\ lastRow <= lastRow'
  <2>1. lastRow' \in {lastRow, lastRow + 1} /\ (lastRow' # lastRow => lastRow < MaxRows)
    BY DEF JudgeRow
  <2>2. QED
    BY <1>9, <1>10, <2>1, StepKeeps DEF JudgeRow
<1>12. DataInv'
  BY <1>3, <1>5, <1>6, <1>8, <1>10, <1>11, DataWrite DEF JournalInv, JudgeRow, v
<1>13. QED
  BY <1>11, <1>12 DEF JournalInv

\* What a step that reviews does.
Reviews(r, last) ==
  LET v   == Visible(r)
      new == {ReviewOf(d, last[d.key[1]]) : d \in Unreviewed(v)}
  IN /\ Pending(v) = {}
     /\ last \in [{d.key[1] : d \in Unreviewed(v)} -> v.paper]
     /\ \A n \in DOMAIN last : last[n] \in Settlements(v, n)
     /\ Write(r, ReviewWrites(new))

LEMMA ReviewIs ==
  ASSUME NEW r, Review(r)
  PROVE  \E last : Reviews(r, last)
BY DEF Review, Reviews, ReviewWrites

LEMMA ReviewWritesIs ==
  ASSUME NEW new
  PROVE  /\ ReviewWrites(new).rows = {} /\ ReviewWrites(new).paper = {}
         /\ ReviewWrites(new).decisions = {} /\ ReviewWrites(new).reviews = new
<1> DEFINE J == UNION {ReviewRecords(x) : x \in new}
           A == {<<x.decision, "SETTLED_REVIEW_READY">> : x \in new}
<1>1. ReviewWrites(new) = [Empty EXCEPT !.reviews = new, !.journal = J, !.alerts = A]
  BY DEF ReviewWrites
<1> HIDE DEF J, A
<1>2. QED
  BY <1>1 DEF Empty

LEMMA ReviewKeeps ==
  ASSUME JournalInv, NEW r \in Runs, Review(r)
  PROVE  JournalInv'
<1>1. PICK last : Reviews(r, last)
  BY ReviewIs
<1> DEFINE v   == Visible(r)
           new == {ReviewOf(d, last[d.key[1]]) : d \in Unreviewed(v)}
           w   == ReviewWrites(new)
<1>2. /\ pc'[r] = "commit" /\ \A q \in Runs \ {r} : pc'[q] = pc[q]
      /\ pc' \in [Runs -> {"idle", "settle", "decide", "judge", "commit"}]
  BY GotoIs DEF JournalInv, Review
<1>3. Pending(v) = {} /\ Write(r, w)
  BY <1>1 DEF Reviews
<1>4. Closed(v) /\ Numbered(v, lastRow)
  BY NumberedVisible DEF JournalInv, DataInv
<1>5. {x.decision : x \in new} \subseteq Keys(v)
  BY DEF ReviewOf, Unreviewed, Keys
<1> HIDE DEF v, new
<1>6. Whole(w) /\ Closed(Join(v, w))
  BY <1>4, <1>5, ClosedReview
<1>7. w.rows = {} /\ w.decisions = {} /\ w.reviews = new
  BY ReviewWritesIs
<1> HIDE DEF w
<1>8. Numbered(w, lastRow')
  BY <1>4, <1>5, <1>7 DEF Numbered, Rows, Keys
<1>9. AllJudged(Join(v, w))
  <2>1. Join(v, w).rows = v.rows /\ Join(v, w).decisions = v.decisions
    <3>1. /\ Join(v, w).rows = v.rows \cup w.rows
          /\ Join(v, w).decisions = v.decisions \cup w.decisions
      BY JoinIs
    <3>2. QED
      BY <1>7, <3>1
  <2>2. AllJudged(v)
    BY <1>3 DEF AllJudged, Rows, JudgedRows, Pending
  <2>3. QED
    BY <2>1, <2>2 DEF AllJudged, Rows, JudgedRows
<1>10. \A q \in Runs \ {r} : tx'[q] = tx[q]
  BY <1>3, <1>6, WriteSeen DEF JournalInv, DataInv, Review
<1>11. /\ ScalarsOK' /\ IdleEmpty'
       /\ lastRow \in Nat /\ lastRow' \in Nat /\ lastRow <= lastRow'
  <2>1. lastRow' \in {lastRow, lastRow + 1} /\ (lastRow' # lastRow => lastRow < MaxRows)
    BY DEF Review
  <2>2. QED
    BY <1>2, <1>10, <2>1, StepKeeps DEF Review
<1>12. DataInv'
  BY <1>2, <1>3, <1>6, <1>8, <1>9, <1>11, DataWrite DEF JournalInv, Review, v
<1>13. QED
  BY <1>11, <1>12 DEF JournalInv

LEMMA CommitKeeps ==
  ASSUME JournalInv, NEW r \in Runs, Commit(r)
  PROVE  JournalInv'
<1>1. /\ pc'[r] = "idle" /\ \A q \in Runs \ {r} : pc'[q] = pc[q]
      /\ pc' \in [Runs -> {"idle", "settle", "decide", "judge", "commit"}]
  BY GotoIs DEF JournalInv, Commit
<1>2. tx'[r] = Empty /\ \A q \in Runs \ {r} : tx'[q] = tx[q]
  BY CommitSeen DEF JournalInv, DataInv, Commit
<1>3. ScalarsOK'
  <2>1. turns \in 0..MaxTurns /\ turns <= turns /\ overlapped \in BOOLEAN
    BY JournalAssumption DEF JournalInv, ScalarsOK
  <2>2. QED
    BY <1>1, <2>1, ScalarsKept DEF JournalInv, Commit
<1>4. IdleEmpty'
  BY <1>1, <1>2 DEF JournalInv, IdleEmpty
<1>5. DataInv'
  BY <1>1, DataCommit DEF JournalInv, Commit
<1>6. QED
  BY <1>3, <1>4, <1>5 DEF JournalInv

LEMMA AbortKeeps ==
  ASSUME JournalInv, NEW r \in Runs, Abort(r)
  PROVE  JournalInv'
<1>1. /\ pc'[r] = "idle" /\ \A q \in Runs \ {r} : pc'[q] = pc[q]
      /\ pc' \in [Runs -> {"idle", "settle", "decide", "judge", "commit"}]
  BY GotoIs DEF JournalInv, Abort
<1>2. tx'[r] = Empty /\ \A q \in Runs \ {r} : tx'[q] = tx[q]
  BY AbortSeen DEF JournalInv, DataInv, Abort
<1>3. ScalarsOK'
  <2>1. turns' \in 0..MaxTurns /\ turns <= turns' /\ overlapped' \in BOOLEAN
    BY JournalAssumption DEF JournalInv, ScalarsOK, Abort
  <2>2. QED
    BY <1>1, <2>1, ScalarsKept DEF JournalInv, Abort
<1>4. IdleEmpty'
  BY <1>1, <1>2 DEF JournalInv, IdleEmpty
<1>5. DataInv'
  BY <1>1, DataAbort DEF JournalInv, Abort
<1>6. QED
  BY <1>3, <1>4, <1>5 DEF JournalInv

\* What is outside changes within its bounds.
LEMMA OutsideIs ==
  ASSUME JournalInv, Observe \/ MovePrice \/ SwitchKill \/ Finalize
  PROVE  /\ ScalarsOK' /\ world.result = "none"
         /\ UNCHANGED <<db, tx, pc, lastRow, overlapped>>
<1> DEFINE World == [extreme : Extremes \cup {None}, stamp : 0..MaxTurns,
                     price : Prices, kill : BOOLEAN, result : Sides \cup {"none"}]
<1>1. /\ world \in World /\ turns \in 0..MaxTurns /\ MaxTurns \in Nat
      /\ world.stamp \in 0..MaxTurns /\ world.stamp <= turns
  BY JournalAssumption DEF JournalInv, ScalarsOK
<1>2. /\ world.result = "none" /\ turns < MaxTurns /\ turns' = turns + 1
      /\ UNCHANGED <<db, tx, pc, lastRow, overlapped>>
  BY DEF Observe, MovePrice, SwitchKill, Finalize, Turn
<1>3. world' \in World /\ world'.stamp \in {world.stamp, world.stamp + 1}
  <2>1. CASE Observe
    <3>1. PICK x \in Extremes : world' = [world EXCEPT !.extreme = x, !.stamp = @ + 1]
      BY <2>1 DEF Observe, Turn
    <3>2. world.stamp + 1 \in 0..MaxTurns
      BY <1>1, <1>2
    <3>3. QED
      BY <1>1, <3>1, <3>2
  <2>2. CASE MovePrice
    BY <1>1, <2>2 DEF MovePrice, Turn
  <2>3. CASE SwitchKill
    BY <1>1, <2>3 DEF SwitchKill, Turn
  <2>4. CASE Finalize
    BY <1>1, <2>4 DEF Finalize, Turn
  <2>5. QED
    BY <2>1, <2>2, <2>3, <2>4
<1>4. world'.stamp <= turns' /\ turns' \in 0..MaxTurns
  BY <1>1, <1>2, <1>3
<1>5. ScalarsOK'
  BY <1>2, <1>3, <1>4 DEF JournalInv, ScalarsOK
<1>6. QED
  BY <1>2, <1>5

LEMMA JournalStep ==
  ASSUME JournalInv, [Next]_vars
  PROVE  JournalInv'
<1>1. ASSUME NEW r \in Runs, Begin(r) \/ RunStep(r) \/ Abort(r)
      PROVE  JournalInv'
  BY <1>1, BeginKeeps, SettleKeeps, DecideKeeps, NoAlertKeeps, JudgeKeeps,
     ReviewKeeps, CommitKeeps, AbortKeeps DEF RunStep
<1>2. CASE Observe \/ MovePrice \/ SwitchKill \/ Finalize
  <2>1. ScalarsOK' /\ UNCHANGED <<db, tx, pc, lastRow, overlapped>>
    BY <1>2, OutsideIs
  <2>2. IdleEmpty'
    BY <2>1 DEF JournalInv, IdleEmpty
  <2>3. DataInv'
    BY <2>1, DataSame DEF JournalInv
  <2>4. QED
    BY <2>1, <2>2, <2>3 DEF JournalInv
<1>3. CASE UNCHANGED vars
  <2>1. ScalarsOK' /\ IdleEmpty'
    BY <1>3 DEF vars, JournalInv, ScalarsOK, IdleEmpty
  <2>2. DataInv'
    BY <1>3, DataSame DEF vars, JournalInv
  <2>3. QED
    BY <2>1, <2>2 DEF JournalInv
<1>4. QED
  BY <1>1, <1>2, <1>3 DEF Next

LEMMA JournalInvariant == Spec => []JournalInv
<1>1. QED
  BY JournalInitially, JournalStep, PTL DEF Spec

\* The collector's runs (scripts/run_forward_evidence_collector.py,
\* trading_readiness/professional_collector.py): however they overlap, fail
\* or are cut off, every record, decision, alert and review committed refers
\* to records that are committed too, and every decision row is judged.
THEOREM JournalIsClosed == Spec => []JournalClosed
<1>1. JournalInv => JournalClosed
  <2> SUFFICES ASSUME JournalInv PROVE JournalClosed
    OBVIOUS
  <2>1. TypeOK
    <3>1. Range(tx) = {tx[r] : r \in Runs}
      BY DEF Range, JournalInv, DataInv, Shaped
    <3>2. \A v \in {db} \cup Range(tx) : Numbered(v, lastRow)
      BY <3>1 DEF JournalInv, DataInv
    <3>3. QED
      BY <3>2 DEF JournalInv, ScalarsOK, TypeOK, Numbered, Rows, Keys
  <2>2. Closed(db) /\ AllJudged(db)
    BY DEF JournalInv, DataInv
  <2>3. QED
    BY <2>1, <2>2 DEF JournalClosed, Closed, AllJudged, Records, Keys, Rows, JudgedRows
<1>2. QED
  BY <1>1, JournalInvariant, PTL

---------------------------------------------------------------------------
(* Runs that do not overlap                                                *)

OrderTypes   == {"FILLED", "NO_FILL", "INELIGIBLE"}
SettledTypes == {"SETTLED_WIN", "SETTLED_LOSS"}

\* Decisions with keys of their own.
Keyed(ds) ==
  /\ IsFiniteSet(ds)
  /\ \A d \in ds : d.key \in Ids
  /\ \A d, e \in ds : d.key = e.key => d = e

PriorTo(ds, d)     == {e \in ds : Before(e.key, d.key)}
RowsBefore(ds, d)  == {e \in ds : e.key[1] < d.key[1]}
SeenIn(v, d)       == Recent(RowsBefore(v.decisions, d))
FilledIn(v, ds) ==
  {e \in ds : /\ e.action \in TradeActions
              /\ \E x \in v.paper : x.row = e.key[1] /\ x.type = "FILLED"}
ExitsIn(ds)   == {x \in ds : x.action = "EXIT"}
EntriesIn(ds) == {x \in ds : x.action \in TradeActions}

\* A row has one simulated order, which is settled once, and after the result.
OrdersOnce(v, last, result) ==
  /\ \A x \in v.paper : x.row \in 1..last /\ x.type \in OrderTypes \cup SettledTypes
  /\ \A x, y \in v.paper :
       x.row = y.row /\ x.type \in OrderTypes /\ y.type \in OrderTypes => x.type = y.type
  /\ \A x, y \in v.paper :
       x.row = y.row /\ x.type \in SettledTypes /\ y.type \in SettledTypes => x = y
  /\ \A x \in v.paper : x.type \in SettledTypes => result # "none"

\* A row not judged yet is later than all judged, and nothing is settled.
PendingLast(v) ==
  \A row \in Pending(v) :
    /\ \A d \in v.decisions : d.key[1] < row.n
    /\ \A x \in v.paper : x.type \notin SettledTypes

ChainIn(v) ==
  \A d \in v.decisions :
    d.parent = IF PriorTo(v.decisions, d) = {} THEN NoId
               ELSE Newest(PriorTo(v.decisions, d)).key

OnePositionIn(v) ==
  \A d \in v.decisions : d.action \in TradeActions =>
    \A e \in FilledIn(v, SeenIn(v, d)) : ExitsAfter(SeenIn(v, d), e) # {}

ReentryIn(v) ==
  \A d \in v.decisions :
    LET exits   == ExitsIn(SeenIn(v, d))
        entries == EntriesIn(SeenIn(v, d))
    IN d.action \in TradeActions /\ exits # {} /\ entries # {} =>
         /\ d.trigger.type \notin PriceEvents \cup {"NONE"}
         /\ d.trigger.id \notin {Newest(exits).trigger.id, Newest(entries).trigger.id}

OneReview(v) == \A x, y \in v.reviews : x.decision = y.decision => x = y

InOrder(v, last, result) ==
  /\ Keyed(v.decisions) /\ OrdersOnce(v, last, result) /\ PendingLast(v) /\ ChainIn(v)
  /\ OnePositionIn(v) /\ ReentryIn(v) /\ OneReview(v)

\* At most one run is open, and what it sees is in order.
Alone ==
  /\ \A q, r \in Runs : pc[q] # "idle" /\ pc[r] # "idle" => q = r
  /\ InOrder(db, lastRow, world.result)
  /\ \A r \in Runs : InOrder(Visible(r), lastRow, world.result)
  /\ \A r \in Runs : pc[r] \in {"settle", "decide"} => Pending(Visible(r)) = {}

SerialInv == ~overlapped => Alone

LEMMA BeforeOrder ==
  ASSUME NEW k \in Ids, NEW l \in Ids, NEW m \in Ids
  PROVE  /\ ~Before(k, k)
         /\ Before(k, l) /\ Before(l, m) => Before(k, m)
         /\ k # l => Before(k, l) \/ Before(l, k)
         /\ Before(k, l) => ~Before(l, k)
         /\ k[1] < l[1] => Before(k, l)
         /\ Before(k, l) => k[1] <= l[1]
         /\ Before(k, l) /\ k[1] # l[1] => k[1] < l[1]
<1>1. /\ k[1] \in Int /\ k[2] \in Int /\ k = <<k[1], k[2]>>
      /\ l[1] \in Int /\ l[2] \in Int /\ l = <<l[1], l[2]>>
      /\ m[1] \in Int /\ m[2] \in Int /\ m = <<m[1], m[2]>>
  BY JournalAssumption DEF Ids
<1>2. k # l => k[1] # l[1] \/ k[2] # l[2]
  BY <1>1
<1>3. QED
  BY <1>1, <1>2 DEF Before

LEMMA KeyedPart ==
  ASSUME NEW ds, Keyed(ds), NEW es \in SUBSET ds
  PROVE  Keyed(es)
BY FS_Subset DEF Keyed

\* The newest decision is the one all others are before.
LEMMA NewestIs ==
  ASSUME NEW ds, Keyed(ds), NEW d \in ds, \A e \in ds \ {d} : Before(e.key, d.key)
  PROVE  Newest(ds) = d
<1> DEFINE Is(x) == \A e \in ds \ {x} : Before(e.key, x.key)
<1>1. Newest(ds) = CHOOSE x \in ds : Is(x)
  BY DEF Newest
<1>2. ASSUME NEW x \in ds, Is(x) PROVE x = d
  <2>1. SUFFICES ASSUME x # d PROVE FALSE
    OBVIOUS
  <2>2. Before(d.key, x.key) /\ Before(x.key, d.key)
    BY <1>2, <2>1
  <2>3. d.key \in Ids /\ x.key \in Ids
    BY DEF Keyed
  <2>4. QED
    BY <2>2, <2>3, BeforeOrder
<1>3. Is(d)
  OBVIOUS
<1>4. QED
  <2> HIDE DEF Is
  <2> QED BY <1>1, <1>2, <1>3

LEMMA NewestExists ==
  ASSUME NEW ds, Keyed(ds), ds # {}
  PROVE  Newest(ds) \in ds /\ \A e \in ds \ {Newest(ds)} : Before(e.key, Newest(ds).key)
<1> DEFINE R == {d.key[1] : d \in ds}
<1>1. \A d \in ds : d.key[1] \in Int /\ d.key[2] \in Int /\ d.key = <<d.key[1], d.key[2]>>
  BY JournalAssumption DEF Keyed, Ids
<1>2. IsFiniteSet(R) /\ R # {} /\ R \in SUBSET Int
  <2>1. IsFiniteSet(R)
    <3>1. R \subseteq 1..MaxRows
      BY DEF Keyed, Ids
    <3>2. IsFiniteSet(1..MaxRows)
      BY FS_Interval, JournalAssumption
    <3>3. QED
      BY <3>1, <3>2, FS_Subset
  <2>2. QED
    BY <1>1, <2>1
<1> DEFINE m  == Max(R)
           es == {d \in ds : d.key[1] = m}
           S  == {d.key[2] : d \in es}
<1>3. m \in R /\ \A x \in R : x <= m
  <2> HIDE DEF R
  <2> QED BY <1>2, MaxIsGreatest
<1>4. IsFiniteSet(S) /\ S # {} /\ S \in SUBSET Int
  <2> HIDE DEF m
  <2>1. S \subseteq 1..9
    BY DEF Keyed, Ids
  <2>2. IsFiniteSet(S)
    <3> HIDE DEF S
    <3>1. IsFiniteSet(1..9)
      <4>1. 1 \in Int /\ 9 \in Int
        OBVIOUS
      <4>2. QED
        BY <4>1, FS_Interval
    <3>2. QED
      BY <2>1, <3>1, FS_Subset
  <2>3. QED
    BY <1>1, <1>3, <2>2
<1> DEFINE s == Max(S)
<1>5. s \in S /\ \A x \in S : x <= s
  <2> HIDE DEF S
  <2> QED BY <1>4, MaxIsGreatest
<1>6. PICK d \in ds : d.key[1] = m /\ d.key[2] = s
  <2> HIDE DEF m, s
  <2> QED BY <1>5
<1>7. ASSUME NEW e \in ds \ {d} PROVE Before(e.key, d.key)
  <2>1. e.key # d.key
    BY DEF Keyed
  <2>2. e.key[1] <= m
    <3> HIDE DEF m
    <3> QED BY <1>3
  <2>3. e.key[1] = m => e.key[2] <= s
    <3> HIDE DEF m, s
    <3> QED BY <1>5
  <2>4. e.key[1] = m => e.key[2] # s
    <3> HIDE DEF m, s, R, S, es
    <3> QED BY <1>1, <1>6, <2>1
  <2>5. QED
    <3>1. m \in Int /\ s \in Int
      BY <1>1, <1>6
    <3> HIDE DEF m, s, R, S, es
    <3>2. QED
      BY <1>1, <1>6, <2>2, <2>3, <2>4, <3>1 DEF Before
<1>8. Newest(ds) = d
  <2> HIDE DEF R, m, es, S, s
  <2> QED BY <1>7, NewestIs
<1>9. QED
  <2> HIDE DEF R, m, es, S, s
  <2> QED BY <1>7, <1>8

\* The later ones of a set of decisions, counted.
LaterThan(ds, d) == {e \in ds : Before(d.key, e.key)}

\* What is looked back at in a set is looked back at in a part of it.
LEMMA RecentPart ==
  ASSUME NEW ds, IsFiniteSet(ds), NEW es \in SUBSET ds, NEW d \in Recent(ds), d \in es
  PROVE  d \in Recent(es)
<1>1. LaterThan(es, d) \subseteq LaterThan(ds, d) /\ LaterThan(ds, d) \subseteq ds
  BY DEF LaterThan
<1>2. /\ IsFiniteSet(LaterThan(ds, d)) /\ IsFiniteSet(LaterThan(es, d))
      /\ Cardinality(LaterThan(es, d)) <= Cardinality(LaterThan(ds, d))
  BY <1>1, FS_Subset
<1>3. Cardinality(LaterThan(ds, d)) < Window
  BY DEF Recent, LaterThan
<1>4. /\ Cardinality(LaterThan(es, d)) \in Nat /\ Cardinality(LaterThan(ds, d)) \in Nat
      /\ Window \in Nat
  BY <1>2, FS_CardinalityType, JournalAssumption
<1>5. Cardinality(LaterThan(es, d)) < Window
  BY <1>2, <1>3, <1>4
<1>6. QED
  BY <1>5 DEF Recent, LaterThan

\* What comes after a decision looked back at is looked back at, too.
LEMMA RecentUp ==
  ASSUME NEW ds, Keyed(ds), NEW d \in Recent(ds), NEW e \in ds, Before(d.key, e.key)
  PROVE  e \in Recent(ds)
<1>1. LaterThan(ds, e) \subseteq LaterThan(ds, d) /\ LaterThan(ds, d) \subseteq ds
  <2>1. \A x \in ds : Before(e.key, x.key) => Before(d.key, x.key)
    <3>1. d \in ds /\ \A x \in ds : x.key \in Ids
      BY DEF Recent, Keyed
    <3>2. QED
      BY <3>1, BeforeOrder
  <2>2. QED
    BY <2>1 DEF LaterThan
<1>2. /\ IsFiniteSet(LaterThan(ds, e)) /\ IsFiniteSet(LaterThan(ds, d))
      /\ Cardinality(LaterThan(ds, e)) <= Cardinality(LaterThan(ds, d))
  BY <1>1, FS_Subset DEF Keyed
<1>3. Cardinality(LaterThan(ds, d)) < Window
  BY DEF Recent, LaterThan
<1>4. /\ Cardinality(LaterThan(ds, e)) \in Nat /\ Cardinality(LaterThan(ds, d)) \in Nat
      /\ Window \in Nat
  BY <1>2, FS_CardinalityType, JournalAssumption
<1>5. Cardinality(LaterThan(ds, e)) < Window
  BY <1>2, <1>3, <1>4
<1>6. QED
  BY <1>5 DEF Recent, LaterThan

---------------------------------------------------------------------------
(* What a position says, and what is done about it                         *)

\* A position with history that is not open was closed: the newest entry was
\* not filled, or an exit came after it.
LEMMA LatestIs ==
  ASSUME NEW v, NEW n
  PROVE  LatestPaper(v, n) = "FILLED" <=>
           \A e \in v.paper : e.row = n => e.type = "FILLED"
<1> DEFINE of == {e \in v.paper : e.row = n}
<1>1. CASE \E e \in of : e.type # "FILLED"
  <2>1. (CHOOSE e \in of : e.type # "FILLED").type # "FILLED"
    BY <1>1
  <2>2. LatestPaper(v, n) # "FILLED"
    BY <1>1, <2>1 DEF LatestPaper
  <2>3. QED
    BY <1>1, <2>2
<1>2. CASE ~\E e \in of : e.type # "FILLED"
  <2>1. LatestPaper(v, n) = "FILLED"
    BY <1>2 DEF LatestPaper
  <2>2. QED
    BY <1>2, <2>1
<1>3. QED
  BY <1>1, <1>2

LEMMA NotHeld ==
  ASSUME NEW v, NEW entries, entries = EntriesIn(Recent(v.decisions)),
         NEW exits, exits = ExitsIn(Recent(v.decisions)),
         entries # {}, Newest(entries) \in entries, ~IsOpen(PositionState(v))
  PROVE  ~Held(v, Newest(entries), exits)
<1>1. SUFFICES ASSUME Held(v, Newest(entries), exits) PROVE FALSE
  OBVIOUS
<1>2. PositionState(v)
        = [Flat EXCEPT !.side = SideOf(Newest(entries).action), !.contracts = 1,
                       !.entry = Newest(entries).key,
                       !.entryEvent = Newest(entries).trigger.id]
  BY <1>1 DEF PositionState, EntriesIn, ExitsIn
<1>3. SideOf(Newest(entries).action) \in Sides
  BY DEF EntriesIn, SideOf, Sides, TradeActions, Entries, Rebuys
<1>4. PositionState(v).side \in Sides /\ PositionState(v).contracts = 1
  BY <1>2, <1>3 DEF Flat
<1>5. QED
  BY <1>4 DEF IsOpen

LEMMA ClosedPosition ==
  ASSUME NEW v, NEW entries, entries = EntriesIn(Recent(v.decisions)),
         NEW exits, exits = ExitsIn(Recent(v.decisions)),
         entries # {}, exits # {}, ~Held(v, Newest(entries), exits)
  PROVE  /\ PositionState(v).side = "NONE"
         /\ PositionState(v).entry = Newest(entries).key
         /\ PositionState(v).exit = Newest(exits).key
         /\ PositionState(v).entryEvent = Newest(entries).trigger.id
         /\ PositionState(v).exitEvent = Newest(exits).trigger.id
<1>1. PositionState(v)
        = [Flat EXCEPT !.entry = Newest(entries).key,
                       !.entryEvent = Newest(entries).trigger.id,
                       !.exit = Newest(exits).key,
                       !.exitEvent = Newest(exits).trigger.id,
                       !.exitReason = Newest(exits).reason]
  BY DEF PositionState, EntriesIn, ExitsIn
<1>2. QED
  BY <1>1 DEF Flat

\* An entry is made only without a position, and a closed position is
\* reopened only on new information.
LEMMA EntryMeans ==
  ASSUME NEW c, Action(c) \in TradeActions
  PROVE  /\ ~IsOpen(c.position)
         /\ WasClosed(c.position) => NewInformation(c)
<1>1. ~IsOpen(c.position)
  <2>1. "HOLD" \notin TradeActions /\ "EXIT" \notin TradeActions
    BY DEF TradeActions, Entries, Rebuys
  <2>2. QED
    BY <2>1 DEF Action
<1>2. ASSUME WasClosed(c.position) PROVE ReentryBlockers(c) = {}
  <2>1. "DO_NOT_TRADE" \notin TradeActions
    BY DEF TradeActions, Entries, Rebuys
  <2>2. QED
    BY <1>1, <1>2, <2>1 DEF Action
<1>3. ReentryBlockers(c) = {} => NewInformation(c)
  <2>1. ~NewInformation(c) => "REENTRY_REQUIRES_NEW_INFORMATION" \in ReentryBlockers(c)
    BY DEF ReentryBlockers, When
  <2>2. QED
    BY <2>1
<1>4. QED
  BY <1>1, <1>2, <1>3

---------------------------------------------------------------------------
(* Judging a row                                                           *)

\* D are the decisions on a row, numbered 1 to n.
DecidesAs(v, row, found, position, D, n) ==
  /\ DecisionsOn(v, row, found.act, position) = {D[i] : i \in 1..n}
  /\ \A i \in 1..n :
       /\ D[i].key = <<row.n, i>>
       /\ D[i].parent = IF i = 1 THEN BasisOf(v) ELSE <<row.n, i - 1>>
       /\ D[i].trigger = NoEvent \/ D[i].trigger.type # "NONE"
       /\ D[i].action \in TradeActions =>
            /\ ~IsOpen(position)
            /\ WasClosed(position) =>
                 /\ D[i].trigger # NoEvent /\ D[i].trigger.type \notin PriceEvents
                 /\ D[i].trigger.id \notin {position.entryEvent, position.exitEvent}

LEMMA DecidesAsIs ==
  ASSUME NEW v, NEW row, NEW found, TriggersOf(found), NEW position
  PROVE  \E n \in 1..9 : \E D : DecidesAs(v, row, found, position, D, n)
<1> DEFINE acts == found.act
<1>1. PICK n \in 1..9 : DOMAIN acts = 1..n
  BY DEF TriggersOf
<1> DEFINE D == [i \in 1..n |-> DecisionAt(v, row, acts, position, i)]
<1>2. /\ \A i \in 1..n : D[i] = DecisionAt(v, row, acts, position, i)
      /\ DecisionsOn(v, row, acts, position) = {DecisionAt(v, row, acts, position, i) : i \in 1..n}
  <2> HIDE DEF acts
  <2> QED BY <1>1, DecisionsAre
<1>3. DecisionsOn(v, row, acts, position) = {D[i] : i \in 1..n}
  <2> HIDE DEF acts, D
  <2> QED BY <1>2
<1> HIDE DEF D
<1>4. ASSUME NEW i \in 1..n
      PROVE  /\ D[i].key = <<row.n, i>> /\ D[i].trigger = acts[i]
             /\ D[i].action = Action(ContextOf(v, row, acts, position, i))
             /\ D[i].parent = IF i = 1 THEN BasisOf(v) ELSE <<row.n, i - 1>>
  <2> HIDE DEF acts
  <2>1. D[i] = DecisionAt(v, row, acts, position, i)
    BY <1>2
  <2>2. D[i].key = <<row.n, i>> /\ D[i].trigger = acts[i]
    BY <2>1, DecisionIs
  <2>3. D[i].action = Action(ContextOf(v, row, acts, position, i))
    BY <2>1, DecisionIs
  <2>4. D[i].parent = IF i = 1 THEN BasisOf(v) ELSE <<row.n, i - 1>>
    BY <2>1, ParentIs
  <2>5. QED
    BY <2>2, <2>3, <2>4
<1>5. \A i \in 1..n : D[i].trigger = NoEvent \/ D[i].trigger.type # "NONE"
  <2>1. \A i \in 1..n : acts[i] = NoEvent \/ acts[i].type # "NONE"
    BY <1>1 DEF TriggersOf
  <2>2. \A i \in 1..n : D[i].trigger = acts[i]
    <3> HIDE DEF acts
    <3> QED BY <1>4
  <2>3. QED
    <3> HIDE DEF acts
    <3>1. \A i \in 1..n : acts[i] = NoEvent \/ acts[i].type # "NONE"
      BY <2>1
    <3>2. SUFFICES ASSUME NEW i \in 1..n
                   PROVE  D[i].trigger = NoEvent \/ D[i].trigger.type # "NONE"
      OBVIOUS
    <3>3. QED
      BY <2>2, <3>1
<1>6. ASSUME NEW i \in 1..n, D[i].action \in TradeActions
      PROVE  /\ ~IsOpen(position)
             /\ WasClosed(position) =>
                  /\ D[i].trigger # NoEvent /\ D[i].trigger.type \notin PriceEvents
                  /\ D[i].trigger.id \notin {position.entryEvent, position.exitEvent}
  <2> HIDE DEF acts
  <2> DEFINE c == ContextOf(v, row, acts, position, i)
  <2>1. c.position = position /\ c.trigger = acts[i]
    BY DEF ContextOf, Context
  <2>2. Action(c) \in TradeActions
    BY <1>4, <1>6
  <2> HIDE DEF c
  <2>3. ~IsOpen(c.position) /\ (WasClosed(c.position) => NewInformation(c))
    BY <2>2, EntryMeans
  <2>4. NewInformation(c) =>
          /\ acts[i] # NoEvent /\ acts[i].type \notin PriceEvents
          /\ acts[i].id \notin {position.entryEvent, position.exitEvent}
    BY <2>1 DEF NewInformation
  <2>5. QED
    BY <1>4, <2>1, <2>3, <2>4
<1>7. DecidesAs(v, row, found, position, D, n)
  BY <1>3, <1>4, <1>5, <1>6 DEF DecidesAs
<1>8. QED
  BY <1>7

\* u is v with the row judged.
JudgedTo(v, row, found, position, D, n, u, last, result) ==
  /\ InOrder(v, last, result) /\ Closed(v) /\ Numbered(v, last)
  /\ row \in Pending(v) /\ \A other \in Pending(v) : row.n <= other.n
  /\ n \in 1..9 /\ DecidesAs(v, row, found, position, D, n)
  /\ position = PositionState(v)
  /\ u.rows = v.rows /\ u.paper = v.paper /\ u.reviews = v.reviews
  /\ u.decisions = v.decisions \cup {D[i] : i \in 1..n}

LEMMA JudgedKeyed ==
  ASSUME NEW v, NEW row, NEW found, NEW position, NEW D, NEW n, NEW u,
         NEW last \in 0..MaxRows, NEW result,
         JudgedTo(v, row, found, position, D, n, u, last, result)
  PROVE  /\ Keyed(u.decisions) /\ v.decisions \subseteq u.decisions
         /\ row.n \in 1..MaxRows
         /\ \A d \in v.decisions : d.key[1] < row.n
         /\ \A d \in u.decisions : d \in v.decisions \/ \E i \in 1..n : d = D[i]
         /\ \A i \in 1..n : D[i].key[1] = row.n /\ D[i].key[2] = i /\ D[i].key \in Ids
<1> DEFINE E == {D[i] : i \in 1..n}
<1>1. n \in 1..9 /\ \A i \in 1..n : D[i].key = <<row.n, i>>
  BY DEF JudgedTo, DecidesAs
<1>2. row.n \in 1..MaxRows
  <2>1. row.n \in 1..last
    BY DEF JudgedTo, Pending, Numbered, Rows
  <2>2. QED
    BY <2>1, JournalAssumption
<1>3. \A d \in v.decisions : d.key[1] < row.n
  BY DEF JudgedTo, InOrder, PendingLast
<1>4. \A i \in 1..n : D[i].key[1] = row.n /\ D[i].key[2] = i /\ D[i].key \in Ids
  <2>1. SUFFICES ASSUME NEW i \in 1..n
                 PROVE  D[i].key[1] = row.n /\ D[i].key[2] = i /\ D[i].key \in Ids
    OBVIOUS
  <2>2. i \in 1..9
    BY <1>1
  <2>3. <<row.n, i>> \in Ids
    BY <1>2, <2>2 DEF Ids
  <2>4. QED
    BY <1>1, <2>3
<1>5. IsFiniteSet(E)
  <2> DEFINE f == [i \in 1..n |-> D[i]]
  <2>1. f \in Surjection(1..n, E)
    BY DEF Surjection
  <2>2. IsFiniteSet(1..n)
    BY <1>1, FS_Interval
  <2>3. QED
    <3> HIDE DEF f, E
    <3> QED BY <2>1, <2>2, FS_Surjection
<1>6. u.decisions = v.decisions \cup E /\ Keyed(v.decisions)
  BY DEF JudgedTo, InOrder
<1>7. IsFiniteSet(u.decisions)
  <2>1. IsFiniteSet(v.decisions)
    BY <1>6 DEF Keyed
  <2>2. QED
    <3> HIDE DEF E
    <3> QED BY <1>5, <1>6, <2>1, FS_Union
<1>8. \A d \in v.decisions : d.key \in Ids /\ d.key[1] \in Int
  BY <1>6, JournalAssumption DEF Keyed, Ids
<1>9. \A d, e \in u.decisions : d.key = e.key => d = e
  <2>1. SUFFICES ASSUME NEW d \in u.decisions, NEW e \in u.decisions, d.key = e.key
                 PROVE  d = e
    OBVIOUS
  <2>2. CASE d \in v.decisions /\ e \in v.decisions
    BY <1>6, <2>1, <2>2 DEF Keyed
  <2>3. CASE d \in E /\ e \in E
    BY <1>4, <2>1, <2>3
  <2>4. ~(d \in v.decisions /\ e \in E) /\ ~(e \in v.decisions /\ d \in E)
    BY <1>2, <1>3, <1>4, <1>8, <2>1
  <2>5. QED
    BY <1>6, <2>2, <2>3, <2>4
<1>10. Keyed(u.decisions)
  <2>1. \A d \in u.decisions : d.key \in Ids
    BY <1>4, <1>6, <1>8
  <2>2. QED
    BY <1>7, <1>9, <2>1 DEF Keyed
<1>11. QED
  BY <1>2, <1>3, <1>4, <1>6, <1>10

LEMMA JudgedChain ==
  ASSUME NEW v, NEW row, NEW found, NEW position, NEW D, NEW n, NEW u,
         NEW last \in 0..MaxRows, NEW result,
         JudgedTo(v, row, found, position, D, n, u, last, result)
  PROVE  ChainIn(u)
<1>1. /\ Keyed(u.decisions) /\ v.decisions \subseteq u.decisions
      /\ row.n \in 1..MaxRows
      /\ \A d \in v.decisions : d.key[1] < row.n
      /\ \A d \in u.decisions : d \in v.decisions \/ \E i \in 1..n : d = D[i]
      /\ \A i \in 1..n : D[i].key[1] = row.n /\ D[i].key[2] = i /\ D[i].key \in Ids
  BY JudgedKeyed
<1>2. n \in 1..9 /\ row.n \in Int /\ \A i \in 1..n : D[i] \in u.decisions
  BY <1>1, JournalAssumption DEF JudgedTo
<1>3. \A d \in u.decisions : d.key \in Ids /\ d.key[1] \in Int /\ d.key[2] \in Int
  BY <1>1, JournalAssumption DEF Keyed, Ids
<1>4. ASSUME NEW d \in v.decisions
      PROVE  d.parent = IF PriorTo(u.decisions, d) = {} THEN NoId
                        ELSE Newest(PriorTo(u.decisions, d)).key
  <2>1. PriorTo(u.decisions, d) = PriorTo(v.decisions, d)
    <3>1. \A i \in 1..n : ~Before(D[i].key, d.key)
      BY <1>1, <1>2, <1>3 DEF Before
    <3>2. QED
      BY <1>1, <3>1 DEF PriorTo
  <2>2. QED
    BY <2>1 DEF JudgedTo, InOrder, ChainIn
<1>5. ASSUME NEW i \in 1..n
      PROVE  D[i].parent = IF PriorTo(u.decisions, D[i]) = {} THEN NoId
                           ELSE Newest(PriorTo(u.decisions, D[i])).key
  <2> DEFINE P == PriorTo(u.decisions, D[i])
  <2>1. D[i].parent = IF i = 1 THEN BasisOf(v) ELSE <<row.n, i - 1>>
    BY DEF JudgedTo, DecidesAs
  <2>2. v.decisions \subseteq P
    BY <1>1, <1>2 DEF PriorTo, Before
  <2>3. \A j \in 1..n : D[j] \in P <=> j < i
    BY <1>1, <1>2 DEF PriorTo, Before
  <2>4. P \subseteq u.decisions /\ Keyed(P)
    BY <1>1, KeyedPart DEF PriorTo
  <2>5. CASE i = 1
    <3>1. \A j \in 1..n : D[j] \notin P
      BY <2>3, <2>5, <1>2
    <3>2. P = v.decisions
      <4> HIDE DEF P
      <4>1. \A x \in P : x \in v.decisions
        BY <1>1, <2>4, <3>1
      <4>2. QED
        BY <2>2, <4>1
    <3>3. D[i].parent = BasisOf(v)
      BY <2>1, <2>5
    <3>4. QED
      BY <3>2, <3>3 DEF BasisOf
  <2>6. CASE i # 1
    <3>1. i - 1 \in 1..n
      BY <1>2, <2>6
    <3>2. D[i - 1] \in P
      <4> HIDE DEF P
      <4> QED BY <2>3, <3>1
    <3>3. \A e \in P \ {D[i - 1]} : Before(e.key, D[i - 1].key)
      <4>1. SUFFICES ASSUME NEW e \in P \ {D[i - 1]} PROVE Before(e.key, D[i - 1].key)
        OBVIOUS
      <4>2. CASE e \in v.decisions
        BY <1>1, <3>1, <4>2 DEF Before
      <4>3. ASSUME NEW j \in 1..n, e = D[j] PROVE Before(e.key, D[i - 1].key)
        <5>1. j < i /\ j # i - 1
          <6> HIDE DEF P
          <6> QED BY <2>3, <4>1, <4>3
        <5>2. j < i - 1
          BY <1>2, <5>1
        <5>3. QED
          BY <1>1, <1>2, <3>1, <4>3, <5>2 DEF Before
      <4>4. QED
        <5> HIDE DEF P
        <5> QED BY <1>1, <2>4, <4>1, <4>2, <4>3
    <3>4. Newest(P) = D[i - 1]
      <4> HIDE DEF P
      <4> QED BY <2>4, <3>2, <3>3, NewestIs
    <3>5. D[i - 1].key = <<row.n, i - 1>>
      BY <3>1 DEF JudgedTo, DecidesAs
    <3>6. QED
      BY <2>1, <2>6, <3>2, <3>4, <3>5
  <2>7. QED
    BY <2>5, <2>6
<1>6. QED
  BY <1>1, <1>4, <1>5 DEF ChainIn

\* A decision sees what was decided on earlier rows; what an old one saw, it
\* still sees, and a new one sees all old ones.
LEMMA JudgedSees ==
  ASSUME NEW v, NEW row, NEW found, NEW position, NEW D, NEW n, NEW u,
         NEW last \in 0..MaxRows, NEW result,
         JudgedTo(v, row, found, position, D, n, u, last, result)
  PROVE  /\ \A d \in v.decisions : SeenIn(u, d) = SeenIn(v, d)
         /\ \A i \in 1..n : SeenIn(u, D[i]) = Recent(v.decisions)
<1>1. /\ Keyed(u.decisions) /\ v.decisions \subseteq u.decisions
      /\ row.n \in 1..MaxRows
      /\ \A d \in v.decisions : d.key[1] < row.n
      /\ \A d \in u.decisions : d \in v.decisions \/ \E i \in 1..n : d = D[i]
      /\ \A i \in 1..n : D[i].key[1] = row.n /\ D[i].key[2] = i /\ D[i].key \in Ids
  BY JudgedKeyed
<1>2. row.n \in Int /\ \A d \in u.decisions : d.key[1] \in Int
  BY <1>1, JournalAssumption DEF Keyed, Ids
<1>3. ASSUME NEW d \in v.decisions
      PROVE  RowsBefore(u.decisions, d) = RowsBefore(v.decisions, d)
  <2>1. \A i \in 1..n : ~(D[i].key[1] < d.key[1])
    BY <1>1, <1>2
  <2>2. QED
    BY <1>1, <2>1 DEF RowsBefore
<1>4. ASSUME NEW i \in 1..n
      PROVE  RowsBefore(u.decisions, D[i]) = v.decisions
  <2>1. \A j \in 1..n : ~(D[j].key[1] < D[i].key[1])
    BY <1>1, <1>2
  <2>2. \A d \in v.decisions : d.key[1] < D[i].key[1]
    BY <1>1
  <2>3. QED
    BY <1>1, <2>1, <2>2 DEF RowsBefore
<1>5. QED
  BY <1>3, <1>4 DEF SeenIn

LEMMA JudgedReentry ==
  ASSUME NEW v, NEW row, NEW found, NEW position, NEW D, NEW n, NEW u,
         NEW last \in 0..MaxRows, NEW result,
         JudgedTo(v, row, found, position, D, n, u, last, result)
  PROVE  ReentryIn(u)
<1>1. /\ \A d \in v.decisions : SeenIn(u, d) = SeenIn(v, d)
      /\ \A i \in 1..n : SeenIn(u, D[i]) = Recent(v.decisions)
  BY JudgedSees
<1> DEFINE exits   == ExitsIn(Recent(v.decisions))
           entries == EntriesIn(Recent(v.decisions))
<1>2. ASSUME NEW i \in 1..n, D[i].action \in TradeActions, exits # {}, entries # {}
      PROVE  /\ D[i].trigger.type \notin PriceEvents \cup {"NONE"}
             /\ D[i].trigger.id \notin {Newest(exits).trigger.id, Newest(entries).trigger.id}
  <2>1. /\ ~IsOpen(position) /\ position = PositionState(v)
        /\ D[i].trigger = NoEvent \/ D[i].trigger.type # "NONE"
        /\ WasClosed(position) =>
             /\ D[i].trigger # NoEvent /\ D[i].trigger.type \notin PriceEvents
             /\ D[i].trigger.id \notin {position.entryEvent, position.exitEvent}
    BY <1>2 DEF JudgedTo, DecidesAs
  <2>2. Keyed(v.decisions)
    BY DEF JudgedTo, InOrder
  <2>3. exits \subseteq v.decisions /\ entries \subseteq v.decisions
    BY DEF ExitsIn, EntriesIn, Recent
  <2>4. Newest(exits) \in exits /\ Newest(entries) \in entries
    <3> HIDE DEF exits, entries
    <3> QED BY <1>2, <2>2, <2>3, KeyedPart, NewestExists
  <2>5. ~Held(v, Newest(entries), exits)
    BY <1>2, <2>1, <2>4, NotHeld
  <2>6. /\ position.side = "NONE"
        /\ position.entry = Newest(entries).key
        /\ position.exit = Newest(exits).key
        /\ position.entryEvent = Newest(entries).trigger.id
        /\ position.exitEvent = Newest(exits).trigger.id
    <3>1. entries # {} /\ exits # {}
      BY <1>2
    <3>2. /\ PositionState(v).side = "NONE"
          /\ PositionState(v).entry = Newest(entries).key
          /\ PositionState(v).exit = Newest(exits).key
          /\ PositionState(v).entryEvent = Newest(entries).trigger.id
          /\ PositionState(v).exitEvent = Newest(exits).trigger.id
      BY <2>5, <3>1, ClosedPosition
    <3>3. QED
      <4> HIDE DEF entries, exits
      <4> QED BY <2>1, <3>2
  <2>7. Newest(entries).key # NoId /\ Newest(exits).key # NoId
    <3>1. \A k \in Ids : k # NoId
      BY DEF Ids, NoId
    <3>2. QED
      <4> HIDE DEF exits, entries
      <4> QED BY <2>2, <2>3, <2>4, <3>1 DEF Keyed
  <2>8. WasClosed(position)
    BY <2>1, <2>6, <2>7 DEF WasClosed
  <2>9. QED
    <3> HIDE DEF exits, entries
    <3> QED BY <2>1, <2>6, <2>8
<1>3. \A d \in v.decisions :
        ExitsIn(SeenIn(u, d)) = ExitsIn(SeenIn(v, d))
          /\ EntriesIn(SeenIn(u, d)) = EntriesIn(SeenIn(v, d))
  BY <1>1
<1>4. \A d \in u.decisions : d \in v.decisions \/ \E i \in 1..n : d = D[i]
  BY DEF JudgedTo
<1>5. QED
  <2>1. SUFFICES ASSUME NEW d \in u.decisions, d.action \in TradeActions,
                        ExitsIn(SeenIn(u, d)) # {}, EntriesIn(SeenIn(u, d)) # {}
                 PROVE  /\ d.trigger.type \notin PriceEvents \cup {"NONE"}
                        /\ d.trigger.id \notin {Newest(ExitsIn(SeenIn(u, d))).trigger.id,
                                                Newest(EntriesIn(SeenIn(u, d))).trigger.id}
    BY DEF ReentryIn
  <2>2. CASE d \in v.decisions
    BY <1>3, <2>1, <2>2 DEF JudgedTo, InOrder, ReentryIn
  <2>3. ASSUME NEW i \in 1..n, d = D[i]
        PROVE  /\ d.trigger.type \notin PriceEvents \cup {"NONE"}
               /\ d.trigger.id \notin {Newest(ExitsIn(SeenIn(u, d))).trigger.id,
                                       Newest(EntriesIn(SeenIn(u, d))).trigger.id}
    BY <1>1, <1>2, <2>1, <2>3
  <2>4. QED
    BY <1>4, <2>2, <2>3

LEMMA JudgedOnePosition ==
  ASSUME NEW v, NEW row, NEW found, NEW position, NEW D, NEW n, NEW u,
         NEW last \in 0..MaxRows, NEW result,
         JudgedTo(v, row, found, position, D, n, u, last, result)
  PROVE  OnePositionIn(u)
<1>1. /\ \A d \in v.decisions : SeenIn(u, d) = SeenIn(v, d)
      /\ \A i \in 1..n : SeenIn(u, D[i]) = Recent(v.decisions)
  BY JudgedSees
<1>2. \A ds : FilledIn(u, ds) = FilledIn(v, ds)
  BY DEF JudgedTo, FilledIn
<1>3. ASSUME NEW i \in 1..n, D[i].action \in TradeActions,
             NEW e \in FilledIn(v, Recent(v.decisions))
      PROVE  ExitsAfter(Recent(v.decisions), e) # {}
  <2> DEFINE recent  == Recent(v.decisions)
             exits   == ExitsIn(recent)
             entries == EntriesIn(recent)
             entry   == Newest(entries)
  <2>1. ~IsOpen(position) /\ position = PositionState(v)
    BY <1>3 DEF JudgedTo, DecidesAs
  <2>2. Keyed(v.decisions)
    BY DEF JudgedTo, InOrder
  <2>3. exits \subseteq v.decisions /\ entries \subseteq v.decisions /\ recent \subseteq v.decisions
    BY DEF ExitsIn, EntriesIn, Recent
  <2>4. e \in entries /\ e \in v.decisions /\ e \in recent
    BY <2>3 DEF FilledIn, EntriesIn
  <2>5. entry \in entries /\ \A x \in entries \ {entry} : Before(x.key, entry.key)
    <3> HIDE DEF entries
    <3> QED BY <2>2, <2>3, <2>4, KeyedPart, NewestExists
  <2>6. ~Held(v, entry, exits)
    BY <2>1, <2>4, <2>5, NotHeld
  <2>7. \A x \in v.decisions : x.key \in Ids
    BY <2>2 DEF Keyed
  <2>8. entry \in v.decisions /\ entry.action \in TradeActions
    BY <2>3, <2>5 DEF EntriesIn
  <2>9. CASE exits # {} /\ ~Before(Newest(exits).key, entry.key)
    <3> DEFINE exit == Newest(exits)
    <3>1. exit \in exits
      <4> HIDE DEF exits
      <4> QED BY <2>2, <2>3, <2>9, KeyedPart, NewestExists
    <3>2. exit # entry
      <4>1. exit.action = "EXIT"
        BY <3>1 DEF ExitsIn
      <4>2. "EXIT" \notin TradeActions
        BY DEF TradeActions, Entries, Rebuys
      <4>3. QED
        BY <2>8, <4>1, <4>2
    <3>3. exit \in v.decisions
      BY <2>3, <3>1
    <3>4. exit.key # entry.key
      BY <2>2, <2>8, <3>2, <3>3 DEF Keyed
    <3>5. Before(entry.key, exit.key)
      <4> HIDE DEF exit, entry
      <4> QED BY <2>7, <2>8, <2>9, <3>3, <3>4, BeforeOrder DEF exit
    <3>6. Before(e.key, exit.key)
      <4>1. e = entry \/ Before(e.key, entry.key)
        BY <2>4, <2>5
      <4>2. QED
        <5> HIDE DEF exit, entry
        <5> QED BY <2>4, <2>7, <2>8, <3>3, <3>5, <4>1, BeforeOrder
    <3>7. exit \in ExitsAfter(recent, e)
      BY <3>1, <3>6 DEF ExitsIn, ExitsAfter
    <3>8. QED
      BY <3>7
  <2>10. CASE LatestPaper(v, entry.key[1]) # "FILLED"
    <3>1. PICK x \in v.paper : x.row = entry.key[1] /\ x.type # "FILLED"
      BY <2>10, LatestIs
    <3>2. x.type \in OrderTypes
      <4>1. \A y \in v.paper : y.type \notin SettledTypes
        BY DEF JudgedTo, InOrder, PendingLast
      <4>2. QED
        BY <4>1 DEF JudgedTo, InOrder, OrdersOnce
    <3>3. PICK y \in v.paper : y.row = e.key[1] /\ y.type = "FILLED"
      BY DEF FilledIn
    <3>4. y.type \in OrderTypes
      BY <3>3 DEF OrderTypes
    <3>5. e.key[1] # entry.key[1]
      BY <3>1, <3>2, <3>3, <3>4 DEF JudgedTo, InOrder, OrdersOnce
    <3>6. Before(e.key, entry.key) /\ e.key[1] < entry.key[1]
      <4>1. Before(e.key, entry.key)
        BY <2>4, <2>5, <3>5
      <4>2. QED
        <5> HIDE DEF entry
        <5> QED BY <2>4, <2>7, <2>8, <3>5, <4>1, BeforeOrder
    <3> DEFINE earlier == RowsBefore(v.decisions, entry)
    <3>7. e \in earlier /\ earlier \subseteq v.decisions
      BY <2>4, <3>6 DEF RowsBefore
    <3>8. e \in SeenIn(v, entry)
      <4>1. e \in Recent(earlier)
        <5> HIDE DEF earlier
        <5> QED BY <2>2, <2>4, <3>7, RecentPart DEF Keyed
      <4>2. QED
        BY <4>1 DEF SeenIn
    <3>9. e \in FilledIn(v, SeenIn(v, entry))
      BY <3>8 DEF FilledIn
    <3>10. ExitsAfter(SeenIn(v, entry), e) # {}
      <4> HIDE DEF entry
      <4> QED BY <2>8, <3>9 DEF JudgedTo, InOrder, OnePositionIn
    <3>11. PICK z \in SeenIn(v, entry) : z.action = "EXIT" /\ Before(e.key, z.key)
      BY <3>10 DEF ExitsAfter
    <3>12. z \in v.decisions
      BY <3>11, <3>7 DEF SeenIn, Recent
    <3>13. z \in recent
      BY <2>2, <2>4, <3>11, <3>12, RecentUp
    <3>14. z \in ExitsAfter(recent, e)
      BY <3>11, <3>13 DEF ExitsAfter
    <3>15. QED
      BY <3>14
  <2>11. QED
    BY <2>6, <2>9, <2>10 DEF Held
<1>4. \A d \in u.decisions : d \in v.decisions \/ \E i \in 1..n : d = D[i]
  BY DEF JudgedTo
<1>5. QED
  <2>1. SUFFICES ASSUME NEW d \in u.decisions, d.action \in TradeActions,
                        NEW e \in FilledIn(u, SeenIn(u, d))
                 PROVE  ExitsAfter(SeenIn(u, d), e) # {}
    BY DEF OnePositionIn
  <2>2. CASE d \in v.decisions
    <3>1. e \in FilledIn(v, SeenIn(v, d))
      BY <1>1, <1>2, <2>1, <2>2
    <3>2. QED
      BY <1>1, <2>1, <2>2, <3>1 DEF JudgedTo, InOrder, OnePositionIn
  <2>3. ASSUME NEW i \in 1..n, d = D[i]
        PROVE  ExitsAfter(SeenIn(u, d), e) # {}
    BY <1>1, <1>2, <1>3, <2>1, <2>3
  <2>4. QED
    BY <1>4, <2>2, <2>3

LEMMA JudgedInOrder ==
  ASSUME NEW v, NEW row, NEW found, NEW position, NEW D, NEW n, NEW u,
         NEW last \in 0..MaxRows, NEW result,
         JudgedTo(v, row, found, position, D, n, u, last, result)
  PROVE  InOrder(u, last, result)
<1>1. /\ Keyed(u.decisions) /\ v.decisions \subseteq u.decisions
      /\ row.n \in 1..MaxRows
      /\ \A d \in v.decisions : d.key[1] < row.n
      /\ \A d \in u.decisions : d \in v.decisions \/ \E i \in 1..n : d = D[i]
      /\ \A i \in 1..n : D[i].key[1] = row.n /\ D[i].key[2] = i /\ D[i].key \in Ids
  BY JudgedKeyed
<1>2. OrdersOnce(u, last, result) /\ OneReview(u)
  BY DEF JudgedTo, InOrder, OrdersOnce, OneReview
<1>3. PendingLast(u)
  <2>1. D[1] \in u.decisions /\ D[1].key[1] = row.n
    BY <1>1 DEF JudgedTo
  <2>2. ASSUME NEW o \in Pending(u) PROVE o \in Pending(v) /\ row.n < o.n
    <3>1. o \in Pending(v) /\ o.n # row.n
      BY <1>1, <2>1, <2>2 DEF JudgedTo, Pending
    <3>2. row.n <= o.n /\ row.n \in Int /\ o.n \in Int
      BY <1>1, <3>1, JournalAssumption DEF JudgedTo, Numbered, Rows, Pending
    <3>3. QED
      BY <3>1, <3>2
  <2>3. \A o \in Pending(u) : \A i \in 1..n : D[i].key[1] < o.n
    BY <1>1, <2>2
  <2>4. \A o \in Pending(u) : \A d \in v.decisions : d.key[1] < o.n
    BY <2>2 DEF JudgedTo, InOrder, PendingLast
  <2>5. \A x \in u.paper : x.type \notin SettledTypes
    BY DEF JudgedTo, InOrder, PendingLast
  <2>6. QED
    BY <1>1, <2>3, <2>4, <2>5 DEF PendingLast
<1>4. QED
  BY <1>1, <1>2, <1>3, JudgedChain, JudgedReentry, JudgedOnePosition DEF InOrder

---------------------------------------------------------------------------
(* Settling, deciding and reviewing                                        *)

\* More rows and a result change nothing.
LEMMA InOrderGrows ==
  ASSUME NEW v, NEW last \in Nat, NEW later \in Nat, last <= later,
         NEW result, NEW after, result # "none" => after # "none",
         InOrder(v, last, result)
  PROVE  InOrder(v, later, after)
<1>1. 1..last \subseteq 1..later
  OBVIOUS
<1>2. OrdersOnce(v, later, after)
  BY <1>1 DEF InOrder, OrdersOnce
<1>3. QED
  BY <1>2 DEF InOrder

\* Settling the fills that are not settled, once the result is known.
LEMMA InOrderSettle ==
  ASSUME NEW v, NEW u, NEW last, NEW result, InOrder(v, last, result),
         result # "none", Pending(v) = {}, NEW by, NEW type \in SettledTypes,
         u.rows = v.rows, u.decisions = v.decisions, u.reviews = v.reviews,
         u.paper = v.paper \cup {[row |-> n, by |-> by, type |-> type] :
                                   n \in UnsettledFills(v)}
  PROVE  InOrder(u, last, result) /\ Pending(u) = {}
<1>1. ASSUME NEW x \in u.paper, x \notin v.paper
      PROVE  /\ x.type \in SettledTypes /\ x.row \in 1..last
             /\ x = [row |-> x.row, by |-> by, type |-> type]
             /\ \A y \in v.paper : y.row = x.row => y.type = "FILLED"
  <2>1. PICK n \in UnsettledFills(v) : x = [row |-> n, by |-> by, type |-> type]
    BY <1>1
  <2>2. (\E e \in v.paper : e.row = n) /\ LatestPaper(v, n) = "FILLED"
    BY DEF UnsettledFills
  <2>3. n \in 1..last
    BY <2>2 DEF InOrder, OrdersOnce
  <2>4. \A y \in v.paper : y.row = n => y.type = "FILLED"
    BY <2>2, LatestIs
  <2>5. x.row = n /\ x.type = type
    BY <2>1
  <2>6. QED
    BY <2>1, <2>3, <2>4, <2>5
<1>2. "FILLED" \notin SettledTypes /\ SettledTypes \cap OrderTypes = {}
  BY DEF SettledTypes, OrderTypes
<1>3. OrdersOnce(u, last, result)
  <2>1. \A x \in u.paper : x.row \in 1..last /\ x.type \in OrderTypes \cup SettledTypes
    BY <1>1 DEF InOrder, OrdersOnce
  <2>2. \A x \in u.paper : x.type \in OrderTypes => x \in v.paper
    BY <1>1, <1>2
  <2>3. ASSUME NEW x \in u.paper, NEW y \in u.paper, x.row = y.row,
               x.type \in SettledTypes, y.type \in SettledTypes
        PROVE  x = y
    <3>1. CASE x \in v.paper /\ y \in v.paper
      BY <2>3, <3>1 DEF InOrder, OrdersOnce
    <3>2. CASE x \notin v.paper /\ y \notin v.paper
      BY <1>1, <2>3, <3>2
    <3>3. CASE x \in v.paper /\ y \notin v.paper
      BY <1>1, <1>2, <2>3, <3>3
    <3>4. CASE x \notin v.paper /\ y \in v.paper
      BY <1>1, <1>2, <2>3, <3>4
    <3>5. QED
      BY <3>1, <3>2, <3>3, <3>4
  <2>4. \A x, y \in u.paper :
          x.row = y.row /\ x.type \in OrderTypes /\ y.type \in OrderTypes => x.type = y.type
    BY <2>2 DEF InOrder, OrdersOnce
  <2>5. QED
    BY <2>1, <2>3, <2>4 DEF OrdersOnce
<1>4. \A ds : FilledIn(u, ds) = FilledIn(v, ds)
  <2>1. \A x \in u.paper : x.type = "FILLED" => x \in v.paper
    BY <1>1, <1>2
  <2>2. v.paper \subseteq u.paper
    OBVIOUS
  <2>3. QED
    BY <2>1, <2>2 DEF FilledIn
<1>5. \A d : SeenIn(u, d) = SeenIn(v, d)
  BY DEF SeenIn
<1>6. OnePositionIn(u) /\ ReentryIn(u) /\ ChainIn(u) /\ OneReview(u)
  <2>1. OnePositionIn(u)
    BY <1>4, <1>5 DEF InOrder, OnePositionIn
  <2>2. ReentryIn(u)
    BY <1>5 DEF InOrder, ReentryIn
  <2>3. ChainIn(u) /\ OneReview(u)
    BY DEF InOrder, ChainIn, OneReview
  <2>4. QED
    BY <2>1, <2>2, <2>3
<1>7. Pending(u) = {} /\ PendingLast(u)
  <2>1. Pending(u) = {}
    BY DEF Pending
  <2>2. QED
    BY <2>1 DEF PendingLast
<1>8. QED
  BY <1>3, <1>6, <1>7 DEF InOrder

\* A new row with its simulated order, while there is no result.
LEMMA InOrderDecide ==
  ASSUME NEW v, NEW u, NEW last \in Nat, InOrder(v, last, "none"),
         Closed(v), Numbered(v, last), Pending(v) = {},
         NEW row, row.n = last + 1, NEW paper, paper.row = last + 1,
         paper.type \in OrderTypes,
         u.rows = v.rows \cup {row}, u.paper = v.paper \cup {paper},
         u.decisions = v.decisions, u.reviews = v.reviews
  PROVE  InOrder(u, last + 1, "none")
<1>1. \A x \in v.paper : x.type \in OrderTypes /\ x.row \in 1..last
  BY DEF InOrder, OrdersOnce
<1>2. \A d \in v.decisions : d.key[1] \in 1..last
  BY DEF Closed, Numbered, JudgedRows, Rows
<1>3. \A n \in 1..last : n \in Int /\ n # last + 1 /\ n < last + 1 /\ n \in 1..(last + 1)
  OBVIOUS
<1>4. SettledTypes \cap OrderTypes = {}
  BY DEF SettledTypes, OrderTypes
<1>5. \A x \in u.paper : x.type \in OrderTypes
  BY <1>1
<1>6. OrdersOnce(u, last + 1, "none")
  <2>1. \A x \in u.paper : x.row \in 1..(last + 1)
    BY <1>1, <1>3
  <2>2. \A x, y \in u.paper : x.row = y.row => x.type = y.type
    <3>1. \A x \in v.paper : x.row # paper.row
      BY <1>1, <1>3
    <3>2. QED
      BY <1>1, <3>1 DEF InOrder, OrdersOnce
  <2>3. QED
    BY <1>4, <1>5, <2>1, <2>2 DEF OrdersOnce
<1>7. \A d \in v.decisions : FilledIn(u, SeenIn(u, d)) = FilledIn(v, SeenIn(v, d))
  <2>1. \A d : SeenIn(u, d) = SeenIn(v, d)
    BY DEF SeenIn
  <2>2. ASSUME NEW d, NEW e \in SeenIn(v, d)
        PROVE  e.key[1] # paper.row
    BY <1>2, <1>3 DEF SeenIn, Recent, RowsBefore
  <2>3. QED
    BY <2>1, <2>2 DEF FilledIn
<1>8. \A d : SeenIn(u, d) = SeenIn(v, d)
  BY DEF SeenIn
<1>9. OnePositionIn(u) /\ ReentryIn(u) /\ ChainIn(u) /\ OneReview(u)
  <2>1. OnePositionIn(u)
    BY <1>7, <1>8 DEF InOrder, OnePositionIn
  <2>2. ReentryIn(u)
    BY <1>8 DEF InOrder, ReentryIn
  <2>3. ChainIn(u) /\ OneReview(u)
    BY DEF InOrder, ChainIn, OneReview
  <2>4. QED
    BY <2>1, <2>2, <2>3
<1>10. PendingLast(u)
  <2>1. \A o \in Pending(u) : o = row
    BY DEF Pending
  <2>2. \A d \in u.decisions : d.key[1] < row.n
    BY <1>2, <1>3
  <2>3. QED
    BY <1>4, <1>5, <2>1, <2>2 DEF PendingLast
<1>11. QED
  BY <1>6, <1>9, <1>10 DEF InOrder

\* Reviews of decisions without one.
LEMMA InOrderReview ==
  ASSUME NEW v, NEW u, NEW last, NEW result, InOrder(v, last, result), NEW latest,
         u.rows = v.rows, u.paper = v.paper, u.decisions = v.decisions,
         u.reviews = v.reviews \cup {ReviewOf(d, latest[d.key[1]]) : d \in Unreviewed(v)}
  PROVE  InOrder(u, last, result)
<1>1. ASSUME NEW x \in u.reviews, x \notin v.reviews
      PROVE  \E d \in Unreviewed(v) : x = ReviewOf(d, latest[d.key[1]])
  BY <1>1
<1>2. \A d, e : ReviewOf(d, e).decision = d.key
  BY DEF ReviewOf
<1>3. ASSUME NEW x \in u.reviews, NEW y \in u.reviews, x.decision = y.decision
      PROVE  x = y
  <2>1. CASE x \in v.reviews /\ y \in v.reviews
    BY <1>3, <2>1 DEF InOrder, OneReview
  <2>2. CASE x \notin v.reviews /\ y \notin v.reviews
    <3>1. PICK d \in Unreviewed(v) : x = ReviewOf(d, latest[d.key[1]])
      BY <1>1, <2>2
    <3>2. PICK e \in Unreviewed(v) : y = ReviewOf(e, latest[e.key[1]])
      BY <1>1, <2>2
    <3>3. d.key = e.key
      BY <1>2, <1>3, <3>1, <3>2
    <3>4. d = e
      BY <3>3 DEF InOrder, Keyed, Unreviewed
    <3>5. QED
      BY <3>1, <3>2, <3>4
  <2>3. CASE x \in v.reviews /\ y \notin v.reviews
    <3>1. PICK d \in Unreviewed(v) : y = ReviewOf(d, latest[d.key[1]])
      BY <1>1, <2>3
    <3>2. x.decision # d.key
      BY <2>3 DEF Unreviewed
    <3>3. QED
      BY <1>2, <1>3, <3>1, <3>2
  <2>4. CASE x \notin v.reviews /\ y \in v.reviews
    <3>1. PICK d \in Unreviewed(v) : x = ReviewOf(d, latest[d.key[1]])
      BY <1>1, <2>4
    <3>2. y.decision # d.key
      BY <2>4 DEF Unreviewed
    <3>3. QED
      BY <1>2, <1>3, <3>1, <3>2
  <2>5. QED
    BY <2>1, <2>2, <2>3, <2>4
<1>4. OneReview(u)
  BY <1>3 DEF OneReview
<1>5. Keyed(u.decisions) /\ OrdersOnce(u, last, result) /\ ChainIn(u)
  BY DEF InOrder, OrdersOnce, ChainIn
<1>6. PendingLast(u)
  BY DEF InOrder, PendingLast, Pending
<1>7. OnePositionIn(u)
  <2>1. \A d : SeenIn(u, d) = SeenIn(v, d)
    BY DEF SeenIn
  <2>2. \A ds : FilledIn(u, ds) = FilledIn(v, ds)
    BY DEF FilledIn
  <2>3. QED
    BY <2>1, <2>2 DEF InOrder, OnePositionIn
<1>8. ReentryIn(u)
  <2>1. \A d : SeenIn(u, d) = SeenIn(v, d)
    BY DEF SeenIn
  <2>2. QED
    BY <2>1 DEF InOrder, ReentryIn
<1>9. QED
  BY <1>4, <1>5, <1>6, <1>7, <1>8 DEF InOrder

---------------------------------------------------------------------------
(* Runs that do not overlap keep what they see in order                    *)

LEMMA InOrderEmpty ==
  ASSUME NEW last, NEW result
  PROVE  InOrder(Empty, last, result)
<1>1. Keyed(Empty.decisions)
  BY FS_EmptySet DEF Empty, Keyed
<1>2. /\ OrdersOnce(Empty, last, result) /\ PendingLast(Empty) /\ ChainIn(Empty)
      /\ OnePositionIn(Empty) /\ ReentryIn(Empty) /\ OneReview(Empty)
  BY DEF Empty, OrdersOnce, PendingLast, Pending, ChainIn, OnePositionIn,
         ReentryIn, OneReview
<1>3. QED
  BY <1>1, <1>2 DEF InOrder

\* A run that is not open sees what is committed, where every row is judged.
LEMMA IdleSees ==
  ASSUME JournalInv, NEW r \in Runs, pc[r] = "idle"
  PROVE  Visible(r) = db /\ Pending(Visible(r)) = {}
<1>1. tx[r] = Empty /\ Whole(db) /\ Visible(r) = Join(db, tx[r])
  BY VisibleIs DEF JournalInv, IdleEmpty, DataInv, Shaped
<1>2. \A t \in Tables : db[t] \cup Empty[t] = db[t]
  BY WholeEmpty
<1>3. Visible(r) = db
  BY <1>1, <1>2 DEF Join, Whole
<1>4. Pending(db) = {}
  BY DEF JournalInv, DataInv, AllJudged, Rows, JudgedRows, Pending
<1>5. QED
  BY <1>3, <1>4

LEMMA JoinSees ==
  ASSUME JournalInv, NEW r \in Runs
  PROVE  Join(Visible(r), db) = Visible(r)
<1>1. Whole(db) /\ Visible(r) = Join(db, tx[r]) /\ Whole(Visible(r))
  BY VisibleIs DEF JournalInv, DataInv, Shaped
<1>2. \A t \in Tables : Visible(r)[t] \cup db[t] = Visible(r)[t]
  BY <1>1, JoinIs
<1>3. QED
  BY <1>1, <1>2 DEF Join, Whole

\* A step that writes nothing.
LEMMA AloneSame ==
  ASSUME JournalInv, Alone, db' = db, tx' = tx, lastRow' = lastRow,
         world.result # "none" => world'.result # "none",
         \A q, r \in Runs : pc'[q] # "idle" /\ pc'[r] # "idle" => q = r,
         \A r \in Runs : pc'[r] \in {"settle", "decide"} => Pending(Visible(r)) = {}
  PROVE  Alone'
<1>1. lastRow \in Nat /\ lastRow <= lastRow
  BY JournalAssumption DEF JournalInv, ScalarsOK
<1>2. \A r \in Runs : Visible(r)' = Visible(r)
  BY DEF Visible
<1>3. InOrder(db, lastRow, world'.result)
  BY <1>1, InOrderGrows DEF Alone
<1>4. \A r \in Runs : InOrder(Visible(r), lastRow, world'.result)
  BY <1>1, InOrderGrows DEF Alone
<1>5. InOrder(db, lastRow, world.result)'
  BY <1>3
<1>6. \A r \in Runs : InOrder(Visible(r)', lastRow', world'.result)
  BY <1>2, <1>4
<1>7. \A r \in Runs : pc'[r] \in {"settle", "decide"} => Pending(Visible(r)') = {}
  BY <1>2
<1>8. QED
  BY <1>5, <1>6, <1>7 DEF Alone

\* A step of the open run that writes.
LEMMA AloneWrite ==
  ASSUME JournalInv, Alone, NEW r \in Runs, pc[r] # "idle", NEW w, Whole(w), Write(r, w),
         db' = db, lastRow' \in Nat, lastRow <= lastRow', world' = world,
         \A q \in Runs \ {r} : pc'[q] = pc[q],
         InOrder(Join(Visible(r), w), lastRow', world.result),
         pc'[r] \in {"settle", "decide"} => Pending(Join(Visible(r), w)) = {}
  PROVE  Alone'
<1>1. /\ Visible(r)' = Join(Visible(r), w)
      /\ \A q \in Runs \ {r} : Visible(q)' = Visible(q)
  BY WriteSeen DEF JournalInv, DataInv
<1>2. lastRow \in Nat
  BY JournalAssumption DEF JournalInv, ScalarsOK
<1>3. InOrder(db, lastRow', world.result)
  BY <1>2, InOrderGrows DEF Alone
<1>4. \A q \in Runs : InOrder(Visible(q), lastRow', world.result)
  BY <1>2, InOrderGrows DEF Alone
<1>5. InOrder(db', lastRow', world'.result)
  BY <1>3
<1>6. \A q \in Runs : InOrder(Visible(q)', lastRow', world'.result)
  BY <1>1, <1>4
<1>7. \A p, q \in Runs : pc'[p] # "idle" /\ pc'[q] # "idle" => p = q
  BY DEF Alone
<1>8. \A q \in Runs : pc'[q] \in {"settle", "decide"} => Pending(Visible(q)') = {}
  BY <1>1 DEF Alone
<1>9. QED
  BY <1>5, <1>6, <1>7, <1>8 DEF Alone

LEMMA BeginAlone ==
  ASSUME JournalInv, SerialInv, NEW r \in Runs, Begin(r)
  PROVE  SerialInv'
<1> SUFFICES ASSUME ~overlapped' PROVE Alone'
  BY DEF SerialInv
<1>1. ~overlapped /\ \A q \in Runs \ {r} : pc[q] = "idle"
  BY DEF Begin, JournalInv, ScalarsOK
<1>2. \A q \in Runs \ {r} : pc'[q] = pc[q]
  BY GotoIs DEF JournalInv, Begin
<1>3. Alone
  BY <1>1 DEF SerialInv
<1>4. \A q \in Runs : Pending(Visible(q)) = {}
  BY <1>1, IdleSees DEF Begin
<1>5. \A p, q \in Runs : pc'[p] # "idle" /\ pc'[q] # "idle" => p = q
  BY <1>1, <1>2
<1>6. QED
  BY <1>3, <1>4, <1>5, AloneSame DEF Begin

LEMMA SettleAlone ==
  ASSUME JournalInv, SerialInv, NEW r \in Runs, SettlePaper(r)
  PROVE  SerialInv'
<1> SUFFICES ASSUME ~overlapped' PROVE Alone'
  BY DEF SerialInv
<1> DEFINE v == Visible(r)
<1>1. Alone /\ pc[r] = "settle" /\ Pending(v) = {}
  BY DEF SettlePaper, SerialInv, Alone
<1>2. pc'[r] = "decide" /\ \A q \in Runs \ {r} : pc'[q] = pc[q]
  BY GotoIs DEF JournalInv, SettlePaper
<1>3. CASE tx' = tx
  <2>1. \A p, q \in Runs : pc'[p] # "idle" /\ pc'[q] # "idle" => p = q
    BY <1>1, <1>2 DEF Alone
  <2>2. \A q \in Runs : pc'[q] \in {"settle", "decide"} => Pending(Visible(q)) = {}
    BY <1>1, <1>2 DEF Alone
  <2>3. QED
    BY <1>1, <1>3, <2>1, <2>2, AloneSame DEF SettlePaper
<1>4. CASE world.result # "none"
  <2> DEFINE type == IF world.result = "YES" THEN "SETTLED_WIN" ELSE "SETTLED_LOSS"
             P == {[row |-> n, by |-> r, type |-> type] : n \in UnsettledFills(v)}
             w == [Empty EXCEPT !.paper = P]
             u == Join(v, w)
  <2>1. Write(r, w)
    BY <1>4 DEF SettlePaper
  <2>2. /\ Whole(w) /\ w.paper = P /\ w.rows = {} /\ w.decisions = {} /\ w.reviews = {}
    <3> HIDE DEF P
    <3> QED BY PaperIs
  <2>3. /\ u.rows = v.rows \cup w.rows /\ u.paper = v.paper \cup w.paper
        /\ u.decisions = v.decisions \cup w.decisions
        /\ u.reviews = v.reviews \cup w.reviews
    <3> HIDE DEF v, w
    <3> QED BY JoinIs
  <2>4. type \in SettledTypes
    BY DEF SettledTypes
  <2>5. /\ u.rows = v.rows /\ u.decisions = v.decisions /\ u.reviews = v.reviews
        /\ u.paper = v.paper \cup P
    <3> HIDE DEF u, w, v, P
    <3> QED BY <2>2, <2>3
  <2>6. InOrder(v, lastRow, world.result)
    BY <1>1 DEF Alone
  <2>7. InOrder(u, lastRow, world.result) /\ Pending(u) = {}
    <3> HIDE DEF u, w, v, type
    <3> QED BY <1>1, <1>4, <2>4, <2>5, <2>6, InOrderSettle
  <2>8. lastRow' \in Nat /\ lastRow <= lastRow' /\ lastRow' = lastRow
    BY JournalAssumption DEF JournalInv, ScalarsOK, SettlePaper
  <2>9. QED
    <3> HIDE DEF w
    <3> QED BY <1>1, <1>2, <2>1, <2>2, <2>7, <2>8, AloneWrite DEF SettlePaper
<1>5. QED
  BY <1>3, <1>4 DEF SettlePaper

LEMMA DecideAlone ==
  ASSUME JournalInv, SerialInv, NEW r \in Runs, DecideRow(r)
  PROVE  SerialInv'
<1> SUFFICES ASSUME ~overlapped' PROVE Alone'
  BY DEF SerialInv
<1> DEFINE v == Visible(r)
<1>1. Alone /\ pc[r] = "decide" /\ Pending(v) = {} /\ world.result = "none"
  BY DEF DecideRow, SerialInv, Alone
<1>2. pc'[r] = "judge" /\ \A q \in Runs \ {r} : pc'[q] = pc[q]
  BY GotoIs DEF JournalInv, DecideRow
<1> DEFINE row == [n |-> lastRow + 1, extreme |-> world.extreme,
                   stamp |-> world.stamp, price |-> world.price]
<1>3. PICK status \in OrderTypes : Write(r, [Empty EXCEPT
        !.rows = {row}, !.paper = {[row |-> lastRow + 1, by |-> r, type |-> status]}])
  <2>1. PICK status \in IF world.price = "low" THEN {"FILLED", "NO_FILL"} ELSE {"INELIGIBLE"} :
          Write(r, [Empty EXCEPT
            !.rows = {row}, !.paper = {[row |-> lastRow + 1, by |-> r, type |-> status]}])
    BY DEF DecideRow
  <2>2. status \in OrderTypes
    BY DEF OrderTypes
  <2>3. QED
    BY <2>1, <2>2
<1> DEFINE paper == [row |-> lastRow + 1, by |-> r, type |-> status]
           w == [Empty EXCEPT !.rows = {row}, !.paper = {paper}]
           u == Join(v, w)
<1>4. row.n = lastRow + 1 /\ paper.row = lastRow + 1 /\ paper.type \in OrderTypes
  OBVIOUS
<1>5. Write(r, w)
  BY <1>3
<1> HIDE DEF row, paper
<1>6. /\ Whole(w) /\ w.rows = {row} /\ w.paper = {paper} /\ w.decisions = {} /\ w.reviews = {}
  <2> DEFINE R == {row}
             P == {paper}
  <2>1. /\ Whole([Empty EXCEPT !.rows = R, !.paper = P])
        /\ [Empty EXCEPT !.rows = R, !.paper = P].rows = R
        /\ [Empty EXCEPT !.rows = R, !.paper = P].paper = P
        /\ [Empty EXCEPT !.rows = R, !.paper = P].decisions = {}
        /\ [Empty EXCEPT !.rows = R, !.paper = P].reviews = {}
    <3> HIDE DEF R, P
    <3> QED BY DEF Whole, Empty, Tables
  <2>2. QED
    BY <2>1
<1>7. /\ u.rows = v.rows \cup w.rows /\ u.paper = v.paper \cup w.paper
      /\ u.decisions = v.decisions \cup w.decisions
      /\ u.reviews = v.reviews \cup w.reviews
  <2> HIDE DEF v, w
  <2> QED BY JoinIs
<1>8. /\ lastRow \in Nat /\ lastRow' = lastRow + 1 /\ lastRow' \in Nat /\ lastRow <= lastRow'
  BY JournalAssumption DEF JournalInv, ScalarsOK, DecideRow
<1>9. Closed(v) /\ Numbered(v, lastRow) /\ InOrder(v, lastRow, "none")
  BY <1>1, NumberedVisible DEF JournalInv, DataInv, Alone
<1>10. InOrder(u, lastRow', world.result)
  <2>1. /\ u.rows = v.rows \cup {row} /\ u.paper = v.paper \cup {paper}
        /\ u.decisions = v.decisions /\ u.reviews = v.reviews
    <3> HIDE DEF u, v, w
    <3> QED BY <1>6, <1>7
  <2>2. InOrder(u, lastRow + 1, "none")
    <3> HIDE DEF u, v, w
    <3> QED BY <1>1, <1>4, <1>8, <1>9, <2>1, InOrderDecide
  <2>3. QED
    BY <1>1, <1>8, <2>2
<1>11. QED
  <2> HIDE DEF w
  <2> QED BY <1>1, <1>2, <1>5, <1>6, <1>8, <1>10, AloneWrite DEF DecideRow

LEMMA NoAlertAlone ==
  ASSUME JournalInv, SerialInv, NEW r \in Runs, NoAlert(r)
  PROVE  SerialInv'
<1> SUFFICES ASSUME ~overlapped' PROVE Alone'
  BY DEF SerialInv
<1>1. Alone /\ pc[r] = "decide"
  BY DEF NoAlert, SerialInv
<1>2. pc'[r] = "judge" /\ \A q \in Runs \ {r} : pc'[q] = pc[q]
  BY GotoIs DEF JournalInv, NoAlert
<1>3. \A p, q \in Runs : pc'[p] # "idle" /\ pc'[q] # "idle" => p = q
  BY <1>1, <1>2 DEF Alone
<1>4. \A q \in Runs : pc'[q] \in {"settle", "decide"} => Pending(Visible(q)) = {}
  BY <1>1, <1>2 DEF Alone
<1>5. QED
  BY <1>1, <1>3, <1>4, AloneSame DEF NoAlert

LEMMA JudgeAlone ==
  ASSUME JournalInv, SerialInv, NEW r \in Runs, JudgeRow(r)
  PROVE  SerialInv'
<1> SUFFICES ASSUME ~overlapped' PROVE Alone'
  BY DEF SerialInv
<1>1. PICK row, found, position : Judges(r, row, found, position)
  BY JudgeIs
<1> DEFINE v       == Visible(r)
           decided == DecisionsOn(v, row, found.act, position)
           told    == {e.id : e \in Range(found.all)}
           w       == Judged(v, row, told, decided)
           u       == Join(v, w)
<1>2. Alone /\ pc[r] = "judge" /\ pc' = pc /\ lastRow' = lastRow /\ world' = world /\ db' = db
  BY DEF JudgeRow, SerialInv
<1>3. /\ row \in Pending(v) /\ \A other \in Pending(v) : row.n <= other.n
      /\ TriggersOf(found) /\ position = PositionState(v) /\ Write(r, w)
  BY <1>1, TriggersType DEF Judges
<1>4. Closed(v) /\ Numbered(v, lastRow) /\ InOrder(v, lastRow, world.result)
  BY <1>2, NumberedVisible DEF JournalInv, DataInv, Alone
<1>5. /\ Whole(w) /\ w.rows = {} /\ w.paper = {} /\ w.reviews = {} /\ w.decisions = decided
  <2> HIDE DEF decided, told, v
  <2> QED BY JudgedIs
<1>6. /\ u.rows = v.rows \cup w.rows /\ u.paper = v.paper \cup w.paper
      /\ u.decisions = v.decisions \cup w.decisions
      /\ u.reviews = v.reviews \cup w.reviews
  <2> HIDE DEF v, w
  <2> QED BY JoinIs
<1>7. PICK n \in 1..9 : \E D : DecidesAs(v, row, found, position, D, n)
  <2> HIDE DEF v
  <2> QED BY <1>3, DecidesAsIs
<1>8. PICK D : DecidesAs(v, row, found, position, D, n)
  BY <1>7
<1>9. JudgedTo(v, row, found, position, D, n, u, lastRow, world.result)
  <2>1. decided = {D[i] : i \in 1..n}
    BY <1>8 DEF DecidesAs
  <2>2. /\ u.rows = v.rows /\ u.paper = v.paper /\ u.reviews = v.reviews
        /\ u.decisions = v.decisions \cup {D[i] : i \in 1..n}
    <3> HIDE DEF u, v, w, decided
    <3> QED BY <1>5, <1>6, <2>1
  <2>3. QED
    <3> HIDE DEF u, v, w, decided
    <3> QED BY <1>3, <1>4, <1>8, <2>2 DEF JudgedTo
<1>10. lastRow \in 0..MaxRows /\ lastRow' \in Nat /\ lastRow <= lastRow'
  BY <1>2, JournalAssumption DEF JournalInv, ScalarsOK
<1>11. InOrder(u, lastRow', world.result)
  <2>1. InOrder(u, lastRow, world.result)
    <3> HIDE DEF u, v
    <3> QED BY <1>9, <1>10, JudgedInOrder
  <2>2. QED
    BY <1>2, <2>1
<1>12. QED
  <2>1. pc'[r] \notin {"settle", "decide"} /\ pc[r] # "idle" /\ \A q \in Runs \ {r} : pc'[q] = pc[q]
    BY <1>2
  <2>2. QED
    <3> HIDE DEF w
    <3> QED BY <1>2, <1>3, <1>5, <1>10, <1>11, <2>1, AloneWrite

LEMMA ReviewAlone ==
  ASSUME JournalInv, SerialInv, NEW r \in Runs, Review(r)
  PROVE  SerialInv'
<1> SUFFICES ASSUME ~overlapped' PROVE Alone'
  BY DEF SerialInv
<1>1. PICK last : Reviews(r, last)
  BY ReviewIs
<1> DEFINE v   == Visible(r)
           new == {ReviewOf(d, last[d.key[1]]) : d \in Unreviewed(v)}
           w   == ReviewWrites(new)
           u   == Join(v, w)
<1>2. Alone /\ pc[r] = "judge" /\ lastRow' = lastRow /\ world' = world /\ db' = db
  BY DEF Review, SerialInv
<1>3. pc'[r] = "commit" /\ \A q \in Runs \ {r} : pc'[q] = pc[q]
  BY GotoIs DEF JournalInv, Review
<1>4. Write(r, w)
  BY <1>1 DEF Reviews
<1>5. {x.decision : x \in new} \subseteq Keys(v) /\ Closed(v) /\ InOrder(v, lastRow, world.result)
  BY <1>2 DEF ReviewOf, Unreviewed, Keys, JournalInv, DataInv, Alone
<1>6. Whole(w)
  <2> HIDE DEF v, new
  <2> QED BY <1>5, ClosedReview
<1>7. w.rows = {} /\ w.paper = {} /\ w.decisions = {} /\ w.reviews = new
  <2> HIDE DEF new
  <2> QED BY ReviewWritesIs
<1>8. /\ u.rows = v.rows \cup w.rows /\ u.paper = v.paper \cup w.paper
      /\ u.decisions = v.decisions \cup w.decisions
      /\ u.reviews = v.reviews \cup w.reviews
  <2> HIDE DEF v, w
  <2> QED BY JoinIs
<1>9. InOrder(u, lastRow, world.result)
  <2>1. /\ u.rows = v.rows /\ u.paper = v.paper /\ u.decisions = v.decisions
        /\ u.reviews = v.reviews \cup new
    <3> HIDE DEF u, v, w, new
    <3> QED BY <1>7, <1>8
  <2>2. QED
    <3> HIDE DEF u, v, w
    <3> QED BY <1>5, <2>1, InOrderReview
<1>10. lastRow' \in Nat /\ lastRow <= lastRow'
  BY <1>2, JournalAssumption DEF JournalInv, ScalarsOK
<1>11. QED
  <2> HIDE DEF w
  <2> QED BY <1>2, <1>3, <1>4, <1>6, <1>9, <1>10, AloneWrite

LEMMA CommitAlone ==
  ASSUME JournalInv, SerialInv, NEW r \in Runs, Commit(r)
  PROVE  SerialInv'
<1> SUFFICES ASSUME ~overlapped' PROVE Alone'
  BY DEF SerialInv
<1>1. /\ Alone /\ pc[r] = "commit" /\ lastRow' = lastRow /\ world' = world
      /\ db' = Visible(r)
  BY DEF Commit, SerialInv
<1>2. pc'[r] = "idle" /\ \A q \in Runs \ {r} : pc'[q] = pc[q]
  BY GotoIs DEF JournalInv, Commit
<1>3. \A q \in Runs \ {r} : pc[q] = "idle"
  BY <1>1 DEF Alone
<1>4. /\ Visible(r)' = Visible(r)
      /\ \A q \in Runs \ {r} : Visible(q)' = Join(Visible(r), Visible(q))
  BY CommitSeen DEF JournalInv, DataInv, Commit
<1>5. \A q \in Runs \ {r} : Visible(q)' = Visible(r)
  BY <1>3, <1>4, IdleSees, JoinSees
<1>6. InOrder(Visible(r), lastRow, world.result)
  BY <1>1 DEF Alone
<1>7. InOrder(db', lastRow', world'.result)
  BY <1>1, <1>6
<1>8. \A q \in Runs : InOrder(Visible(q)', lastRow', world'.result)
  BY <1>1, <1>4, <1>5, <1>6
<1>9. \A q \in Runs : pc'[q] = "idle"
  BY <1>2, <1>3
<1>10. QED
  BY <1>7, <1>8, <1>9 DEF Alone

LEMMA AbortAlone ==
  ASSUME JournalInv, SerialInv, NEW r \in Runs, Abort(r)
  PROVE  SerialInv'
<1> SUFFICES ASSUME ~overlapped' PROVE Alone'
  BY DEF SerialInv
<1>1. Alone /\ lastRow' = lastRow /\ world' = world /\ db' = db /\ pc[r] # "idle"
  BY DEF Abort, SerialInv
<1>2. pc'[r] = "idle" /\ \A q \in Runs \ {r} : pc'[q] = pc[q]
  BY GotoIs DEF JournalInv, Abort
<1>3. Visible(r)' = db /\ \A q \in Runs \ {r} : Visible(q)' = Visible(q)
  BY AbortSeen DEF JournalInv, DataInv, Abort
<1>4. \A q \in Runs : InOrder(Visible(q)', lastRow', world'.result)
  BY <1>1, <1>3 DEF Alone
<1>5. InOrder(db', lastRow', world'.result)
  BY <1>1 DEF Alone
<1>6. \A q \in Runs : pc'[q] = "idle"
  BY <1>1, <1>2 DEF Alone
<1>7. QED
  BY <1>4, <1>5, <1>6 DEF Alone

LEMMA SerialStep ==
  ASSUME JournalInv, SerialInv, [Next]_vars
  PROVE  SerialInv'
<1>1. ASSUME NEW r \in Runs, Begin(r) \/ RunStep(r) \/ Abort(r)
      PROVE  SerialInv'
  BY <1>1, BeginAlone, SettleAlone, DecideAlone, NoAlertAlone, JudgeAlone,
     ReviewAlone, CommitAlone, AbortAlone DEF RunStep
<1>2. CASE Observe \/ MovePrice \/ SwitchKill \/ Finalize \/ UNCHANGED vars
  <2> SUFFICES ASSUME ~overlapped' PROVE Alone'
    BY DEF SerialInv
  <2>1. /\ UNCHANGED <<db, tx, pc, lastRow, overlapped>>
        /\ world.result # "none" => world'.result = world.result
    BY <1>2, OutsideIs DEF vars
  <2>2. Alone
    BY <2>1 DEF SerialInv
  <2>3. QED
    BY <2>1, <2>2, AloneSame DEF Alone
<1>3. QED
  BY <1>1, <1>2 DEF Next

LEMMA SerialInvariant == Spec => [](JournalInv /\ SerialInv)
<1>1. Init => JournalInv /\ SerialInv
  <2> SUFFICES ASSUME Init PROVE JournalInv /\ SerialInv
    OBVIOUS
  <2>1. JournalInv
    BY JournalInitially
  <2>2. db = Empty /\ \A r \in Runs : pc[r] = "idle"
    BY DEF Init
  <2>3. \A r \in Runs : Visible(r) = Empty
    BY <2>1, <2>2, IdleSees
  <2>4. Alone
    BY <2>2, <2>3, InOrderEmpty DEF Alone
  <2>5. QED
    BY <2>1, <2>4 DEF SerialInv
<1>2. JournalInv /\ SerialInv /\ [Next]_vars => (JournalInv /\ SerialInv)'
  BY JournalStep, SerialStep
<1>3. QED
  BY <1>1, <1>2, PTL DEF Spec

\* parent_decision_id, set by collect() (professional_collector.py): as long
\* as no two runs of the collector are open at once, each committed decision
\* points to the one before it, over rows, runs and runs that failed.
THEOREM OneChain == Spec => []LinearChain
<1>1. JournalInv /\ SerialInv => LinearChain
  BY DEF SerialInv, Alone, InOrder, ChainIn, PriorTo, LinearChain
<1>2. QED
  BY <1>1, SerialInvariant, PTL

\* position_state and decide_action: without overlapping runs a filled entry
\* that is still looked back at is not entered again before an exit, even
\* when the row judged in between was never filled.
THEOREM PositionIsOne == Spec => []OnePosition
<1>1. JournalInv /\ SerialInv => OnePosition
  <2> SUFFICES ASSUME JournalInv, SerialInv, ~overlapped PROVE OnePosition
    BY DEF OnePosition
  <2>1. \A d \in db.decisions : SeenBy(d) = SeenIn(db, d)
    BY DEF SeenBy, SeenIn, RowsBefore
  <2>2. \A ds : FilledEntries(ds) = FilledIn(db, ds)
    BY DEF FilledEntries, FilledIn
  <2>3. OnePositionIn(db)
    BY DEF SerialInv, Alone, InOrder
  <2>4. QED
    BY <2>1, <2>2, <2>3 DEF OnePositionIn, OnePosition
<1>2. QED
  BY <1>1, SerialInvariant, PTL

\* decide_action after an exit: without overlapping runs a closed position is
\* reopened only on an event that is no price and that neither the last exit
\* nor the last entry looked back at had acted on.
THEOREM ReentryIsInformed == Spec => []ReentryNeedsEvent
<1>1. JournalInv /\ SerialInv => ReentryNeedsEvent
  <2> SUFFICES ASSUME JournalInv, SerialInv, ~overlapped PROVE ReentryNeedsEvent
    BY DEF ReentryNeedsEvent
  <2>1. \A d \in db.decisions : SeenBy(d) = SeenIn(db, d)
    BY DEF SeenBy, SeenIn, RowsBefore
  <2>2. ReentryIn(db)
    BY DEF SerialInv, Alone, InOrder
  <2>3. QED
    BY <2>1, <2>2 DEF ReentryIn, ReentryNeedsEvent, ExitsIn, EntriesIn
<1>2. QED
  BY <1>1, SerialInvariant, PTL

\* settle_paper_results and review_settlements: without overlapping runs a
\* simulated fill is settled at most once and an entry reviewed at most once,
\* however many runs fail and are repeated.
THEOREM ReviewIsOnce == Spec => []ReviewedOnce
<1>1. ASSUME NEW S, \A x, y \in S : x = y
      PROVE  Cardinality(S) <= 1
  <2>1. CASE S = {}
    BY <2>1, FS_EmptySet
  <2>2. CASE S # {}
    <3>1. PICK x : S = {x}
      BY <1>1, <2>2
    <3>2. Cardinality({x}) = 1
      BY FS_Singleton
    <3>3. QED
      BY <3>1, <3>2
  <2>3. QED
    BY <2>1, <2>2
<1>2. JournalInv /\ SerialInv => ReviewedOnce
  <2> SUFFICES ASSUME JournalInv, SerialInv, ~overlapped PROVE ReviewedOnce
    BY DEF ReviewedOnce
  <2>1. OrdersOnce(db, lastRow, world.result) /\ OneReview(db)
    BY DEF SerialInv, Alone, InOrder
  <2>2. \A n : \A x, y \in Settlements(db, n) : x = y
    BY <2>1 DEF OrdersOnce, Settlements, SettledTypes
  <2>3. \A k : \A x, y \in {w \in db.reviews : w.decision = k} : x = y
    BY <2>1 DEF OneReview
  <2>4. QED
    BY <1>1, <2>2, <2>3 DEF ReviewedOnce
<1>3. QED
  BY <1>2, SerialInvariant, PTL

=============================================================================
