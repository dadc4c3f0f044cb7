---------------------------- MODULE FoldLemmas ----------------------------
(***************************************************************************)
(* Facts about the folds of the community modules that the other proofs    *)
(* rest on.  They are stated about functions, not about operators, and     *)
(* proved by choosing a smallest set for which they fail (SmallestSet), so *)
(* that first-order provers can use and prove them.                        *)
(***************************************************************************)
EXTENDS FiniteSetsExt, FiniteSetTheorems, WellFoundedInduction, TLAPS

\* A family of subsets of a finite set has a smallest member.
LEMMA SmallestSet ==
  ASSUME NEW S, IsFiniteSet(S), NEW Fs \in SUBSET SUBSET S, Fs # {}
  PROVE  \E T \in Fs : \A U \in Fs : ~(U \subseteq T /\ U # T)
<1>1. IsWellFoundedOn(StrictSubsetOrdering(S), SUBSET S)
  BY FS_StrictSubsetOrderingWellFounded, FS_FiniteSubsetsOfFinite
<1>2. \E T \in Fs : \A U \in Fs : <<U, T>> \notin StrictSubsetOrdering(S)
  BY <1>1, WFMin
<1>3. QED
  BY <1>2 DEF StrictSubsetOrdering

\* Induction over the subsets of a finite set: a family of subsets that has
\* the empty set, and each other one if it has it without one element, has all.
LEMMA SubsetInduction ==
  ASSUME NEW S, IsFiniteSet(S), NEW P, {} \in P,
         \A T \in SUBSET S : T # {} =>
           \E x \in T : T \ {x} \in P => T \in P
  PROVE  \A T \in SUBSET S : T \in P
<1> DEFINE Bad == {T \in SUBSET S : T \notin P}
<1>1. SUFFICES ASSUME Bad # {} PROVE FALSE
  OBVIOUS
<1>2. PICK T \in Bad : \A V \in Bad : ~(V \subseteq T /\ V # T)
  <2>1. Bad \in SUBSET SUBSET S
    OBVIOUS
  <2>2. QED
    <3> HIDE DEF Bad
    <3> QED BY <1>1, <2>1, SmallestSet
<1>3. T \in SUBSET S /\ T # {}
  BY <1>2
<1>4. PICK x \in T : T \ {x} \in P => T \in P
  BY <1>3
<1>5. T \ {x} \notin Bad /\ T \ {x} \in SUBSET S
  BY <1>2, <1>3
<1>6. QED
  BY <1>2, <1>4, <1>5

\* The greatest of finitely many numbers.
LEMMA MaxIsGreatest ==
  ASSUME NEW S \in SUBSET Int, IsFiniteSet(S), S # {}
  PROVE  Max(S) \in S /\ \A y \in S : y <= Max(S)
<1> DEFINE P == {{}} \cup {T \in SUBSET S : \E x \in T : \A y \in T : x >= y}
<1>1. ASSUME NEW T \in SUBSET S, T # {}
      PROVE  \E x \in T : T \ {x} \in P => T \in P
  <2>1. PICK x \in T : TRUE
    BY <1>1
  <2>2. ASSUME T \ {x} \in P PROVE T \in P
    <3>1. CASE T \ {x} = {}
      <4>1. \A y \in T : x >= y
        BY <2>1, <3>1
      <4>2. QED
        BY <2>1, <4>1
    <3>2. CASE T \ {x} # {}
      <4>1. PICK m \in T \ {x} : \A y \in T \ {x} : m >= y
        BY <2>2, <3>2
      <4>2. CASE m >= x
        BY <4>1, <4>2
      <4>3. CASE ~(m >= x)
        <5>1. \A y \in T : x >= y
          BY <2>1, <4>1, <4>3
        <5>2. QED
          BY <2>1, <5>1
      <4>4. QED
        BY <4>2, <4>3
    <3>3. QED
      BY <3>1, <3>2
  <2>3. QED
    BY <2>1, <2>2
<1>2. S \in P
  <2>1. {} \in P
    OBVIOUS
  <2> HIDE DEF P
  <2>2. QED
    BY <1>1, <2>1, SubsetInduction
<1>3. \E x \in S : \A y \in S : x >= y
  BY <1>2
<1>4. Max(S) \in S /\ \A y \in S : Max(S) >= y
  BY <1>3 DEF Max
<1>5. QED
  BY <1>4

\* ... and the least.
LEMMA MinIsLeast ==
  ASSUME NEW S \in SUBSET Int, IsFiniteSet(S), S # {}
  PROVE  Min(S) \in S /\ \A y \in S : Min(S) <= y
<1> DEFINE T == {0 - x : x \in S}
<1>1. T \in SUBSET Int /\ T # {}
  <2>1. \A x \in S : x \in Int /\ 0 - x \in Int
    OBVIOUS
  <2>2. PICK x \in S : TRUE
    OBVIOUS
  <2>3. 0 - x \in T
    OBVIOUS
  <2>4. QED
    BY <2>1, <2>3
<1>2. IsFiniteSet(T)
  <2>1. [x \in S |-> 0 - x] \in Surjection(S, T)
    BY DEF Surjection
  <2> HIDE DEF T
  <2>2. QED
    BY <2>1, FS_Surjection
<1>3. Max(T) \in T /\ \A y \in T : y <= Max(T)
  <2> HIDE DEF T
  <2> QED BY <1>1, <1>2, MaxIsGreatest
<1>4. PICK x \in S : Max(T) = 0 - x
  BY <1>3
<1>5. \A y \in S : x <= y
  <2> TAKE y \in S
  <2>1. 0 - y \in T
    OBVIOUS
  <2>2. 0 - y <= 0 - x
    BY <1>3, <1>4, <2>1
  <2>3. x \in Int /\ y \in Int
    OBVIOUS
  <2>4. QED
    BY <2>2, <2>3
<1>6. QED
  BY <1>5 DEF Min

\* Of two numbers.
LEMMA MinOfTwo ==
  ASSUME NEW a \in Int, NEW b \in Int
  PROVE  Min({a, b}) = IF a <= b THEN a ELSE b
<1>1. \A x \in {a, b} : (\A y \in {a, b} : x <= y) => x = IF a <= b THEN a ELSE b
  OBVIOUS
<1>2. \E x \in {a, b} : \A y \in {a, b} : x <= y
  OBVIOUS
<1>3. QED
  BY <1>1, <1>2 DEF Min

LEMMA MaxOfTwo ==
  ASSUME NEW a \in Int, NEW b \in Int
  PROVE  Max({a, b}) = IF a <= b THEN b ELSE a
<1>1. \A x \in {a, b} : (\A y \in {a, b} : x >= y) => x = IF a <= b THEN b ELSE a
  OBVIOUS
<1>2. \E x \in {a, b} : \A y \in {a, b} : x >= y
  OBVIOUS
<1>3. QED
  BY <1>1, <1>2 DEF Max

---------------------------------------------------------------------------
(* Folds: MapThenFoldSet takes the elements of a set in the order a choice *)
(* function ch gives, and applies the function op to each and the fold of  *)
(* the others.                                                             *)

\* g is the fold of every subset of T.
FoldsTo(g, op, base, ch, T) ==
  g = [U \in SUBSET T |-> IF U = {} THEN base
                          ELSE op[<<ch[U], g[U \ {ch[U]}]>>]]

Chooses(ch, S) == \A T \in SUBSET S : T # {} => ch[T] \in T

\* There is at most one such function.
LEMMA FoldUnique ==
  ASSUME NEW S, IsFiniteSet(S), NEW op, NEW base, NEW ch, Chooses(ch, S),
         NEW T \in SUBSET S, NEW V \in SUBSET S, NEW g, NEW h,
         FoldsTo(g, op, base, ch, T), FoldsTo(h, op, base, ch, V),
         NEW W \in SUBSET T, W \in SUBSET V
  PROVE  g[W] = h[W]
<1> DEFINE Bad == {U \in SUBSET S : U \subseteq T /\ U \subseteq V /\ g[U] # h[U]}
<1>1. SUFFICES ASSUME Bad # {} PROVE FALSE
  OBVIOUS
<1>2. PICK U \in Bad : \A X \in Bad : ~(X \subseteq U /\ X # U)
  <2>1. Bad \in SUBSET SUBSET S
    OBVIOUS
  <2>2. QED
    <3> HIDE DEF Bad
    <3> QED BY <1>1, <2>1, SmallestSet
<1>3. U # {}
  BY <1>2 DEF FoldsTo
<1>4. ch[U] \in U
  BY <1>3 DEF Chooses
<1>5. U \ {ch[U]} \notin Bad
  BY <1>2, <1>4
<1>6. g[U \ {ch[U]}] = h[U \ {ch[U]}]
  BY <1>5
<1>7. /\ g[U] = op[<<ch[U], g[U \ {ch[U]}]>>]
      /\ h[U] = op[<<ch[U], h[U \ {ch[U]}]>>]
  <2>1. U \in SUBSET T /\ U \in SUBSET V
    BY <1>2
  <2>2. QED
    BY <1>3, <2>1 DEF FoldsTo
<1>8. QED
  BY <1>2, <1>6, <1>7

\* What the fold of a part of T is.
LEMMA FoldRestricts ==
  ASSUME NEW op, NEW base, NEW ch, NEW T, NEW V \in SUBSET T, NEW g,
         FoldsTo(g, op, base, ch, T)
  PROVE  FoldsTo([U \in SUBSET V |-> g[U]], op, base, ch, V)
<1> DEFINE h == [U \in SUBSET V |-> g[U]]
<1>1. ASSUME NEW U \in SUBSET V
      PROVE  h[U] = IF U = {} THEN base ELSE op[<<ch[U], h[U \ {ch[U]}]>>]
  <2>1. U \in SUBSET T /\ U \ {ch[U]} \in SUBSET V
    OBVIOUS
  <2>2. g[U] = IF U = {} THEN base ELSE op[<<ch[U], g[U \ {ch[U]}]>>]
    BY <2>1 DEF FoldsTo
  <2>3. QED
    BY <2>1, <2>2
<1>2. h = [U \in SUBSET V |-> IF U = {} THEN base
                            ELSE op[<<ch[U], h[U \ {ch[U]}]>>]]
  BY <1>1
<1>3. QED
  BY <1>2 DEF FoldsTo

\* There is one.
LEMMA FoldExists ==
  ASSUME NEW S, IsFiniteSet(S), NEW op, NEW base, NEW ch, Chooses(ch, S)
  PROVE  \E g : FoldsTo(g, op, base, ch, S)
<1> DEFINE Bad == {T \in SUBSET S : ~ \E g : FoldsTo(g, op, base, ch, T)}
<1>1. SUFFICES ASSUME Bad # {} PROVE FALSE
  OBVIOUS
<1>2. PICK T \in Bad : \A X \in Bad : ~(X \subseteq T /\ X # T)
  <2>1. Bad \in SUBSET SUBSET S
    OBVIOUS
  <2>2. QED
    <3> HIDE DEF Bad
    <3> QED BY <1>1, <2>1, SmallestSet
<1> DEFINE Of(U) == CHOOSE g : FoldsTo(g, op, base, ch, U)
           g == [U \in SUBSET T |-> IF U = {} THEN base
                   ELSE op[<<ch[U], Of(U \ {ch[U]})[U \ {ch[U]}]>>]]
<1>3. ASSUME NEW U \in SUBSET T, U # T
      PROVE  FoldsTo(Of(U), op, base, ch, U)
  BY <1>2, <1>3
<1>4. ASSUME NEW U \in SUBSET T, U # T
      PROVE  g[U] = Of(U)[U]
  <2>1. FoldsTo(Of(U), op, base, ch, U)
    BY <1>3, <1>4
  <2>2. CASE U = {}
    BY <2>1, <2>2 DEF FoldsTo
  <2>3. CASE U # {}
    <3> DEFINE V == U \ {ch[U]}
    <3>1. ch[U] \in U
      BY <2>3 DEF Chooses
    <3>2. V \in SUBSET T /\ V # T /\ V \in SUBSET U /\ V \in SUBSET S
      BY <3>1
    <3>3. FoldsTo(Of(V), op, base, ch, V)
      BY <1>3, <3>2
    <3>4. Of(U)[V] = Of(V)[V]
      <4> HIDE DEF Of, V
      <4>1. U \in SUBSET S
        OBVIOUS
      <4>2. QED
        BY <2>1, <3>2, <3>3, <4>1, FoldUnique
    <3>5. Of(U)[U] = op[<<ch[U], Of(U)[V]>>]
      <4> HIDE DEF Of
      <4> QED BY <2>1, <2>3 DEF FoldsTo
    <3>6. g[U] = op[<<ch[U], Of(V)[V]>>]
      BY <2>3
    <3>7. QED
      <4> HIDE DEF Of, g, V
      <4> QED BY <3>4, <3>5, <3>6
  <2>4. QED
    BY <2>2, <2>3
<1>5. ASSUME NEW U \in SUBSET T
      PROVE  g[U] = IF U = {} THEN base ELSE op[<<ch[U], g[U \ {ch[U]}]>>]
  <2>1. CASE U = {}
    BY <2>1
  <2>2. CASE U # {}
    <3>1. ch[U] \in U
      BY <2>2 DEF Chooses
    <3>2. g[U \ {ch[U]}] = Of(U \ {ch[U]})[U \ {ch[U]}]
      BY <1>4, <3>1
    <3>3. g[U] = op[<<ch[U], Of(U \ {ch[U]})[U \ {ch[U]}]>>]
      BY <2>2
    <3>4. QED
      <4> HIDE DEF Of, g
      <4> QED BY <2>2, <3>2, <3>3
  <2>3. QED
    BY <2>1, <2>2
<1>6. FoldsTo(g, op, base, ch, T)
  <2>1. g = [U \in SUBSET T |-> IF U = {} THEN base
                               ELSE op[<<ch[U], g[U \ {ch[U]}]>>]]
    <3>1. DOMAIN g = SUBSET T /\ g = [U \in SUBSET T |-> g[U]]
      OBVIOUS
    <3>2. QED
      <4> HIDE DEF g
      <4> QED BY <1>5, <3>1
  <2>2. QED
    <3> HIDE DEF g
    <3> QED BY <2>1 DEF FoldsTo
<1>7. QED
  BY <1>2, <1>6

\* Its values are those of op.
LEMMA FoldType ==
  ASSUME NEW S, IsFiniteSet(S), NEW X, NEW op \in [S \X X -> X],
         NEW base \in X, NEW ch, Chooses(ch, S), NEW g,
         FoldsTo(g, op, base, ch, S), NEW T \in SUBSET S
  PROVE  g[T] \in X
<1> DEFINE Bad == {U \in SUBSET S : g[U] \notin X}
<1>1. SUFFICES ASSUME Bad # {} PROVE FALSE
  OBVIOUS
<1>2. PICK U \in Bad : \A V \in Bad : ~(V \subseteq U /\ V # U)
  <2>1. Bad \in SUBSET SUBSET S
    OBVIOUS
  <2>2. QED
    <3> HIDE DEF Bad
    <3> QED BY <1>1, <2>1, SmallestSet
<1>3. U # {}
  BY <1>2 DEF FoldsTo
<1>4. ch[U] \in U /\ U \in SUBSET S
  BY <1>2, <1>3 DEF Chooses
<1>5. g[U \ {ch[U]}] \in X
  <2>1. U \ {ch[U]} \notin Bad
    BY <1>2, <1>4
  <2>2. QED
    BY <1>4, <2>1
<1>6. g[U] = op[<<ch[U], g[U \ {ch[U]}]>>]
  BY <1>3, <1>4 DEF FoldsTo
<1>7. QED
  BY <1>2, <1>4, <1>5, <1>6

---------------------------------------------------------------------------
(* Sums: MapThenSumSet                                                     *)

\* The sum of w[x] over S, as MapThenSumSet computes it.
Pick(T)   == CHOOSE x \in T : TRUE
Sum(w, S) == MapThenSumSet(LAMBDA x : w[x], S)

SumsTo(g, w, S) ==
  g = [T \in SUBSET S |-> IF T = {} THEN 0 ELSE w[Pick(T)] + g[T \ {Pick(T)}]]

Summable(w, S) == IsFiniteSet(S) /\ \A x \in S : w[x] \in Int

LEMMA SumDef ==
  ASSUME NEW w, NEW S
  PROVE  Sum(w, S) = (CHOOSE g : SumsTo(g, w, S))[S]
BY DEF Sum, SumsTo, Pick, MapThenSumSet, MapThenFoldSet

\* The sums over the subsets of a set are what the equation says.
LEMMA SumUnique ==
  ASSUME NEW S, IsFiniteSet(S), NEW w, NEW T \in SUBSET S, NEW V \in SUBSET S,
         NEW g, NEW h, SumsTo(g, w, T), SumsTo(h, w, V),
         NEW W \in SUBSET T, W \in SUBSET V
  PROVE  g[W] = h[W]
<1> DEFINE X  == {g[U] : U \in SUBSET T} \cup {h[U] : U \in SUBSET V}
           op == [p \in S \X X |-> w[p[1]] + p[2]]
           ch == [U \in SUBSET S |-> Pick(U)]
<1>1. Chooses(ch, S) /\ \A U \in SUBSET S : ch[U] = Pick(U)
  BY DEF Chooses, Pick
<1>2. \A x \in S, y \in X : op[<<x, y>>] = w[x] + y
  OBVIOUS
<1>3. ASSUME NEW k, NEW R \in SUBSET S, SumsTo(k, w, R),
             \A U \in SUBSET R : k[U] \in X
      PROVE  FoldsTo(k, op, 0, ch, R)
  <2> HIDE DEF X, op, ch
  <2>1. ASSUME NEW U \in SUBSET R, U # {}
        PROVE  w[Pick(U)] + k[U \ {Pick(U)}] = op[<<ch[U], k[U \ {ch[U]}]>>]
    <3>1. U \in SUBSET S /\ ch[U] = Pick(U) /\ Pick(U) \in U
      BY <1>1, <2>1 DEF Chooses
    <3>2. k[U \ {Pick(U)}] \in X
      BY <1>3
    <3>3. QED
      BY <1>2, <3>1, <3>2
  <2>2. [U \in SUBSET R |-> IF U = {} THEN 0 ELSE w[Pick(U)] + k[U \ {Pick(U)}]]
          = [U \in SUBSET R |-> IF U = {} THEN 0 ELSE op[<<ch[U], k[U \ {ch[U]}]>>]]
    BY <2>1
  <2>3. QED
    BY <1>3, <2>2 DEF SumsTo, FoldsTo
<1>4. (\A U \in SUBSET T : g[U] \in X) /\ (\A U \in SUBSET V : h[U] \in X)
  OBVIOUS
<1>5. FoldsTo(g, op, 0, ch, T) /\ FoldsTo(h, op, 0, ch, V)
  <2> HIDE DEF X, op, ch
  <2> QED BY <1>3, <1>4
<1>6. QED
  <2> HIDE DEF X, op, ch
  <2> QED BY <1>1, <1>5, FoldUnique

LEMMA SumExists ==
  ASSUME NEW S, NEW w, Summable(w, S)
  PROVE  \E g : SumsTo(g, w, S) /\ \A T \in SUBSET S : g[T] \in Int
<1> DEFINE op == [p \in S \X Int |-> w[p[1]] + p[2]]
           ch == [U \in SUBSET S |-> Pick(U)]
<1>1. Chooses(ch, S) /\ \A U \in SUBSET S : ch[U] = Pick(U)
  BY DEF Chooses, Pick
<1>2. /\ op \in [S \X Int -> Int]
      /\ \A x \in S, y \in Int : op[<<x, y>>] = w[x] + y
  BY DEF Summable
<1>3. PICK g : FoldsTo(g, op, 0, ch, S)
  <2> HIDE DEF op, ch
  <2> QED BY <1>1, FoldExists DEF Summable
<1>4. ASSUME NEW T \in SUBSET S PROVE g[T] \in Int
  <2> HIDE DEF op, ch
  <2>1. IsFiniteSet(S) /\ 0 \in Int
    BY DEF Summable
  <2>2. QED
    BY <1>1, <1>2, <1>3, <2>1, FoldType
<1>5. SumsTo(g, w, S)
  <2> HIDE DEF op, ch
  <2>1. ASSUME NEW U \in SUBSET S, U # {}
        PROVE  w[Pick(U)] + g[U \ {Pick(U)}] = op[<<ch[U], g[U \ {ch[U]}]>>]
    <3>1. ch[U] = Pick(U) /\ Pick(U) \in U
      BY <1>1, <2>1 DEF Chooses
    <3>2. g[U \ {Pick(U)}] \in Int
      BY <1>4
    <3>3. QED
      BY <1>2, <3>1, <3>2
  <2>2. [U \in SUBSET S |-> IF U = {} THEN 0 ELSE w[Pick(U)] + g[U \ {Pick(U)}]]
          = [U \in SUBSET S |-> IF U = {} THEN 0 ELSE op[<<ch[U], g[U \ {ch[U]}]>>]]
    BY <2>1
  <2>3. QED
    BY <1>3, <2>2 DEF SumsTo, FoldsTo
<1>6. QED
  BY <1>4, <1>5

\* A sum is computed element by element, in the order Pick gives.
LEMMA SumEquation ==
  ASSUME NEW S, NEW w, Summable(w, S)
  PROVE  /\ Sum(w, S) \in Int
         /\ S = {} => Sum(w, S) = 0
         /\ S # {} => /\ Pick(S) \in S
                      /\ Sum(w, S) = w[Pick(S)] + Sum(w, S \ {Pick(S)})
<1>1. PICK g : SumsTo(g, w, S) /\ \A T \in SUBSET S : g[T] \in Int
  BY SumExists
<1>2. ASSUME NEW T \in SUBSET S PROVE Sum(w, T) = g[T]
  <2>1. Summable(w, T)
    BY FS_Subset DEF Summable
  <2>2. SumsTo(CHOOSE h : SumsTo(h, w, T), w, T)
    BY <2>1, SumExists
  <2>3. (CHOOSE h : SumsTo(h, w, T))[T] = g[T]
    BY <1>1, <2>2, SumUnique DEF Summable
  <2>4. QED
    BY <2>3, SumDef
<1>3. S # {} => Pick(S) \in S /\ g[S] = w[Pick(S)] + g[S \ {Pick(S)}]
  BY <1>1 DEF SumsTo, Pick
<1>4. S = {} => g[S] = 0
  BY <1>1 DEF SumsTo
<1>5. QED
  BY <1>1, <1>2, <1>3, <1>4

\* ... or in any other.
LEMMA SumRemove ==
  ASSUME NEW S, NEW w, Summable(w, S), NEW x \in S
  PROVE  Sum(w, S) = w[x] + Sum(w, S \ {x})
<1> DEFINE Bad == {T \in SUBSET S : \E y \in T : Sum(w, T) # w[y] + Sum(w, T \ {y})}
<1>1. SUFFICES ASSUME Bad # {} PROVE FALSE
  OBVIOUS
<1>2. PICK T \in Bad : \A V \in Bad : ~(V \subseteq T /\ V # T)
  <2>1. Bad \in SUBSET SUBSET S
    OBVIOUS
  <2>2. QED
    <3> HIDE DEF Bad
    <3> QED BY <1>1, <2>1, SmallestSet DEF Summable
<1>3. PICK y \in T : Sum(w, T) # w[y] + Sum(w, T \ {y})
  BY <1>2
<1> DEFINE p == Pick(T)
<1>4. ASSUME NEW V \in SUBSET T PROVE Summable(w, V) /\ Sum(w, V) \in Int
  <2>1. Summable(w, V)
    BY <1>2, FS_Subset DEF Summable
  <2>2. QED
    BY <2>1, SumEquation
<1>5. p \in T /\ Sum(w, T) = w[p] + Sum(w, T \ {p})
  BY <1>3, <1>4, SumEquation
<1>6. p # y
  BY <1>3, <1>5
<1>7. Sum(w, T \ {p}) = w[y] + Sum(w, (T \ {p}) \ {y})
  <2>1. T \ {p} \notin Bad /\ y \in T \ {p} /\ T \ {p} \in SUBSET S
    <3> HIDE DEF p
    <3> QED BY <1>2, <1>3, <1>5, <1>6
  <2>2. QED
    BY <2>1
<1>8. Sum(w, T \ {y}) = w[p] + Sum(w, (T \ {y}) \ {p})
  <2>1. T \ {y} \notin Bad /\ p \in T \ {y} /\ T \ {y} \in SUBSET S
    <3> HIDE DEF p
    <3> QED BY <1>2, <1>3, <1>5, <1>6
  <2>2. QED
    BY <2>1
<1>9. (T \ {y}) \ {p} = (T \ {p}) \ {y}
  OBVIOUS
<1>10. w[y] \in Int /\ w[p] \in Int /\ Sum(w, (T \ {p}) \ {y}) \in Int
  BY <1>2, <1>4, <1>5 DEF Summable
<1>11. /\ Sum(w, T) = w[p] + (w[y] + Sum(w, (T \ {p}) \ {y}))
       /\ Sum(w, T \ {y}) = w[p] + Sum(w, (T \ {p}) \ {y})
  <2> HIDE DEF p, Bad
  <2> QED BY <1>5, <1>7, <1>8, <1>9
<1>12. Sum(w, T) = w[y] + Sum(w, T \ {y})
  <2> HIDE DEF p, Bad
  <2> QED BY <1>10, <1>11
<1>13. QED
  BY <1>3, <1>12

LEMMA SumType ==
  ASSUME NEW S, NEW w, Summable(w, S)
  PROVE  Sum(w, S) \in Int /\ Sum(w, {}) = 0
<1>1. Summable(w, {})
  BY FS_EmptySet DEF Summable
<1>2. QED
  BY <1>1, SumEquation

\* A sum grows with its summands.
LEMMA SumMonotone ==
  ASSUME NEW S, NEW v, NEW w, Summable(v, S), Summable(w, S),
         \A x \in S : v[x] <= w[x]
  PROVE  Sum(v, S) <= Sum(w, S)
<1> DEFINE Bad == {T \in SUBSET S : ~(Sum(v, T) <= Sum(w, T))}
<1>1. SUFFICES ASSUME Bad # {} PROVE FALSE
  OBVIOUS
<1>2. PICK T \in Bad : \A V \in Bad : ~(V \subseteq T /\ V # T)
  <2>1. Bad \in SUBSET SUBSET S
    OBVIOUS
  <2>2. QED
    <3> HIDE DEF Bad
    <3> QED BY <1>1, <2>1, SmallestSet DEF Summable
<1>3. Summable(v, T) /\ Summable(w, T)
  BY <1>2, FS_Subset DEF Summable
<1>4. T # {}
  <2>1. T = {} => Sum(v, T) = 0 /\ Sum(w, T) = 0
    <3> HIDE DEF Bad
    <3> QED BY <1>3, SumEquation
  <2>2. QED
    BY <1>2, <2>1
<1>5. PICK x \in T : TRUE
  BY <1>4
<1>6. Summable(v, T \ {x}) /\ Summable(w, T \ {x})
  BY <1>3, FS_RemoveElement DEF Summable
<1>7. Sum(v, T \ {x}) <= Sum(w, T \ {x})
  BY <1>2, <1>5
<1>8. /\ Sum(v, T) = v[x] + Sum(v, T \ {x})
      /\ Sum(w, T) = w[x] + Sum(w, T \ {x})
  BY <1>3, SumRemove
<1>9. /\ Sum(v, T \ {x}) \in Int /\ Sum(w, T \ {x}) \in Int
      /\ v[x] \in Int /\ w[x] \in Int /\ v[x] <= w[x]
  BY <1>2, <1>3, <1>6, SumType DEF Summable
<1>10. ~(Sum(v, T) <= Sum(w, T))
  BY <1>2
<1>11. QED
  BY <1>7, <1>8, <1>9, <1>10

\* Only the summands over the set matter.
LEMMA SumSame ==
  ASSUME NEW S, NEW v, NEW w, Summable(w, S), \A x \in S : v[x] = w[x]
  PROVE  Sum(v, S) = Sum(w, S)
<1>1. Summable(v, S) /\ \A x \in S : v[x] <= w[x] /\ w[x] <= v[x]
  BY DEF Summable
<1>2. Sum(v, S) <= Sum(w, S) /\ Sum(w, S) <= Sum(v, S)
  BY <1>1, SumMonotone
<1>3. QED
  BY <1>1, <1>2, SumType

\* More summands, none negative, give no less.
LEMMA SumGrows ==
  ASSUME NEW S, NEW w, Summable(w, S), NEW T \in SUBSET S,
         \A x \in S \ T : w[x] >= 0
  PROVE  Sum(w, T) <= Sum(w, S)
<1> DEFINE Bad == {V \in SUBSET S : T \subseteq V /\ ~(Sum(w, T) <= Sum(w, V))}
<1>1. SUFFICES ASSUME Bad # {} PROVE FALSE
  OBVIOUS
<1>2. PICK V \in Bad : \A U \in Bad : ~(U \subseteq V /\ U # V)
  <2>1. Bad \in SUBSET SUBSET S
    OBVIOUS
  <2>2. QED
    <3> HIDE DEF Bad
    <3> QED BY <1>1, <2>1, SmallestSet DEF Summable
<1>3. Summable(w, V) /\ Summable(w, T)
  BY <1>2, FS_Subset DEF Summable
<1>4. V # T
  BY <1>2, <1>3, SumType
<1>5. PICK x \in V : x \notin T
  BY <1>2, <1>4
<1>6. Summable(w, V \ {x})
  BY <1>3, FS_RemoveElement DEF Summable
<1>7. Sum(w, T) <= Sum(w, V \ {x})
  <2>1. V \ {x} \notin Bad
    BY <1>2, <1>5
  <2>2. QED
    BY <1>2, <1>5, <2>1
<1>8. Sum(w, V) = w[x] + Sum(w, V \ {x})
  BY <1>3, SumRemove
<1>9. /\ Sum(w, T) \in Int /\ Sum(w, V \ {x}) \in Int
      /\ w[x] \in Int /\ w[x] >= 0
  BY <1>2, <1>3, <1>5, <1>6, SumType DEF Summable
<1>10. ~(Sum(w, T) <= Sum(w, V))
  BY <1>2
<1>11. QED
  BY <1>7, <1>8, <1>9, <1>10

\* A sum of nothing but zeros.
LEMMA SumZero ==
  ASSUME NEW S, NEW w, IsFiniteSet(S), \A x \in S : w[x] = 0
  PROVE  Sum(w, S) = 0
<1> DEFINE Bad == {T \in SUBSET S : Sum(w, T) # 0}
<1>1. SUFFICES ASSUME Bad # {} PROVE FALSE
  OBVIOUS
<1>2. PICK T \in Bad : \A V \in Bad : ~(V \subseteq T /\ V # T)
  <2>1. Bad \in SUBSET SUBSET S
    OBVIOUS
  <2>2. QED
    <3> HIDE DEF Bad
    <3> QED BY <1>1, <2>1, SmallestSet
<1>3. Summable(w, T)
  BY <1>2, FS_Subset DEF Summable
<1>4. PICK x \in T : TRUE
  BY <1>2, <1>3, SumType
<1>5. Sum(w, T \ {x}) = 0 /\ w[x] = 0
  BY <1>2, <1>4
<1>6. Sum(w, T) = w[x] + Sum(w, T \ {x})
  BY <1>3, SumRemove
<1>7. QED
  BY <1>2, <1>5, <1>6

\* A sum does not depend on how its summands are numbered.
LEMMA SumShift ==
  ASSUME NEW S \in SUBSET Int, NEW v, NEW w, Summable(v, S),
         \A k \in S : w[k + 1] = v[k]
  PROVE  /\ Summable(w, {k + 1 : k \in S})
         /\ Sum(w, {k + 1 : k \in S}) = Sum(v, S)
<1> DEFINE Up(U) == {k + 1 : k \in U}
           P == {U \in SUBSET S : Summable(w, Up(U)) /\ Sum(w, Up(U)) = Sum(v, U)}
<1>1. {} \in P
  <2>1. Up({}) = {} /\ IsFiniteSet({})
    BY FS_EmptySet
  <2>2. Summable(w, {}) /\ Summable(v, {})
    BY <2>1 DEF Summable
  <2>3. Sum(w, {}) = 0 /\ Sum(v, {}) = 0
    BY <2>2, SumType
  <2>4. QED
    BY <2>1, <2>2, <2>3
<1>2. ASSUME NEW U \in SUBSET S, NEW x \in U, U \ {x} \in P
      PROVE  U \in P
  <2> DEFINE V == Up(U)
             W == Up(U \ {x})
  <2>1. x + 1 \in V /\ V \ {x + 1} = W /\ V = W \cup {x + 1}
    OBVIOUS
  <2>2. Summable(w, W) /\ Sum(w, W) = Sum(v, U \ {x})
    BY <1>2
  <2>3. Summable(v, U)
    BY FS_Subset DEF Summable
  <2>4. v[x] \in Int /\ w[x + 1] = v[x]
    BY DEF Summable
  <2> HIDE DEF V, W
  <2>5. Summable(w, V)
    <3>1. IsFiniteSet(V)
      BY <2>1, <2>2, FS_AddElement DEF Summable
    <3>2. QED
      BY <2>1, <2>2, <2>4, <3>1 DEF Summable
  <2>6. Sum(w, V) = w[x + 1] + Sum(w, W)
    BY <2>1, <2>5, SumRemove
  <2>7. Sum(v, U) = v[x] + Sum(v, U \ {x})
    BY <2>3, SumRemove
  <2>8. Sum(w, V) = Sum(v, U)
    BY <2>2, <2>4, <2>6, <2>7
  <2>9. QED
    BY <2>5, <2>8 DEF V
<1>3. \A U \in SUBSET S : U # {} => \E x \in U : U \ {x} \in P => U \in P
  <2> HIDE DEF P
  <2> QED BY <1>2
<1>4. IsFiniteSet(S)
  BY DEF Summable
<1>5. S \in P
  <2> HIDE DEF P
  <2>1. \A U \in SUBSET S : U \in P
    BY <1>1, <1>3, <1>4, SubsetInduction
  <2>2. QED
    BY <2>1
<1>6. QED
  BY <1>5

\* The sum over two sets with nothing in common.
LEMMA SumJoins ==
  ASSUME NEW S, NEW T, S \cap T = {}, NEW w, Summable(w, S), Summable(w, T)
  PROVE  /\ Summable(w, S \cup T)
         /\ Sum(w, S \cup T) = Sum(w, S) + Sum(w, T)
<1>1. Summable(w, S \cup T)
  BY FS_Union DEF Summable
<1> DEFINE P == {U \in SUBSET S : Sum(w, U \cup T) = Sum(w, U) + Sum(w, T)}
<1>2. \A U \in SUBSET S : Summable(w, U) /\ Summable(w, U \cup T)
  BY <1>1, FS_Subset, FS_Union DEF Summable
<1>3. {} \in P
  <2>1. Sum(w, {}) = 0 /\ Sum(w, T) \in Int /\ {} \cup T = T
    BY SumType
  <2>2. QED
    BY <2>1
<1>4. ASSUME NEW U \in SUBSET S, U # {}
      PROVE  \E x \in U : U \ {x} \in P => U \in P
  <2>1. PICK x \in U : TRUE
    BY <1>4
  <2>2. SUFFICES ASSUME U \ {x} \in P PROVE U \in P
    BY <2>1
  <2>3. Sum(w, (U \ {x}) \cup T) = Sum(w, U \ {x}) + Sum(w, T)
    BY <2>2
  <2>4. (U \cup T) \ {x} = (U \ {x}) \cup T /\ x \in U \cup T
    BY <2>1
  <2>5. Sum(w, U) = w[x] + Sum(w, U \ {x})
    BY <1>2, <2>1, SumRemove
  <2>6. Sum(w, U \cup T) = w[x] + Sum(w, (U \ {x}) \cup T)
    <3>1. Sum(w, U \cup T) = w[x] + Sum(w, (U \cup T) \ {x})
      BY <1>2, <2>4, SumRemove
    <3>2. QED
      BY <2>4, <3>1
  <2>7. w[x] \in Int /\ Sum(w, U \ {x}) \in Int /\ Sum(w, T) \in Int
    BY <1>2, <2>1, SumType DEF Summable
  <2>8. Sum(w, U \cup T) = Sum(w, U) + Sum(w, T)
    BY <2>3, <2>5, <2>6, <2>7
  <2>9. QED
    BY <2>8
<1>5. S \in P
  <2>1. \A U \in SUBSET S : U \in P
    <3> HIDE DEF P
    <3> QED BY <1>3, <1>4, SubsetInduction DEF Summable
  <2>2. QED
    BY <2>1
<1>6. QED
  BY <1>1, <1>5

\* Summands that are those of part of another sum, none of whose are negative.
LEMMA SumInjects ==
  ASSUME NEW S, IsFiniteSet(S), NEW T, NEW w, Summable(w, T), \A y \in T : w[y] >= 0,
         NEW f \in [S -> T], \A x, y \in S : f[x] = f[y] => x = y,
         NEW v, \A x \in S : v[x] = w[f[x]]
  PROVE  Summable(v, S) /\ Sum(v, S) <= Sum(w, T)
<1> DEFINE Of(U) == {f[x] : x \in U}
           P == {U \in SUBSET S : Sum(v, U) = Sum(w, Of(U))}
<1>1. \A U \in SUBSET S : /\ IsFiniteSet(U) /\ Summable(v, U)
                          /\ Of(U) \in SUBSET T /\ Summable(w, Of(U))
  BY FS_Subset DEF Summable
<1>2. {} \in P
  <2>1. Of({}) = {} /\ {} \in SUBSET S
    OBVIOUS
  <2>2. Sum(v, {}) = 0 /\ Sum(w, {}) = 0
    BY <1>1, <2>1, SumType
  <2>3. QED
    BY <2>1, <2>2
<1>3. ASSUME NEW U \in SUBSET S, U # {}
      PROVE  \E x \in U : U \ {x} \in P => U \in P
  <2>1. PICK x \in U : TRUE
    BY <1>3
  <2>2. SUFFICES ASSUME U \ {x} \in P PROVE U \in P
    BY <2>1
  <2>3. Of(U) \ {f[x]} = Of(U \ {x}) /\ f[x] \in Of(U)
    BY <2>1
  <2>4. Sum(v, U \ {x}) = Sum(w, Of(U \ {x}))
    BY <2>2
  <2> HIDE DEF P, Of
  <2>5. Sum(v, U) = v[x] + Sum(v, U \ {x})
    BY <1>1, <2>1, SumRemove
  <2>6. Sum(w, Of(U)) = w[f[x]] + Sum(w, Of(U) \ {f[x]})
    BY <1>1, <2>3, SumRemove
  <2>7. Sum(v, U) = Sum(w, Of(U))
    BY <2>1, <2>3, <2>4, <2>5, <2>6
  <2>8. QED
    BY <2>7 DEF P
<1>4. Sum(v, S) = Sum(w, Of(S))
  <2>1. \A U \in SUBSET S : U \in P
    <3> HIDE DEF P
    <3> QED BY <1>2, <1>3, SubsetInduction
  <2>2. S \in P
    BY <2>1
  <2>3. QED
    BY <2>2
<1>5. Sum(w, Of(S)) <= Sum(w, T)
  <2>1. Of(S) \in SUBSET T /\ \A y \in T \ Of(S) : w[y] >= 0
    BY <1>1
  <2> HIDE DEF Of
  <2>2. QED
    BY <2>1, SumGrows
<1>6. QED
  BY <1>1, <1>4, <1>5
---------------------------------------------------------------------------
(* What happens step by step                                               *)

\* Induction over the numbers up to n.
LEMMA IntervalInduction ==
  ASSUME NEW n \in Nat, NEW P, 0 \in P, \A k \in 0..n-1 : k \in P => k + 1 \in P
  PROVE  \A k \in 0..n : k \in P
<1> DEFINE Bad == {k \in 0..n : k \notin P}
<1>1. SUFFICES ASSUME Bad # {} PROVE FALSE
  OBVIOUS
<1>2. Bad \in SUBSET Int /\ IsFiniteSet(Bad)
  <2>1. IsFiniteSet(0..n)
    BY FS_Interval
  <2>2. Bad \in SUBSET (0..n)
    OBVIOUS
  <2>3. IsFiniteSet(Bad)
    <3> HIDE DEF Bad
    <3> QED BY <2>1, <2>2, FS_Subset
  <2>4. Bad \in SUBSET Int
    OBVIOUS
  <2>5. QED
    BY <2>3, <2>4
<1>3. Min(Bad) \in Bad /\ \A y \in Bad : Min(Bad) <= y
  <2> HIDE DEF Bad
  <2> QED BY <1>1, <1>2, MinIsLeast
<1>4. Min(Bad) \in 0..n /\ Min(Bad) # 0
  BY <1>3
<1>5. Min(Bad) - 1 \in 0..n-1 /\ Min(Bad) - 1 \notin Bad
  <2>1. Min(Bad) - 1 \in 0..n-1
    <3> HIDE DEF Bad
    <3> QED BY <1>4
  <2>2. QED
    <3> HIDE DEF Bad
    <3> QED BY <1>3, <1>4, <2>1
<1>6. Min(Bad) - 1 \in P
  <2>1. Min(Bad) - 1 \in 0..n
    BY <1>5
  <2>2. QED
    BY <1>5, <2>1
<1>7. Min(Bad) \in P
  BY <1>4, <1>5, <1>6
<1>8. QED
  BY <1>3, <1>7

\* A set of the first numbers, with each also those below it.
LEMMA SegmentIs ==
  ASSUME NEW n \in Nat, NEW T \in SUBSET (1..n), \A i \in T : \A j \in 1..i : j \in T
  PROVE  Cardinality(T) \in 0..n /\ T = 1..Cardinality(T)
<1>1. IsFiniteSet(1..n) /\ Cardinality(1..n) = n
  BY FS_Interval
<1>2. IsFiniteSet(T)
  BY <1>1, FS_Subset
<1>3. CASE T = {}
  BY <1>3, FS_EmptySet
<1>4. CASE T # {}
  <2>1. Max(T) \in T /\ \A y \in T : y <= Max(T)
    <3>1. T \in SUBSET Int
      OBVIOUS
    <3>2. QED
      BY <1>2, <1>4, <3>1, MaxIsGreatest
  <2>2. PICK m \in T : \A y \in T : y <= m
    BY <2>1
  <2>3. m \in 1..n /\ T = 1..m
    <3>1. m \in 1..n /\ \A j \in 1..m : j \in T
      BY <2>2
    <3>2. \A y \in T : y \in 1..m
      BY <2>2, <3>1
    <3>3. QED
      BY <3>1, <3>2
  <2>4. Cardinality(1..m) = m
    <3>1. 1 \in Int /\ m \in Int /\ m >= 1
      BY <2>3
    <3>2. QED
      BY <3>1, FS_Interval
  <2>5. QED
    BY <2>3, <2>4
<1>5. QED
  BY <1>3, <1>4

\* The last of some numbers up to n.
LEMMA LastIs ==
  ASSUME NEW n \in Nat, NEW T \in SUBSET (1..n)
  PROVE  IsFiniteSet(T) /\ (T # {} => Max(T) \in T)
<1>1. IsFiniteSet(1..n)
  BY FS_Interval
<1>2. IsFiniteSet(T)
  BY <1>1, FS_Subset
<1>3. T \in SUBSET Int
  OBVIOUS
<1>4. QED
  BY <1>2, <1>3, MaxIsGreatest

\* g is the fold from the left, over the numbers up to n, of every part of
\* them: the last number is applied to the fold of the others.
LeftTo(g, n, step, base) ==
  g = [T \in SUBSET (1..n) |->
         IF T = {} THEN base ELSE step[<<Max(T), g[T \ {Max(T)}]>>]]

LEMMA LeftExists ==
  ASSUME NEW n \in Nat, NEW X, NEW base \in X, NEW step \in [(1..n) \X X -> X]
  PROVE  \E g : LeftTo(g, n, step, base) /\ \A T \in SUBSET (1..n) : g[T] \in X
<1> DEFINE ch == [U \in SUBSET (1..n) |-> Max(U)]
<1>1. IsFiniteSet(1..n)
  BY FS_Interval
<1>2. Chooses(ch, 1..n) /\ \A U \in SUBSET (1..n) : ch[U] = Max(U)
  BY LastIs DEF Chooses
<1> HIDE DEF ch
<1>3. PICK g : FoldsTo(g, step, base, ch, 1..n)
  BY <1>1, <1>2, FoldExists
<1>4. \A T \in SUBSET (1..n) : g[T] \in X
  BY <1>1, <1>2, <1>3, FoldType
<1>5. LeftTo(g, n, step, base)
  <2>1. [U \in SUBSET (1..n) |-> IF U = {} THEN base ELSE step[<<ch[U], g[U \ {ch[U]}]>>]]
          = [U \in SUBSET (1..n) |-> IF U = {} THEN base ELSE step[<<Max(U), g[U \ {Max(U)}]>>]]
    BY <1>2
  <2>2. QED
    BY <1>3, <2>1 DEF FoldsTo, LeftTo
<1>6. QED
  BY <1>4, <1>5

\* The numbers up to k, one by one.
LEMMA LastRemoved ==
  ASSUME NEW n \in Nat, NEW k \in 1..n
  PROVE  /\ 1..k \in SUBSET (1..n) /\ 1..k # {} /\ Max(1..k) = k
         /\ (1..k) \ {k} = 1..(k - 1)
         /\ 1..0 = {}
<1>1. IsFiniteSet(1..k) /\ 1..k # {} /\ 1..k \in SUBSET Int
  <2>1. IsFiniteSet(1..k)
    BY FS_Interval
  <2>2. k \in 1..k /\ 1..k \in SUBSET Int
    OBVIOUS
  <2>3. QED
    BY <2>1, <2>2
<1>2. Max(1..k) \in 1..k /\ \A y \in 1..k : y <= Max(1..k)
  BY <1>1, MaxIsGreatest
<1>3. Max(1..k) = k
  BY <1>2
<1>4. QED
  BY <1>1, <1>3
=============================================================================
