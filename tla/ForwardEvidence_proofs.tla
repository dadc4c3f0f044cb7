----------------------- MODULE ForwardEvidence_proofs -----------------------
(***************************************************************************)
(* The forward test, for every history of deployments, reports,            *)
(* overlapping runs, rollbacks and markets: the cohorts are pure (IInv), a *)
(* fill is settled once and for what its market resolved to, and a batch   *)
(* is recorded whole, every eligible order filled within its limit         *)
(* (RowsInv, and the lemmas on books and fills it rests on).               *)
(***************************************************************************)
EXTENDS ForwardEvidence, FoldLemmas

\* The records keep their fields.
Shapes ==
  /\ files = [manifest |-> files.manifest, freeze |-> files.freeze,
              archive |-> files.archive]
  /\ db = [freezes |-> db.freezes, policies |-> db.policies,
           decisions |-> db.decisions, events |-> db.events,
           snapshots |-> db.snapshots]
  /\ history \in [replaced : BOOLEAN, overlapped : BOOLEAN]
  /\ commit \in Commits \cup {First}
  /\ pc \in [Runs -> {"idle", "settle", "collect", "policy"}]
  /\ DOMAIN loaded = Runs
  /\ DOMAIN rows = Runs
  /\ \A r \in Runs :
       rows[r] = [decisions |-> rows[r].decisions, events |-> rows[r].events,
                  snapshots |-> rows[r].snapshots]

\* The stored freeze is the manifest's, unless a deployment replaced it.
FreezeKept ==
  db.freezes # {} /\ ~history.replaced =>
    files.manifest # NoFile /\ db.freezes = {files.manifest}

\* A run under way executes the code that is frozen.
RunsFrozen ==
  \A r \in Runs :
    pc[r] # "idle" =>
      /\ db.freezes # {}
      /\ history.replaced \/ db.freezes = {loaded[r].code}

\* What a run has collected is its own.
RowsOwn ==
  \A r \in Runs : \A d \in rows[r].decisions :
    /\ pc[r] = "policy"
    /\ d.code = loaded[r].code /\ d.policy = loaded[r].policy

\* A policy version stands for one code.
PoliciesUnique ==
  \A p, q \in db.policies : p.version = q.version => p = q

DecisionsPure ==
  \A d \in db.decisions :
    /\ d.policy \in db.policies
    /\ history.replaced \/ db.freezes = {d.code}

IInv == Shapes /\ FreezeKept /\ RunsFrozen /\ RowsOwn /\ PoliciesUnique
          /\ DecisionsPure

\* A decision carries the code and the policy of the run that took it.
LEMMA DecisionOf ==
  ASSUME NEW r \in Runs, NEW m, NEW c, NEW book, NEW stale
  PROVE  /\ DecisionOn(r, m, c, book, stale).code = loaded[r].code
         /\ DecisionOn(r, m, c, book, stale).policy = loaded[r].policy
  BY DEF DecisionOn

---------------------------------------------------------------------------
(* Deployments, reports and the exchange                                   *)

LEMMA InitInv ==
  ASSUME Init
  PROVE  IInv
<1>1. Shapes
  BY DEF Init, Shapes, Nothing
<1>2. FreezeKept /\ RunsFrozen /\ RowsOwn /\ PoliciesUnique /\ DecisionsPure
  BY DEF Init, FreezeKept, RunsFrozen, RowsOwn, PoliciesUnique, DecisionsPure,
     Nothing
<1>3. QED
  BY <1>1, <1>2 DEF IInv

\* A deployment that takes another manifest than the stored one is recorded
\* as a replacement.
LEMMA DeployStep ==
  ASSUME IInv, NEW c \in Commits, Deploy(c)
  PROVE  IInv'
<1> DEFINE manifest == Checkout(files.manifest, commit.manifest, c.manifest, NoFile)
<1>1. Shapes'
  BY DEF IInv, Shapes, Deploy
<1>2. /\ files'.manifest = manifest
      /\ history'.replaced = (history.replaced \/ (files.manifest # NoFile
                                                     /\ manifest # files.manifest))
  BY DEF IInv, Shapes, Deploy
<1>3. UNCHANGED <<db, pc, loaded, rows>>
  BY DEF Deploy
<1> HIDE DEF manifest
<1>4. history.replaced => history'.replaced
  BY <1>2
<1>5. FreezeKept'
  <2>1. CASE db.freezes = {}
    BY <1>3, <2>1 DEF FreezeKept
  <2>2. CASE db.freezes # {}
    <3>1. CASE manifest = files.manifest
      BY <1>2, <1>3, <1>4, <3>1 DEF IInv, FreezeKept
    <3>2. CASE files.manifest = NoFile
      BY <1>3, <1>4, <2>2, <3>2 DEF IInv, FreezeKept
    <3>3. CASE files.manifest # NoFile /\ manifest # files.manifest
      <4>1. history'.replaced
        BY <1>2, <3>3
      <4>2. QED
        BY <4>1 DEF FreezeKept
    <3>4. QED
      BY <3>1, <3>2, <3>3
  <2>3. QED
    BY <2>1, <2>2
<1>6. RunsFrozen' /\ RowsOwn' /\ PoliciesUnique' /\ DecisionsPure'
  BY <1>3, <1>4 DEF IInv, RunsFrozen, RowsOwn, PoliciesUnique, DecisionsPure
<1>7. QED
  BY <1>1, <1>5, <1>6 DEF IInv

\* A report writes a manifest only where there is none.
LEMMA ReportStep ==
  ASSUME IInv, ReportReadiness \/ ReportProfessional
  PROVE  IInv'
<1>1. Shapes'
  BY DEF IInv, Shapes, ReportReadiness, ReportProfessional
<1>2. UNCHANGED <<db, pc, loaded, rows, history>>
  BY DEF ReportReadiness, ReportProfessional
<1>3. files.manifest # NoFile => files'.manifest = files.manifest
  BY DEF IInv, Shapes, ReportReadiness, ReportProfessional, Refrozen
<1>4. FreezeKept'
  BY <1>2, <1>3 DEF IInv, FreezeKept
<1>5. RunsFrozen' /\ RowsOwn' /\ PoliciesUnique' /\ DecisionsPure'
  BY <1>2 DEF IInv, RunsFrozen, RowsOwn, PoliciesUnique, DecisionsPure
<1>6. QED
  BY <1>1, <1>4, <1>5 DEF IInv

\* The exchange is not concerned.
LEMMA MarketStep ==
  ASSUME IInv, UNCHANGED <<commit, files, db, pc, loaded, rows, history>>
  PROVE  IInv'
  BY DEF IInv, Shapes, FreezeKept, RunsFrozen, RowsOwn, PoliciesUnique,
     DecisionsPure

---------------------------------------------------------------------------
(* Runs of the collector                                                   *)

\* A run begins only with the manifest that agrees with its code.
LEMMA BeginStep ==
  ASSUME IInv, NEW r \in Runs, Begin(r)
  PROVE  IInv'
<1>1. Shapes'
  BY DEF IInv, Shapes, Begin
<1>2. /\ files' = files /\ rows' = rows
      /\ files.manifest = commit.code /\ commit.code # NoFile
      /\ db'.freezes = IF db.freezes = {} THEN {files.manifest} ELSE db.freezes
      /\ db'.policies = db.policies /\ db'.decisions = db.decisions
      /\ history'.replaced = history.replaced
      /\ pc[r] = "idle" /\ pc'[r] = "settle" /\ loaded'[r] = commit
      /\ \A q \in Runs \ {r} : pc'[q] = pc[q] /\ loaded'[q] = loaded[q]
  BY EvidenceAssumption DEF IInv, Shapes, Begin, FreezeHolds
<1>3. FreezeKept'
  BY <1>2 DEF IInv, FreezeKept
<1>4. RunsFrozen'
  <2> SUFFICES ASSUME NEW q \in Runs, pc'[q] # "idle"
               PROVE  /\ db'.freezes # {}
                      /\ history'.replaced \/ db'.freezes = {loaded'[q].code}
    BY DEF RunsFrozen
  <2>1. CASE q = r
    BY <1>2, <2>1 DEF IInv, FreezeKept
  <2>2. CASE q # r
    BY <1>2, <2>2 DEF IInv, RunsFrozen
  <2>3. QED
    BY <2>1, <2>2
<1>5. RowsOwn'
  BY <1>2 DEF IInv, RowsOwn
<1>6. PoliciesUnique' /\ DecisionsPure'
  <2>1. \A d \in db.decisions : history.replaced \/ db'.freezes = db.freezes
    BY <1>2 DEF IInv, DecisionsPure
  <2>2. QED
    BY <1>2, <2>1 DEF IInv, PoliciesUnique, DecisionsPure
<1>7. QED
  BY <1>1, <1>3, <1>4, <1>5, <1>6 DEF IInv

\* Settlements are no decisions.
LEMMA SettleStep ==
  ASSUME IInv, NEW r \in Runs, Settle(r)
  PROVE  IInv'
<1>1. /\ UNCHANGED <<commit, files, db, loaded, history>>
      /\ pc[r] = "settle" /\ pc' = [pc EXCEPT ![r] = "collect"]
      /\ \E events : rows' = [rows EXCEPT ![r].events = events]
  BY DEF Settle
<1>2. Shapes'
  BY <1>1 DEF IInv, Shapes
<1>3. \A q \in Runs : rows'[q].decisions = rows[q].decisions
  BY <1>1 DEF IInv, Shapes
<1>4. RowsOwn'
  <2>1. \A q \in Runs : q # r => pc'[q] = pc[q]
    BY <1>1 DEF IInv, Shapes
  <2>2. rows[r].decisions = {}
    BY <1>1 DEF IInv, RowsOwn
  <2>3. QED
    BY <1>1, <1>3, <2>1, <2>2 DEF IInv, RowsOwn
<1>5. RunsFrozen'
  BY <1>1 DEF IInv, Shapes, RunsFrozen
<1>6. FreezeKept' /\ PoliciesUnique' /\ DecisionsPure'
  BY <1>1 DEF IInv, FreezeKept, PoliciesUnique, DecisionsPure
<1>7. QED
  BY <1>2, <1>4, <1>5, <1>6 DEF IInv

\* The decisions of a run carry its own code and policy.
LEMMA CollectStep ==
  ASSUME IInv, NEW r \in Runs, Collect(r)
  PROVE  IInv'
<1>1. /\ UNCHANGED <<commit, files, db, loaded, history>>
      /\ pc[r] = "collect" /\ pc' = [pc EXCEPT ![r] = "policy"]
  BY DEF Collect
<1>2. PICK found \in [OpenMarkets -> Findings] :
        LET Batch(m) == {DecisionOn(r, m, c, found[m].book, found[m].stale) :
                           c \in Candidates}
        IN rows' = [rows EXCEPT
             ![r].decisions = UNION {Batch(m) : m \in OpenMarkets},
             ![r].events = @ \cup UNION
               {{EventOf(r, d, found[m].stale, found[m].active) :
                   d \in Batch(m)} : m \in OpenMarkets},
             ![r].snapshots =
               {Snapshot(m, bounds.batches, found[m].book) : m \in OpenMarkets}]
  BY DEF Collect
<1> DEFINE Batch(m) == {DecisionOn(r, m, c, found[m].book, found[m].stale) :
                          c \in Candidates}
           taken == UNION {Batch(m) : m \in OpenMarkets}
           events == UNION {{EventOf(r, d, found[m].stale, found[m].active) :
                               d \in Batch(m)} : m \in OpenMarkets}
           books == {Snapshot(m, bounds.batches, found[m].book) : m \in OpenMarkets}
<1>3. \A d \in taken : d.code = loaded[r].code /\ d.policy = loaded[r].policy
  <2> SUFFICES ASSUME NEW d \in taken
               PROVE  d.code = loaded[r].code /\ d.policy = loaded[r].policy
    OBVIOUS
  <2>1. PICK m \in OpenMarkets, c \in Candidates :
          d = DecisionOn(r, m, c, found[m].book, found[m].stale)
    OBVIOUS
  <2>2. QED
    BY <2>1, DecisionOf
<1>4. rows' = [rows EXCEPT ![r].decisions = taken, ![r].events = @ \cup events,
                           ![r].snapshots = books]
  BY <1>2
<1> HIDE DEF taken, events, books
<1>5. Shapes'
  BY <1>1, <1>4 DEF IInv, Shapes
<1>6. RowsOwn'
  <2>1. rows'[r].decisions = taken
    BY <1>4 DEF IInv, Shapes
  <2>2. \A q \in Runs : q # r => rows'[q] = rows[q] /\ pc'[q] = pc[q]
    BY <1>1, <1>4 DEF IInv, Shapes
  <2>3. pc'[r] = "policy"
    BY <1>1 DEF IInv, Shapes
  <2>4. QED
    BY <1>1, <1>3, <2>1, <2>2, <2>3 DEF IInv, RowsOwn
<1>7. RunsFrozen'
  BY <1>1 DEF IInv, Shapes, RunsFrozen
<1>8. FreezeKept' /\ PoliciesUnique' /\ DecisionsPure'
  BY <1>1 DEF IInv, FreezeKept, PoliciesUnique, DecisionsPure
<1>9. QED
  BY <1>5, <1>6, <1>7, <1>8 DEF IInv

\* A run commits under a policy version that is its own code's.
LEMMA CommitStep ==
  ASSUME IInv, NEW r \in Runs, Commit(r)
  PROVE  IInv'
<1>1. Shapes'
  BY DEF IInv, Shapes, Commit, Nothing
<1>2. /\ UNCHANGED <<files, loaded, history>>
      /\ db'.freezes = db.freezes
      /\ db'.policies = db.policies \cup {loaded[r].policy}
      /\ db'.decisions = db.decisions \cup rows[r].decisions
      /\ pc[r] = "policy" /\ ~PolicyConflict(loaded[r].policy)
      /\ pc'[r] = "idle" /\ rows'[r].decisions = {}
      /\ \A q \in Runs \ {r} : pc'[q] = pc[q] /\ rows'[q] = rows[q]
  BY DEF IInv, Shapes, Commit, Nothing
<1>3. FreezeKept'
  BY <1>2 DEF IInv, FreezeKept
<1>4. RunsFrozen'
  BY <1>2 DEF IInv, RunsFrozen
<1>5. RowsOwn'
  BY <1>2 DEF IInv, RowsOwn
<1>6. PoliciesUnique'
  BY <1>2 DEF IInv, PoliciesUnique, PolicyConflict
<1>7. DecisionsPure'
  <2>1. \A d \in rows[r].decisions : /\ d.policy = loaded[r].policy
                                     /\ d.code = loaded[r].code
    BY DEF IInv, RowsOwn
  <2>2. history.replaced \/ db.freezes = {loaded[r].code}
    BY <1>2 DEF IInv, RunsFrozen
  <2>3. QED
    BY <1>2, <2>1, <2>2 DEF IInv, DecisionsPure
<1>8. QED
  BY <1>1, <1>3, <1>4, <1>5, <1>6, <1>7 DEF IInv

\* A run that is rolled back leaves nothing.
LEMMA RollbackStep ==
  ASSUME IInv, NEW r \in Runs, RolledBack(r)
  PROVE  IInv'
<1>1. Shapes'
  BY DEF IInv, Shapes, RolledBack, Nothing
<1>2. /\ UNCHANGED <<files, db, loaded, history>>
      /\ pc'[r] = "idle" /\ rows'[r].decisions = {}
      /\ \A q \in Runs \ {r} : pc'[q] = pc[q] /\ rows'[q] = rows[q]
  BY DEF IInv, Shapes, RolledBack, Nothing
<1>3. FreezeKept' /\ PoliciesUnique' /\ DecisionsPure'
  BY <1>2 DEF IInv, FreezeKept, PoliciesUnique, DecisionsPure
<1>4. RunsFrozen' /\ RowsOwn'
  BY <1>2 DEF IInv, RunsFrozen, RowsOwn
<1>5. QED
  BY <1>1, <1>3, <1>4 DEF IInv

LEMMA Invariant == Spec => []IInv
<1>1. Init => IInv
  BY InitInv
<1>2. IInv /\ [Next]_vars => IInv'
  <2> SUFFICES ASSUME IInv, [Next]_vars PROVE IInv'
    OBVIOUS
  <2>1. ASSUME NEW r \in Runs, Refused(r) \/ Crash(r) PROVE IInv'
    BY <2>1, RollbackStep DEF Refused, Crash
  <2>2. ASSUME NEW m \in Markets, Close(m) \/ Finalize(m) PROVE IInv'
    BY <2>2, MarketStep DEF Close, Finalize, Move
  <2>3. CASE UNCHANGED vars
    BY <2>3, MarketStep DEF vars
  <2>4. QED
    BY <2>1, <2>2, <2>3, DeployStep, ReportStep, BeginStep, SettleStep,
       CollectStep, CommitStep DEF Next
<1>3. QED
  BY <1>1, <1>2, PTL DEF Spec

\* Every decision under a version was taken by the code frozen under it,
\* whatever is deployed while runs are under way (collector.py: the check of
\* the manifests and insert_freezes; professional_freeze.py: insert_freeze).
THEOREM PureCohorts == Spec => []CohortsPure
<1>1. IInv => CohortsPure
  BY DEF IInv, DecisionsPure, PoliciesUnique, CohortsPure
<1>2. QED
  BY <1>1, Invariant, PTL

---------------------------------------------------------------------------
(* What an order takes of a book                                           *)

Level == [price : Int, quantity : Int]

LEMMA QuantitySum ==
  ASSUME NEW S, NEW w, \A l \in S : w[l] = l.quantity
  PROVE  QuantityOf(S) = Sum(w, S)
<1> DEFINE E1(g, T) == IF T = {} THEN 0 ELSE Pick(T).quantity + g[T \ {Pick(T)}]
           E2(g, T) == IF T = {} THEN 0 ELSE w[Pick(T)] + g[T \ {Pick(T)}]
           F1(g) == g = [T \in SUBSET S |-> E1(g, T)]
           F2(g) == g = [T \in SUBSET S |-> E2(g, T)]
<1>1. ASSUME NEW g, NEW T \in SUBSET S PROVE E1(g, T) = E2(g, T)
  <2>1. T # {} => Pick(T) \in S
    BY DEF Pick
  <2>2. QED
    BY <2>1
<1>2. ASSUME NEW g PROVE F1(g) <=> F2(g)
  <2> HIDE DEF E1, E2
  <2>1. [T \in SUBSET S |-> E1(g, T)] = [T \in SUBSET S |-> E2(g, T)]
    BY <1>1
  <2>2. QED
    BY <2>1
<1>3. (CHOOSE g : F1(g)) = (CHOOSE g : F2(g))
  <2> HIDE DEF F1, F2
  <2>1. QED
    BY <1>2
<1>4. QuantityOf(S) = (CHOOSE g : F1(g))[S]
  BY DEF QuantityOf, MapThenSumSet, MapThenFoldSet, Pick
<1>5. Sum(w, S) = (CHOOSE g : F2(g))[S]
  BY DEF Sum, MapThenSumSet, MapThenFoldSet, Pick
<1>6. QED
  BY <1>3, <1>4, <1>5

LEMMA TakenSum ==
  ASSUME NEW S, NEW A, NEW n, NEW w, \A l \in S : w[l] = Taken(A, l, n)
  PROVE  MapThenSumSet(LAMBDA l : Taken(A, l, n), S) = Sum(w, S)
<1> DEFINE E1(g, T) == IF T = {} THEN 0 ELSE Taken(A, Pick(T), n) + g[T \ {Pick(T)}]
           E2(g, T) == IF T = {} THEN 0 ELSE w[Pick(T)] + g[T \ {Pick(T)}]
           F1(g) == g = [T \in SUBSET S |-> E1(g, T)]
           F2(g) == g = [T \in SUBSET S |-> E2(g, T)]
<1>1. ASSUME NEW g, NEW T \in SUBSET S PROVE E1(g, T) = E2(g, T)
  <2>1. T # {} => Pick(T) \in S
    BY DEF Pick
  <2>2. QED
    BY <2>1
<1>2. ASSUME NEW g PROVE F1(g) <=> F2(g)
  <2> HIDE DEF E1, E2
  <2>1. [T \in SUBSET S |-> E1(g, T)] = [T \in SUBSET S |-> E2(g, T)]
    BY <1>1
  <2>2. QED
    BY <2>1
<1>3. (CHOOSE g : F1(g)) = (CHOOSE g : F2(g))
  <2> HIDE DEF F1, F2
  <2>1. QED
    BY <1>2
<1>4. MapThenSumSet(LAMBDA l : Taken(A, l, n), S) = (CHOOSE g : F1(g))[S]
  BY DEF MapThenSumSet, MapThenFoldSet, Pick
<1>5. Sum(w, S) = (CHOOSE g : F2(g))[S]
  BY DEF Sum, MapThenSumSet, MapThenFoldSet, Pick
<1>6. QED
  BY <1>3, <1>4, <1>5

LEMMA PaidSum ==
  ASSUME NEW S, NEW A, NEW n, NEW w, \A l \in S : w[l] = l.price * Taken(A, l, n)
  PROVE  MapThenSumSet(LAMBDA l : l.price * Taken(A, l, n), S) = Sum(w, S)
<1> DEFINE E1(g, T) == IF T = {} THEN 0 ELSE Pick(T).price * Taken(A, Pick(T), n) + g[T \ {Pick(T)}]
           E2(g, T) == IF T = {} THEN 0 ELSE w[Pick(T)] + g[T \ {Pick(T)}]
           F1(g) == g = [T \in SUBSET S |-> E1(g, T)]
           F2(g) == g = [T \in SUBSET S |-> E2(g, T)]
<1>1. ASSUME NEW g, NEW T \in SUBSET S PROVE E1(g, T) = E2(g, T)
  <2>1. T # {} => Pick(T) \in S
    BY DEF Pick
  <2>2. QED
    BY <2>1
<1>2. ASSUME NEW g PROVE F1(g) <=> F2(g)
  <2> HIDE DEF E1, E2
  <2>1. [T \in SUBSET S |-> E1(g, T)] = [T \in SUBSET S |-> E2(g, T)]
    BY <1>1
  <2>2. QED
    BY <2>1
<1>3. (CHOOSE g : F1(g)) = (CHOOSE g : F2(g))
  <2> HIDE DEF F1, F2
  <2>1. QED
    BY <1>2
<1>4. MapThenSumSet(LAMBDA l : l.price * Taken(A, l, n), S) = (CHOOSE g : F1(g))[S]
  BY DEF MapThenSumSet, MapThenFoldSet, Pick
<1>5. Sum(w, S) = (CHOOSE g : F2(g))[S]
  BY DEF Sum, MapThenSumSet, MapThenFoldSet, Pick
<1>6. QED
  BY <1>3, <1>4, <1>5

\* What is better than a level, and how much it is.
LEMMA QuantityType ==
  ASSUME NEW S \in SUBSET Level, IsFiniteSet(S)
  PROVE  /\ QuantityOf(S) \in Int
         /\ S = {} => QuantityOf(S) = 0
         /\ \A x \in S : QuantityOf(S) = x.quantity + QuantityOf(S \ {x})
         /\ (\A l \in S : l.quantity > 0) => QuantityOf(S) >= 0
<1> DEFINE w == [l \in S |-> l.quantity]
<1>1. Summable(w, S) /\ \A T \in SUBSET S : \A l \in T : w[l] = l.quantity
  BY DEF Summable, Level
<1> HIDE DEF w
<1>2. \A T \in SUBSET S : QuantityOf(T) = Sum(w, T)
  BY <1>1, QuantitySum
<1>3. Sum(w, S) \in Int /\ Sum(w, {}) = 0
  BY <1>1, SumType
<1>4. \A x \in S : Sum(w, S) = w[x] + Sum(w, S \ {x})
  BY <1>1, SumRemove
<1>5. ASSUME \A l \in S : l.quantity > 0 PROVE Sum(w, S) >= 0
  <2>1. {} \in SUBSET S /\ \A x \in S \ {} : w[x] >= 0
    BY <1>1, <1>5 DEF Level
  <2>2. Sum(w, {}) <= Sum(w, S)
    BY <1>1, <2>1, SumGrows
  <2>3. QED
    BY <1>3, <2>2
<1>6. \A x \in S : S \ {x} \in SUBSET S
  OBVIOUS
<1>7. QED
  BY <1>1, <1>2, <1>3, <1>4, <1>5, <1>6

\* Better levels first: an order takes what there is, or what it asked for.
LEMMA AllTaken ==
  ASSUME NEW S \in SUBSET Level, BidLadder(S), \A l \in S : l.quantity > 0, NEW n \in Nat,
         NEW w, w = [l \in S |-> Taken(S, l, n)]
  PROVE  /\ Summable(w, S) /\ \A l \in S : w[l] \in Nat
         /\ Sum(w, S) = IF QuantityOf(S) <= n THEN QuantityOf(S) ELSE n
<1> DEFINE v(T) == [l \in T |-> Taken(T, l, n)]
           total(T) == IF QuantityOf(T) <= n THEN QuantityOf(T) ELSE n
           P == {T \in SUBSET S : Sum(v(T), T) = total(T)}
<1>0. IsFiniteSet(S) /\ \A T \in SUBSET S : IsFiniteSet(T) /\ T \in SUBSET Level
  BY FS_Subset DEF BidLadder
<1>1. \A T \in SUBSET S : QuantityOf(T) \in Int /\ QuantityOf(T) >= 0
  BY <1>0, QuantityType
<1>2. ASSUME NEW T \in SUBSET S, NEW l \in T
      PROVE  /\ QuantityOf(Better(T, l)) \in Int
             /\ Taken(T, l, n) = IF QuantityOf(Better(T, l)) >= n THEN 0
                                 ELSE IF QuantityOf(Better(T, l)) + l.quantity <= n
                                 THEN l.quantity ELSE n - QuantityOf(Better(T, l))
             /\ Taken(T, l, n) \in Nat
  <2> DEFINE b == QuantityOf(Better(T, l))
             q == l.quantity
  <2>1. b \in Int /\ q \in Int /\ q > 0
    <3>1. Better(T, l) \in SUBSET S
      BY DEF Better
    <3>2. QED
      BY <1>1, <3>1 DEF Level
  <2>2. Taken(T, l, n) = Max({0, Min({q, n - b})})
    BY DEF Taken
  <2> HIDE DEF b, q
  <2>3. Min({q, n - b}) = IF q <= n - b THEN q ELSE n - b
    BY <2>1, MinOfTwo, n - b \in Int
  <2> DEFINE k == IF q <= n - b THEN q ELSE n - b
  <2>4. k \in Int
    BY <2>1
  <2>5. Max({0, k}) = IF 0 <= k THEN k ELSE 0
    <3> HIDE DEF k
    <3> QED BY <2>4, MaxOfTwo, 0 \in Int
  <2>6. Taken(T, l, n) = Max({0, k})
    <3>1. Min({q, n - b}) = k
      BY <2>3
    <3> HIDE DEF k
    <3>2. QED
      BY <2>2, <3>1
  <2>7. (IF 0 <= k THEN k ELSE 0) = IF b >= n THEN 0 ELSE IF b + q <= n THEN q ELSE n - b
    BY <2>1
  <2>8. Taken(T, l, n) = IF b >= n THEN 0 ELSE IF b + q <= n THEN q ELSE n - b
    <3> HIDE DEF k
    <3> QED BY <2>5, <2>6, <2>7
  <2>9. QED
    BY <2>1, <2>8 DEF b, q
<1>3. \A T \in SUBSET S : Summable(v(T), T)
  BY <1>0, <1>2 DEF Summable
<1>4. {} \in P
  <2>1. {} \in SUBSET S /\ QuantityOf({}) = 0
    BY <1>0, QuantityType
  <2>2. Sum(v({}), {}) = 0
    <3>1. Summable(v({}), {})
      <4>1. {} \in SUBSET S
        OBVIOUS
      <4> HIDE DEF v
      <4>2. QED
        BY <1>3, <4>1
    <3> HIDE DEF v
    <3> QED BY <3>1, SumType
  <2>3. QED
    BY <2>1, <2>2
<1>5. ASSUME NEW T \in SUBSET S, T # {}
      PROVE  \E x \in T : T \ {x} \in P => T \in P
  <2> DEFINE prices == {l.price : l \in T}
  <2>1. PICK x \in T : \A l \in T : l.price <= x.price
    <3>1. IsFiniteSet(prices)
      <4>1. [l \in T |-> l.price] \in Surjection(T, prices)
        BY DEF Surjection
      <4> HIDE DEF prices
      <4>2. QED
        BY <1>0, <4>1, FS_Surjection
    <3>2. prices \in SUBSET Int /\ prices # {}
      BY <1>5 DEF Level
    <3>3. Max(prices) \in prices /\ \A y \in prices : y <= Max(prices)
      <4> HIDE DEF prices
      <4> QED BY <3>1, <3>2, MaxIsGreatest
    <3>4. QED
      BY <3>3
  <2> DEFINE U == T \ {x}
  <2>2. Better(T, x) = U
    <3>1. \A l \in U : l.price < x.price
      <4> TAKE l \in U
      <4>1. l.price # x.price
        BY DEF BidLadder
      <4>2. l.price <= x.price /\ l.price \in Int /\ x.price \in Int
        BY <2>1 DEF Level
      <4>3. QED
        BY <4>1, <4>2
    <3>2. ~(x.price < x.price)
      BY DEF Level
    <3>3. QED
      BY <3>1, <3>2 DEF Better
  <2>3. \A l \in U : Better(T, l) = Better(U, l)
    <3> SUFFICES ASSUME NEW l \in U PROVE x \notin Better(T, l)
      BY DEF Better
    <3>1. l.price <= x.price /\ l.price \in Int /\ x.price \in Int
      BY <2>1 DEF Level
    <3>2. QED
      BY <3>1 DEF Better
  <2>4. \A l \in U : v(T)[l] = v(U)[l]
    BY <2>3 DEF Taken
  <2>5. Sum(v(T), T) = Taken(T, x, n) + Sum(v(T), U)
    <3>1. Summable(v(T), T) /\ v(T)[x] = Taken(T, x, n)
      BY <1>3
    <3> HIDE DEF v
    <3>2. QED
      BY <3>1, SumRemove
  <2>6. Sum(v(T), U) = Sum(v(U), U)
    <3>1. Summable(v(U), U) /\ U \in SUBSET S
      BY <1>3
    <3> HIDE DEF v, U
    <3>2. QED
      BY <2>4, <3>1, SumSame
  <2>7. QuantityOf(T) = x.quantity + QuantityOf(U)
    BY <1>0, QuantityType
  <2>8. ASSUME U \in P PROVE T \in P
    <3>1. Sum(v(U), U) = total(U)
      BY <2>8
    <3>2. /\ QuantityOf(U) \in Int /\ QuantityOf(U) >= 0 /\ x.quantity \in Int
          /\ x.quantity > 0
      BY <1>1 DEF Level
    <3>3. Taken(T, x, n) = IF QuantityOf(U) >= n THEN 0
                           ELSE IF QuantityOf(U) + x.quantity <= n
                           THEN x.quantity ELSE n - QuantityOf(U)
      BY <1>2, <2>2
    <3>4. Sum(v(T), T) = total(T)
      <4> HIDE DEF v, U
      <4> QED BY <2>5, <2>6, <2>7, <3>1, <3>2, <3>3
    <3>5. QED
      BY <3>4
  <2>9. QED
    BY <2>8
<1>6. S \in P
  <2> HIDE DEF P
  <2>1. \A T \in SUBSET S : T \in P
    BY <1>0, <1>4, <1>5, SubsetInduction
  <2>2. QED
    BY <2>1
<1>7. QED
  BY <1>2, <1>3, <1>6
LEMMA PaidAtMost ==
  ASSUME NEW S \in SUBSET Level, BidLadder(S), \A l \in S : l.quantity > 0, NEW n \in Nat,
         NEW limit \in Int, \A l \in S : l.price <= limit,
         NEW w, w = [l \in S |-> Taken(S, l, n)],
         NEW v, v = [l \in S |-> l.price * Taken(S, l, n)]
  PROVE  Sum(v, S) \in Int /\ Sum(v, S) <= limit * Sum(w, S)
<1>1. Summable(w, S) /\ \A l \in S : w[l] \in Nat
  BY AllTaken
<1>2. \A l \in S : v[l] = l.price * w[l] /\ v[l] \in Int /\ l.price \in Int
  BY <1>1 DEF Level
<1>3. Summable(v, S)
  BY <1>1, <1>2 DEF Summable
<1>4. \A T \in SUBSET S : /\ Summable(v, T) /\ Summable(w, T)
                          /\ Sum(v, T) \in Int /\ Sum(w, T) \in Int
  <2> TAKE T \in SUBSET S
  <2>1. Summable(v, T) /\ Summable(w, T)
    BY <1>1, <1>3, FS_Subset DEF Summable
  <2>2. QED
    BY <2>1, SumType
<1> DEFINE P == {T \in SUBSET S : Sum(v, T) <= limit * Sum(w, T)}
<1>5. {} \in P
  <2>1. Sum(v, {}) = 0 /\ Sum(w, {}) = 0
    BY <1>1, <1>3, SumType
  <2>2. QED
    BY <2>1
<1>6. ASSUME NEW T \in SUBSET S, NEW x \in T, T \ {x} \in P
      PROVE  T \in P
  <2> DEFINE a == Sum(v, T \ {x})
             b == Sum(w, T \ {x})
             t == w[x]
             p == x.price
  <2>1. a \in Int /\ b \in Int /\ t \in Nat /\ p \in Int /\ p <= limit /\ a <= limit * b
    BY <1>1, <1>2, <1>4, <1>6
  <2>2. Sum(v, T) = p * t + a /\ Sum(w, T) = t + b
    <3>1. Sum(v, T) = v[x] + a /\ Sum(w, T) = w[x] + b
      BY <1>4, SumRemove
    <3>2. QED
      BY <1>2, <3>1
  <2> HIDE DEF a, b, t, p
  <2>3. p * t <= limit * t
    BY <2>1
  <2>4. limit * (t + b) = limit * t + limit * b
    BY <2>1
  <2>5. p * t \in Int /\ limit * t \in Int /\ limit * b \in Int
    BY <2>1
  <2>6. p * t + a <= limit * (t + b)
    BY <2>1, <2>3, <2>4, <2>5
  <2>7. QED
    BY <2>2, <2>6
<1>7. IsFiniteSet(S)
  BY DEF BidLadder
<1>8. \A T \in SUBSET S : T # {} => \E x \in T : T \ {x} \in P => T \in P
  <2> HIDE DEF P
  <2> QED BY <1>6
<1>9. S \in P
  <2> HIDE DEF P
  <2>1. \A T \in SUBSET S : T \in P
    BY <1>5, <1>7, <1>8, SubsetInduction
  <2>2. QED
    BY <2>1
<1>10. QED
  BY <1>4, <1>9

\* Enough depth within a limit fills the order within the limit.
LEMMA FilledWithin ==
  ASSUME NEW S \in SUBSET Level, BidLadder(S), \A l \in S : l.quantity > 0,
         NEW limit \in Int, \A l \in S : l.price <= limit,
         QuantityOf(S) >= IntendedQuantity
  PROVE  /\ Fill(S, IntendedQuantity).type = "FILLED"
         /\ Fill(S, IntendedQuantity).filled = IntendedQuantity
         /\ Fill(S, IntendedQuantity).price <= limit
<1> DEFINE n == IntendedQuantity
           w == [l \in S |-> Taken(S, l, n)]
           v == [l \in S |-> l.price * Taken(S, l, n)]
           filled   == MapThenSumSet(LAMBDA l : Taken(S, l, n), S)
           notional == MapThenSumSet(LAMBDA l : l.price * Taken(S, l, n), S)
<1>1. n \in Nat /\ n = 2
  BY DEF IntendedQuantity, Half
<1>2. filled = Sum(w, S)
  <2>1. \A l \in S : w[l] = Taken(S, l, n)
    OBVIOUS
  <2> HIDE DEF w, n
  <2>2. QED
    BY <2>1, TakenSum
<1>3. notional = Sum(v, S)
  <2>1. \A l \in S : v[l] = l.price * Taken(S, l, n)
    OBVIOUS
  <2> HIDE DEF v, n
  <2>2. QED
    BY <2>1, PaidSum
<1>4. Sum(w, S) = n
  <2>1. QuantityOf(S) \in Int
    BY QuantityType DEF BidLadder
  <2>2. Sum(w, S) = IF QuantityOf(S) <= n THEN QuantityOf(S) ELSE n
    <3>1. w = [l \in S |-> Taken(S, l, n)]
      OBVIOUS
    <3> HIDE DEF w, n
    <3>2. QED
      BY <1>1, <3>1, AllTaken
  <2>3. QED
    BY <1>1, <2>1, <2>2
<1>5. Sum(v, S) \in Int /\ Sum(v, S) <= limit * n
  <2>1. w = [l \in S |-> Taken(S, l, n)] /\ v = [l \in S |-> l.price * Taken(S, l, n)]
    OBVIOUS
  <2> HIDE DEF w, v, n
  <2>2. QED
    BY <1>1, <1>4, <2>1, PaidAtMost
<1>6. /\ Fill(S, n).type = IF filled = n THEN "FILLED" ELSE "PARTIAL_FILL"
      /\ Fill(S, n).filled = filled
      /\ Fill(S, n).price = (2 * notional + filled) \div (2 * filled)
  BY DEF Fill
<1> HIDE DEF filled, notional, w, v, n
<1>7. (2 * notional + 2) \div (2 * 2) <= limit
  BY <1>1, <1>3, <1>5
<1>8. QED
  BY <1>1, <1>2, <1>4, <1>6, <1>7 DEF n

\* A book as a run captures it.
Near(opposing, limit) == {l \in AsksFor(opposing) : l.price <= limit}
IsBook(book) == \A s \in Sides : book[s] \in SUBSET Level /\ BidLadder(book[s])

\* The prices of a ladder that is not empty.
LEMMA LadderPrices ==
  ASSUME NEW S \in SUBSET Level, BidLadder(S), S # {}
  PROVE  /\ Max({l.price : l \in S}) \in Int /\ Min({l.price : l \in S}) \in Int
         /\ \E l \in S : l.price = Min({k.price : k \in S})
<1> DEFINE prices == {l.price : l \in S}
<1>1. IsFiniteSet(prices)
  <2>1. [l \in S |-> l.price] \in Surjection(S, prices)
    BY DEF Surjection
  <2> HIDE DEF prices
  <2>2. QED
    BY <2>1, FS_Surjection DEF BidLadder
<1>2. prices \in SUBSET Int /\ prices # {}
  BY DEF Level
<1>3. Max(prices) \in prices /\ Min(prices) \in prices
  <2> HIDE DEF prices
  <2> QED BY <1>1, <1>2, MaxIsGreatest, MinIsLeast
<1>4. QED
  BY <1>2, <1>3

\* The asks of an outcome are a ladder as the opposing bids are.
LEMMA AsksAreLadder ==
  ASSUME NEW S \in SUBSET Level, BidLadder(S)
  PROVE  AsksFor(S) \in SUBSET Level /\ BidLadder(AsksFor(S))
<1> DEFINE ask(l) == [price |-> Dollar - l.price, quantity |-> l.quantity]
<1>1. AsksFor(S) \in SUBSET Level
  BY DEF AsksFor, Level, Dollar
<1>2. IsFiniteSet(AsksFor(S))
  <2>1. [l \in S |-> ask(l)] \in Surjection(S, AsksFor(S))
    BY DEF Surjection, AsksFor
  <2>2. QED
    BY <2>1, FS_Surjection DEF BidLadder
<1>3. ASSUME NEW k \in AsksFor(S), NEW l \in AsksFor(S), k.price = l.price
      PROVE  k = l
  <2>1. PICK x \in S, y \in S : k = ask(x) /\ l = ask(y)
    BY DEF AsksFor
  <2>2. Dollar - x.price = Dollar - y.price /\ x.price \in Int /\ y.price \in Int
    BY <1>3, <2>1 DEF Level
  <2>3. x.price = y.price
    BY <2>2 DEF Dollar
  <2>4. x = y
    BY <2>3 DEF BidLadder
  <2>5. QED
    BY <2>1, <2>4
<1>4. QED
  BY <1>1, <1>2, <1>3 DEF BidLadder

LEMMA FeeType ==
  ASSUME NEW price \in Int, NEW quantity \in Int PROVE FeeOn(price, quantity) \in Int
<1> DEFINE x == 7 * price * (Dollar - price) * quantity + 500000 * Half
<1>1. x \in Int
  BY DEF Dollar, Half
<1>2. FeeOn(price, quantity) = x \div 2000000
  BY DEF FeeOn, Half
<1> HIDE DEF x
<1>3. QED
  BY <1>1, <1>2

\* What a decision that is not rejected knows: a book in order, and depth for
\* the whole order within the limit.
LEMMA EligibleDecision ==
  ASSUME NEW model \in Int, NEW weight \in Int, NEW stale \in BOOLEAN,
         NEW book, IsBook(book),
         NEW made, made = Decide(model, weight, book, stale), made.rejection = "NONE",
         NEW against, against = book[Opposite(made.side)]
  PROVE  /\ ~stale /\ made.limit \in Int /\ made.side \in Sides
         /\ \A l \in against : l.quantity > 0
         /\ QuantityOf(Near(against, made.limit)) >= IntendedQuantity
<1> DEFINE price == MarketProbability(book)
           final == Blend(model, price, weight)
           side == IF final >= price THEN "YES" ELSE "NO"
           opposing == book[Opposite(side)]
           worth == IF side = "YES" THEN final ELSE Dollar - final
           best == Min({l.price : l \in AsksFor(opposing)})
           limit == worth - SignalThreshold - FeeOn(best, Half)
<1>1. /\ price # None
      /\ made.side = side /\ made.limit = limit
      /\ Rejection(opposing, best, limit, Diagnosis(book, stale)) = "NONE"
  BY DEF Decide
<1>2. /\ \A s \in Sides : book[s] # {} /\ book[s] \in SUBSET Level /\ BidLadder(book[s])
      /\ price = (BestBid(book["YES"]) + BestAsk(book["NO"])) \div 2
  BY <1>1 DEF MarketProbability, IsBook
<1>3. price \in Int
  <2>1. BestBid(book["YES"]) \in Int /\ BestBid(book["NO"]) \in Int
    BY <1>2, LadderPrices DEF BestBid, Sides
  <2>2. BestAsk(book["NO"]) \in Int
    BY <1>2, <2>1 DEF BestAsk, Dollar, Sides
  <2> DEFINE x == BestBid(book["YES"]) + BestAsk(book["NO"])
  <2>3. x \in Int
    BY <2>1, <2>2
  <2>4. price = x \div 2
    BY <1>2
  <2> HIDE DEF price, x
  <2>5. QED
    BY <2>3, <2>4
<1>4. final \in Int
  <2> DEFINE x == weight * model + (100 - weight) * price
  <2>1. x \in Int
    <3> HIDE DEF price
    <3> QED BY <1>3
  <2>2. final = x \div 100
    BY DEF Blend
  <2> HIDE DEF x, final
  <2>3. QED
    BY <2>1, <2>2
<1>5. side \in Sides /\ Opposite(side) \in Sides
  BY DEF Sides, Opposite
<1> HIDE DEF final, side
<1>6. opposing # {} /\ opposing \in SUBSET Level /\ BidLadder(opposing)
  BY <1>2, <1>5
<1> HIDE DEF opposing
<1>7. best \in Int
  <2>1. AsksFor(opposing) \in SUBSET Level /\ BidLadder(AsksFor(opposing))
    BY <1>6, AsksAreLadder
  <2>2. AsksFor(opposing) # {}
    BY <1>6 DEF AsksFor
  <2>3. QED
    BY <2>1, <2>2, LadderPrices
<1> HIDE DEF best
<1>8. limit \in Int
  <2>1. FeeOn(best, Half) \in Int
    BY <1>7, FeeType DEF Half
  <2>2. worth \in Int
    BY <1>4 DEF Dollar
  <2> HIDE DEF worth
  <2>3. QED
    BY <2>1, <2>2 DEF SignalThreshold
<1> HIDE DEF limit
<1>9. Diagnosis(book, stale) = "NONE"
  BY <1>1 DEF Rejection
<1>10. ~stale /\ ~CrossedOrImpossible(book)
  BY <1>9 DEF Diagnosis
<1>11. \A l \in opposing : l.quantity > 0
  <2>1. \A s \in Sides : \A l \in book[s] : ~(l.quantity <= 0)
    BY <1>10 DEF CrossedOrImpossible
  <2>2. \A l \in opposing : ~(l.quantity <= 0) /\ l.quantity \in Int
    BY <1>5, <1>6, <2>1 DEF opposing, Level
  <2>3. QED
    BY <2>2
<1>12. ~(DepthThrough(opposing, limit) < IntendedQuantity)
  <2>1. best > limit \/ best <= limit
    BY <1>7, <1>8
  <2>2. QED
    BY <1>1, <1>9, <2>1 DEF Rejection
<1> DEFINE within == {l \in AsksFor(opposing) : l.price <= limit}
<1>13. DepthThrough(opposing, limit) = QuantityOf(within)
  BY DEF DepthThrough, QuantityOf
<1>14. QuantityOf(within) \in Int
  <2>1. AsksFor(opposing) \in SUBSET Level /\ BidLadder(AsksFor(opposing))
    BY <1>6, AsksAreLadder
  <2>2. within \in SUBSET Level /\ IsFiniteSet(within)
    BY <2>1, FS_Subset DEF BidLadder
  <2> HIDE DEF within
  <2>3. QED
    BY <2>2, QuantityType
<1>15. QuantityOf(within) >= IntendedQuantity
  <2> HIDE DEF within
  <2> QED BY <1>12, <1>13, <1>14 DEF IntendedQuantity, Half
<1>16. against = opposing /\ Near(against, made.limit) = within
  BY <1>1 DEF opposing, Near
<1> HIDE DEF within
<1>17. QED
  BY <1>1, <1>5, <1>8, <1>10, <1>11, <1>15, <1>16

\* What is recorded of a decision: an order event, and for an eligible one a
\* full fill within its limit or, of a market that is not active, none.
LEMMA RecordedEvent ==
  ASSUME NEW model \in Int, NEW weight \in Int, NEW stale \in BOOLEAN,
         NEW active \in BOOLEAN,
         NEW book, IsBook(book),
         NEW made, made = Decide(model, weight, book, stale),
         NEW d, d.rejection = made.rejection, d.side = made.side,
         d.limit = made.limit, d.book = book,
         NEW e, e = PaperEvent(d, stale, active)
  PROVE  /\ e.type \in {"INELIGIBLE", "NO_FILL", "PARTIAL_FILL", "FILLED"}
         /\ d.rejection = "NONE" =>
              IF active
              THEN /\ e.type = "FILLED" /\ e.filled = IntendedQuantity
                   /\ e.price <= d.limit
              ELSE e.type = "NO_FILL"
<1>1. CASE d.rejection # "NONE"
  BY <1>1 DEF PaperEvent, NoFill
<1>2. CASE d.rejection = "NONE"
  <2> DEFINE opposing == book[Opposite(d.side)]
             asks == AsksFor(opposing)
             S == Takeable(asks, d.limit)
  <2>1. /\ ~stale /\ d.limit \in Int /\ d.side \in Sides
        /\ \A l \in opposing : l.quantity > 0
        /\ QuantityOf({l \in asks : l.price <= d.limit}) >= IntendedQuantity
    <3>1. opposing = book[Opposite(made.side)] /\ made.rejection = "NONE"
      BY <1>2
    <3>2. {l \in asks : l.price <= d.limit} = Near(opposing, made.limit)
      BY DEF Near
    <3> HIDE DEF opposing, asks
    <3>3. /\ ~stale /\ made.limit \in Int /\ made.side \in Sides
          /\ \A l \in opposing : l.quantity > 0
          /\ QuantityOf(Near(opposing, made.limit)) >= IntendedQuantity
      BY <3>1, EligibleDecision
    <3>4. QED
      BY <3>2, <3>3
  <2>2. e = ConservativeFill(asks, d.limit, IntendedQuantity, ~stale, active)
    BY <1>2 DEF PaperEvent
  <2>3. asks \in SUBSET Level /\ BidLadder(asks)
    <3>1. opposing \in SUBSET Level /\ BidLadder(opposing)
      BY <2>1 DEF Opposite, Sides, IsBook
    <3> HIDE DEF opposing
    <3>2. QED
      BY <3>1, AsksAreLadder
  <2>4. \A l \in asks : l.quantity > 0
    <3>1. \A l \in asks : \E k \in opposing : l.quantity = k.quantity
      BY DEF AsksFor
    <3> HIDE DEF opposing, asks
    <3>2. QED
      BY <2>1, <3>1
  <2> HIDE DEF asks, opposing
  <2>5. S = {l \in asks : l.price <= d.limit}
    BY <2>4 DEF Takeable
  <2>6. /\ S \in SUBSET Level /\ BidLadder(S) /\ QuantityOf(S) >= IntendedQuantity
        /\ \A l \in S : l.quantity > 0 /\ l.price <= d.limit
    <3>1. S \in SUBSET asks
      BY <2>5
    <3>2. IsFiniteSet(S)
      BY <2>3, <3>1, FS_Subset DEF BidLadder
    <3>3. QED
      BY <2>1, <2>3, <2>4, <2>5, <3>1, <3>2 DEF BidLadder
  <2> HIDE DEF S
  <2>7. S # {}
    <3>1. IsFiniteSet(S)
      BY <2>6 DEF BidLadder
    <3>2. S = {} => QuantityOf(S) = 0
      BY <2>6, <3>1, QuantityType
    <3>3. QED
      BY <2>6, <3>2 DEF IntendedQuantity, Half
  <2>8. e = IF active THEN Fill(S, IntendedQuantity) ELSE NoFill("MARKET_NOT_ACTIVE")
    BY <2>1, <2>2, <2>7 DEF ConservativeFill, S
  <2>9. CASE active
    BY <1>2, <2>1, <2>6, <2>8, <2>9, FilledWithin
  <2>10. CASE ~active
    BY <1>2, <2>8, <2>10 DEF NoFill
  <2>11. QED
    BY <2>9, <2>10
<1>3. QED
  BY <1>1, <1>2

---------------------------------------------------------------------------
(* What a run writes, and what is committed                                *)

\* A row of forward_paper_events.
IsEvent(e) ==
  e = [decision |-> e.decision, candidate |-> e.candidate, type |-> e.type,
       filled |-> e.filled, price |-> e.price, fee |-> e.fee, pnl |-> e.pnl,
       active |-> e.active, at |-> e.at, by |-> e.by]

Numbers ==
  /\ bounds = [batches |-> bounds.batches, deploys |-> bounds.deploys,
               faults |-> bounds.faults]
  /\ bounds.batches \in 0..MaxBatches
  /\ market \in [Markets -> {"open", "closed", "VOID"} \cup Sides]

Own(d) ==
  /\ d.id = <<d.id[1], d.id[2], d.market, d.candidate>>
  /\ d.market \in Markets /\ d.id[2] \in 0..bounds.batches

\* A decision's id says which run took it, and no two decisions share one.
IdsUnique ==
  /\ \A d \in db.decisions : Own(d) /\ \A e \in db.decisions : e.id = d.id => e = d
  /\ \A r \in Runs : \A d \in rows[r].decisions :
       /\ Own(d) /\ d.id[1] = r
       /\ \A e \in rows[r].decisions : e.id = d.id => e = d
       /\ \A e \in db.decisions : e.id # d.id

\* A run that may still decide has a number no decision of it has.
NumbersFresh ==
  \A d \in db.decisions : \A r \in Runs :
    d.id[1] = r /\ OpenMarkets # {} /\ pc[r] \in {"settle", "collect"} =>
      d.id[2] < bounds.batches

\* An event is of a decision that is committed with it, or before.
EventsOwned ==
  /\ \A e \in db.events : IsEvent(e) /\ \E d \in db.decisions : d.id = e.decision
  /\ \A r \in Runs : \A e \in rows[r].events :
       /\ IsEvent(e) /\ pc[r] \in {"collect", "policy"}
       /\ e.type \notin Outcomes => \E d \in rows[r].decisions : d.id = e.decision

\* What an outcome says: the decision was filled, and its market resolved to it.
Earned(e) ==
  /\ \E f \in Fills(db.events) : f.decision = e.decision
  /\ \E d \in db.decisions :
       /\ d.id = e.decision /\ market[d.market] \in Sides
       /\ (e.type = "SETTLED_WIN") <=> (d.side = market[d.market])

OutcomesEarned ==
  /\ \A e \in OfType(db.events, Outcomes) : Earned(e)
  /\ \A r \in Runs : \A e \in OfType(rows[r].events, Outcomes) : Earned(e)

\* Runs that do not overlap settle what nobody has settled.
OutcomesOnce ==
  ~history.overlapped =>
    /\ \A q, r \in Runs : pc[q] # "idle" /\ pc[r] # "idle" => q = r
    /\ \A e, f \in OfType(db.events, Outcomes) : e.decision = f.decision => e = f
    /\ \A r \in Runs : \A e \in OfType(rows[r].events, Outcomes) :
         /\ e.decision \notin Settled(db.events)
         /\ \A f \in OfType(rows[r].events, Outcomes) :
              e.decision = f.decision => e = f

\* A decision that is written whole, with everything that goes with it.
Whole(d, decisions, events, snapshots) ==
  /\ \E e \in events :
       /\ e.decision = d.id /\ e.type \notin Outcomes
       /\ \A f \in events : f.decision = d.id /\ f.type \notin Outcomes => f = e
  /\ \E s \in snapshots : s.market = d.market /\ s.batch = d.id[2] /\ s.book = d.book
  /\ \A c \in Candidates : \E x \in decisions :
       x.id = <<d.id[1], d.id[2], d.market, c>> /\ x.book = d.book
  /\ d.rejection = "NONE" =>
       \A e \in OfType(events, Orders) : e.decision = d.id =>
         IF e.active
         THEN /\ e.type = "FILLED" /\ e.filled = IntendedQuantity
              /\ e.price <= d.limit
         ELSE e.type = "NO_FILL"

BatchesWhole ==
  /\ \A d \in db.decisions : Whole(d, db.decisions, db.events, db.snapshots)
  /\ \A r \in Runs : \A d \in rows[r].decisions :
       Whole(d, rows[r].decisions, rows[r].events, rows[r].snapshots)

RowsInv == /\ Numbers /\ IdsUnique /\ NumbersFresh /\ EventsOwned
           /\ OutcomesEarned /\ OutcomesOnce /\ BatchesWhole

LEMMA RowsStart ==
  ASSUME Init PROVE RowsInv
<1>1. Numbers
  BY EvidenceAssumption DEF Init, Numbers
<1>2. /\ db.decisions = {} /\ db.events = {}
      /\ \A r \in Runs : rows[r].decisions = {} /\ rows[r].events = {} /\ pc[r] = "idle"
  BY DEF Init, Nothing
<1>3. IdsUnique /\ NumbersFresh /\ EventsOwned /\ BatchesWhole
  BY <1>2 DEF IdsUnique, NumbersFresh, EventsOwned, BatchesWhole
<1>4. OutcomesEarned /\ OutcomesOnce
  BY <1>2 DEF OutcomesEarned, OutcomesOnce, OfType
<1>5. QED
  BY <1>1, <1>3, <1>4 DEF RowsInv

\* Steps that write no rows.
LEMMA ElsewhereKeepsRows ==
  ASSUME RowsInv, UNCHANGED <<db, pc, rows, market>>,
         bounds' = [batches |-> bounds.batches, deploys |-> bounds'.deploys,
                    faults |-> bounds'.faults],
         history'.overlapped = history.overlapped
  PROVE  RowsInv'
<1>1. Numbers' /\ IdsUnique' /\ NumbersFresh'
  BY DEF RowsInv, Numbers, IdsUnique, Own, NumbersFresh, OpenMarkets
<1>2. EventsOwned' /\ OutcomesEarned'
  BY DEF RowsInv, EventsOwned, OutcomesEarned, Earned
<1>3. OutcomesOnce' /\ BatchesWhole'
  BY DEF RowsInv, OutcomesOnce, BatchesWhole
<1>4. QED
  BY <1>1, <1>2, <1>3 DEF RowsInv

\* A resolved market stays as it is, and no market opens again.
LEMMA MarketKeepsRows ==
  ASSUME RowsInv, UNCHANGED <<db, pc, rows, history, bounds>>, NEW m \in Markets,
         Close(m) \/ Finalize(m)
  PROVE  RowsInv'
<1>1. PICK from \in {"open", "closed"}, to \in {"closed", "VOID"} \cup Sides :
        market[m] = from /\ market' = [market EXCEPT ![m] = to]
  BY DEF Close, Finalize, Move
<1>2. /\ market \in [Markets -> {"open", "closed", "VOID"} \cup Sides]
  BY DEF RowsInv, Numbers
<1>3. Numbers'
  BY <1>1, <1>2 DEF RowsInv, Numbers
<1>4. /\ \A x \in Markets : market[x] \in Sides => market'[x] = market[x]
      /\ OpenMarkets' \subseteq OpenMarkets
  BY <1>1, <1>2 DEF OpenMarkets, Sides
<1>5. IdsUnique' /\ NumbersFresh' /\ EventsOwned'
  BY <1>4 DEF RowsInv, IdsUnique, Own, NumbersFresh, EventsOwned
<1>6. ASSUME NEW e, Earned(e) PROVE Earned(e)'
  <2>1. PICK d \in db.decisions :
          /\ d.id = e.decision /\ market[d.market] \in Sides
          /\ (e.type = "SETTLED_WIN") <=> (d.side = market[d.market])
    BY <1>6 DEF Earned
  <2>2. d.market \in Markets
    BY DEF RowsInv, IdsUnique, Own
  <2>3. market'[d.market] = market[d.market]
    BY <1>4, <2>1, <2>2
  <2>4. QED
    BY <1>6, <2>1, <2>3 DEF Earned
<1>7. OutcomesEarned'
  BY <1>6 DEF RowsInv, OutcomesEarned
<1>8. OutcomesOnce' /\ BatchesWhole'
  BY DEF RowsInv, OutcomesOnce, BatchesWhole
<1>9. QED
  BY <1>3, <1>5, <1>7, <1>8 DEF RowsInv

\* A run that begins takes a number nobody has used while a market is open.
LEMMA BeginKeepsRows ==
  ASSUME IInv, RowsInv, NEW r \in Runs, Begin(r) PROVE RowsInv'
<1>1. /\ pc[r] = "idle" /\ pc' = [pc EXCEPT ![r] = "settle"]
      /\ bounds.batches < MaxBatches \/ OpenMarkets = {}
      /\ bounds' = [bounds EXCEPT !.batches = Min({@ + 1, MaxBatches})]
      /\ history' = [history EXCEPT !.overlapped = @ \/ \E q \in Runs : pc[q] # "idle"]
      /\ UNCHANGED <<rows, market>>
  BY DEF Begin
<1>2. /\ db'.decisions = db.decisions /\ db'.events = db.events
      /\ db'.snapshots = db.snapshots
  BY DEF IInv, Shapes, Begin
<1>3. /\ MaxBatches \in Nat /\ bounds.batches \in 0..MaxBatches
      /\ bounds'.batches = Min({bounds.batches + 1, MaxBatches})
  <2>1. "batches" \in DOMAIN bounds
    BY DEF RowsInv, Numbers
  <2>2. QED
    BY <1>1, <2>1, EvidenceAssumption DEF RowsInv, Numbers
<1>4. /\ bounds'.batches \in 0..MaxBatches /\ bounds'.batches >= bounds.batches
      /\ OpenMarkets # {} => bounds'.batches = bounds.batches + 1
  <2>1. bounds'.batches = IF bounds.batches + 1 <= MaxBatches
                          THEN bounds.batches + 1 ELSE MaxBatches
    BY <1>3, MinOfTwo, bounds.batches + 1 \in Int /\ MaxBatches \in Int
  <2>2. QED
    BY <1>1, <1>3, <2>1
<1>5. /\ pc'[r] = "settle" /\ \A q \in Runs \ {r} : pc'[q] = pc[q]
      /\ history'.overlapped = (history.overlapped \/ \E q \in Runs : pc[q] # "idle")
      /\ rows[r].events = {} /\ rows[r].decisions = {}
  <2>1. pc \in [Runs -> {"idle", "settle", "collect", "policy"}]
        /\ history \in [replaced : BOOLEAN, overlapped : BOOLEAN]
    BY DEF IInv, Shapes
  <2>2. rows[r].events = {} /\ rows[r].decisions = {}
    BY <1>1 DEF RowsInv, EventsOwned, IInv, RowsOwn
  <2>3. QED
    BY <1>1, <2>1, <2>2
<1>6. Numbers'
  BY <1>1, <1>4 DEF RowsInv, Numbers
<1>7. ASSUME NEW d, Own(d) PROVE Own(d)'
  BY <1>3, <1>4, <1>7 DEF Own
<1>8. IdsUnique'
  BY <1>1, <1>2, <1>7 DEF RowsInv, IdsUnique
<1>9. NumbersFresh'
  <2> SUFFICES ASSUME NEW d \in db.decisions, OpenMarkets # {}
               PROVE  d.id[2] < bounds'.batches
    BY <1>1, <1>2 DEF NumbersFresh, OpenMarkets
  <2>1. d.id[2] \in 0..bounds.batches
    BY DEF RowsInv, IdsUnique, Own
  <2>2. QED
    BY <1>3, <1>4, <2>1
<1>10. EventsOwned'
  BY <1>1, <1>2, <1>5 DEF RowsInv, EventsOwned
<1>11. OutcomesEarned'
  BY <1>1, <1>2 DEF RowsInv, OutcomesEarned, Earned
<1>12. OutcomesOnce'
  <2> SUFFICES ASSUME ~history'.overlapped PROVE OutcomesOnce'
    BY DEF OutcomesOnce
  <2>1. ~history.overlapped /\ \A q \in Runs : pc[q] = "idle"
    BY <1>5
  <2>2. \A p, q \in Runs : pc'[p] # "idle" /\ pc'[q] # "idle" => p = q
    BY <1>5, <2>1
  <2>3. QED
    BY <1>1, <1>2, <2>1, <2>2 DEF RowsInv, OutcomesOnce
<1>13. BatchesWhole'
  BY <1>1, <1>2 DEF RowsInv, BatchesWhole
<1>14. QED
  BY <1>6, <1>8, <1>9, <1>10, <1>11, <1>12, <1>13 DEF RowsInv

\* A decision a run takes and the event that goes with it.
AsRecorded(r, m, c, f, d, e) ==
  /\ d.id = <<r, bounds.batches, m, c>> /\ Own(d)
  /\ d.id[1] = r /\ d.id[2] = bounds.batches
  /\ d.market = m /\ d.candidate = c /\ d.book = f.book
  /\ IsEvent(e) /\ e.decision = d.id /\ e.type \notin Outcomes
  /\ d.rejection = "NONE" =>
       IF e.active
       THEN /\ e.type = "FILLED" /\ e.filled = IntendedQuantity
            /\ e.price <= d.limit
       ELSE e.type = "NO_FILL"

\* What a candidate decides on a found book is recorded so.
LEMMA NewDecision ==
  ASSUME Numbers, NEW r \in Runs, NEW m \in OpenMarkets, NEW c \in Candidates,
         NEW f \in Findings,
         NEW d, d = DecisionOn(r, m, c, f.book, f.stale),
         NEW e, e = EventOf(r, d, f.stale, f.active)
  PROVE  AsRecorded(r, m, c, f, d, e)
<1> DEFINE made == Decide(AlertOf[m].model, ModelWeight[c], f.book, f.stale)
           event == PaperEvent(d, f.stale, f.active)
<1>1. m \in Markets /\ bounds.batches \in 0..MaxBatches
  BY DEF Numbers, OpenMarkets
<1>2. /\ d.id = <<r, bounds.batches, m, c>> /\ d.market = m /\ d.candidate = c
      /\ d.book = f.book /\ d.rejection = made.rejection /\ d.side = made.side
      /\ d.limit = made.limit
  BY DEF DecisionOn
<1>3. /\ IsEvent(e) /\ e.decision = d.id /\ e.type = event.type
      /\ e.filled = event.filled /\ e.price = event.price /\ e.active = f.active
  BY DEF EventOf, IsEvent
<1>4. /\ AlertOf[m].model \in Int /\ ModelWeight[c] \in Int
      /\ f.stale \in BOOLEAN /\ f.active \in BOOLEAN /\ IsBook(f.book)
  BY <1>1, EvidenceAssumption DEF IsBook, Level, ModelWeight, Candidates
<1>5. /\ event.type \in {"INELIGIBLE", "NO_FILL", "PARTIAL_FILL", "FILLED"}
      /\ d.rejection = "NONE" =>
           IF f.active
           THEN /\ event.type = "FILLED" /\ event.filled = IntendedQuantity
                /\ event.price <= d.limit
           ELSE event.type = "NO_FILL"
  <2> HIDE DEF made, event
  <2>1. made = Decide(AlertOf[m].model, ModelWeight[c], f.book, f.stale)
        /\ event = PaperEvent(d, f.stale, f.active)
    BY DEF made, event
  <2>2. QED
    BY <1>2, <1>4, <2>1, RecordedEvent
<1> HIDE DEF made, event
<1>6. Own(d) /\ d.id[1] = r /\ d.id[2] = bounds.batches
  BY <1>1, <1>2 DEF Own
<1>7. e.type \notin Outcomes
  BY <1>3, <1>5 DEF Outcomes
<1>8. QED
  BY <1>2, <1>3, <1>5, <1>6, <1>7 DEF AsRecorded

\* A run that is rolled back leaves nothing.
LEMMA RollbackKeepsRows ==
  ASSUME IInv, RowsInv, NEW r \in Runs, RolledBack(r),
         bounds' = [batches |-> bounds.batches, deploys |-> bounds'.deploys,
                    faults |-> bounds'.faults]
  PROVE  RowsInv'
<1>1. /\ UNCHANGED <<db, market, history>>
      /\ pc'[r] = "idle" /\ \A q \in Runs \ {r} : pc'[q] = pc[q] /\ rows'[q] = rows[q]
      /\ rows'[r].decisions = {} /\ rows'[r].events = {}
  BY DEF RolledBack, IInv, Shapes, Nothing
<1>2. Numbers' /\ IdsUnique' /\ NumbersFresh'
  <2>1. Numbers'
    BY <1>1 DEF RowsInv, Numbers
  <2>2. IdsUnique'
    BY <1>1 DEF RowsInv, IdsUnique, Own
  <2>3. NumbersFresh'
    <3> SUFFICES ASSUME NEW d \in db.decisions, NEW q \in Runs, d.id[1] = q,
                        OpenMarkets # {}, pc'[q] \in {"settle", "collect"}
                 PROVE  d.id[2] < bounds.batches
      BY <1>1 DEF NumbersFresh, OpenMarkets
    <3>1. pc[q] \in {"settle", "collect"}
      BY <1>1
    <3>2. QED
      BY <3>1 DEF RowsInv, NumbersFresh
  <2>4. QED
    BY <2>1, <2>2, <2>3
<1>3. EventsOwned'
  BY <1>1 DEF RowsInv, EventsOwned
<1>4. OutcomesEarned'
  BY <1>1 DEF RowsInv, OutcomesEarned, Earned, OfType
<1>5. OutcomesOnce'
  <2> SUFFICES ASSUME ~history.overlapped PROVE OutcomesOnce'
    BY <1>1 DEF OutcomesOnce
  <2>1. \A p, q \in Runs : pc'[p] # "idle" /\ pc'[q] # "idle" => p = q
    BY <1>1 DEF RowsInv, OutcomesOnce
  <2>2. QED
    BY <1>1, <2>1 DEF RowsInv, OutcomesOnce, OfType
<1>6. BatchesWhole'
  BY <1>1 DEF RowsInv, BatchesWhole
<1>7. QED
  BY <1>2, <1>3, <1>4, <1>5, <1>6 DEF RowsInv

\* What is written of a decision whose market resolved.
LEMMA NewOutcome ==
  ASSUME EventsOwned, NEW d \in Unsettled(db.decisions, db.events), NEW r,
         NEW e, e = [Settlement(d) EXCEPT !.by = r]
  PROVE  /\ IsEvent(e) /\ e.decision = d.id /\ e.type \in Outcomes
         /\ (e.type = "SETTLED_WIN") <=> (d.side = market[d.market])
<1> DEFINE fill == FillOf(d)
<1>1. fill \in Fills(db.events) /\ fill.decision = d.id
  <2>1. \E f \in Fills(db.events) : f.decision = d.id
    BY DEF Unsettled
  <2>2. QED
    BY <2>1 DEF FillOf
<1>2. IsEvent(fill)
  BY <1>1 DEF EventsOwned, Fills, OfType
<1> HIDE DEF fill
<1> DEFINE settled == SettledFill(d.side, fill, market[d.market])
<1>3. settled.type = IF d.side = market[d.market] THEN "SETTLED_WIN" ELSE "SETTLED_LOSS"
  BY DEF SettledFill
<1> HIDE DEF settled
<1>4. e = [[fill EXCEPT !.type = settled.type, !.pnl = settled.pnl,
                        !.at = bounds.batches] EXCEPT !.by = r]
  BY DEF Settlement, settled, fill
<1>5. IsEvent(e) /\ e.decision = fill.decision /\ e.type = settled.type
  BY <1>2, <1>4 DEF IsEvent
<1>6. QED
  BY <1>1, <1>3, <1>5 DEF Outcomes

\* A run settles fills that are committed and not settled.
LEMMA SettleKeepsRows ==
  ASSUME IInv, RowsInv, NEW r \in Runs, Settle(r) PROVE RowsInv'
<1>1. PICK failed \in SUBSET {d.market : d \in Unsettled(db.decisions, db.events)} :
        /\ bounds' = [bounds EXCEPT !.faults = @ + Cardinality(failed)]
        /\ rows' = [rows EXCEPT ![r].events =
             {[Settlement(d) EXCEPT !.by = r] :
                d \in {x \in Unsettled(db.decisions, db.events) :
                         Resolved(x.market) /\ x.market \notin failed}}]
  BY DEF Settle
<1> DEFINE ready == {x \in Unsettled(db.decisions, db.events) :
                       Resolved(x.market) /\ x.market \notin failed}
           new == {[Settlement(d) EXCEPT !.by = r] : d \in ready}
<1>2. /\ pc[r] = "settle" /\ pc'[r] = "collect"
      /\ \A q \in Runs \ {r} : pc'[q] = pc[q] /\ rows'[q] = rows[q]
      /\ rows'[r].events = new /\ rows'[r].decisions = {}
      /\ rows'[r].decisions = rows[r].decisions
      /\ UNCHANGED <<db, market, history>>
  BY <1>1 DEF Settle, IInv, Shapes, RowsOwn
<1>3. \A e \in new : \E d \in ready : e = [Settlement(d) EXCEPT !.by = r]
  OBVIOUS
<1>4. \A d \in ready : /\ d \in Unsettled(db.decisions, db.events)
                       /\ d \in db.decisions /\ market[d.market] \in Sides
                       /\ d.id \notin Settled(db.events)
                       /\ \E f \in Fills(db.events) : f.decision = d.id
  BY DEF Unsettled, Resolved
<1> HIDE DEF new, ready
<1>5. \A e \in new : \E d \in ready :
        /\ e = [Settlement(d) EXCEPT !.by = r]
        /\ IsEvent(e) /\ e.decision = d.id /\ e.type \in Outcomes
        /\ (e.type = "SETTLED_WIN") <=> (d.side = market[d.market])
  <2> SUFFICES ASSUME NEW e \in new
               PROVE  \E d \in ready :
                        /\ e = [Settlement(d) EXCEPT !.by = r]
                        /\ IsEvent(e) /\ e.decision = d.id /\ e.type \in Outcomes
                        /\ (e.type = "SETTLED_WIN") <=> (d.side = market[d.market])
    OBVIOUS
  <2>1. PICK d \in ready : e = [Settlement(d) EXCEPT !.by = r]
    BY <1>3
  <2>2. EventsOwned /\ d \in Unsettled(db.decisions, db.events)
    BY <1>4 DEF RowsInv
  <2>3. /\ IsEvent(e) /\ e.decision = d.id /\ e.type \in Outcomes
        /\ (e.type = "SETTLED_WIN") <=> (d.side = market[d.market])
    BY <2>1, <2>2, NewOutcome
  <2>4. QED
    BY <2>1, <2>3
<1>6. bounds' = [batches |-> bounds.batches, deploys |-> bounds'.deploys,
                 faults |-> bounds'.faults]
  BY <1>1 DEF RowsInv, Numbers
<1>7. Numbers'
  BY <1>2, <1>6 DEF RowsInv, Numbers
<1>8. IdsUnique'
  <2>1. \A q \in Runs : rows'[q].decisions = rows[q].decisions
    BY <1>2
  <2>2. QED
    BY <1>2, <1>6, <2>1 DEF RowsInv, IdsUnique, Own
<1>9. NumbersFresh'
  <2> SUFFICES ASSUME NEW d \in db.decisions, NEW q \in Runs, d.id[1] = q,
                      OpenMarkets # {}, pc'[q] \in {"settle", "collect"}
               PROVE  d.id[2] < bounds.batches
    BY <1>2, <1>6 DEF NumbersFresh, OpenMarkets
  <2>1. pc[q] \in {"settle", "collect"}
    BY <1>2
  <2>2. QED
    BY <2>1 DEF RowsInv, NumbersFresh
<1>10. EventsOwned'
  BY <1>2, <1>5 DEF RowsInv, EventsOwned
<1>11. OutcomesEarned'
  <2>1. \A e \in new : Earned(e)
    BY <1>4, <1>5 DEF Earned
  <2>2. QED
    BY <1>2, <2>1 DEF RowsInv, OutcomesEarned, Earned, OfType
<1>12. OutcomesOnce'
  <2> SUFFICES ASSUME ~history.overlapped PROVE OutcomesOnce'
    BY <1>2 DEF OutcomesOnce
  <2>1. \A p, q \in Runs : pc'[p] # "idle" /\ pc'[q] # "idle" => p = q
    BY <1>2 DEF RowsInv, OutcomesOnce
  <2>2. ASSUME NEW e \in new, NEW f \in new, e.decision = f.decision PROVE e = f
    BY <1>4, <1>5, <2>2 DEF RowsInv, IdsUnique
  <2>3. \A e \in new : e.decision \notin Settled(db.events)
    BY <1>4, <1>5
  <2>4. ASSUME NEW q \in Runs
        PROVE  \A e \in OfType(rows'[q].events, Outcomes) :
                 /\ e.decision \notin Settled(db.events)
                 /\ \A f \in OfType(rows'[q].events, Outcomes) :
                      e.decision = f.decision => e = f
    <3>1. CASE q = r
      BY <1>2, <2>2, <2>3, <3>1 DEF OfType
    <3>2. CASE q # r
      BY <1>2, <3>2 DEF RowsInv, OutcomesOnce
    <3>3. QED
      BY <3>1, <3>2
  <2>5. QED
    BY <1>2, <2>1, <2>4 DEF RowsInv, OutcomesOnce
<1>13. BatchesWhole'
  BY <1>2 DEF RowsInv, BatchesWhole
<1>14. QED
  BY <1>7, <1>8, <1>9, <1>10, <1>11, <1>12, <1>13 DEF RowsInv

\* What a run collects: for each open market and candidate a decision on the
\* book that was found, the event of the decision, and the book.
Collected(r, found, decisions, events, snapshots) ==
  /\ \A d \in decisions : \E m \in OpenMarkets, c \in Candidates :
       d = DecisionOn(r, m, c, found[m].book, found[m].stale)
  /\ \A m \in OpenMarkets : \A c \in Candidates :
       /\ DecisionOn(r, m, c, found[m].book, found[m].stale) \in decisions
       /\ EventOf(r, DecisionOn(r, m, c, found[m].book, found[m].stale),
                  found[m].stale, found[m].active) \in events
  /\ \A m \in OpenMarkets :
       Snapshot(m, bounds.batches, found[m].book) \in snapshots
  /\ \A e \in events : e \in rows[r].events \/ \E m \in OpenMarkets, c \in Candidates :
       e = EventOf(r, DecisionOn(r, m, c, found[m].book, found[m].stale),
                   found[m].stale, found[m].active)

LEMMA CollectWrites ==
  ASSUME IInv, NEW r \in Runs, Collect(r)
  PROVE  \E found \in [OpenMarkets -> Findings] :
           /\ Collected(r, found, rows'[r].decisions, rows'[r].events,
                        rows'[r].snapshots)
           /\ rows[r].events \subseteq rows'[r].events
           /\ \A q \in Runs \ {r} : rows'[q] = rows[q]
<1>1. PICK found \in [OpenMarkets -> Findings] :
        LET Batch(m) == {DecisionOn(r, m, c, found[m].book, found[m].stale) :
                           c \in Candidates}
        IN rows' = [rows EXCEPT
             ![r].decisions = UNION {Batch(m) : m \in OpenMarkets},
             ![r].events = @ \cup UNION
               {{EventOf(r, d, found[m].stale, found[m].active) :
                   d \in Batch(m)} : m \in OpenMarkets},
             ![r].snapshots =
               {Snapshot(m, bounds.batches, found[m].book) : m \in OpenMarkets}]
  BY DEF Collect
<1> DEFINE D(m, c) == DecisionOn(r, m, c, found[m].book, found[m].stale)
           E(m, d) == EventOf(r, d, found[m].stale, found[m].active)
           Batch(m) == {D(m, c) : c \in Candidates}
           taken == UNION {Batch(m) : m \in OpenMarkets}
           new == UNION {{E(m, d) : d \in Batch(m)} : m \in OpenMarkets}
           books == {Snapshot(m, bounds.batches, found[m].book) : m \in OpenMarkets}
<1>2. rows' = [rows EXCEPT ![r].decisions = taken, ![r].events = @ \cup new,
                           ![r].snapshots = books]
  BY <1>1
<1> HIDE DEF D, E
<1>3. /\ \A d \in taken : \E m \in OpenMarkets, c \in Candidates : d = D(m, c)
      /\ \A m \in OpenMarkets : \A c \in Candidates :
           D(m, c) \in taken /\ E(m, D(m, c)) \in new
      /\ \A m \in OpenMarkets : Snapshot(m, bounds.batches, found[m].book) \in books
      /\ \A e \in new : \E m \in OpenMarkets, c \in Candidates : e = E(m, D(m, c))
  <2>1. \A d \in taken : \E m \in OpenMarkets, c \in Candidates : d = D(m, c)
    OBVIOUS
  <2>2. ASSUME NEW m \in OpenMarkets, NEW c \in Candidates
        PROVE  D(m, c) \in taken /\ E(m, D(m, c)) \in new
    <3>1. D(m, c) \in Batch(m)
      OBVIOUS
    <3>2. D(m, c) \in taken
      BY <3>1
    <3>3. E(m, D(m, c)) \in {E(m, d) : d \in Batch(m)}
      BY <3>1
    <3>4. E(m, D(m, c)) \in new
      BY <3>3
    <3>5. QED
      BY <3>2, <3>4
  <2>3. \A m \in OpenMarkets : Snapshot(m, bounds.batches, found[m].book) \in books
    OBVIOUS
  <2>4. \A e \in new : \E m \in OpenMarkets, c \in Candidates : e = E(m, D(m, c))
    OBVIOUS
  <2>5. QED
    BY <2>1, <2>2, <2>3, <2>4
<1> HIDE DEF Batch, taken, new, books
<1>4. /\ rows'[r].decisions = taken /\ rows'[r].events = rows[r].events \cup new
      /\ rows'[r].snapshots = books /\ \A q \in Runs \ {r} : rows'[q] = rows[q]
  BY <1>2 DEF IInv, Shapes
<1>5. Collected(r, found, taken, rows[r].events \cup new, books)
  BY <1>3 DEF Collected, D, E
<1>6. QED
  BY <1>4, <1>5

\* Which decision a number stands for, and what is recorded of it.
LEMMA CollectedWhole ==
  ASSUME Numbers, EventsOwned, NEW r \in Runs, rows[r].decisions = {},
         NEW found \in [OpenMarkets -> Findings],
         NEW decisions, NEW events, NEW snapshots,
         Collected(r, found, decisions, events, snapshots),
         NEW d \in decisions
  PROVE  /\ d.id[1] = r /\ d.id[2] = bounds.batches /\ Own(d) /\ OpenMarkets # {}
         /\ \A x \in decisions : x.id = d.id => x = d
         /\ Whole(d, decisions, events, snapshots)
<1> DEFINE D(m, c) == DecisionOn(r, m, c, found[m].book, found[m].stale)
           E(m, c) == EventOf(r, D(m, c), found[m].stale, found[m].active)
<1>1. PICK m \in OpenMarkets, c \in Candidates : d = D(m, c)
  BY DEF Collected
<1>2. \A n \in OpenMarkets : \A k \in Candidates :
        D(n, k) \in decisions /\ E(n, k) \in events
  BY DEF Collected
<1>3. \A x \in decisions : \E n \in OpenMarkets, k \in Candidates : x = D(n, k)
  BY DEF Collected
<1>4. \A e \in events : e \in rows[r].events
                          \/ \E n \in OpenMarkets, k \in Candidates : e = E(n, k)
  BY DEF Collected
<1>5. Snapshot(m, bounds.batches, found[m].book) \in snapshots
  BY DEF Collected
<1>6. ASSUME NEW n \in OpenMarkets, NEW k \in Candidates
      PROVE  AsRecorded(r, n, k, found[n], D(n, k), E(n, k))
  <2> DEFINE f == found[n]
             x == D(n, k)
             e == E(n, k)
  <2>1. f \in Findings
    OBVIOUS
  <2>2. x = DecisionOn(r, n, k, f.book, f.stale) /\ e = EventOf(r, x, f.stale, f.active)
    OBVIOUS
  <2> HIDE DEF f, x, e
  <2>3. AsRecorded(r, n, k, f, x, e)
    BY <2>1, <2>2, NewDecision
  <2>4. QED
    BY <2>3 DEF f, x, e
<1> HIDE DEF D, E
<1>7. \A x \in decisions : x.id = d.id => x = d
  <2> SUFFICES ASSUME NEW x \in decisions, x.id = d.id PROVE x = d
    OBVIOUS
  <2>1. PICK n \in OpenMarkets, k \in Candidates : x = D(n, k)
    BY <1>3
  <2>2. <<r, bounds.batches, n, k>> = <<r, bounds.batches, m, c>>
    BY <1>1, <1>6, <2>1 DEF AsRecorded
  <2>3. QED
    BY <1>1, <2>1, <2>2
<1>8. \A f \in events : f.decision = d.id /\ f.type \notin Outcomes => f = E(m, c)
  <2> SUFFICES ASSUME NEW f \in events, f.decision = d.id, f.type \notin Outcomes
               PROVE  f = E(m, c)
    OBVIOUS
  <2>1. f \notin rows[r].events
    BY DEF EventsOwned
  <2>2. PICK n \in OpenMarkets, k \in Candidates : f = E(n, k)
    BY <1>4, <2>1
  <2>3. <<r, bounds.batches, n, k>> = <<r, bounds.batches, m, c>>
    BY <1>1, <1>6, <2>2 DEF AsRecorded
  <2>4. QED
    BY <2>2, <2>3
<1>9. Whole(d, decisions, events, snapshots)
  <2>1. \E e \in events :
          /\ e.decision = d.id /\ e.type \notin Outcomes
          /\ \A f \in events : f.decision = d.id /\ f.type \notin Outcomes => f = e
    <3>1. E(m, c) \in events /\ E(m, c).decision = d.id /\ E(m, c).type \notin Outcomes
      BY <1>1, <1>2, <1>6 DEF AsRecorded
    <3>2. QED
      BY <1>8, <3>1
  <2>2. \E s \in snapshots : s.market = d.market /\ s.batch = d.id[2] /\ s.book = d.book
    <3>1. d.market = m /\ d.id[2] = bounds.batches /\ d.book = found[m].book
      BY <1>1, <1>6 DEF AsRecorded
    <3>2. QED
      BY <1>5, <3>1 DEF Snapshot
  <2>3. \A k \in Candidates : \E x \in decisions :
          x.id = <<d.id[1], d.id[2], d.market, k>> /\ x.book = d.book
    <3> SUFFICES ASSUME NEW k \in Candidates
                 PROVE  \E x \in decisions :
                          x.id = <<d.id[1], d.id[2], d.market, k>> /\ x.book = d.book
      OBVIOUS
    <3>1. /\ d.market = m /\ d.id[2] = bounds.batches /\ d.id[1] = r
          /\ d.book = found[m].book
      BY <1>1, <1>6 DEF AsRecorded
    <3>2. /\ D(m, k) \in decisions /\ D(m, k).book = found[m].book
          /\ D(m, k).id = <<r, bounds.batches, m, k>>
      BY <1>2, <1>6 DEF AsRecorded
    <3>3. QED
      BY <3>1, <3>2
  <2>4. ASSUME d.rejection = "NONE", NEW e \in OfType(events, Orders), e.decision = d.id
        PROVE  IF e.active
               THEN /\ e.type = "FILLED" /\ e.filled = IntendedQuantity
                    /\ e.price <= d.limit
               ELSE e.type = "NO_FILL"
    <3>1. e \in events /\ e.type \notin Outcomes
      BY DEF OfType, Orders, Outcomes
    <3>2. e = E(m, c)
      BY <1>8, <2>4, <3>1
    <3>3. QED
      BY <1>1, <1>6, <2>4, <3>2 DEF AsRecorded
  <2>5. QED
    BY <2>1, <2>2, <2>3, <2>4 DEF Whole
<1>10. QED
  BY <1>1, <1>6, <1>7, <1>9 DEF AsRecorded

\* A run decides on the open markets under a number of its own.
LEMMA CollectKeepsRows ==
  ASSUME IInv, RowsInv, NEW r \in Runs, Collect(r) PROVE RowsInv'
<1>1. PICK found \in [OpenMarkets -> Findings] :
        /\ Collected(r, found, rows'[r].decisions, rows'[r].events, rows'[r].snapshots)
        /\ rows[r].events \subseteq rows'[r].events
        /\ \A q \in Runs \ {r} : rows'[q] = rows[q]
  BY CollectWrites
<1>2. /\ pc[r] = "collect" /\ pc'[r] = "policy" /\ \A q \in Runs \ {r} : pc'[q] = pc[q]
      /\ UNCHANGED <<db, market, history, bounds>> /\ rows[r].decisions = {}
  BY DEF Collect, IInv, Shapes, RowsOwn
<1>3. ASSUME NEW d \in rows'[r].decisions
      PROVE  /\ d.id[1] = r /\ d.id[2] = bounds.batches /\ Own(d) /\ OpenMarkets # {}
             /\ \A x \in rows'[r].decisions : x.id = d.id => x = d
             /\ Whole(d, rows'[r].decisions, rows'[r].events, rows'[r].snapshots)
  BY <1>1, <1>2, CollectedWhole DEF RowsInv
<1>4. ASSUME NEW e \in rows'[r].events, e \notin rows[r].events
      PROVE  /\ IsEvent(e) /\ e.type \notin Outcomes
             /\ \E d \in rows'[r].decisions : d.id = e.decision
  <2>1. PICK m \in OpenMarkets, c \in Candidates :
          e = EventOf(r, DecisionOn(r, m, c, found[m].book, found[m].stale),
                      found[m].stale, found[m].active)
    BY <1>1, <1>4 DEF Collected
  <2> DEFINE f == found[m]
             d == DecisionOn(r, m, c, f.book, f.stale)
  <2>2. f \in Findings /\ d = DecisionOn(r, m, c, f.book, f.stale)
        /\ e = EventOf(r, d, f.stale, f.active)
    BY <2>1
  <2>3. d \in rows'[r].decisions
    BY <1>1 DEF Collected
  <2> HIDE DEF f, d
  <2>4. AsRecorded(r, m, c, f, d, e)
    BY <2>2, NewDecision DEF RowsInv
  <2>5. QED
    BY <2>3, <2>4 DEF AsRecorded
<1>5. Numbers'
  BY <1>2 DEF RowsInv, Numbers
<1>6. IdsUnique'
  <2>1. \A d \in db.decisions : Own(d)' /\ \A e \in db.decisions : e.id = d.id => e = d
    BY <1>2 DEF RowsInv, IdsUnique, Own
  <2>2. ASSUME NEW q \in Runs, NEW d \in rows'[q].decisions
        PROVE  /\ Own(d)' /\ d.id[1] = q
               /\ \A e \in rows'[q].decisions : e.id = d.id => e = d
               /\ \A e \in db.decisions : e.id # d.id
    <3>1. CASE q = r
      <4>1. Own(d)' /\ d.id[1] = r /\ \A e \in rows'[q].decisions : e.id = d.id => e = d
        BY <1>2, <1>3, <3>1, <2>2 DEF Own
      <4>2. ASSUME NEW e \in db.decisions, e.id = d.id PROVE FALSE
        <5>1. e.id[1] = r /\ e.id[2] = bounds.batches /\ OpenMarkets # {}
          BY <1>3, <3>1, <2>2, <4>2
        <5>2. e.id[2] < bounds.batches /\ bounds.batches \in 0..MaxBatches
          BY <1>2, <5>1 DEF RowsInv, NumbersFresh, Numbers
        <5>3. QED
          BY <5>1, <5>2, EvidenceAssumption
      <4>3. QED
        BY <3>1, <4>1, <4>2
    <3>2. CASE q # r
      BY <1>1, <1>2, <3>2, <2>2 DEF RowsInv, IdsUnique, Own
    <3>3. QED
      BY <3>1, <3>2
  <2>3. QED
    BY <1>2, <2>1, <2>2 DEF IdsUnique
<1>7. NumbersFresh'
  <2> SUFFICES ASSUME NEW d \in db.decisions, NEW q \in Runs, d.id[1] = q,
                      OpenMarkets # {}, pc'[q] \in {"settle", "collect"}
               PROVE  d.id[2] < bounds.batches
    BY <1>2 DEF NumbersFresh, OpenMarkets
  <2>1. pc[q] \in {"settle", "collect"}
    BY <1>2
  <2>2. QED
    BY <2>1 DEF RowsInv, NumbersFresh
<1>8. EventsOwned'
  <2>1. ASSUME NEW q \in Runs, NEW e \in rows'[q].events
        PROVE  /\ IsEvent(e) /\ pc'[q] \in {"collect", "policy"}
               /\ e.type \notin Outcomes => \E d \in rows'[q].decisions : d.id = e.decision
    <3>1. CASE q = r /\ e \notin rows[r].events
      BY <1>2, <1>4, <2>1, <3>1
    <3>2. CASE q = r /\ e \in rows[r].events
      BY <1>2, <3>2 DEF RowsInv, EventsOwned
    <3>3. CASE q # r
      BY <1>1, <1>2, <2>1, <3>3 DEF RowsInv, EventsOwned
    <3>4. QED
      BY <3>1, <3>2, <3>3
  <2>2. QED
    BY <1>2, <2>1 DEF RowsInv, EventsOwned
<1>9. \A q \in Runs : OfType(rows'[q].events, Outcomes) = OfType(rows[q].events, Outcomes)
  <2>1. OfType(rows'[r].events, Outcomes) = OfType(rows[r].events, Outcomes)
    BY <1>1, <1>4 DEF OfType
  <2>2. QED
    BY <1>1, <2>1
<1>10. OutcomesEarned'
  BY <1>2, <1>9 DEF RowsInv, OutcomesEarned, Earned
<1>11. OutcomesOnce'
  <2> SUFFICES ASSUME ~history.overlapped PROVE OutcomesOnce'
    BY <1>2 DEF OutcomesOnce
  <2>1. \A p, q \in Runs : pc'[p] # "idle" /\ pc'[q] # "idle" => p = q
    BY <1>2 DEF RowsInv, OutcomesOnce
  <2>2. QED
    BY <1>2, <1>9, <2>1 DEF RowsInv, OutcomesOnce
<1>12. BatchesWhole'
  <2>1. ASSUME NEW q \in Runs, NEW d \in rows'[q].decisions
        PROVE  Whole(d, rows'[q].decisions, rows'[q].events, rows'[q].snapshots)
    BY <1>1, <1>3, <2>1 DEF RowsInv, BatchesWhole
  <2>2. QED
    BY <1>2, <2>1 DEF RowsInv, BatchesWhole
<1>13. QED
  BY <1>5, <1>6, <1>7, <1>8, <1>10, <1>11, <1>12 DEF RowsInv

\* What is written whole stays so beside the rows of others.
LEMMA WholeJoins ==
  ASSUME NEW d, NEW decisions, NEW events, NEW snapshots,
         Whole(d, decisions, events, snapshots),
         NEW D, decisions \subseteq D, NEW E, events \subseteq E,
         NEW S, snapshots \subseteq S,
         \A f \in E \ events : f.decision = d.id => f.type \in Outcomes
  PROVE  Whole(d, D, E, S)
<1>1. PICK e \in events :
        /\ e.decision = d.id /\ e.type \notin Outcomes
        /\ \A f \in events : f.decision = d.id /\ f.type \notin Outcomes => f = e
  BY DEF Whole
<1>2. \A f \in E : f.decision = d.id /\ f.type \notin Outcomes => f = e
  BY <1>1
<1>3. \A f \in OfType(E, Orders) : f.decision = d.id => f \in OfType(events, Orders)
  BY <1>1, <1>2 DEF OfType, Orders, Outcomes
<1>4. /\ \E s \in S : s.market = d.market /\ s.batch = d.id[2] /\ s.book = d.book
      /\ \A c \in Candidates : \E x \in D :
           x.id = <<d.id[1], d.id[2], d.market, c>> /\ x.book = d.book
  BY DEF Whole
<1>5. d.rejection = "NONE" =>
        \A f \in OfType(E, Orders) : f.decision = d.id =>
          IF f.active
          THEN f.type = "FILLED" /\ f.filled = IntendedQuantity /\ f.price <= d.limit
          ELSE f.type = "NO_FILL"
  BY <1>3 DEF Whole
<1>6. QED
  BY <1>1, <1>2, <1>4, <1>5 DEF Whole

\* A commit brings decisions of new numbers, and outcomes nobody has.
LEMMA CommitKeepsRows ==
  ASSUME IInv, RowsInv, NEW r \in Runs, Commit(r) PROVE RowsInv'
<1>1. /\ pc[r] = "policy" /\ pc'[r] = "idle"
      /\ \A q \in Runs \ {r} : pc'[q] = pc[q] /\ rows'[q] = rows[q]
      /\ rows'[r].decisions = {} /\ rows'[r].events = {}
      /\ db'.decisions = db.decisions \cup rows[r].decisions
      /\ db'.events = db.events \cup rows[r].events
      /\ db'.snapshots = db.snapshots \cup rows[r].snapshots
      /\ UNCHANGED <<market, history, bounds>>
  BY DEF Commit, IInv, Shapes, Nothing
<1>2. Numbers'
  BY <1>1 DEF RowsInv, Numbers
<1>3. \A d : Own(d)' <=> Own(d)
  BY <1>1 DEF Own
<1>4. IdsUnique'
  <2>1. ASSUME NEW d \in db'.decisions
        PROVE  Own(d)' /\ \A e \in db'.decisions : e.id = d.id => e = d
    BY <1>1, <1>3 DEF RowsInv, IdsUnique
  <2>2. ASSUME NEW q \in Runs, NEW d \in rows'[q].decisions
        PROVE  /\ Own(d)' /\ d.id[1] = q
               /\ \A e \in rows'[q].decisions : e.id = d.id => e = d
               /\ \A e \in db'.decisions : e.id # d.id
    <3>1. q # r
      BY <1>1, <2>2
    <3>2. /\ Own(d)' /\ d.id[1] = q
          /\ \A e \in rows'[q].decisions : e.id = d.id => e = d
      BY <1>1, <1>3, <3>1, <2>2 DEF RowsInv, IdsUnique
    <3>3. \A e \in rows[r].decisions : e.id[1] = r
      BY DEF RowsInv, IdsUnique
    <3>4. \A e \in db.decisions : e.id # d.id
      BY <1>1, <3>1, <2>2 DEF RowsInv, IdsUnique
    <3>5. QED
      BY <1>1, <3>1, <3>2, <3>3, <3>4
  <2>3. QED
    BY <2>1, <2>2 DEF IdsUnique
<1>5. NumbersFresh'
  <2> SUFFICES ASSUME NEW d \in db'.decisions, NEW q \in Runs, d.id[1] = q,
                      OpenMarkets # {}, pc'[q] \in {"settle", "collect"}
               PROVE  d.id[2] < bounds.batches
    BY <1>1 DEF NumbersFresh, OpenMarkets
  <2>1. q # r /\ pc[q] \in {"settle", "collect"}
    BY <1>1
  <2>2. d \in db.decisions
    BY <1>1, <2>1 DEF RowsInv, IdsUnique
  <2>3. QED
    BY <2>1, <2>2 DEF RowsInv, NumbersFresh
<1>6. EventsOwned'
  <2>1. ASSUME NEW e \in rows[r].events PROVE \E d \in db'.decisions : d.id = e.decision
    <3>1. CASE e.type \in Outcomes
      BY <1>1, <3>1 DEF RowsInv, OutcomesEarned, Earned, OfType
    <3>2. CASE e.type \notin Outcomes
      BY <1>1, <3>2 DEF RowsInv, EventsOwned
    <3>3. QED
      BY <3>1, <3>2
  <2>2. ASSUME NEW e \in db'.events PROVE IsEvent(e) /\ \E d \in db'.decisions : d.id = e.decision
    BY <1>1, <2>1 DEF RowsInv, EventsOwned
  <2>3. ASSUME NEW q \in Runs, NEW e \in rows'[q].events
        PROVE  /\ IsEvent(e) /\ pc'[q] \in {"collect", "policy"}
               /\ e.type \notin Outcomes => \E d \in rows'[q].decisions : d.id = e.decision
    <3>1. q # r
      BY <1>1, <2>3
    <3>2. QED
      BY <1>1, <2>3, <3>1 DEF RowsInv, EventsOwned
  <2>4. QED
    BY <2>2, <2>3 DEF EventsOwned
<1>7. OutcomesEarned'
  <2>1. ASSUME NEW e, Earned(e) PROVE Earned(e)'
    BY <1>1, <2>1 DEF Earned, Fills, OfType
  <2>2. \A e \in OfType(db'.events, Outcomes) : Earned(e)
    BY <1>1 DEF RowsInv, OutcomesEarned, OfType
  <2>3. \A q \in Runs : \A e \in OfType(rows'[q].events, Outcomes) : Earned(e)
    BY <1>1 DEF RowsInv, OutcomesEarned, OfType
  <2>4. QED
    BY <2>1, <2>2, <2>3 DEF OutcomesEarned
<1>8. OutcomesOnce'
  <2> SUFFICES ASSUME ~history.overlapped PROVE OutcomesOnce'
    BY <1>1 DEF OutcomesOnce
  <2>1. \A q \in Runs \ {r} : pc[q] = "idle"
    BY <1>1 DEF RowsInv, OutcomesOnce
  <2>2. \A p, q \in Runs : pc'[p] # "idle" /\ pc'[q] # "idle" => p = q
    BY <1>1, <2>1
  <2>3. \A q \in Runs : rows'[q].events = {}
    BY <1>1, <2>1 DEF RowsInv, EventsOwned
  <2>4. ASSUME NEW e \in OfType(db'.events, Outcomes), NEW f \in OfType(db'.events, Outcomes),
               e.decision = f.decision
        PROVE  e = f
    <3>1. /\ e \in OfType(db.events, Outcomes) \/ e \in OfType(rows[r].events, Outcomes)
          /\ f \in OfType(db.events, Outcomes) \/ f \in OfType(rows[r].events, Outcomes)
      BY <1>1 DEF OfType
    <3>2. /\ \A x \in OfType(rows[r].events, Outcomes) : x.decision \notin Settled(db.events)
          /\ \A x \in OfType(db.events, Outcomes) : x.decision \in Settled(db.events)
      BY DEF RowsInv, OutcomesOnce, Settled
    <3>3. CASE e \in OfType(db.events, Outcomes)
      BY <2>4, <3>1, <3>2, <3>3 DEF RowsInv, OutcomesOnce
    <3>4. CASE e \in OfType(rows[r].events, Outcomes)
      BY <2>4, <3>1, <3>2, <3>4 DEF RowsInv, OutcomesOnce
    <3>5. QED
      BY <3>1, <3>3, <3>4
  <2>5. \A q \in Runs : OfType(rows'[q].events, Outcomes) = {}
    BY <2>3 DEF OfType
  <2>6. QED
    BY <2>2, <2>4, <2>5 DEF OutcomesOnce
<1>9. BatchesWhole'
  <2>1. ASSUME NEW d \in db.decisions
        PROVE  Whole(d, db'.decisions, db'.events, db'.snapshots)
    <3>1. \A f \in rows[r].events : f.decision = d.id => f.type \in Outcomes
      BY DEF RowsInv, EventsOwned, IdsUnique
    <3>2. Whole(d, db.decisions, db.events, db.snapshots)
      BY DEF RowsInv, BatchesWhole
    <3>3. \A f \in db'.events \ db.events : f.decision = d.id => f.type \in Outcomes
      BY <1>1, <3>1
    <3>4. QED
      BY <1>1, <3>2, <3>3, WholeJoins
  <2>2. ASSUME NEW d \in rows[r].decisions
        PROVE  Whole(d, db'.decisions, db'.events, db'.snapshots)
    <3>1. \A f \in db.events : f.decision # d.id
      BY DEF RowsInv, EventsOwned, IdsUnique
    <3>2. Whole(d, rows[r].decisions, rows[r].events, rows[r].snapshots)
      BY DEF RowsInv, BatchesWhole
    <3>3. \A f \in db'.events \ rows[r].events : f.decision = d.id => f.type \in Outcomes
      BY <1>1, <3>1
    <3>4. QED
      BY <1>1, <3>2, <3>3, WholeJoins
  <2>3. QED
    BY <1>1, <2>1, <2>2 DEF RowsInv, BatchesWhole
<1>10. QED
  BY <1>2, <1>4, <1>5, <1>6, <1>7, <1>8, <1>9 DEF RowsInv

LEMMA RowsHold == Spec => []RowsInv
<1>1. Init => RowsInv
  BY RowsStart
<1>2. IInv /\ RowsInv /\ [Next]_vars => RowsInv'
  <2> SUFFICES ASSUME IInv, RowsInv, [Next]_vars PROVE RowsInv'
    OBVIOUS
  <2>0. bounds = [batches |-> bounds.batches, deploys |-> bounds.deploys,
                  faults |-> bounds.faults]
    BY DEF RowsInv, Numbers
  <2>1. ASSUME NEW r \in Runs, Refused(r) \/ Crash(r) PROVE RowsInv'
    <3>1. RolledBack(r) /\ bounds' = [batches |-> bounds.batches,
            deploys |-> bounds'.deploys, faults |-> bounds'.faults]
      BY <2>0, <2>1 DEF Refused, Crash
    <3>2. QED
      BY <3>1, RollbackKeepsRows
  <2>2. ASSUME NEW m \in Markets, Close(m) \/ Finalize(m) PROVE RowsInv'
    BY <2>2, MarketKeepsRows DEF Close, Finalize, Move
  <2>3. ASSUME NEW c \in Commits, Deploy(c) PROVE RowsInv'
    <3>1. bounds' = [batches |-> bounds.batches, deploys |-> bounds'.deploys,
                     faults |-> bounds'.faults]
      BY <2>0, <2>3 DEF Deploy
    <3>2. history'.overlapped = history.overlapped /\ UNCHANGED <<db, pc, rows, market>>
      BY <2>3 DEF Deploy, IInv, Shapes
    <3>3. QED
      BY <3>1, <3>2, ElsewhereKeepsRows
  <2>4. CASE ReportReadiness \/ ReportProfessional \/ UNCHANGED vars
    <3>1. UNCHANGED <<db, pc, rows, market, history, bounds>>
      BY <2>4 DEF ReportReadiness, ReportProfessional, vars
    <3>2. QED
      BY <2>0, <3>1, ElsewhereKeepsRows
  <2>5. QED
    BY <2>1, <2>2, <2>3, <2>4, BeginKeepsRows, SettleKeepsRows, CollectKeepsRows,
       CommitKeepsRows DEF Next
<1>3. QED
  BY <1>1, <1>2, Invariant, PTL DEF Spec

\* A paper fill is settled by one event, and for what its market resolved to,
\* unless two runs were under way at a time (repository.py:
\* unsettled_paper_fills; collector.py: settle_paper_results).
THEOREM SettlesOnce == Spec => []SettledOnce
<1>1. RowsInv => SettledOnce
  <2> SUFFICES ASSUME RowsInv, NEW e \in OfType(db.events, Outcomes)
               PROVE  /\ \E f \in Fills(db.events) : f.decision = e.decision
                      /\ \A d \in db.decisions : d.id = e.decision =>
                           (e.type = "SETTLED_WIN") <=> (d.side = market[d.market])
                      /\ \A f \in OfType(db.events, Outcomes) :
                           f.decision = e.decision => f = e \/ history.overlapped
    BY DEF SettledOnce
  <2>1. Earned(e)
    BY DEF RowsInv, OutcomesEarned
  <2>2. \E f \in Fills(db.events) : f.decision = e.decision
    BY <2>1 DEF Earned
  <2>3. ASSUME NEW d \in db.decisions, d.id = e.decision
        PROVE  (e.type = "SETTLED_WIN") <=> (d.side = market[d.market])
    <3>1. PICK x \in db.decisions :
            /\ x.id = e.decision
            /\ (e.type = "SETTLED_WIN") <=> (x.side = market[x.market])
      BY <2>1 DEF Earned
    <3>2. x = d
      BY <2>3, <3>1 DEF RowsInv, IdsUnique
    <3>3. QED
      BY <3>1, <3>2
  <2>4. \A f \in OfType(db.events, Outcomes) :
          f.decision = e.decision => f = e \/ history.overlapped
    BY DEF RowsInv, OutcomesOnce
  <2>5. QED
    BY <2>2, <2>3, <2>4
<1>2. QED
  BY <1>1, RowsHold, PTL

\* A batch is recorded whole: both candidates decide on one recorded book of a
\* market, each with one order event, and an eligible decision is filled in
\* full, within its limit, unless the market was not active (collector.py:
\* collect_decisions, _decision, _paper_event; execution.py:
\* conservative_fill).
THEOREM BatchesAreWhole == Spec => []BatchesHold
<1>1. RowsInv => BatchesHold
  <2> SUFFICES ASSUME RowsInv PROVE BatchesHold
    OBVIOUS
  <2>1. ASSUME NEW d \in db.decisions
        PROVE  Cardinality({e \in db.events : e.decision = d.id
                                                /\ e.type \notin Outcomes}) = 1
    <3>1. PICK e \in db.events :
            /\ e.decision = d.id /\ e.type \notin Outcomes
            /\ \A f \in db.events : f.decision = d.id /\ f.type \notin Outcomes => f = e
      BY DEF RowsInv, BatchesWhole, Whole
    <3>2. {x \in db.events : x.decision = d.id /\ x.type \notin Outcomes} = {e}
      BY <3>1
    <3>3. QED
      BY <3>2, FS_Singleton
  <2>2. \A d \in db.decisions : Whole(d, db.decisions, db.events, db.snapshots)
    BY DEF RowsInv, BatchesWhole
  <2>3. QED
    BY <2>1, <2>2 DEF BatchesHold, Whole
<1>2. QED
  BY <1>1, RowsHold, PTL
=============================================================================
