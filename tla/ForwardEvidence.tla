-------------------------- MODULE ForwardEvidence --------------------------
(***************************************************************************)
(* The forward test of the frozen research candidates: the manifests that  *)
(* freeze a candidate's code, the collector that records decisions, paper  *)
(* fills and settlements (scripts/run_forward_evidence_collector.py,       *)
(* trading_readiness/collector.py), and the reports that write the         *)
(* manifests (freeze.py, professional_freeze.py).                          *)
(*                                                                         *)
(* A run of the collector is one transaction; the scheduler, a person and  *)
(* a deployment do not wait for one another.  Two hashed sets of files are *)
(* told apart: the collector's, frozen under the candidates' versions, and *)
(* the professional decision's, frozen under a policy version.             *)
(***************************************************************************)
EXTENDS Readiness

CONSTANTS Runs,        \* runs of the collector that may overlap
          Markets,     \* markets with an alert, each of its own event
          AlertOf,     \* the alert of a market: [model, city, lead, observed]
          Findings,    \* what a run may find of a market
          First,       \* the commit the forward test starts with
          Commits,     \* what may be deployed later, made by CommitOf
          Study,       \* what the backtest found, see Readiness
          MaxBatches,  \* bound: runs that collect decisions
          MaxDeploys,  \* bound: deployments
          MaxFaults,   \* bound: failed market calls and killed runs
          DayOf        \* the day a batch falls on: [1 .. MaxBatches -> Nat]

\* A finding: a market's book, whether its status was fetched as active, and
\* whether the book is stale by the time it is decided on.

\* A commit: the collector's code, the professional code and its version, and
\* the manifests it tracks (NoFile when it has none).
NoFile == "none"
NoPolicy == [version |-> NoFile, code |-> NoFile]
CommitOf(code, policy, manifest, freeze) ==
  [code |-> code, policy |-> policy, manifest |-> manifest, freeze |-> freeze]

ASSUME EvidenceAssumption ==
  /\ {MaxBatches, MaxDeploys, MaxFaults} \subseteq Nat
  /\ Runs # {}
  /\ DayOf \in [1 .. MaxBatches -> Nat]
  /\ \A c \in Commits \cup {First} : c.code # NoFile
  /\ \A m \in Markets : AlertOf[m].model \in Int
  /\ \A f \in Findings :
       /\ {f.active, f.stale} \subseteq BOOLEAN
       /\ DOMAIN f.book = Sides
       /\ \A s \in Sides : /\ f.book[s] \subseteq [price : Int, quantity : Int]
                            /\ BidLadder(f.book[s])

VARIABLES
  commit,    \* what is deployed
  files,     \* the droplet's manifests and the archived policy manifests
  db,        \* the committed rows
  pc,        \* where each run is
  loaded,    \* the commit a run executes
  rows,      \* what a run has written and not committed
  market,    \* external: open, closed, or the finalized result
  history,   \* a manifest was replaced, two runs overlapped
  bounds     \* batches, deployments and faults so far

vars == <<commit, files, db, pc, loaded, rows, market, history, bounds>>

Nothing == [decisions |-> {}, events |-> {}, snapshots |-> {}]

Init ==
  /\ commit = First
  /\ files = [manifest |-> commit.manifest, freeze |-> commit.freeze,
              archive |-> {}]
  /\ db = [freezes |-> {}, policies |-> {}, decisions |-> {}, events |-> {},
           snapshots |-> {}]
  /\ pc = [r \in Runs |-> "idle"]
  /\ loaded = [r \in Runs |-> commit]
  /\ rows = [r \in Runs |-> Nothing]
  /\ market = [m \in Markets |-> "open"]
  /\ history = [replaced |-> FALSE, overlapped |-> FALSE]
  /\ bounds = [batches |-> 0, deploys |-> 0, faults |-> 0]

---------------------------------------------------------------------------
(* Deployments and reports: the manifests                                  *)

\* git reset --hard: a tracked file is overwritten, one that is not tracked
\* any more is removed, and any other file is left alone.
Checkout(file, old, new, nothing) ==
  IF new # nothing \/ old # nothing THEN new ELSE file

Deploy(c) ==
  LET manifest == Checkout(files.manifest, commit.manifest, c.manifest,
                           NoFile)
  IN
  /\ c # commit
  /\ bounds.deploys < MaxDeploys
  /\ bounds' = [bounds EXCEPT !.deploys = @ + 1]
  /\ commit' = c
  /\ files' = [files EXCEPT !.manifest = manifest,
                 !.freeze = Checkout(@, commit.freeze, c.freeze,
                                              NoPolicy)]
  /\ history' = [history EXCEPT !.replaced =
                   @ \/ (files.manifest # NoFile /\ manifest # files.manifest)]
  /\ UNCHANGED <<db, pc, loaded, rows, market>>

\* persist_freeze_manifest: written once; raises when a candidate differs.
Refrozen(manifest, code) == IF manifest = NoFile THEN code ELSE manifest

ReportReadiness ==
  /\ files' = [files EXCEPT !.manifest = Refrozen(@, commit.code)]
  /\ files' # files
  /\ UNCHANGED <<commit, db, pc, loaded, rows, market, history, bounds>>

\* persist_professional_freeze: a new version archives the manifest it
\* replaces, if no other is archived under its name.
ArchiveAgrees(freeze) ==
  \A a \in files.archive : a.version = freeze.version => a = freeze

ReportProfessional ==
  LET requested == commit.policy IN
  /\ files.freeze # requested
  /\ \/ /\ files.freeze = NoPolicy
        /\ files' = [files EXCEPT !.freeze = requested]
     \/ /\ files.freeze # NoPolicy
        /\ files.freeze.version # requested.version
        /\ ArchiveAgrees(files.freeze)
        /\ files' = [files EXCEPT !.archive = @ \cup {files.freeze},
                                  !.freeze = requested]
  /\ UNCHANGED <<commit, db, pc, loaded, rows, market, history, bounds>>

---------------------------------------------------------------------------
(* A run of the collector                                                  *)

\* Faulty: that there are manifests is enough.
FreezeExists ==
  /\ files.manifest # NoFile
  /\ files.freeze # NoPolicy

\* run: the manifests exist and agree with the code.
FreezeHolds ==
  /\ files.manifest = commit.code
  /\ files.freeze = commit.policy

OpenMarkets == {m \in Markets : market[m] = "open"}

\* insert_freezes, committed at once; a version's first row stays.
Begin(r) ==
  /\ pc[r] = "idle"
  /\ FreezeHolds
  /\ bounds.batches < MaxBatches \/ OpenMarkets = {}
  /\ pc' = [pc EXCEPT ![r] = "settle"]
  /\ loaded' = [loaded EXCEPT ![r] = commit]
  /\ db' = [db EXCEPT !.freezes = IF @ = {} THEN {files.manifest} ELSE @]
  /\ history' = [history EXCEPT !.overlapped =
                   @ \/ \E q \in Runs : pc[q] # "idle"]
  /\ bounds' = [bounds EXCEPT !.batches = Min({@ + 1, MaxBatches})]
  /\ UNCHANGED <<commit, files, rows, market>>

Fills(events) == OfType(events, {"FILLED", "PARTIAL_FILL"})

\* Faulty: every decision that was ever filled.
EverFilled(decisions, events) ==
  {d \in decisions : \E e \in Fills(events) : e.decision = d.id}

\* unsettled_paper_fills: the decisions whose last event is a fill.
Settled(events) == {e.decision : e \in OfType(events, Outcomes)}
Unsettled(decisions, events) ==
  {d \in decisions : /\ \E e \in Fills(events) : e.decision = d.id
                     /\ d.id \notin Settled(events)}

\* Faulty: only a market that resolved to YES.
ResolvedYes(m) == market[m] = "YES"

\* A market that the collector takes for settled.
Resolved(m) == market[m] \in Sides

FillOf(d) == CHOOSE e \in Fills(db.events) : e.decision = d.id

Settlement(d) ==
  LET fill == FillOf(d)
      settled == SettledFill(d.side, fill, market[d.market])
  IN [fill EXCEPT !.type = settled.type, !.pnl = settled.pnl,
                  !.at = bounds.batches]

\* settle_paper_results: a market that cannot be fetched is left for later.
Settle(r) ==
  /\ pc[r] = "settle"
  /\ \E failed \in SUBSET {d.market : d \in Unsettled(db.decisions, db.events)} :
       /\ Cardinality(failed) + bounds.faults <= MaxFaults
       /\ bounds' = [bounds EXCEPT !.faults = @ + Cardinality(failed)]
       /\ rows' = [rows EXCEPT ![r].events =
            {[Settlement(d) EXCEPT !.by = r] :
               d \in {x \in Unsettled(db.decisions, db.events) :
                        Resolved(x.market) /\ x.market \notin failed}}]
  /\ pc' = [pc EXCEPT ![r] = "collect"]
  /\ UNCHANGED <<commit, files, db, loaded, market, history>>

\* The gap flag of a captured book is its recovery reason's.
RecoveryReason == "PROCESS_RESTART"
Snapshot(m, n, book) ==
  [market |-> m, batch |-> n, book |-> book, gap |-> RecoveryReason # ""]

\* collect_decisions, once the books are captured: what a candidate decides.
DecisionOn(r, m, candidate, book, stale) ==
  LET alert == AlertOf[m]
      made  == Decide(alert.model, ModelWeight[candidate], book, stale)
  IN [id |-> <<r, bounds.batches, m, candidate>>, candidate |-> candidate,
      market |-> m, city |-> alert.city, lead |-> alert.lead,
      observed |-> alert.observed, day |-> DayOf[bounds.batches],
      code |-> loaded[r].code, policy |-> loaded[r].policy,
      side |-> made.side, worth |-> made.worth, limit |-> made.limit,
      book |-> book, rejection |-> made.rejection]

EventOf(r, d, stale, active) ==
  LET event == PaperEvent(d, stale, active) IN
  [decision |-> d.id, candidate |-> d.candidate, type |-> event.type,
   filled |-> event.filled, price |-> event.price, fee |-> event.fee,
   pnl |-> 0, active |-> active, at |-> bounds.batches, by |-> r]

Collect(r) ==
  /\ pc[r] = "collect"
  /\ \E found \in [OpenMarkets -> Findings] :
       LET Batch(m) == {DecisionOn(r, m, c, found[m].book, found[m].stale) :
                          c \in Candidates}
       IN rows' = [rows EXCEPT
            ![r].decisions = UNION {Batch(m) : m \in OpenMarkets},
            ![r].events = @ \cup UNION
              {{EventOf(r, d, found[m].stale, found[m].active) :
                  d \in Batch(m)} : m \in OpenMarkets},
            ![r].snapshots =
              {Snapshot(m, bounds.batches, found[m].book) : m \in OpenMarkets}]
  /\ pc' = [pc EXCEPT ![r] = "policy"]
  /\ UNCHANGED <<commit, files, db, loaded, market, history, bounds>>

\* PostgresProfessionalRepository.insert_freeze: raises when the version is
\* another code's.
PolicyConflict(policy) ==
  \E p \in db.policies : p.version = policy.version /\ p # policy

\* The professional collection (ProfessionalJournal) and the commit.
Commit(r) ==
  /\ pc[r] = "policy"
  /\ ~PolicyConflict(loaded[r].policy)
  /\ db' = [db EXCEPT !.decisions = @ \cup rows[r].decisions,
                      !.events = @ \cup rows[r].events,
                      !.snapshots = @ \cup rows[r].snapshots,
                      !.policies = @ \cup {loaded[r].policy}]
  /\ pc' = [pc EXCEPT ![r] = "idle"]
  /\ rows' = [rows EXCEPT ![r] = Nothing]
  /\ UNCHANGED <<commit, files, loaded, market, history, bounds>>

RolledBack(r) ==
  /\ pc' = [pc EXCEPT ![r] = "idle"]
  /\ rows' = [rows EXCEPT ![r] = Nothing]
  /\ UNCHANGED <<commit, files, db, loaded, market, history>>

Refused(r) ==
  /\ pc[r] = "policy"
  /\ PolicyConflict(loaded[r].policy)
  /\ RolledBack(r)
  /\ UNCHANGED bounds

\* A run is killed, or the exchange does not answer for the books.
Crash(r) ==
  /\ pc[r] # "idle"
  /\ bounds.faults < MaxFaults
  /\ bounds' = [bounds EXCEPT !.faults = @ + 1]
  /\ RolledBack(r)

---------------------------------------------------------------------------
(* The exchange                                                            *)

Move(m, from, to) ==
  /\ market[m] = from
  /\ market' = [market EXCEPT ![m] = to]
  /\ UNCHANGED <<commit, files, db, pc, loaded, rows, history, bounds>>

Close(m)    == Move(m, "open", "closed")
Finalize(m) == \E result \in Sides \cup {"VOID"} : Move(m, "closed", result)

Next ==
  \/ \E c \in Commits : Deploy(c)
  \/ ReportReadiness \/ ReportProfessional
  \/ \E r \in Runs : \/ Begin(r) \/ Settle(r) \/ Collect(r)
                     \/ Commit(r) \/ Refused(r) \/ Crash(r)
  \/ \E m \in Markets : Close(m) \/ Finalize(m)

Spec == Init /\ [][Next]_vars

\* A market closes; the scheduler starts runs again and again, and a started
\* run goes on to its end.
FairSpec ==
  /\ Spec
  /\ \A m \in Markets : WF_vars(Close(m))
  /\ \A r \in Runs : WF_vars(Begin(r) \/ Settle(r) \/ Collect(r) \/ Commit(r)
                               \/ Refused(r))

---------------------------------------------------------------------------
(* Properties                                                              *)

\* Every decision under a version was taken by the code frozen under it: of a
\* professional policy always, whatever is deployed; of a candidate unless a
\* deployment replaced its manifest.  (The check of the manifests before a
\* run, and insert_freeze's comparison with the stored row.)
CohortsPure ==
  \A d \in db.decisions :
    /\ d.policy \in db.policies
    /\ \A e \in db.decisions : d.policy.version = e.policy.version
                                 => d.policy = e.policy
    /\ history.replaced \/ db.freezes = {d.code}

\* A paper fill is settled by one event, and for what its market resolved to,
\* unless two runs were under way at a time.  (unsettled_paper_fills reads the
\* latest event; nothing in the schema keeps a second one out.)
SettledOnce ==
  \A e \in OfType(db.events, Outcomes) :
    /\ \E f \in Fills(db.events) : f.decision = e.decision
    /\ \A d \in db.decisions : d.id = e.decision =>
         (e.type = "SETTLED_WIN") <=> (d.side = market[d.market])
    /\ \A f \in OfType(db.events, Outcomes) :
         f.decision = e.decision => f = e \/ history.overlapped

\* A batch is recorded whole: both candidates decide on one recorded book of a
\* market, each with one order event; and an eligible decision is filled in
\* full, within its limit, unless the market was not active.  (The depth the
\* decision requires is the depth the fill consumes.)
BatchesHold ==
  \A d \in db.decisions :
    /\ Cardinality({e \in db.events : e.decision = d.id
                                        /\ e.type \notin Outcomes}) = 1
    /\ \E s \in db.snapshots :
         s.market = d.market /\ s.batch = d.id[2] /\ s.book = d.book
    /\ \A c \in Candidates : \E x \in db.decisions :
         x.id = <<d.id[1], d.id[2], d.market, c>> /\ x.book = d.book
    /\ d.rejection = "NONE" =>
         \A e \in OfType(db.events, Orders) : e.decision = d.id =>
           IF e.active
           THEN /\ e.type = "FILLED" /\ e.filled = IntendedQuantity
                /\ e.price <= d.limit
           ELSE e.type = "NO_FILL"

\* A run may begin, and what it writes may be committed.
Permitted == FreezeHolds /\ ~PolicyConflict(commit.policy)

UnsettledOf(m) ==
  {d \in Unsettled(db.decisions, db.events) : d.market = m}

\* Once the freezes agree for good, a fill of a market that resolved is
\* settled; a mismatch blocks the settlement with the decisions.
FillsSettle ==
  <>[]Permitted =>
    \A m \in Markets :
      (market[m] \in Sides /\ UnsettledOf(m) # {}) ~> (UnsettledOf(m) = {})

\* What the documents promise of the books a process fetches when it starts,
\* which they call authoritative: where every recorded book is sound, every
\* threshold is reached and the other gates pass, nothing counts against the
\* evidence and it is ready for review.
Report == ForwardStatus(files.manifest # NoFile, db.decisions, db.events,
                        db.snapshots)
Performing == \E c \in Candidates : Performs(Results(db.events, c))
AllGates   == Gates(Study, Report, Performing)
CleanEvidencePasses ==
  (/\ db.decisions # {} /\ Performing
   /\ \A reached \in Reached(Report) : reached
   /\ \A s \in db.snapshots : Valid(s)
   /\ \A g \in DOMAIN AllGates \ {"FORWARD_CONFIRMATION"} :
        AllGates[g] = "PASS")
  => Conclusion(AllGates) = "READY_FOR_EXPLICIT_REVIEW"
=============================================================================
