--------------------------- MODULE MetricIdentity ---------------------------
(***************************************************************************)
(* The measurement identity of a subject metric: the append-only row of    *)
(* metric_versions that pins the oracle module's source, the digests and   *)
(* restamps that let an edit of its commentary through, and the three      *)
(* commands that meet there: the paired ingest of a Full/Null log pair     *)
(* (write_paired_evidence), `audit-metric --execute` and `freeze           *)
(* --execute`.  A process runs one command of one build at a time; every   *)
(* read outside a write transaction is a step of its own.                  *)
(*                                                                         *)
(* One metric_id: no statement relates the rows of two.  A raw hash is the *)
(* source it hashes.  The file does not change while a command runs.       *)
(***************************************************************************)
EXTENDS Naturals, Sequences, FiniteSets

CONSTANTS
    Procs,
    Sources,       \* the texts subject/ingest.py has had
    VersionOf,     \* [Sources -> versions]: its ORACLE_METRIC_VERSION
    BehaviourOf,   \* [Sources -> behaviours]: what it does, commentary apart
    Builds,        \* checkouts: a source, and the digest algorithm beside it
    DigestOf,      \* [Builds -> digests]: semantic_digest of the source
    Logs,          \* Full/Null log pairs
    InputOf,       \* [Logs -> inputs \cup {None}]: failing input of the freezable
                   \* verdict of the pair, None if no verdict is freezable
    None,
    MaxClock,      \* bound: the last value of the clock
    MaxCommands    \* bound: commands started

Versions == {VersionOf[s] : s \in Sources}
Behaviours == {BehaviourOf[s] : s \in Sources}
Inputs == {InputOf[l] : l \in Logs} \ {None}
Algos == {b.algo : b \in Builds}

\* Two sources have one AST identity exactly if they behave alike; digests of two
\* algorithms say nothing of each other, they may even coincide.
ASSUME IdentityAssumption ==
    /\ \A b \in Builds : b = [source |-> b.source, algo |-> b.algo] /\ b.source \in Sources
    /\ \A b, c \in Builds :
          b.algo = c.algo =>
              (DigestOf[b] = DigestOf[c] <=> BehaviourOf[b.source] = BehaviourOf[c.source])
    /\ None \notin [source: Sources, audited: BOOLEAN, at: Nat]
    /\ MaxClock \in Nat /\ MaxCommands \in Nat

VARIABLES
    rows,       \* metric_versions: the row of each version, or None
    digests,    \* metric_semantic_digests
    restamps,   \* metric_implementation_restamps, by restamp_id
    runs,       \* the ingested pairs, each with the build that minted its verdicts
    frozen,     \* frozen_cases
    clock,      \* the wall clock: two commands may see one value
    at,         \* the next step of each process's command
    build,      \* the build it runs
    log,        \* the pair it ingests, or whose verdict it freezes
    plan,       \* the act `audit-metric` planned
    case,       \* the row `freeze` is about to insert
    commands

identity == <<rows, digests, restamps>>
store    == <<identity, runs, frozen>>
process  == <<build, log, plan, case>>
vars     == <<store, clock, at, process, commands>>

Version(b) == VersionOf[b.source]
Registered(v) == rows[v] # None

----------------------------------------------------------------------------
(* Which implementation is in force *)

Latest(S) == CHOOSE i \in S : \A j \in S : j <= i

\* The restamps of a version under one algorithm.
RestampsOf(v, algo) == {i \in DOMAIN restamps : restamps[i].version = v /\ restamps[i].algo = algo}

\* effective_implementation_hash: the latest restamp, else the registered row.
InForce(v, algo) ==
    LET mine == RestampsOf(v, algo)
    IN  IF mine = {} THEN rows[v].source ELSE restamps[Latest(mine)].new

\* Mutant: the digest is looked up without its algorithm.
RecordedByAny(v, source, algo) ==
    {d.digest : d \in {e \in digests : e.version = v /\ e.source = source}}

\* recorded_semantic_digest: at most one, and none of another algorithm.
Recorded(v, source, algo) ==
    {d.digest : d \in {e \in digests : e.version = v /\ e.source = source /\ e.algo = algo}}

\* classify_implementation_drift: no drift, a drift of commentary, or a refusal.
IsCurrent(b) == InForce(Version(b), b.algo) = b.source
Restampable(b) ==
    ~IsCurrent(b) /\ DigestOf[b] \in Recorded(Version(b), InForce(Version(b), b.algo), b.algo)
Drifted(b) == ~IsCurrent(b) /\ ~Restampable(b)

\* record_semantic_digest: the primary key has no algorithm, OR IGNORE keeps the first.
WithDigest(b) ==
    IF \E d \in digests : d.version = Version(b) /\ d.source = b.source
      THEN digests
      ELSE digests \cup {[version |-> Version(b), source |-> b.source,
                          algo |-> b.algo, digest |-> DigestOf[b]]}

\* A row and its digest, in one transaction.
Register(b, audited) ==
    /\ rows' = [rows EXCEPT ![Version(b)] =
                   [source |-> b.source, audited |-> audited, at |-> clock]]
    /\ digests' = WithDigest(b)
    /\ UNCHANGED restamps

RestampRow(b) == [version |-> Version(b), old |-> InForce(Version(b), b.algo),
                  new |-> b.source, algo |-> b.algo]

\* Mutant: the restamp leaves the new source without a digest.
AppendRestampOnly(b) ==
    /\ restamps' = Append(restamps, RestampRow(b))
    /\ UNCHANGED <<rows, digests>>

\* append_implementation_restamp
AppendRestamp(b) ==
    /\ restamps' = Append(restamps, RestampRow(b))
    /\ digests' = WithDigest(b)
    /\ UNCHANGED rows

Unregistered == [v \in Versions |-> None]

\* The store is new, or a version that recorded no digests audited one source.
Init ==
    /\ \/ rows = Unregistered
       \/ \E b \in Builds :
             rows = [Unregistered EXCEPT ![Version(b)] =
                        [source |-> b.source, audited |-> TRUE, at |-> 0]]
    /\ digests = {} /\ restamps = <<>> /\ runs = {} /\ frozen = {}
    /\ clock = 0
    /\ at = [p \in Procs |-> "idle"]
    /\ build = [p \in Procs |-> None]
    /\ log = [p \in Procs |-> None]
    /\ plan = [p \in Procs |-> "none"]
    /\ case = [p \in Procs |-> None]
    /\ commands = 0

----------------------------------------------------------------------------
(* Commands *)

Begin(p, step, b, l) ==
    /\ at[p] = "idle"
    /\ commands < MaxCommands
    /\ commands' = commands + 1
    /\ at' = [at EXCEPT ![p] = step]
    /\ build' = [build EXCEPT ![p] = b]
    /\ log' = [log EXCEPT ![p] = l]
    /\ UNCHANGED <<store, clock, plan, case>>

StartIngest(p, b, l) == Begin(p, "guard", b, l)
StartAudit(p, b) == Begin(p, "plan", b, None)
StartFreeze(p, l) == Begin(p, "verdict", None, l)

Go(p, step) == at' = [at EXCEPT ![p] = step]

\* The command is over, its process free for another.
Leave(p) ==
    /\ at' = [at EXCEPT ![p] = "idle"]
    /\ build' = [build EXCEPT ![p] = None]
    /\ log' = [log EXCEPT ![p] = None]
    /\ plan' = [plan EXCEPT ![p] = "none"]
    /\ case' = [case EXCEPT ![p] = None]
    /\ UNCHANGED <<clock, commands>>

\* It leaves with an error, its transaction rolled back; or it is killed.
Refuse(p) == Leave(p) /\ UNCHANGED store

Kill(p) == at[p] # "idle" /\ Refuse(p)

----------------------------------------------------------------------------
(* write_paired_evidence *)

Ingested(l) == \E r \in runs : r.log = l

\* The pair is looked up before the transaction ...
Guard(p) ==
    /\ at[p] = "guard" /\ ~Ingested(log[p])
    /\ Go(p, "write")
    /\ UNCHANGED <<store, clock, process, commands>>

AlreadyIngested(p) == at[p] = "guard" /\ Ingested(log[p]) /\ Refuse(p)

\* ... in which the run row, its samples and its verdicts are written.
InsertRun(p) ==
    /\ ~Ingested(log[p])
    /\ runs' = runs \cup {[log |-> log[p], build |-> build[p]]}
    /\ Leave(p)
    /\ UNCHANGED frozen

\* The first ingest of a version registers it, unaudited.
IngestNew(p) ==
    /\ at[p] = "write" /\ ~Registered(Version(build[p]))
    /\ Register(build[p], FALSE)
    /\ InsertRun(p)

\* Mutant: the existence of the row is enough.
IngestExisting(p) ==
    /\ at[p] = "write" /\ Registered(Version(build[p])) /\ ~Restampable(build[p])
    /\ digests' = WithDigest(build[p])
    /\ UNCHANGED <<rows, restamps>>
    /\ InsertRun(p)

\* No drift: the digest is backfilled.
IngestCurrent(p) ==
    /\ at[p] = "write" /\ Registered(Version(build[p])) /\ IsCurrent(build[p])
    /\ digests' = WithDigest(build[p])
    /\ UNCHANGED <<rows, restamps>>
    /\ InsertRun(p)

\* A drift of commentary: a restamp is appended.
IngestRestamp(p) ==
    /\ at[p] = "write" /\ Registered(Version(build[p])) /\ Restampable(build[p])
    /\ AppendRestamp(build[p])
    /\ InsertRun(p)

\* Mutant: the restamp is committed before the run row is refused.
StampThenRefuse(p) ==
    /\ at[p] = "write"
    /\ \/ Ingested(log[p])
       \/ Registered(Version(build[p])) /\ Drifted(build[p])
    /\ IF Registered(Version(build[p])) /\ Restampable(build[p])
         THEN /\ AppendRestamp(build[p]) /\ Leave(p) /\ UNCHANGED <<runs, frozen>>
         ELSE Refuse(p)

\* MetricImplementationDriftError, or the primary key of runs: nothing stays.
IngestRefused(p) ==
    /\ at[p] = "write"
    /\ \/ Ingested(log[p])
       \/ Registered(Version(build[p])) /\ Drifted(build[p])
    /\ Refuse(p)

----------------------------------------------------------------------------
(* audit-metric --execute *)

\* The refusals of plan_audited_metric_registration.
AuditRefused(p) ==
    /\ at[p] \in {"plan", "replan"} /\ Registered(Version(build[p]))
    /\ ~rows[Version(build[p])].audited \/ Drifted(build[p])
    /\ Refuse(p)

\* The act it plans otherwise.
Act(b) == CASE ~Registered(Version(b)) -> "register"
            [] Registered(Version(b)) /\ Restampable(b) -> "restamp"
            [] OTHER -> "already_audited"

\* The command plans, and register_audited_metric plans again.
PlanAudit(p) ==
    /\ at[p] \in {"plan", "replan"}
    /\ Registered(Version(build[p])) =>
          rows[Version(build[p])].audited /\ ~Drifted(build[p])
    /\ plan' = [plan EXCEPT ![p] = Act(build[p])]
    /\ Go(p, IF at[p] = "plan" THEN "replan" ELSE "act")
    /\ UNCHANGED <<store, clock, build, log, case, commands>>

\* Nothing is left to do.
AlreadyAudited(p) == at[p] = "act" /\ plan[p] = "already_audited" /\ Refuse(p)

\* Mutant: INSERT OR REPLACE.
ReplaceRow(p) ==
    /\ at[p] = "act" /\ plan[p] = "register"
    /\ Register(build[p], TRUE)
    /\ Leave(p) /\ UNCHANGED <<runs, frozen>>

\* The transaction of the register arm ...
AuditRegister(p) ==
    /\ at[p] = "act" /\ plan[p] = "register" /\ ~Registered(Version(build[p]))
    /\ Register(build[p], TRUE)
    /\ Leave(p) /\ UNCHANGED <<runs, frozen>>

\* ... which the primary key refuses if another command registered meanwhile.
AuditOvertaken(p) ==
    /\ at[p] = "act" /\ plan[p] = "register" /\ Registered(Version(build[p]))
    /\ Refuse(p)

\* Mutant: the plan is trusted.
RestampAsPlanned(p) ==
    /\ at[p] = "act" /\ plan[p] = "restamp"
    /\ AppendRestamp(build[p])
    /\ Leave(p) /\ UNCHANGED <<runs, frozen>>

\* The transaction of the restamp arm classifies again.
AuditRestamp(p) ==
    /\ at[p] = "act" /\ plan[p] = "restamp"
    /\ IF Restampable(build[p]) THEN AppendRestamp(build[p]) ELSE UNCHANGED identity
    /\ Leave(p) /\ UNCHANGED <<runs, frozen>>

----------------------------------------------------------------------------
(* freeze --execute *)

\* Mutant: ties and lost epochs too.
AnyVerdict(l) == Ingested(l)

\* An admissible winning verdict of a binary metric; its run is complete as soon
\* as it is in the store.
Freezable(l) == Ingested(l) /\ InputOf[l] # None

\* Mutant: the hash in force instead of the row's.
CaseInForce(r) == [input |-> InputOf[r.log], version |-> Version(r.build),
                   source |-> InForce(Version(r.build), r.build.algo), build |-> r.build]

\* The frozen row: provenance is the metric_versions row's; `build` is the run's.
CaseOf(r) == [input |-> InputOf[r.log], version |-> Version(r.build),
              source |-> rows[Version(r.build)].source, build |-> r.build]

\* freeze_verdict reads the verdict, its run, the metric row and the sample ...
ReadVerdict(p) ==
    /\ at[p] = "verdict" /\ Freezable(log[p])
    /\ \E r \in runs : r.log = log[p] /\ case' = [case EXCEPT ![p] = CaseOf(r)]
    /\ Go(p, "insert")
    /\ UNCHANGED <<store, clock, build, log, plan, commands>>

FreezeRefused(p) == at[p] = "verdict" /\ ~Freezable(log[p]) /\ Refuse(p)

\* ... and inserts, under idx_frozen_unique.
InsertCase(p) ==
    /\ at[p] = "insert" /\ \A c \in frozen : c.input # case[p].input
    /\ frozen' = frozen \cup {case[p]}
    /\ Leave(p) /\ UNCHANGED <<identity, runs>>

\* The IntegrityError is reported as 'already frozen'.
AlreadyFrozen(p) ==
    /\ at[p] = "insert" /\ \E c \in frozen : c.input = case[p].input
    /\ Leave(p) /\ UNCHANGED store

Tick ==
    /\ clock < MaxClock /\ clock' = clock + 1
    /\ UNCHANGED <<store, at, process, commands>>

Step(p) ==
    \/ Guard(p) \/ AlreadyIngested(p)
    \/ IngestNew(p) \/ IngestCurrent(p) \/ IngestRestamp(p) \/ IngestRefused(p)
    \/ AuditRefused(p) \/ PlanAudit(p) \/ AlreadyAudited(p)
    \/ AuditRegister(p) \/ AuditOvertaken(p) \/ AuditRestamp(p)
    \/ ReadVerdict(p) \/ FreezeRefused(p) \/ InsertCase(p) \/ AlreadyFrozen(p)

\* All commands are over and none is started.
Rest ==
    /\ \A p \in Procs : at[p] = "idle"
    /\ UNCHANGED vars

Next ==
    \/ Rest \/ Tick
    \/ \E p \in Procs :
          \/ \E b \in Builds, l \in Logs : StartIngest(p, b, l)
          \/ \E b \in Builds : StartAudit(p, b)
          \/ \E l \in Logs : StartFreeze(p, l)
          \/ Step(p)
          \/ Kill(p)

Spec == Init /\ [][Next]_vars

----------------------------------------------------------------------------
(* The view frozen_cases_with_currency *)

Audited == {v \in Versions : Registered(v) /\ rows[v].audited}

\* current_metric_versions: the audited rows of the latest registered_at.
CurrentVersions == {v \in Audited : \A w \in Audited : rows[w].at <= rows[v].at}

LabelledCurrent(c) == c.version \in CurrentVersions /\ rows[c.version].source = c.source

----------------------------------------------------------------------------
(* Properties *)

Rows == [source: Sources, audited: BOOLEAN, at: Nat]
Cases == [input: Inputs, version: Versions, source: Sources, build: Builds]
Steps == {"idle", "guard", "write", "plan", "replan", "act", "verdict", "insert"}

\* The tables hold rows of their shape, a frozen case a failing input and the
\* source of a registered version, and each command is at a step of its own code.
TypeOK ==
    /\ rows \in [Versions -> Rows \cup {None}]
    /\ digests \subseteq [version: Versions, source: Sources, algo: Algos,
                          digest: {DigestOf[b] : b \in Builds}]
    /\ restamps \in Seq([version: Versions, old: Sources, new: Sources, algo: Algos])
    /\ runs \subseteq [log: Logs, build: Builds]
    /\ frozen \subseteq Cases
    /\ clock \in Nat
    /\ at \in [Procs -> Steps]
    /\ build \in [Procs -> Builds \cup {None}]
    /\ log \in [Procs -> Logs \cup {None}]
    /\ plan \in [Procs -> {"none", "register", "restamp", "already_audited"}]
    /\ case \in [Procs -> Cases \cup {None}]
    /\ commands \in Nat

\* Safeguard A of classify_implementation_drift: verdicts recorded under one
\* version of the metric were all minted by implementations that behave alike,
\* whatever was restamped in between and under whichever digest algorithms.
OneBehaviourPerVersion ==
    \A r, q \in runs :
        Version(r.build) = Version(q.build) =>
            BehaviourOf[r.build.source] = BehaviourOf[q.build.source]

\* A build that minted evidence is never locked out of its own store (#209): after
\* any restamps to other commentaries, and back, it is current or restampable.
AcceptedStaysAccepted == \A r \in runs : ~Drifted(r.build)

\* A restamp records the source it superseded and the one it put in force: read in
\* order they are one chain from the registered source, without a link from a
\* source to itself, although an audit plans its restamp outside the transaction.
RestampsChain ==
    \A i \in DOMAIN restamps :
        LET r == restamps[i]
            earlier == {j \in RestampsOf(r.version, r.algo) : j < i}
        IN  /\ r.new # r.old
            /\ r.old = IF earlier = {} THEN rows[r.version].source
                       ELSE restamps[Latest(earlier)].new

\* "No act flips audited on an existing row": a frozen case that is not current,
\* because its version was never audited or a later one was, is never current again.
CurrencyNeverReturns ==
    [][\A c \in frozen : ~LabelledCurrent(c) => ~LabelledCurrent(c)']_vars

\* Restamps do not stale the frozen suite: a case of the latest audited version is
\* current, from whichever commentary its verdict was minted.
CommentEditKeepsCurrency ==
    \A c \in frozen : c.version \in CurrentVersions => LabelledCurrent(c)

\* 'current' says what the operator attested: the implementation that minted the
\* verdict of a current case behaves like the one that was audited.
CurrentMeansAttested ==
    \A c \in frozen :
        LabelledCurrent(c) => BehaviourOf[c.build.source] = BehaviourOf[rows[c.version].source]

\* An ingest writes its identity rows and its run, or neither: what an unaudited
\* version has of rows and restamps comes with a run of that very source, also
\* when two ingests of one pair pass the guard and one is refused in the end.
IngestIsAllOrNothing ==
    \A v \in Versions :
        Registered(v) /\ ~rows[v].audited =>
            \A s \in {rows[v].source} \cup
                     {restamps[i].new : i \in {j \in DOMAIN restamps : restamps[j].version = v}} :
                \E r \in runs : r.build.source = s

=============================================================================
