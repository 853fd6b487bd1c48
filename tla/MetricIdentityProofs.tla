------------------------ MODULE MetricIdentityProofs ------------------------
(***************************************************************************)
(* Proofs, for every value of the constants, of the properties of          *)
(* MetricIdentity.  Lemma Moves reduces the steps of the three commands to *)
(* what they may do to the identity of a version; the invariants are about *)
(* those moves, each layer relative to the ones before it:                 *)
(*                                                                         *)
(*   ProcessInv   what a command holds at each of its steps                *)
(*   LatestInv    the restamps of a version have a latest one              *)
(*   BehaviourInv what is recorded of a version behaves like its row       *)
(*   AlgoInv      the digests of a version are of one algorithm, and those *)
(*                that a restamp needs are there                           *)
(*   CoverInv     which sources of an unaudited version have a run         *)
(*   CaseInv      where the columns of a frozen case come from             *)
(***************************************************************************)
EXTENDS MetricIdentity, TLAPS

ProcessInv ==
    \A p \in Procs :
        /\ at[p] \in {"guard", "write"} => build[p] \in Builds /\ log[p] \in Logs
        /\ at[p] \in {"plan", "replan", "act"} => build[p] \in Builds
        /\ at[p] = "verdict" => log[p] \in Logs
        /\ at[p] = "insert" => case[p] \in Cases
        /\ plan[p] = "restamp" =>
              /\ at[p] \in {"replan", "act"} /\ Registered(Version(build[p]))
              /\ rows[Version(build[p])].audited

HasLatest(S) == S = {} \/ \E i \in S : \A j \in S : j <= i

LatestInv ==
    \A v \in Versions, g \in Algos, n \in Nat : HasLatest({j \in RestampsOf(v, g) : j < n})

BehaviourInv ==
    /\ \A d \in digests :
          \E b \in Builds : b.source = d.source /\ b.algo = d.algo /\ DigestOf[b] = d.digest
    /\ \A i \in DOMAIN restamps :
          LET v == restamps[i].version
          IN  Registered(v) /\ BehaviourOf[restamps[i].new] = BehaviourOf[rows[v].source]
    /\ \A r \in runs :
          LET v == Version(r.build)
          IN  Registered(v) /\ BehaviourOf[r.build.source] = BehaviourOf[rows[v].source]

HasDigest(v, source, g) ==
    \E d \in digests : d.version = v /\ d.source = source /\ d.algo = g

AlgoInv ==
    /\ \A d, e \in digests : d.version = e.version => d.algo = e.algo
    /\ \A d \in digests : Registered(d.version) /\ HasDigest(d.version, rows[d.version].source, d.algo)
    /\ \A i \in DOMAIN restamps :
          HasDigest(restamps[i].version, restamps[i].new, restamps[i].algo)
    /\ \A r \in runs :
          LET v == Version(r.build)
          IN  \/ RestampsOf(v, r.build.algo) = {} /\ rows[v].source = r.build.source
              \/ \E d \in digests : d.version = v /\ d.algo = r.build.algo

\* IngestIsAllOrNothing, its set of sources taken apart.
CoverInv ==
    /\ \A v \in Versions :
          Registered(v) /\ ~rows[v].audited => \E r \in runs : r.build.source = rows[v].source
    /\ \A i \in DOMAIN restamps :
          ~rows[restamps[i].version].audited => \E r \in runs : r.build.source = restamps[i].new

Provenance(c) ==
    /\ Registered(c.version) /\ c.source = rows[c.version].source
    /\ BehaviourOf[c.build.source] = BehaviourOf[c.source]

CaseInv ==
    /\ \A c \in frozen : Provenance(c)
    /\ \A p \in Procs : at[p] = "insert" => Provenance(case[p])

-----------------------------------------------------------------------------
(* What a step may do to the identity of a version. *)

RunOf(b) == \E l \in Logs : runs' = runs \cup {[log |-> l, build |-> b]}

Registers(b) ==
    /\ ~Registered(Version(b))
    /\ \/ Register(b, TRUE) /\ runs' = runs
       \/ Register(b, FALSE) /\ RunOf(b)

Confirms(b) ==
    /\ Registered(Version(b)) /\ IsCurrent(b)
    /\ digests' = WithDigest(b) /\ UNCHANGED <<rows, restamps>>
    /\ RunOf(b)

Amends(b) ==
    /\ Registered(Version(b)) /\ Restampable(b)
    /\ AppendRestamp(b)
    /\ \/ RunOf(b)
       \/ runs' = runs /\ rows[Version(b)].audited

Quiet == UNCHANGED <<rows, digests, restamps, runs>>

LEMMA Moves ==
  ASSUME TypeOK, ProcessInv, [Next]_vars
  PROVE  Quiet \/ \E b \in Builds : Registers(b) \/ Confirms(b) \/ Amends(b)
<1> USE DEF store, identity, process
<1>1. CASE Rest \/ UNCHANGED vars
  BY <1>1 DEF Rest, vars, Quiet
<1>2. CASE Tick
  BY <1>2 DEF Tick, Quiet
<1>3. ASSUME NEW p \in Procs, NEW b \in Builds \cup {None}, NEW l \in Logs \cup {None},
             NEW step, Begin(p, step, b, l)
      PROVE  Quiet
  BY <1>3 DEF Begin, Quiet
<1>4. ASSUME NEW p \in Procs, Step(p) \/ Kill(p)
      PROVE  Quiet \/ \E b \in Builds : Registers(b) \/ Confirms(b) \/ Amends(b)
  <2>1. CASE IngestNew(p)
    <3>1. build[p] \in Builds /\ log[p] \in Logs
      BY <2>1 DEF IngestNew, ProcessInv
    <3>2. RunOf(build[p])
      BY <2>1, <3>1 DEF IngestNew, InsertRun, RunOf
    <3> QED
      BY <2>1, <3>1, <3>2 DEF IngestNew, Registers
  <2>2. CASE IngestCurrent(p)
    <3>1. build[p] \in Builds /\ log[p] \in Logs
      BY <2>2 DEF IngestCurrent, ProcessInv
    <3>2. RunOf(build[p])
      BY <2>2, <3>1 DEF IngestCurrent, InsertRun, RunOf
    <3> QED
      BY <2>2, <3>1, <3>2 DEF IngestCurrent, Confirms
  <2>3. CASE IngestRestamp(p)
    <3>1. build[p] \in Builds /\ log[p] \in Logs
      BY <2>3 DEF IngestRestamp, ProcessInv
    <3>2. RunOf(build[p])
      BY <2>3, <3>1 DEF IngestRestamp, InsertRun, RunOf
    <3> QED
      BY <2>3, <3>1, <3>2 DEF IngestRestamp, Amends
  <2>4. CASE AuditRegister(p)
    BY <2>4 DEF AuditRegister, ProcessInv, Registers
  <2>5. CASE AuditRestamp(p)
    BY <2>5 DEF AuditRestamp, ProcessInv, Amends, Quiet
  <2>6. CASE Guard(p) \/ AlreadyIngested(p) \/ IngestRefused(p) \/ Kill(p)
    BY <2>6 DEF Guard, AlreadyIngested, IngestRefused, Kill, Refuse, Quiet
  <2>7. CASE AuditRefused(p) \/ PlanAudit(p) \/ AlreadyAudited(p) \/ AuditOvertaken(p)
    BY <2>7 DEF AuditRefused, PlanAudit, AlreadyAudited, AuditOvertaken, Refuse, Quiet
  <2>8. CASE ReadVerdict(p) \/ FreezeRefused(p) \/ InsertCase(p) \/ AlreadyFrozen(p)
    BY <2>8 DEF ReadVerdict, FreezeRefused, InsertCase, AlreadyFrozen, Refuse, Quiet
  <2> QED
    BY <1>4, <2>1, <2>2, <2>3, <2>4, <2>5, <2>6, <2>7, <2>8 DEF Step
<1> QED
  BY <1>1, <1>2, <1>3, <1>4 DEF Next, StartIngest, StartAudit, StartFreeze

-----------------------------------------------------------------------------
(* The restamps of a version and what is in force. *)

LEMMA BuildFacts ==
  ASSUME NEW b \in Builds
  PROVE  b.source \in Sources /\ b.algo \in Algos /\ Version(b) \in Versions
         /\ b = [source |-> b.source, algo |-> b.algo]
  BY IdentityAssumption DEF Algos, Versions, Version

LEMMA LatestOfAll ==
  ASSUME TypeOK, LatestInv, NEW v \in Versions, NEW g \in Algos, RestampsOf(v, g) # {}
  PROVE  Latest(RestampsOf(v, g)) \in RestampsOf(v, g)
<1> DEFINE n == Len(restamps) + 1
<1>1. n \in Nat /\ DOMAIN restamps = 1 .. Len(restamps) /\ Len(restamps) \in Nat
  BY DEF TypeOK
<1>2. \A j \in RestampsOf(v, g) : j < n
  BY <1>1 DEF RestampsOf
<1>3. {j \in RestampsOf(v, g) : j < n} = RestampsOf(v, g)
  BY <1>2
<1>4. HasLatest(RestampsOf(v, g))
  BY <1>1, <1>3 DEF LatestInv
<1> QED
  BY <1>4 DEF HasLatest, Latest

LEMMA InForceIs ==
  ASSUME TypeOK, LatestInv, NEW v \in Versions, NEW g \in Algos
  PROVE  \/ RestampsOf(v, g) = {} /\ InForce(v, g) = rows[v].source
         \/ \E i \in RestampsOf(v, g) : InForce(v, g) = restamps[i].new
<1>1. CASE RestampsOf(v, g) = {}
  BY <1>1 DEF InForce
<1>2. CASE RestampsOf(v, g) # {}
  <2>1. Latest(RestampsOf(v, g)) \in RestampsOf(v, g)
    BY <1>2, LatestOfAll
  <2> QED
    BY <1>2, <2>1 DEF InForce
<1> QED
  BY <1>1, <1>2

LEMMA Appended ==
  ASSUME TypeOK, NEW b \in Builds, AppendRestamp(b)
  PROVE  /\ DOMAIN restamps' = DOMAIN restamps \cup {Len(restamps) + 1}
         /\ \A i \in DOMAIN restamps : restamps'[i] = restamps[i]
         /\ restamps'[Len(restamps) + 1] = RestampRow(b)
         /\ \A v, g :
               RestampsOf(v, g)' =
                   RestampsOf(v, g) \cup
                   (IF v = Version(b) /\ g = b.algo THEN {Len(restamps) + 1} ELSE {})
         /\ \A i \in DOMAIN restamps : i \in Nat /\ i < Len(restamps) + 1
<1> DEFINE T == [version: Versions, old: Sources, new: Sources, algo: Algos]
           e == RestampRow(b)
           n == Len(restamps) + 1
<1>1. restamps \in Seq(T) /\ restamps' = Append(restamps, e)
  BY DEF TypeOK, AppendRestamp
<1>2. e.version = Version(b) /\ e.algo = b.algo
  BY DEF RestampRow
<1> HIDE DEF T, e
<1>3. /\ DOMAIN restamps = 1 .. Len(restamps) /\ Len(restamps) \in Nat
      /\ DOMAIN restamps' = 1 .. n
      /\ \A i \in DOMAIN restamps : restamps'[i] = restamps[i]
      /\ restamps'[n] = e
  <2>1. DOMAIN restamps = 1 .. Len(restamps) /\ Len(restamps) \in Nat
    BY <1>1
  <2>2. Len(restamps') = n /\ restamps'[n] = e
    BY <1>1
  <2>3. DOMAIN restamps' = 1 .. n
    BY <1>1, <2>1
  <2>4. ASSUME NEW i \in 1 .. Len(restamps)
        PROVE  restamps'[i] = restamps[i]
    BY <1>1, <2>4
  <2> QED
    BY <2>1, <2>2, <2>3, <2>4
<1>4. DOMAIN restamps' = DOMAIN restamps \cup {n}
  BY <1>3
<1>5. ASSUME NEW v, NEW g
      PROVE  RestampsOf(v, g)' =
                 RestampsOf(v, g) \cup (IF v = Version(b) /\ g = b.algo THEN {n} ELSE {})
  BY <1>2, <1>3, <1>4 DEF RestampsOf
<1> QED
  BY <1>3, <1>4, <1>5 DEF e

LEMMA LatestStep ==
  ASSUME TypeOK, LatestInv,
         Quiet \/ \E b \in Builds : Registers(b) \/ Confirms(b) \/ Amends(b)
  PROVE  LatestInv'
<1>1. CASE UNCHANGED restamps
  BY <1>1 DEF LatestInv, RestampsOf
<1>2. ASSUME NEW b \in Builds, AppendRestamp(b)
      PROVE  LatestInv'
  <2> SUFFICES ASSUME NEW v \in Versions, NEW g \in Algos, NEW n \in Nat
               PROVE  HasLatest({j \in RestampsOf(v, g)' : j < n})
    BY DEF LatestInv, HasLatest
  <2> DEFINE last == Len(restamps) + 1
             S == {j \in RestampsOf(v, g) : j < n}
             T == {j \in RestampsOf(v, g)' : j < n}
  <2>1. HasLatest(S)
    BY DEF LatestInv
  <2>2. \A j \in RestampsOf(v, g) : j \in Nat /\ j < last
    BY <1>2, Appended DEF RestampsOf
  <2>3. last \in Nat
    BY DEF TypeOK
  <2>4. \A w, h : RestampsOf(w, h)' =
           RestampsOf(w, h) \cup (IF w = Version(b) /\ h = b.algo THEN {last} ELSE {})
    BY <1>2, Appended
  <2>5. CASE v = Version(b) /\ g = b.algo /\ last < n
    <3>1. RestampsOf(v, g)' = RestampsOf(v, g) \cup {last}
      BY <2>4, <2>5
    <3>2. last \in T /\ \A j \in T : j \in RestampsOf(v, g) \/ j = last
      BY <2>5, <3>1
    <3>3. \A j \in T : j <= last
      BY <2>2, <2>3, <3>2
    <3> QED
      BY <3>2, <3>3 DEF HasLatest
  <2>6. CASE ~(v = Version(b) /\ g = b.algo /\ last < n)
    <3>1. T = S
      BY <2>4, <2>6
    <3> QED
      BY <2>1, <3>1
  <2> QED
    BY <2>5, <2>6
<1> QED
  BY <1>1, <1>2 DEF Quiet, Registers, Register, Confirms, Amends

LEMMA DigestAdded ==
  ASSUME TypeOK, NEW b \in Builds
  PROVE  /\ digests \subseteq WithDigest(b)
         /\ \A d \in WithDigest(b) :
               \/ d \in digests
               \/ /\ d = [version |-> Version(b), source |-> b.source,
                          algo |-> b.algo, digest |-> DigestOf[b]]
                  /\ \A e \in digests : ~(e.version = Version(b) /\ e.source = b.source)
         /\ \E d \in WithDigest(b) : d.version = Version(b) /\ d.source = b.source
<1> DEFINE new == [version |-> Version(b), source |-> b.source,
                   algo |-> b.algo, digest |-> DigestOf[b]]
<1>1. new.version = Version(b) /\ new.source = b.source
  OBVIOUS
<1>2. CASE \E d \in digests : d.version = Version(b) /\ d.source = b.source
  <2>1. WithDigest(b) = digests
    BY <1>2 DEF WithDigest
  <2> QED
    BY <1>2, <2>1
<1>3. CASE ~\E d \in digests : d.version = Version(b) /\ d.source = b.source
  <2>1. WithDigest(b) = digests \cup {new}
    BY <1>3 DEF WithDigest
  <2> HIDE DEF new
  <2>2. new \in WithDigest(b) /\ \A d \in WithDigest(b) : d \in digests \/ d = new
    BY <2>1
  <2> QED
    BY <1>1, <1>3, <2>1, <2>2 DEF new
<1> QED
  BY <1>2, <1>3

-----------------------------------------------------------------------------
(* Types and commands. *)

LEMMA TypeInit == ASSUME Init PROVE TypeOK /\ ProcessInv /\ LatestInv
<1>1. Unregistered \in [Versions -> Rows \cup {None}]
  BY DEF Unregistered
<1>2. ASSUME NEW b \in Builds
      PROVE  [source |-> b.source, audited |-> TRUE, at |-> 0] \in Rows
  BY <1>2, BuildFacts DEF Rows
<1>3. rows \in [Versions -> Rows \cup {None}]
  BY <1>1, <1>2 DEF Init
<1>4. <<>> \in Seq([version: Versions, old: Sources, new: Sources, algo: Algos])
  OBVIOUS
<1>5. TypeOK
  BY <1>3, <1>4 DEF Init, TypeOK, Steps
<1>6. ProcessInv
  BY DEF Init, ProcessInv
<1>7. LatestInv
  BY DEF Init, LatestInv, HasLatest, RestampsOf
<1> QED
  BY <1>5, <1>6, <1>7

LEMMA IdentityTypes ==
  ASSUME TypeOK, LatestInv,
         Quiet \/ \E b \in Builds : Registers(b) \/ Confirms(b) \/ Amends(b)
  PROVE  /\ rows' \in [Versions -> Rows \cup {None}]
         /\ digests' \subseteq [version: Versions, source: Sources, algo: Algos,
                                digest: {DigestOf[b] : b \in Builds}]
         /\ restamps' \in Seq([version: Versions, old: Sources, new: Sources, algo: Algos])
<1>1. CASE Quiet
  BY <1>1 DEF Quiet, TypeOK
<1>2. ASSUME NEW b \in Builds
      PROVE  WithDigest(b) \subseteq [version: Versions, source: Sources, algo: Algos,
                                      digest: {DigestOf[c] : c \in Builds}]
  <2>1. [version |-> Version(b), source |-> b.source, algo |-> b.algo, digest |-> DigestOf[b]]
            \in [version: Versions, source: Sources, algo: Algos,
                 digest: {DigestOf[c] : c \in Builds}]
    BY BuildFacts
  <2> QED
    BY <2>1 DEF WithDigest, TypeOK
<1>3. ASSUME NEW b \in Builds, NEW a \in BOOLEAN, Register(b, a)
      PROVE  rows' \in [Versions -> Rows \cup {None}]
  <2>1. [source |-> b.source, audited |-> a, at |-> clock] \in Rows
    BY BuildFacts DEF Rows, TypeOK
  <2> QED
    BY <1>3, <2>1, BuildFacts DEF Register, TypeOK
<1>4. ASSUME NEW b \in Builds, Registered(Version(b)), AppendRestamp(b)
      PROVE  restamps' \in Seq([version: Versions, old: Sources, new: Sources, algo: Algos])
  <2>1. rows[Version(b)] \in Rows
    BY <1>4, BuildFacts DEF Registered, TypeOK
  <2>2. InForce(Version(b), b.algo) \in Sources
    <3>1. CASE InForce(Version(b), b.algo) = rows[Version(b)].source
      BY <2>1, <3>1 DEF Rows
    <3>2. ASSUME NEW i \in RestampsOf(Version(b), b.algo),
                 InForce(Version(b), b.algo) = restamps[i].new
          PROVE  InForce(Version(b), b.algo) \in Sources
      <4> DEFINE T == [version: Versions, old: Sources, new: Sources, algo: Algos]
      <4>1. i \in DOMAIN restamps
        BY <3>2 DEF RestampsOf
      <4>2. restamps \in Seq(T)
        BY DEF TypeOK
      <4> HIDE DEF T
      <4>3. restamps[i] \in T
        BY <4>1, <4>2
      <4> QED
        BY <3>2, <4>3 DEF T
    <3> QED
      BY <3>1, <3>2, InForceIs, BuildFacts
  <2>3. RestampRow(b) \in [version: Versions, old: Sources, new: Sources, algo: Algos]
    BY <2>2, BuildFacts DEF RestampRow
  <2> QED
    BY <1>4, <2>3 DEF AppendRestamp, TypeOK
<1> QED
  BY <1>1, <1>2, <1>3, <1>4 DEF Registers, Register, Confirms, Amends, AppendRestamp, TypeOK

LEMMA RunTypes ==
  ASSUME TypeOK,
         Quiet \/ \E b \in Builds : Registers(b) \/ Confirms(b) \/ Amends(b)
  PROVE  runs' \subseteq [log: Logs, build: Builds]
<1>1. ASSUME NEW b \in Builds, RunOf(b)
      PROVE  runs' \subseteq [log: Logs, build: Builds]
  <2>1. PICK l \in Logs : runs' = runs \cup {[log |-> l, build |-> b]}
    BY <1>1 DEF RunOf
  <2>2. [log |-> l, build |-> b] \in [log: Logs, build: Builds]
    OBVIOUS
  <2> QED
    BY <2>1, <2>2 DEF TypeOK
<1> QED
  BY <1>1 DEF Quiet, Registers, Confirms, Amends, TypeOK

\* A step only ever adds to the tables; the row of a registered version stays.
LEMMA RowsStay ==
  ASSUME TypeOK,
         Quiet \/ \E b \in Builds : Registers(b) \/ Confirms(b) \/ Amends(b)
  PROVE  /\ \A v \in Versions : Registered(v) => Registered(v)' /\ rows'[v] = rows[v]
         /\ digests \subseteq digests'
<1>1. ASSUME NEW b \in Builds, NEW a \in BOOLEAN, ~Registered(Version(b)), Register(b, a),
             NEW v \in Versions, Registered(v)
      PROVE  rows'[v] = rows[v]
  BY <1>1 DEF Register, Registered, TypeOK
<1> QED
  BY <1>1, DigestAdded
     DEF Quiet, Registers, Register, Confirms, Amends, AppendRestamp, Registered

LEMMA CaseTypes ==
  ASSUME TypeOK, BehaviourInv, NEW r \in runs, InputOf[r.log] # None
  PROVE  CaseOf(r) \in Cases /\ Provenance(CaseOf(r))
<1>1. r.log \in Logs /\ r.build \in Builds
  BY DEF TypeOK
<1>2. InputOf[r.log] \in Inputs
  BY <1>1 DEF Inputs
<1>3. Registered(Version(r.build)) /\ Version(r.build) \in Versions
  BY <1>1, BuildFacts DEF BehaviourInv
<1>4. rows[Version(r.build)] \in Rows
  BY <1>3 DEF Registered, TypeOK
<1>5. rows[Version(r.build)].source \in Sources
  BY <1>4 DEF Rows
<1>6. CaseOf(r) \in Cases
  BY <1>1, <1>2, <1>3, <1>5 DEF CaseOf, Cases
<1>7. BehaviourOf[r.build.source] = BehaviourOf[rows[Version(r.build)].source]
  BY DEF BehaviourInv
<1>8. Provenance(CaseOf(r))
  BY <1>3, <1>7 DEF Provenance, CaseOf
<1> QED
  BY <1>6, <1>8

\* What an action leaves of the variables of the processes and of frozen_cases.
Processes ==
    /\ frozen' \subseteq Cases /\ clock' \in Nat
    /\ at' \in [Procs -> Steps]
    /\ build' \in [Procs -> Builds \cup {None}]
    /\ log' \in [Procs -> Logs \cup {None}]
    /\ plan' \in [Procs -> {"none", "register", "restamp", "already_audited"}]
    /\ case' \in [Procs -> Cases \cup {None}]
    /\ commands' \in Nat

LEMMA LeaveProcesses ==
  ASSUME TypeOK, ProcessInv, NEW p \in Procs, Leave(p), frozen' \subseteq Cases,
         \A v \in Versions : Registered(v) => Registered(v)' /\ rows'[v] = rows[v]
  PROVE  Processes /\ ProcessInv'
<1>1. Processes
  BY DEF Leave, TypeOK, Processes, Steps
<1>2. at' = [at EXCEPT ![p] = "idle"] /\ plan' = [plan EXCEPT ![p] = "none"]
      /\ build' = [build EXCEPT ![p] = None]
      /\ log' = [log EXCEPT ![p] = None] /\ case' = [case EXCEPT ![p] = None]
  BY DEF Leave
<1>3. ProcessInv'
  BY <1>2, BuildFacts DEF ProcessInv, TypeOK
<1> QED
  BY <1>1, <1>3

LEMMA ProcessStep ==
  ASSUME TypeOK, ProcessInv, BehaviourInv, CaseInv, [Next]_vars,
         \A v \in Versions : Registered(v) => Registered(v)' /\ rows'[v] = rows[v]
  PROVE  Processes /\ ProcessInv' /\ CaseInv'
<1> USE DEF store, identity, process
<1>0. ASSUME NEW c \in Cases, Provenance(c)
      PROVE  Provenance(c)'
  BY <1>0 DEF Provenance, Cases
<1>1. CASE Rest \/ UNCHANGED vars
  <2>1. Processes /\ ProcessInv'
    BY <1>1 DEF Rest, vars, TypeOK, Processes, ProcessInv, Registered
  <2>2. CaseInv'
    BY <1>1 DEF Rest, vars, CaseInv, Provenance, Registered
  <2> QED
    BY <2>1, <2>2
<1>2. CASE Tick
  BY <1>2 DEF Tick, TypeOK, Processes, ProcessInv, Registered, CaseInv, Provenance
<1>3. ASSUME NEW p \in Procs, NEW b \in Builds \cup {None}, NEW l \in Logs \cup {None},
             NEW step \in {"guard", "plan", "verdict"}, Begin(p, step, b, l),
             step = "guard" => b \in Builds /\ l \in Logs,
             step = "plan" => b \in Builds,
             step = "verdict" => l \in Logs
      PROVE  Processes /\ ProcessInv' /\ CaseInv'
  <2>1. Processes
    BY <1>3 DEF Begin, TypeOK, Processes, Steps
  <2>2. ProcessInv'
    BY <1>3 DEF Begin, TypeOK, ProcessInv, Registered
  <2>3. CaseInv'
    BY <1>3 DEF Begin, TypeOK, CaseInv, Provenance, Registered
  <2> QED
    BY <2>1, <2>2, <2>3
<1>4. ASSUME NEW p \in Procs, Leave(p), UNCHANGED frozen
      PROVE  Processes /\ ProcessInv' /\ CaseInv'
  <2>1. Processes /\ ProcessInv'
    BY <1>4, LeaveProcesses DEF TypeOK
  <2>2. \A q \in Procs : at'[q] = "insert" => at[q] = "insert" /\ case'[q] = case[q]
    BY <1>4 DEF Leave, TypeOK
  <2>3. \A c \in frozen' : Provenance(c)'
    BY <1>0, <1>4 DEF CaseInv, TypeOK
  <2>4. \A q \in Procs : at'[q] = "insert" => Provenance(case[q])'
    BY <1>0, <2>2 DEF CaseInv, ProcessInv
  <2> QED
    BY <2>1, <2>2, <2>3, <2>4 DEF CaseInv, Provenance
<1>5. ASSUME NEW p \in Procs, InsertCase(p)
      PROVE  Processes /\ ProcessInv' /\ CaseInv'
  <2>1. case[p] \in Cases /\ Provenance(case[p])
    BY <1>5 DEF InsertCase, ProcessInv, CaseInv
  <2>2. Leave(p) /\ frozen' = frozen \cup {case[p]}
    BY <1>5 DEF InsertCase
  <2>3. Processes /\ ProcessInv'
    BY <2>1, <2>2, LeaveProcesses DEF TypeOK
  <2>4. \A q \in Procs : at'[q] = "insert" => at[q] = "insert" /\ case'[q] = case[q]
    BY <2>2 DEF Leave, TypeOK
  <2>5. \A c \in frozen' : Provenance(c)'
    BY <1>0, <2>1, <2>2 DEF CaseInv, TypeOK
  <2>6. \A q \in Procs : at'[q] = "insert" => Provenance(case[q])'
    BY <1>0, <2>4 DEF CaseInv, ProcessInv
  <2> QED
    BY <2>3, <2>4, <2>5, <2>6 DEF CaseInv, Provenance
<1>6. ASSUME NEW p \in Procs, Guard(p)
      PROVE  Processes /\ ProcessInv' /\ CaseInv'
  BY <1>6 DEF Guard, Go, TypeOK, Steps, Processes, ProcessInv, CaseInv, Registered, Provenance
<1>7. ASSUME NEW p \in Procs, PlanAudit(p)
      PROVE  Processes /\ ProcessInv' /\ CaseInv'
  <2>1. /\ Act(build[p]) \in {"register", "restamp", "already_audited"}
        /\ Act(build[p]) = "restamp" => Registered(Version(build[p]))
    BY DEF Act
  <2>2. Processes
    BY <1>7, <2>1 DEF PlanAudit, Go, TypeOK, Steps, Processes
  <2>3. ProcessInv'
    BY <1>7, <2>1 DEF PlanAudit, Go, TypeOK, ProcessInv, Registered
  <2>4. CaseInv'
    BY <1>7 DEF PlanAudit, Go, TypeOK, CaseInv, Provenance, Registered
  <2> QED
    BY <2>2, <2>3, <2>4
<1>8. ASSUME NEW p \in Procs, ReadVerdict(p)
      PROVE  Processes /\ ProcessInv' /\ CaseInv'
  <2>1. PICK r \in runs : r.log = log[p] /\ case' = [case EXCEPT ![p] = CaseOf(r)]
    BY <1>8 DEF ReadVerdict
  <2>2. CaseOf(r) \in Cases /\ Provenance(CaseOf(r))
    BY <1>8, <2>1, CaseTypes DEF ReadVerdict, Freezable
  <2> DEFINE c == CaseOf(r)
  <2> HIDE DEF c
  <2>3. c \in Cases /\ Provenance(c) /\ case' = [case EXCEPT ![p] = c]
    BY <2>1, <2>2 DEF c
  <2>4. Processes
    BY <1>8, <2>3 DEF ReadVerdict, Go, TypeOK, Steps, Processes
  <2>5. ProcessInv'
    BY <1>8, <2>3 DEF ReadVerdict, Go, TypeOK, ProcessInv, Registered
  <2>6. CaseInv'
    BY <1>8, <2>3 DEF ReadVerdict, Go, TypeOK, CaseInv, Provenance, Registered
  <2> QED
    BY <2>4, <2>5, <2>6
<1>9. ASSUME NEW p \in Procs, Step(p) \/ Kill(p)
      PROVE  Processes /\ ProcessInv' /\ CaseInv'
  <2>1. CASE Guard(p) \/ PlanAudit(p) \/ ReadVerdict(p) \/ InsertCase(p)
    BY <2>1, <1>5, <1>6, <1>7, <1>8
  <2>2. CASE \/ AlreadyIngested(p) \/ IngestRefused(p) \/ AuditRefused(p) \/ AlreadyAudited(p)
             \/ AuditOvertaken(p) \/ FreezeRefused(p) \/ AlreadyFrozen(p) \/ Kill(p)
    BY <2>2, <1>4 DEF AlreadyIngested, IngestRefused, AuditRefused, AlreadyAudited,
       AuditOvertaken, FreezeRefused, AlreadyFrozen, Kill, Refuse
  <2>3. CASE IngestNew(p) \/ IngestCurrent(p) \/ IngestRestamp(p)
    BY <2>3, <1>4 DEF IngestNew, IngestCurrent, IngestRestamp, InsertRun
  <2>4. CASE AuditRegister(p) \/ AuditRestamp(p)
    BY <2>4, <1>4 DEF AuditRegister, AuditRestamp
  <2> QED
    BY <1>9, <2>1, <2>2, <2>3, <2>4 DEF Step
<1>10. ASSUME NEW p \in Procs, NEW b \in Builds, NEW l \in Logs, StartIngest(p, b, l)
       PROVE  Processes /\ ProcessInv' /\ CaseInv'
  BY <1>3, <1>10 DEF StartIngest
<1>11. ASSUME NEW p \in Procs, NEW b \in Builds, StartAudit(p, b)
       PROVE  Processes /\ ProcessInv' /\ CaseInv'
  BY <1>3, <1>11 DEF StartAudit
<1>12. ASSUME NEW p \in Procs, NEW l \in Logs, StartFreeze(p, l)
       PROVE  Processes /\ ProcessInv' /\ CaseInv'
  BY <1>3, <1>12 DEF StartFreeze
<1> QED
  BY <1>1, <1>2, <1>9, <1>10, <1>11, <1>12 DEF Next

-----------------------------------------------------------------------------
(* Behaviour: what is recorded of a version behaves like its row. *)

\* The lemma the drift check rests on: a build that is let in behaves like the row.
LEMMA LetIn ==
  ASSUME TypeOK, LatestInv, BehaviourInv,
         NEW b \in Builds, Registered(Version(b)), ~Drifted(b)
  PROVE  BehaviourOf[b.source] = BehaviourOf[rows[Version(b)].source]
<1> DEFINE v == Version(b)
           s == InForce(v, b.algo)
<1>1. BehaviourOf[s] = BehaviourOf[rows[v].source]
  <2>1. ASSUME NEW i \in RestampsOf(v, b.algo), s = restamps[i].new
        PROVE  BehaviourOf[s] = BehaviourOf[rows[v].source]
    BY <2>1 DEF BehaviourInv, RestampsOf
  <2> QED
    BY <2>1, InForceIs, BuildFacts
<1>2. CASE IsCurrent(b)
  BY <1>1, <1>2 DEF IsCurrent
<1>3. CASE Restampable(b)
  <2>1. PICK d \in digests : d.source = s /\ d.algo = b.algo /\ d.digest = DigestOf[b]
    BY <1>3 DEF Restampable, Recorded
  <2>2. PICK c \in Builds : c.source = s /\ c.algo = b.algo /\ DigestOf[c] = DigestOf[b]
    BY <2>1 DEF BehaviourInv
  <2>3. BehaviourOf[c.source] = BehaviourOf[b.source]
    BY <2>2, IdentityAssumption
  <2> QED
    BY <1>1, <2>2, <2>3
<1> QED
  BY <1>2, <1>3 DEF Drifted

LEMMA RunAdded ==
  ASSUME NEW b, Registers(b) \/ Confirms(b) \/ Amends(b)
  PROVE  runs \subseteq runs' /\ \A r \in runs' : r \in runs \/ r.build = b
<1>1. CASE RunOf(b)
  <2>1. PICK l \in Logs : runs' = runs \cup {[log |-> l, build |-> b]}
    BY <1>1 DEF RunOf
  <2>2. [log |-> l, build |-> b].build = b
    OBVIOUS
  <2> QED
    BY <2>1, <2>2
<1>2. CASE runs' = runs
  BY <1>2
<1> QED
  BY <1>1, <1>2 DEF Registers, Confirms, Amends

LEMMA BehaviourStep ==
  ASSUME TypeOK, LatestInv, BehaviourInv,
         Quiet \/ \E b \in Builds : Registers(b) \/ Confirms(b) \/ Amends(b)
  PROVE  BehaviourInv'
<1> DEFINE Digests(D) == \A d \in D :
               \E b \in Builds : b.source = d.source /\ b.algo = d.algo /\ DigestOf[b] = d.digest
           Like(v, s) == Registered(v) /\ BehaviourOf[s] = BehaviourOf[rows[v].source]
           LikeThen(v, s) == rows'[v] # None /\ BehaviourOf[s] = BehaviourOf[rows'[v].source]
<1>1. CASE Quiet
  BY <1>1 DEF Quiet, BehaviourInv, Registered
<1>2. ASSUME NEW b \in Builds, Registers(b) \/ Confirms(b) \/ Amends(b)
      PROVE  BehaviourInv'
  <2>1. digests' = WithDigest(b)
    BY <1>2 DEF Registers, Register, Confirms, Amends, AppendRestamp
  <2>2. Digests(digests')
    <3>1. Digests(digests)
      BY DEF BehaviourInv
    <3>2. ASSUME NEW d, d = [version |-> Version(b), source |-> b.source,
                             algo |-> b.algo, digest |-> DigestOf[b]]
          PROVE  b.source = d.source /\ b.algo = d.algo /\ DigestOf[b] = d.digest
      BY <3>2
    <3> QED
      BY <2>1, <3>1, <3>2, DigestAdded
  <2>3. \A v \in Versions : Registered(v) => Registered(v)' /\ rows'[v] = rows[v]
    BY <1>2, RowsStay
  <2>4. \A v \in Versions : \A s : Like(v, s) => LikeThen(v, s)
    BY <2>3 DEF Registered
  <2>5. LikeThen(Version(b), b.source)
    <3>1. ASSUME NEW a \in BOOLEAN, Register(b, a)
          PROVE  LikeThen(Version(b), b.source)
      <4>1. rows'[Version(b)] = [source |-> b.source, audited |-> a, at |-> clock]
        BY <3>1, BuildFacts DEF Register, TypeOK
      <4>2. [source |-> b.source, audited |-> a, at |-> clock] \in Rows
        BY BuildFacts DEF Rows, TypeOK
      <4>3. rows'[Version(b)] # None
        BY <4>1, <4>2, IdentityAssumption DEF Rows
      <4> QED
        BY <4>1, <4>3 DEF Registered
    <3>2. CASE Confirms(b) \/ Amends(b)
      BY <3>2, <2>4, LetIn, BuildFacts DEF Confirms, Amends, Drifted
    <3> QED
      BY <1>2, <3>1, <3>2 DEF Registers
  <2>6. \A r \in runs' : LikeThen(Version(r.build), r.build.source)
    <3>1. \A r \in runs : r.build \in Builds /\ Like(Version(r.build), r.build.source)
      BY DEF TypeOK, BehaviourInv
    <3>2. \A r \in runs' : r \in runs \/ r.build = b
      BY <1>2, RunAdded
    <3> QED
      BY <2>4, <2>5, <3>1, <3>2, BuildFacts
  <2>7. \A i \in DOMAIN restamps' : LikeThen(restamps'[i].version, restamps'[i].new)
    <3>1. \A i \in DOMAIN restamps :
             restamps[i].version \in Versions /\ Like(restamps[i].version, restamps[i].new)
      <4> DEFINE T == [version: Versions, old: Sources, new: Sources, algo: Algos]
      <4>1. restamps \in Seq(T)
        BY DEF TypeOK
      <4> HIDE DEF T
      <4>2. \A i \in DOMAIN restamps : restamps[i] \in T
        BY <4>1
      <4> QED
        BY <4>2 DEF T, BehaviourInv
    <3>2. CASE UNCHANGED restamps
      BY <2>4, <3>1, <3>2
    <3>3. CASE AppendRestamp(b)
      <4>1. RestampRow(b).version = Version(b) /\ RestampRow(b).new = b.source
        BY DEF RestampRow
      <4> QED
        BY <2>4, <2>5, <3>1, <3>3, <4>1, Appended
    <3> QED
      BY <1>2, <3>2, <3>3 DEF Registers, Register, Confirms, Amends
  <2> QED
    BY <2>2, <2>6, <2>7 DEF BehaviourInv, Registered
<1> QED
  BY <1>1, <1>2

-----------------------------------------------------------------------------
(* Algorithms: one per version, and the digests a restamp needs are there. *)

LEMMA RestampTypes ==
  ASSUME TypeOK, NEW i \in DOMAIN restamps
  PROVE  /\ restamps[i].version \in Versions /\ restamps[i].algo \in Algos
         /\ restamps[i].old \in Sources /\ restamps[i].new \in Sources
<1> DEFINE T == [version: Versions, old: Sources, new: Sources, algo: Algos]
<1>1. restamps \in Seq(T)
  BY DEF TypeOK
<1> HIDE DEF T
<1>2. restamps[i] \in T
  BY <1>1
<1> QED
  BY <1>2 DEF T

\* The source in force has a digest of every algorithm that the version has any of.
LEMMA InForceHasDigest ==
  ASSUME TypeOK, LatestInv, AlgoInv, NEW v \in Versions, NEW d \in digests, d.version = v
  PROVE  HasDigest(v, InForce(v, d.algo), d.algo)
<1>1. CASE InForce(v, d.algo) = rows[v].source
  BY <1>1 DEF AlgoInv
<1>2. ASSUME NEW i \in RestampsOf(v, d.algo), InForce(v, d.algo) = restamps[i].new
      PROVE  HasDigest(v, InForce(v, d.algo), d.algo)
  BY <1>2 DEF AlgoInv, RestampsOf
<1>3. d.algo \in Algos
  BY DEF TypeOK
<1> QED
  BY <1>1, <1>2, <1>3, InForceIs

\* A build that was let in is current and never restamped, or has its algorithm's digests.
LEMMA Accepted ==
  ASSUME TypeOK, LatestInv, BehaviourInv, AlgoInv
  PROVE  AcceptedStaysAccepted
<1> SUFFICES ASSUME NEW r \in runs
             PROVE  ~Drifted(r.build)
  BY DEF AcceptedStaysAccepted
<1> DEFINE b == r.build
           v == Version(b)
<1>1. b \in Builds /\ v \in Versions /\ b.algo \in Algos
  BY BuildFacts DEF TypeOK
<1>2. CASE RestampsOf(v, b.algo) = {} /\ rows[v].source = b.source
  BY <1>2 DEF Drifted, IsCurrent, InForce
<1>3. ASSUME NEW d \in digests, d.version = v, d.algo = b.algo
      PROVE  ~Drifted(b)
  <2>1. PICK e \in digests :
           e.version = v /\ e.source = InForce(v, b.algo) /\ e.algo = b.algo
    BY <1>1, <1>3, InForceHasDigest DEF HasDigest
  <2>2. PICK c \in Builds :
           c.source = InForce(v, b.algo) /\ c.algo = b.algo /\ DigestOf[c] = e.digest
    BY <2>1 DEF BehaviourInv
  <2>3. BehaviourOf[InForce(v, b.algo)] = BehaviourOf[rows[v].source]
    <3>1. ASSUME NEW i \in RestampsOf(v, b.algo), InForce(v, b.algo) = restamps[i].new
          PROVE  BehaviourOf[InForce(v, b.algo)] = BehaviourOf[rows[v].source]
      BY <3>1 DEF BehaviourInv, RestampsOf
    <3> QED
      BY <1>1, <3>1, InForceIs
  <2>4. BehaviourOf[b.source] = BehaviourOf[rows[v].source]
    BY DEF BehaviourInv
  <2>5. DigestOf[c] = DigestOf[b]
    BY <1>1, <2>2, <2>3, <2>4, IdentityAssumption
  <2>6. e.digest \in Recorded(v, InForce(v, b.algo), b.algo)
    BY <2>1 DEF Recorded
  <2> QED
    BY <2>2, <2>5, <2>6 DEF Drifted, Restampable
<1> QED
  BY <1>2, <1>3 DEF AlgoInv

LEMMA AlgoStep ==
  ASSUME TypeOK, LatestInv, BehaviourInv, AlgoInv,
         Quiet \/ \E b \in Builds : Registers(b) \/ Confirms(b) \/ Amends(b)
  PROVE  AlgoInv'
<1>1. CASE Quiet
  BY <1>1 DEF Quiet, AlgoInv, HasDigest, Registered, RestampsOf
<1>2. ASSUME NEW b \in Builds, Registers(b) \/ Confirms(b) \/ Amends(b)
      PROVE  AlgoInv'
  <2> DEFINE v == Version(b)
             new == [version |-> v, source |-> b.source, algo |-> b.algo, digest |-> DigestOf[b]]
  <2>1. digests' = WithDigest(b)
    BY <1>2 DEF Registers, Register, Confirms, Amends, AppendRestamp
  <2>2. /\ digests \subseteq digests'
        /\ \A d \in digests' : d \in digests \/ d = new
        /\ new \in digests' /\ new \notin digests =>
              \A e \in digests : ~(e.version = v /\ e.source = b.source)
        /\ \E d \in digests' : d.version = v /\ d.source = b.source
    BY <2>1, DigestAdded
  <2>3. new.version = v /\ new.source = b.source /\ new.algo = b.algo
    OBVIOUS
  <2> HIDE DEF new
  <2>4. b.source \in Sources /\ b.algo \in Algos /\ v \in Versions
    BY BuildFacts
  <2>5. \A w \in Versions : Registered(w) => Registered(w)' /\ rows'[w] = rows[w]
    BY <1>2, RowsStay
  <2>6. \A d \in digests : d.version \in Versions
    BY DEF TypeOK
  \* A digest is added to a version that has digests only if they are of its algorithm.
  <2>7. ASSUME new \in digests', new \notin digests, NEW e \in digests, e.version = v
        PROVE  e.algo = b.algo
    <3>1. Registered(v)
      BY <2>7 DEF AlgoInv
    <3>2. CASE Confirms(b)
      <4>1. InForce(v, b.algo) = b.source
        BY <3>2 DEF Confirms, IsCurrent
      <4>2. CASE b.source = rows[v].source
        BY <2>2, <2>7, <4>2 DEF AlgoInv, HasDigest
      <4>3. ASSUME NEW i \in RestampsOf(v, b.algo), b.source = restamps[i].new
            PROVE  FALSE
        BY <2>2, <2>7, <4>3 DEF AlgoInv, HasDigest, RestampsOf
      <4> QED
        BY <2>4, <4>1, <4>2, <4>3, InForceIs
    <3>3. CASE Amends(b)
      <4>1. PICK d \in digests : d.version = v /\ d.algo = b.algo
        BY <3>3 DEF Amends, Restampable, Recorded
      <4> QED
        BY <2>7, <4>1 DEF AlgoInv
    <3> QED
      BY <1>2, <3>1, <3>2, <3>3 DEF Registers
  <2>8. \A d, e \in digests' : d.version = e.version => d.algo = e.algo
    BY <2>2, <2>3, <2>7 DEF AlgoInv
  <2>9. \A w, s, g : HasDigest(w, s, g) => HasDigest(w, s, g)'
    BY <2>2 DEF HasDigest
  <2>10. Registered(v)' /\ (~Registered(v) => rows'[v].source = b.source)
    <3>1. ASSUME NEW a \in BOOLEAN, Register(b, a)
          PROVE  Registered(v)' /\ rows'[v].source = b.source
      <4>1. rows'[v] = [source |-> b.source, audited |-> a, at |-> clock]
        BY <2>4, <3>1 DEF Register, TypeOK
      <4>2. [source |-> b.source, audited |-> a, at |-> clock] \in Rows
        BY <2>4 DEF Rows, TypeOK
      <4> QED
        BY <4>1, <4>2, IdentityAssumption DEF Rows, Registered
    <3> QED
      BY <1>2, <2>4, <2>5, <3>1 DEF Registers, Confirms, Amends
  <2>11. ASSUME NEW d \in digests'
         PROVE  Registered(d.version)' /\ HasDigest(d.version, rows[d.version].source, d.algo)'
    <3>1. CASE d \in digests
      BY <2>5, <2>6, <2>9, <3>1 DEF AlgoInv
    <3>2. CASE d = new /\ d \notin digests
      <4>1. CASE ~Registered(v)
        BY <2>3, <2>10, <3>2, <4>1 DEF HasDigest
      <4>2. CASE Registered(v) /\ \E e \in digests : e.version = v
        <5>1. PICK e \in digests : e.version = v
          BY <4>2
        <5>2. e.algo = b.algo
          BY <2>7, <3>2, <5>1
        <5>3. HasDigest(v, rows[v].source, b.algo)
          BY <5>1, <5>2 DEF AlgoInv
        <5> QED
          BY <2>3, <2>4, <2>5, <2>9, <3>2, <4>2, <5>3
      <4>3. CASE Registered(v) /\ ~\E e \in digests : e.version = v
        <5>1. Confirms(b)
          BY <1>2, <4>3 DEF Registers, Amends, Restampable, Recorded
        <5>2. InForce(v, b.algo) = b.source
          BY <5>1 DEF Confirms, IsCurrent
        <5>3. RestampsOf(v, b.algo) = {}
          BY <4>3 DEF AlgoInv, HasDigest, RestampsOf
        <5>4. rows[v].source = b.source
          BY <5>2, <5>3 DEF InForce
        <5> QED
          BY <2>3, <2>4, <2>5, <3>2, <4>3, <5>4 DEF HasDigest
      <4> QED
        BY <4>1, <4>2, <4>3
    <3> QED
      BY <2>2, <3>1, <3>2
  <2>12. ASSUME Amends(b)
         PROVE  HasDigest(v, b.source, b.algo)'
    <3>1. PICK e \in digests : e.version = v /\ e.algo = b.algo
      BY <2>12 DEF Amends, Restampable, Recorded
    <3>2. PICK d \in digests' : d.version = v /\ d.source = b.source
      BY <2>2
    <3>3. d.algo = b.algo
      BY <2>2, <2>8, <3>1, <3>2
    <3> QED
      BY <3>2, <3>3 DEF HasDigest
  <2> DEFINE Has(w, s, g) == \E d \in digests' : d.version = w /\ d.source = s /\ d.algo = g
  <2>13. \A j \in DOMAIN restamps' : Has(restamps'[j].version, restamps'[j].new, restamps'[j].algo)
    <3>1. \A j \in DOMAIN restamps : Has(restamps[j].version, restamps[j].new, restamps[j].algo)
      <4>1. \A w, s, g : HasDigest(w, s, g) => Has(w, s, g)
        BY <2>2 DEF HasDigest
      <4> HIDE DEF Has
      <4> QED
        BY <4>1 DEF AlgoInv
    <3>2. CASE UNCHANGED restamps
      BY <3>1, <3>2
    <3>3. CASE Amends(b)
      <4>1. Has(v, b.source, b.algo)
        BY <2>12, <3>3 DEF HasDigest
      <4>2. /\ RestampRow(b).version = v /\ RestampRow(b).new = b.source
            /\ RestampRow(b).algo = b.algo
        BY DEF RestampRow
      <4>3. AppendRestamp(b)
        BY <3>3 DEF Amends
      <4> QED
        BY <3>1, <4>1, <4>2, <4>3, Appended
    <3> QED
      BY <1>2, <3>2, <3>3 DEF Registers, Register, Confirms
  <2> DEFINE Sound(c) ==
               \/ RestampsOf(Version(c), c.algo)' = {} /\ rows'[Version(c)].source = c.source
               \/ \E d \in digests' : d.version = Version(c) /\ d.algo = c.algo
  <2>14. ASSUME NEW r \in runs
         PROVE  Sound(r.build)
    <3> DEFINE c == r.build
               w == Version(c)
    <3>1. c \in Builds /\ w \in Versions /\ Registered(w)
      BY BuildFacts DEF TypeOK, BehaviourInv
    <3>2. CASE \E d \in digests : d.version = w /\ d.algo = c.algo
      BY <2>2, <3>2
    <3>3. CASE RestampsOf(w, c.algo) = {} /\ rows[w].source = c.source
      <4>1. rows'[w] = rows[w]
        BY <2>5, <3>1
      <4>2. CASE UNCHANGED restamps
        BY <3>3, <4>1, <4>2 DEF RestampsOf
      <4>3. CASE Amends(b) /\ w = v /\ c.algo = b.algo
        BY <2>12, <4>3 DEF HasDigest
      <4>4. CASE Amends(b) /\ ~(w = v /\ c.algo = b.algo)
        <5>1. \A x, g : RestampsOf(x, g)' =
                 RestampsOf(x, g) \cup (IF x = v /\ g = b.algo THEN {Len(restamps) + 1} ELSE {})
          BY <4>4, Appended DEF Amends
        <5>2. RestampsOf(w, c.algo)' = {}
          BY <3>3, <4>4, <5>1
        <5> QED
          BY <3>3, <4>1, <5>2
      <4> QED
        BY <1>2, <4>2, <4>3, <4>4 DEF Registers, Register, Confirms
    <3> QED
      BY <3>2, <3>3 DEF AlgoInv
  <2>15. ASSUME ~\E d \in digests' : d.version = v /\ d.algo = b.algo
         PROVE  RestampsOf(v, b.algo)' = {} /\ rows'[v].source = b.source
    <3>1. PICK d \in digests' : d.version = v /\ d.source = b.source
      BY <2>2
    <3>2. d \in digests
      BY <2>2, <2>3, <2>15, <3>1
    <3>3. Registered(v)
      BY <3>1, <3>2 DEF AlgoInv
    <3>4. ~Amends(b)
      BY <2>12, <2>15 DEF HasDigest
    <3>5. Confirms(b)
      BY <1>2, <3>3, <3>4 DEF Registers
    <3>6. RestampsOf(v, b.algo) = {}
      BY <2>2, <2>15 DEF AlgoInv, HasDigest, RestampsOf
    <3>7. rows[v].source = b.source /\ rows' = rows /\ restamps' = restamps
      BY <3>5, <3>6 DEF Confirms, IsCurrent, InForce
    <3> QED
      BY <3>6, <3>7 DEF RestampsOf
  <2>16. \A r \in runs' : Sound(r.build)
    <3>1. \A r \in runs' : r \in runs \/ r.build = b
      BY <1>2, RunAdded
    <3>2. Sound(b)
      BY <2>15
    <3> QED
      BY <2>14, <3>1, <3>2
  <2> QED
    BY <2>8, <2>11, <2>13, <2>16 DEF AlgoInv, HasDigest, RestampsOf
<1> QED
  BY <1>1, <1>2

-----------------------------------------------------------------------------
(* The chain of restamps, and the ingest that writes all or nothing. *)

LEMMA ChainStep ==
  ASSUME TypeOK, LatestInv, BehaviourInv, RestampsChain,
         Quiet \/ \E b \in Builds : Registers(b) \/ Confirms(b) \/ Amends(b)
  PROVE  RestampsChain'
<1> DEFINE Earlier(i) == {j \in RestampsOf(restamps[i].version, restamps[i].algo) : j < i}
           Link(i) == /\ restamps[i].new # restamps[i].old
                      /\ restamps[i].old =
                            IF Earlier(i) = {} THEN rows[restamps[i].version].source
                            ELSE restamps[Latest(Earlier(i))].new
<1>1. CASE UNCHANGED restamps
  <2>1. \A i \in DOMAIN restamps : rows'[restamps[i].version] = rows[restamps[i].version]
    BY RowsStay, RestampTypes DEF BehaviourInv
  <2> QED
    BY <1>1, <2>1 DEF RestampsChain, RestampsOf, Latest
<1>2. ASSUME NEW b \in Builds, Registered(Version(b)), Restampable(b), AppendRestamp(b)
      PROVE  RestampsChain'
  <2> DEFINE n == Len(restamps) + 1
             v == Version(b)
  <2>1. b.algo \in Algos /\ v \in Versions
    BY BuildFacts
  <2>2. rows' = rows
    BY <1>2 DEF AppendRestamp
  <2>3. /\ DOMAIN restamps' = DOMAIN restamps \cup {n}
        /\ \A i \in DOMAIN restamps : restamps'[i] = restamps[i]
        /\ restamps'[n] = RestampRow(b)
        /\ \A i \in DOMAIN restamps : i \in Nat /\ i < n
        /\ n \in Nat
    <3>1. Len(restamps) \in Nat
      BY DEF TypeOK
    <3> QED
      <4>1. DOMAIN restamps' = DOMAIN restamps \cup {n} /\ restamps'[n] = RestampRow(b)
        BY <1>2, Appended
      <4>2. \A i \in DOMAIN restamps : restamps'[i] = restamps[i] /\ i \in Nat /\ i < n
        BY <1>2, Appended
      <4> QED
        BY <3>1, <4>1, <4>2
  <2>4. \A w, g : RestampsOf(w, g)' =
           RestampsOf(w, g) \cup (IF w = v /\ g = b.algo THEN {n} ELSE {})
    BY <1>2, Appended
  <2>5. \A w, g : RestampsOf(w, g) \subseteq DOMAIN restamps
    BY DEF RestampsOf
  <2> DEFINE Before(i) ==
               {j \in {k \in DOMAIN restamps' :
                         /\ restamps'[k].version = restamps'[i].version
                         /\ restamps'[k].algo = restamps'[i].algo} : j < i}
             LinkThen(i) == /\ restamps'[i].new # restamps'[i].old
                            /\ restamps'[i].old =
                                  IF Before(i) = {} THEN rows'[restamps'[i].version].source
                                  ELSE restamps'[Latest(Before(i))].new
  <2>7. ASSUME NEW i \in DOMAIN restamps
        PROVE  LinkThen(i)
    <3>1. restamps'[i] = restamps[i] /\ Link(i)
      BY <2>3 DEF RestampsChain
    <3>2. Before(i) = Earlier(i)
      BY <2>3, <3>1 DEF RestampsOf
    <3>3. HasLatest(Earlier(i))
      BY <2>3, RestampTypes DEF LatestInv
    <3>4. Earlier(i) # {} => Latest(Earlier(i)) \in Earlier(i)
      BY <3>3 DEF HasLatest, Latest
    <3>5. Earlier(i) # {} => restamps'[Latest(Earlier(i))] = restamps[Latest(Earlier(i))]
      BY <2>3, <3>4 DEF RestampsOf
    <3> QED
      BY <2>2, <3>1, <3>2, <3>5
  <2>8. LinkThen(n)
    <3>1. Before(n) = RestampsOf(v, b.algo)
      <4>1. RestampRow(b).version = v /\ RestampRow(b).algo = b.algo
        BY DEF RestampRow
      <4> QED
        BY <2>3, <4>1 DEF RestampsOf
    <3>2. RestampsOf(v, b.algo) # {} => Latest(RestampsOf(v, b.algo)) \in RestampsOf(v, b.algo)
      BY <2>1, LatestOfAll
    <3>3. RestampRow(b).old = InForce(v, b.algo) /\ RestampRow(b).new = b.source
          /\ RestampRow(b).version = v
      BY DEF RestampRow
    <3>4. b.source # InForce(v, b.algo)
      BY <1>2 DEF Restampable, IsCurrent
    <3> QED
      BY <2>2, <2>3, <2>5, <3>1, <3>2, <3>3, <3>4 DEF InForce
  <2>9. \A i \in DOMAIN restamps' : LinkThen(i)
    <3> HIDE DEF LinkThen
    <3> QED
      BY <2>3, <2>7, <2>8
  <2> QED
    BY <2>9 DEF RestampsChain, RestampsOf, Latest
<1> QED
  BY <1>1, <1>2 DEF Quiet, Registers, Register, Confirms, Amends

LEMMA CoverStep ==
  ASSUME TypeOK, BehaviourInv, CoverInv,
         Quiet \/ \E b \in Builds : Registers(b) \/ Confirms(b) \/ Amends(b)
  PROVE  CoverInv'
<1>1. CASE Quiet
  BY <1>1 DEF Quiet, CoverInv, Registered
<1>2. ASSUME NEW b \in Builds, Registers(b) \/ Confirms(b) \/ Amends(b)
      PROVE  CoverInv'
  <2> DEFINE v == Version(b)
             Covered(s) == \E r \in runs' : r.build.source = s
  <2>1. b.source \in Sources /\ v \in Versions
    BY BuildFacts
  <2>2. \A w \in Versions : Registered(w) => Registered(w)' /\ rows'[w] = rows[w]
    BY <1>2, RowsStay
  <2>3. runs \subseteq runs'
    BY <1>2, RunAdded
  <2>4. RunOf(b) => Covered(b.source)
    <3>1. ASSUME NEW l \in Logs, runs' = runs \cup {[log |-> l, build |-> b]}
          PROVE  Covered(b.source)
      <4>1. [log |-> l, build |-> b] \in runs'
        BY <3>1
      <4> QED
        BY <4>1
    <3> QED
      BY <3>1 DEF RunOf
  <2>5. ASSUME NEW w \in Versions, Registered(w)', ~rows'[w].audited
        PROVE  Covered(rows'[w].source)
    <3>1. CASE Registered(w)
      BY <2>2, <2>3, <2>5, <3>1 DEF CoverInv
    <3>2. CASE ~Registered(w)
      <4>1. Registers(b) /\ w = v
        BY <1>2, <2>1, <2>5, <3>2
           DEF Registers, Confirms, Amends, Register, AppendRestamp, Registered, TypeOK
      <4>2. /\ Register(b, TRUE) => rows'[v].audited
            /\ Register(b, FALSE) => rows'[v].source = b.source
        BY <2>1 DEF Register, TypeOK
      <4>3. ~Register(b, TRUE)
        BY <2>5, <4>1, <4>2
      <4>4. Register(b, FALSE) /\ RunOf(b)
        BY <4>1, <4>3 DEF Registers
      <4>5. rows'[w].source = b.source
        BY <4>1, <4>2, <4>4
      <4> QED
        BY <2>4, <4>4, <4>5
    <3> QED
      BY <3>1, <3>2
  <2>6. ASSUME NEW i \in DOMAIN restamps', ~rows'[restamps'[i].version].audited
        PROVE  Covered(restamps'[i].new)
    <3>1. ASSUME NEW j \in DOMAIN restamps, ~rows'[restamps[j].version].audited
          PROVE  Covered(restamps[j].new)
      <4>1. rows'[restamps[j].version] = rows[restamps[j].version]
        BY <2>2, RestampTypes DEF BehaviourInv
      <4> QED
        BY <2>3, <3>1, <4>1 DEF CoverInv
    <3>2. CASE UNCHANGED restamps
      BY <2>6, <3>1, <3>2
    <3>3. CASE Amends(b)
      <4>1. RestampRow(b).version = v /\ RestampRow(b).new = b.source
        BY DEF RestampRow
      <4>2. AppendRestamp(b) /\ rows' = rows /\ (RunOf(b) \/ rows[v].audited)
        BY <3>3 DEF Amends, AppendRestamp
      <4>3. CASE i \in DOMAIN restamps
        BY <2>6, <3>1, <4>2, <4>3, Appended
      <4>4. CASE i \notin DOMAIN restamps
        BY <2>4, <2>6, <4>1, <4>2, <4>4, Appended
      <4> QED
        BY <4>3, <4>4
    <3> QED
      BY <1>2, <3>2, <3>3 DEF Registers, Register, Confirms
  <2> QED
    BY <2>5, <2>6 DEF CoverInv, Registered
<1> QED
  BY <1>1, <1>2

-----------------------------------------------------------------------------
(* Currency. *)

LEMMA CurrencyStep ==
  ASSUME TypeOK, CaseInv, NEW c \in frozen, ~LabelledCurrent(c),
         \A v \in Versions : Registered(v) => Registered(v)' /\ rows'[v] = rows[v]
  PROVE  ~LabelledCurrent(c)'
<1> DEFINE v == c.version
<1>1. v \in Versions /\ Registered(v) /\ c.source = rows[v].source
  BY DEF TypeOK, Cases, CaseInv, Provenance
<1>2. v \notin CurrentVersions
  BY <1>1 DEF LabelledCurrent
<1>3. \A w \in Versions : Registered(w) => (w \in Audited <=> w \in Audited')
  BY DEF Audited
<1>4. CASE v \notin Audited
  BY <1>1, <1>3, <1>4 DEF LabelledCurrent, CurrentVersions
<1>5. CASE v \in Audited
  <2>1. PICK w \in Audited : ~(rows[w].at <= rows[v].at)
    BY <1>2, <1>5 DEF CurrentVersions
  <2>2. w \in Versions /\ Registered(w)
    BY DEF Audited
  <2>3. w \in Audited' /\ rows'[w] = rows[w] /\ rows'[v] = rows[v]
    BY <1>1, <1>3, <2>2
  <2>4. ~(rows'[w].at <= rows'[v].at)
    BY <2>1, <2>3
  <2> QED
    BY <2>3, <2>4 DEF LabelledCurrent, CurrentVersions
<1> QED
  BY <1>4, <1>5

-----------------------------------------------------------------------------
(* The inductive invariant and the theorems. *)

IInv ==
    /\ TypeOK /\ ProcessInv /\ LatestInv /\ BehaviourInv /\ AlgoInv
    /\ CoverInv /\ CaseInv /\ RestampsChain

LEMMA Initially == ASSUME Init PROVE IInv
<1>1. TypeOK /\ ProcessInv /\ LatestInv
  BY TypeInit
<1>2. BehaviourInv /\ AlgoInv
  BY DEF Init, BehaviourInv, AlgoInv, RestampsOf
<1>3. CaseInv /\ RestampsChain
  BY DEF Init, CaseInv, RestampsChain
<1>4. CoverInv
  <2>1. ASSUME NEW v \in Versions, Registered(v)
        PROVE  rows[v].audited
    <3>1. CASE rows = Unregistered
      BY <2>1, <3>1 DEF Registered, Unregistered
    <3>2. ASSUME NEW b \in Builds,
                 rows = [Unregistered EXCEPT ![Version(b)] =
                            [source |-> b.source, audited |-> TRUE, at |-> 0]]
          PROVE  rows[v].audited
      BY <2>1, <3>2 DEF Registered, Unregistered
    <3> QED
      BY <3>1, <3>2 DEF Init
  <2> QED
    BY <2>1 DEF Init, CoverInv
<1> QED
  BY <1>1, <1>2, <1>3, <1>4 DEF IInv

LEMMA Inductive == ASSUME IInv, [Next]_vars PROVE IInv'
<1> USE DEF IInv
<1>1. Quiet \/ \E b \in Builds : Registers(b) \/ Confirms(b) \/ Amends(b)
  BY Moves
<1>2. \A v \in Versions : Registered(v) => Registered(v)' /\ rows'[v] = rows[v]
  BY <1>1, RowsStay
<1>3. Processes /\ ProcessInv' /\ CaseInv'
  BY <1>2, ProcessStep
<1>4. TypeOK'
  BY <1>1, <1>3, IdentityTypes, RunTypes DEF TypeOK, Processes
<1>5. LatestInv' /\ BehaviourInv' /\ AlgoInv' /\ CoverInv' /\ RestampsChain'
  BY <1>1, LatestStep, BehaviourStep, AlgoStep, CoverStep, ChainStep
<1> QED
  BY <1>3, <1>4, <1>5

LEMMA Invariant == Spec => []IInv
  BY Initially, Inductive, PTL DEF Spec

\* The tables and the commands have their types (all three commands of the module).
THEOREM Typed == Spec => []TypeOK
<1>1. IInv => TypeOK
  BY DEF IInv
<1> QED
  BY <1>1, Invariant, PTL

\* Safeguard A of classify_implementation_drift: what is recorded under one version
\* behaves alike, whichever restamps and digest algorithms came in between.
THEOREM OneBehaviour == Spec => []OneBehaviourPerVersion
<1>1. IInv => OneBehaviourPerVersion
  BY DEF IInv, BehaviourInv, OneBehaviourPerVersion
<1> QED
  BY <1>1, Invariant, PTL

\* A build whose ingest was accepted is accepted from then on (#209).
THEOREM NeverLockedOut == Spec => []AcceptedStaysAccepted
<1>1. IInv => AcceptedStaysAccepted
  BY Accepted DEF IInv
<1> QED
  BY <1>1, Invariant, PTL

\* metric_implementation_restamps is a chain from the registered source, although
\* register_audited_metric plans outside its transaction.
THEOREM Chain == Spec => []RestampsChain
<1>1. IInv => RestampsChain
  BY DEF IInv
<1> QED
  BY <1>1, Invariant, PTL

\* write_paired_evidence writes the identity and the run together or not at all.
THEOREM AllOrNothing == Spec => []IngestIsAllOrNothing
<1>1. IInv => IngestIsAllOrNothing
  BY DEF IInv, CoverInv, IngestIsAllOrNothing
<1> QED
  BY <1>1, Invariant, PTL

\* frozen_cases_with_currency: a restamp leaves the cases of the current version current.
THEOREM EditKeepsCurrency == Spec => []CommentEditKeepsCurrency
<1>1. IInv => CommentEditKeepsCurrency
  BY DEF IInv, CaseInv, Provenance, CommentEditKeepsCurrency, LabelledCurrent
<1> QED
  BY <1>1, Invariant, PTL

\* 'current' means minted by an implementation that behaves like the audited one.
THEOREM Attested == Spec => []CurrentMeansAttested
<1>1. IInv => CurrentMeansAttested
  BY DEF IInv, CaseInv, Provenance, CurrentMeansAttested, LabelledCurrent
<1> QED
  BY <1>1, Invariant, PTL

\* A frozen case that lost its currency, or never had it, does not get it back.
THEOREM CurrencyLost == Spec => CurrencyNeverReturns
<1>1. ASSUME IInv, [Next]_vars
      PROVE  [\A c \in frozen : ~LabelledCurrent(c) => ~LabelledCurrent(c)']_vars
  <2>1. \A v \in Versions : Registered(v) => Registered(v)' /\ rows'[v] = rows[v]
    BY <1>1, Moves, RowsStay DEF IInv
  <2> QED
    BY <1>1, <2>1, CurrencyStep DEF IInv
<1> QED
  BY <1>1, Invariant, PTL DEF Spec, CurrencyNeverReturns
=============================================================================
