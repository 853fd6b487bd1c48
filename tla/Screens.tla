------------------------------ MODULE Screens ------------------------------
(***************************************************************************)
(* The Stage-0 screen store: the rows that `screen backfill --execute` and *)
(* ingest_screen_eval_log write, the supersessions that void rows without  *)
(* touching them, and the read-only `screen verdict`, several commands at  *)
(* a time on one evidence database.  Each command reads outside the        *)
(* transaction it then writes in (writer_transaction, BEGIN IMMEDIATE), so *)
(* a command is a sequence of atomic steps and any other command may run   *)
(* between two of them.                                                    *)
(*                                                                         *)
(* A row is named by what its screen_run_id is hashed from: the log it was *)
(* ingested from, and for a superseding row the reason as well.  Its skill,*)
(* harness pin and trials are those of its log, which the supersession     *)
(* copies in the transaction that writes it.                               *)
(***************************************************************************)
EXTENDS Naturals, Sequences, FiniteSets

CONSTANTS
    Procs,         \* operating-system processes, each runs one command at a time
    Logs,          \* the Null-only .eval logs
    SkillOf,       \* [Logs -> skills]: the skill a log screens
    PinOf,         \* [Logs -> pins \cup {None}]: its harness_pin_fingerprint
    Manifests,     \* the manifests of the installed versions: sequences of Entries
    Targets,       \* the skills of the disposition table, in its order
    Reasons,       \* the texts the installed versions void a target with
    FreshPins,     \* the values of `screen verdict --fresh-pin`, None if absent
    None,
    MaxCommands,   \* bound: commands started
    MaxCrashes     \* bound: commands that are killed or raise

Rulings == {"admissible", "inadmissible"}
\* The manifest's D4 fields: absent, only one of the two, checked clean, leaked.
D4Fields == {"absent", "half", "clean", "leak"}
Entries == [log: Logs, ruling: Rulings, d4: D4Fields]

ASSUME ScreenAssumption ==
    /\ None \notin Reasons
    /\ MaxCommands \in Nat /\ MaxCrashes \in Nat
    /\ Manifests \subseteq Seq(Entries)
    /\ Targets \in Seq({SkillOf[l] : l \in Logs})

VARIABLES
    stored,         \* ids of screen_runs
    admissible,     \* those whose admissibility_state is 'admissible'
    supersessions,  \* screen_run_supersessions: pairs <<superseded, superseding>>
    at,             \* the next step of each process's command
    kind,           \* the command: "backfill", "ingest" or "verdict"
    manifest,       \* the manifest it applies
    next,           \* index of the manifest entry or of the target it is at
    reason,         \* the text its version voids with
    victims,        \* the rows of the current target still to be voided
    row,            \* the one supersede_screen_run is called with
    due,            \* admissible target rows when it began voiding (for properties)
    fresh,          \* its --fresh-pin
    named,          \* the skills `screen verdict` refuses as stale
    seen,           \* the live admissible rows at that read (for properties)
    counted,        \* the rows that enter its p0
    commands, crashes

store  == <<stored, admissible, supersessions>>
writer == <<kind, manifest, next, reason, victims, row, due>>
reader == <<fresh, named, seen, counted>>
vars   == <<store, at, writer, reader, commands, crashes>>

----------------------------------------------------------------------------
(* Rows *)

Ids == [log: Logs, by: Reasons \cup {None}]

\* derived_screen_run_id
Ingested(log) == [log |-> log, by |-> None]

\* The id of the row that supersedes `id`.
Superseding(id, r) == [log |-> id.log, by |-> r]

Superseded == {s[1] : s \in supersessions}

\* The rows derive_p0_by_skill and select_stale_pin_skills look at.
Live == stored \ Superseded

\* The ruling apply_manifest stores: a D4 hit overrides the manifest's.
StoredRuling(e) == IF e.d4 = "leak" THEN "inadmissible" ELSE e.ruling

\* What _validate_d4_fields refuses.
HalfChecked(m) == \E i \in DOMAIN m : m[i].d4 = "half"

\* The rows selected for one target.
RowsOf(skill) == {id \in admissible : SkillOf[id.log] = skill}

\* The admissible rows of all targets.
TargetRows == {id \in admissible : \E i \in DOMAIN Targets : SkillOf[id.log] = Targets[i]}

Entry(p) == manifest[p][next[p]]

Init ==
    /\ stored = {} /\ admissible = {} /\ supersessions = {}
    /\ at = [p \in Procs |-> "idle"]
    /\ kind = [p \in Procs |-> "none"]
    /\ manifest = [p \in Procs |-> <<>>]
    /\ next = [p \in Procs |-> 1]
    /\ reason = [p \in Procs |-> None]
    /\ victims = [p \in Procs |-> {}]
    /\ row = [p \in Procs |-> None]
    /\ due = [p \in Procs |-> {}]
    /\ fresh = [p \in Procs |-> None]
    /\ named = [p \in Procs |-> {}]
    /\ seen = [p \in Procs |-> {}]
    /\ counted = [p \in Procs |-> {}]
    /\ commands = 0
    /\ crashes = 0

----------------------------------------------------------------------------
(* Commands *)

\* A process starts a command; the previous one of the process is over.
Begin(p, k, step, m, r) ==
    /\ at[p] \in {"idle", "done", "failed"}
    /\ commands < MaxCommands
    /\ commands' = commands + 1
    /\ at' = [at EXCEPT ![p] = step]
    /\ kind' = [kind EXCEPT ![p] = k]
    /\ manifest' = [manifest EXCEPT ![p] = m]
    /\ reason' = [reason EXCEPT ![p] = r]
    /\ next' = [next EXCEPT ![p] = 1]
    /\ victims' = [victims EXCEPT ![p] = {}]
    /\ row' = [row EXCEPT ![p] = None]
    /\ due' = [due EXCEPT ![p] = {}]
    /\ counted' = [counted EXCEPT ![p] = {}]
    /\ UNCHANGED <<store, crashes>>

\* A command that derives no p0.
NoReader(p) ==
    /\ fresh' = [fresh EXCEPT ![p] = None]
    /\ named' = [named EXCEPT ![p] = {}]
    /\ seen' = [seen EXCEPT ![p] = {}]

\* screen_backfill_cmd --execute, apply_manifest up to its loop.
StartBackfill(p, m, r) ==
    /\ ~HalfChecked(m)
    /\ Begin(p, "backfill", "look", m, r) /\ NoReader(p)

\* ingest_screen_eval_log of one log, which cannot run D4.
StartIngest(p, log, ruling) ==
    /\ Begin(p, "ingest", "check", <<[log |-> log, ruling |-> ruling, d4 |-> "absent"]>>, None)
    /\ NoReader(p)

Go(p, step) == at' = [at EXCEPT ![p] = step]

\* Everything but the step of the command and the store stays.
OnlyStore == UNCHANGED <<writer, reader, commands, crashes>>

\* An exception leaves the command: SupersededScreenRunError,
\* AlreadyIngestedScreenError, or the IntegrityError of a key.
Raise(p) == Go(p, "failed") /\ UNCHANGED store /\ OnlyStore

\* Mutant: the loop ends at the first entry that is already stored.
SkipRest(p) ==
    /\ at[p] = "look" /\ next[p] \in DOMAIN manifest[p]
    /\ Ingested(Entry(p).log) \in stored
    /\ next' = [next EXCEPT ![p] = Len(manifest[p]) + 1]
    /\ UNCHANGED <<store, at, kind, manifest, reason, victims, row, due, reader, commands, crashes>>

\* apply_manifest: the entry is in the store, it is skipped.
SkipStored(p) ==
    /\ at[p] = "look" /\ next[p] \in DOMAIN manifest[p]
    /\ Ingested(Entry(p).log) \in stored
    /\ next' = [next EXCEPT ![p] = @ + 1]
    /\ UNCHANGED <<store, at, kind, manifest, reason, victims, row, due, reader, commands, crashes>>

\* apply_manifest: it is not, write_screen_evidence is called.
Look(p) ==
    /\ at[p] = "look" /\ next[p] \in DOMAIN manifest[p]
    /\ Ingested(Entry(p).log) \notin stored
    /\ Go(p, "check") /\ UNCHANGED store /\ OnlyStore

\* write_screen_evidence asks again before its transaction ...
Check(p) ==
    /\ at[p] = "check"
    /\ Ingested(Entry(p).log) \notin stored
    /\ Go(p, "insert") /\ UNCHANGED store /\ OnlyStore

\* ... which then refuses a row whose primary key is taken.
AlreadyIngested(p) ==
    /\ at[p] \in {"check", "insert"}
    /\ Ingested(Entry(p).log) \in stored
    /\ Raise(p)

\* The transaction of write_screen_evidence: the row and its trials.
InsertRun(p) ==
    /\ at[p] = "insert"
    /\ Ingested(Entry(p).log) \notin stored
    /\ stored' = stored \cup {Ingested(Entry(p).log)}
    /\ admissible' = admissible \cup
          (IF StoredRuling(Entry(p)) = "admissible" THEN {Ingested(Entry(p).log)} ELSE {})
    /\ next' = [next EXCEPT ![p] = @ + 1]
    /\ Go(p, IF kind[p] = "ingest" THEN "done" ELSE "look")
    /\ UNCHANGED <<supersessions, kind, manifest, reason, victims, row, due,
                   reader, commands, crashes>>

\* The manifest is applied; supersede_d4_screen_runs is called.
BeginVoiding(p) ==
    /\ at[p] = "look" /\ next[p] \notin DOMAIN manifest[p]
    /\ Go(p, "select")
    /\ next' = [next EXCEPT ![p] = 1]
    /\ due' = [due EXCEPT ![p] = TargetRows]
    /\ UNCHANGED <<store, kind, manifest, reason, victims, row, reader, commands, crashes>>

\* The SELECT of one target, fetched whole.
SelectRows(p) ==
    /\ at[p] = "select" /\ next[p] \in DOMAIN Targets
    /\ victims' = [victims EXCEPT ![p] = RowsOf(Targets[next[p]])]
    /\ Go(p, "void")
    /\ UNCHANGED <<store, kind, manifest, next, reason, row, due, reader, commands, crashes>>

\* Mutant: a superseded row ends the loop over the target's rows.
StopAtSuperseded(p) ==
    /\ at[p] = "void" /\ victims[p] \cap Superseded # {}
    /\ victims' = [victims EXCEPT ![p] = {}]
    /\ UNCHANGED <<store, at, kind, manifest, next, reason, row, due, reader, commands, crashes>>

\* supersede_d4_screen_runs: one row of the target, already superseded.
SkipSuperseded(p) ==
    /\ at[p] = "void"
    /\ \E id \in victims[p] \cap Superseded :
          victims' = [victims EXCEPT ![p] = @ \ {id}]
    /\ UNCHANGED <<store, at, kind, manifest, next, reason, row, due, reader, commands, crashes>>

\* supersede_d4_screen_runs: one that is not, supersede_screen_run is called.
CallSupersede(p, id) ==
    /\ at[p] = "void"
    /\ id \in victims[p] \ Superseded
    /\ row' = [row EXCEPT ![p] = id]
    /\ Go(p, "recheck")
    /\ UNCHANGED <<store, kind, manifest, next, reason, victims, due, reader, commands, crashes>>

\* supersede_screen_run reads whether the row is superseded ...
Recheck(p) ==
    /\ at[p] = "recheck" /\ row[p] \notin Superseded
    /\ Go(p, "write") /\ UNCHANGED store /\ OnlyStore

AlreadySuperseded(p) ==
    /\ at[p] = "recheck" /\ row[p] \in Superseded
    /\ Raise(p)

\* Mutant: no UNIQUE on superseded_screen_run_id.
RowKeyOnly(old, new) == new \notin stored

\* The keys of the transaction that follows: the primary key of the new row,
\* the two UNIQUE columns of screen_run_supersessions.
KeysAllow(old, new) ==
    /\ new \notin stored
    /\ \A s \in supersessions : s[1] # old /\ s[2] # new

KeyRefused(p) ==
    /\ at[p] = "write" /\ ~KeysAllow(row[p], Superseding(row[p], reason[p]))
    /\ Raise(p)

\* Mutant: the new row is a copy, its ruling included.
CopiedRuling(id) == IF id \in admissible THEN "admissible" ELSE "inadmissible"

\* The admissibility_state supersede_d4_screen_runs gives the new row.
VoidRuling(id) == "inadmissible"

\* Mutant: the supersession is committed before the row it refers to.
SupersessionFirst(p) ==
    LET new == Superseding(row[p], reason[p])
    IN  /\ at[p] = "write" /\ KeysAllow(row[p], new)
        /\ supersessions' = supersessions \cup {<<row[p], new>>}
        /\ victims' = [victims EXCEPT ![p] = @ \ {row[p]}]
        /\ Go(p, "void")
        /\ UNCHANGED <<stored, admissible, kind, manifest, next, reason, row, due,
                       reader, commands, crashes>>

\* ... and in a transaction of its own writes the new row, the copied trials
\* and the supersession.
Supersede(p) ==
    LET new == Superseding(row[p], reason[p])
    IN  /\ at[p] = "write" /\ KeysAllow(row[p], new)
        /\ stored' = stored \cup {new}
        /\ admissible' = admissible \cup
              (IF VoidRuling(row[p]) = "admissible" THEN {new} ELSE {})
        /\ supersessions' = supersessions \cup {<<row[p], new>>}
        /\ victims' = [victims EXCEPT ![p] = @ \ {row[p]}]
        /\ Go(p, "void")
        /\ UNCHANGED <<kind, manifest, next, reason, row, due, reader, commands, crashes>>

\* The rows of the target are done.
NextTarget(p) ==
    /\ at[p] = "void" /\ victims[p] = {}
    /\ Go(p, "select")
    /\ next' = [next EXCEPT ![p] = @ + 1]
    /\ UNCHANGED <<store, kind, manifest, reason, victims, row, due, reader, commands, crashes>>

\* All targets are.
FinishBackfill(p) ==
    /\ at[p] = "select" /\ next[p] \notin DOMAIN Targets
    /\ Go(p, "done") /\ UNCHANGED store /\ OnlyStore

\* A command is killed, or raises for a reason of its own: a log that is not on
\* this machine, a trial score that is neither 0 nor 1 (which rolls back).
Crash(p) ==
    /\ at[p] \notin {"idle", "done", "failed"}
    /\ crashes < MaxCrashes
    /\ crashes' = crashes + 1
    /\ Go(p, "failed")
    /\ UNCHANGED <<store, writer, reader, commands>>

----------------------------------------------------------------------------
(* screen verdict *)

\* Mutant: NULL != ? is not true in SQL, a missing pin is not refused.
StaleNamedPin(pin, f) == f # None /\ pin # None /\ pin # f

\* The pins a row is refused for: not the fresh one, or none at all.
StalePin(pin, f) == f # None /\ (pin = None \/ pin # f)

\* The rows the p0 query joins when --fresh-pin is f.
PinMatches(pin, f) == f = None \/ pin = f

\* select_stale_pin_skills
StartVerdict(p, f) ==
    /\ Begin(p, "verdict", "derive", <<>>, None)
    /\ fresh' = [fresh EXCEPT ![p] = f]
    /\ LET rows == Live \cap admissible
       IN  /\ seen' = [seen EXCEPT ![p] = rows]
           /\ named' = [named EXCEPT ![p] =
                           {SkillOf[id.log] : id \in {i \in rows : StalePin(PinOf[i.log], f)}}]

\* derive_p0_by_skill, a statement of its own.
Derive(p) ==
    /\ at[p] = "derive"
    /\ counted' = [counted EXCEPT ![p] =
                      {id \in Live \cap admissible : PinMatches(PinOf[id.log], fresh[p])}]
    /\ Go(p, "done")
    /\ UNCHANGED <<store, writer, fresh, named, seen, commands, crashes>>

Step(p) ==
    \/ SkipStored(p) \/ Look(p) \/ Check(p) \/ AlreadyIngested(p) \/ InsertRun(p)
    \/ BeginVoiding(p) \/ SelectRows(p) \/ SkipSuperseded(p)
    \/ \E id \in victims[p] : CallSupersede(p, id)
    \/ Recheck(p) \/ AlreadySuperseded(p) \/ KeyRefused(p) \/ Supersede(p)
    \/ NextTarget(p) \/ FinishBackfill(p) \/ Derive(p)

\* All commands are over and none is started.
Rest ==
    /\ \A p \in Procs : at[p] \in {"idle", "done", "failed"}
    /\ UNCHANGED vars

Next ==
    \/ Rest
    \/ \E p \in Procs :
          \/ \E m \in Manifests, r \in Reasons : StartBackfill(p, m, r)
          \/ \E log \in Logs, ruling \in Rulings : StartIngest(p, log, ruling)
          \/ \E f \in FreshPins : StartVerdict(p, f)
          \/ Step(p)
          \/ Crash(p)

Spec == Init /\ [][Next]_vars

----------------------------------------------------------------------------
(* Properties *)

Steps == {"idle", "look", "check", "insert", "select", "void", "recheck", "write",
          "derive", "done", "failed"}

\* The store holds rows, the superseding of stored rows by stored rows, and each
\* command is at a step of its own code.
TypeOK ==
    /\ stored \subseteq Ids /\ admissible \subseteq stored
    /\ supersessions \subseteq stored \X stored
    /\ at \in [Procs -> Steps]
    /\ kind \in [Procs -> {"none", "backfill", "ingest", "verdict"}]
    /\ manifest \in [Procs -> Seq(Entries)]
    /\ next \in [Procs -> Nat \ {0}]
    /\ reason \in [Procs -> Reasons \cup {None}]
    /\ victims \in [Procs -> SUBSET Ids]
    /\ row \in [Procs -> Ids \cup {None}]
    /\ due \in [Procs -> SUBSET Ids]
    /\ fresh \in [Procs -> FreshPins \cup {None}]
    /\ named \in [Procs -> SUBSET {SkillOf[l] : l \in Logs}]
    /\ seen \in [Procs -> SUBSET Ids]
    /\ counted \in [Procs -> SUBSET Ids]
    /\ commands \in Nat /\ crashes \in Nat

\* Two backfills may both find a row live and both set out to supersede it, with
\* the same text or with the texts of two versions.  Whatever they do, a log that
\* was ingested has exactly one live row (migration 0900: "one it double-counts is
\* worse than none"): the checks read before the transaction never suffice, the
\* keys inside it do.
OneLiveRowPerLog ==
    \A l \in Logs :
        Ingested(l) \in stored => \E id \in Live : \A x \in Live : x.log = l <=> x = id

\* A log that was voided never enters p0 again, whichever commands ran since:
\* neither the row that voids it nor a second ingest of the log counts.
VoidedLogNeverCounts ==
    \A s \in supersessions : \A id \in Live \cap admissible : id.log # s[1].log

\* The backfill stores rows as admissible that the disposition table voids, and
\* voids them in transactions of its own afterwards.  When it ends normally,
\* though, no target row of that moment is left live, nor one it stored itself,
\* whatever other commands did in between.
BackfillVoidsItsTargets ==
    \A p \in Procs :
        kind[p] = "backfill" /\ at[p] = "done" => due[p] \subseteq Superseded

\* A backfill that ends normally reached every entry of its manifest, the ones
\* after an entry that was already stored too (the re-run with a grown manifest
\* of #430, after a crash of the first one or beside another one).
ManifestIsStored ==
    \A p \in Procs :
        kind[p] = "backfill" /\ at[p] = "done" =>
            \A i \in DOMAIN manifest[p] : Ingested(manifest[p][i].log) \in stored

\* `screen verdict` reads the refused skills and the counted rows in two
\* statements.  No row that was live at the first disappears silently: it enters
\* p0, or its skill is named as stale, or a command voided it in between.
VerdictAccountsForEveryRow ==
    \A p \in Procs :
        kind[p] = "verdict" /\ at[p] = "done" =>
            \A id \in seen[p] :
                \/ id \in counted[p]
                \/ SkillOf[id.log] \in named[p]
                \/ id \in Superseded

\* Only rows of the given logs were voided.
OnlyRowsVoidedOf(tableLogs) == \A id \in Superseded : id.log \in tableLogs

============================================================================
