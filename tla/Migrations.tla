------------------------------ MODULE Migrations ------------------------------
(***************************************************************************)
(* Opening a store: apply_pending of src/skill_harness/storage/migrations. *)
(* Several processes, of several installed versions of the package, open   *)
(* one database file.  Each brings its numbered SQL files up to date with  *)
(* the store: it applies those the ledger does not list and verifies those *)
(* it lists, repairing an edit that changed commentary only.               *)
(*                                                                         *)
(* A file is its raw digest; what its statements do to the schema is the   *)
(* digest's meaning (the semantic digest).  Every action is one statement  *)
(* or one transaction; an opener may die between any two of them, be it    *)
(* killed or refused the write lock.                                       *)
(***************************************************************************)
EXTENDS Integers, Sequences

CONSTANTS
    Openers,     \* processes that open the store
    Packages,    \* installed versions of the package
    Raws,        \* raw digests of migration files
    Meanings,    \* semantic digests
    MeaningOf,   \* the semantic digest of each raw digest
    FilesOf,     \* the files of each package, in ascending version order
    NMigrations, \* the longest list of files
    None,        \* no row
    MaxOpens     \* bound: openings of a behaviour

Migs == 1..NMigrations

ASSUME MigrationsAssumption ==
    /\ MeaningOf \in [Raws -> Meanings]
    /\ NMigrations \in Nat
    /\ FilesOf \in [Packages -> Seq(Raws)]
    /\ \A p \in Packages : Len(FilesOf[p]) <= NMigrations
    /\ None \notin Raws
    /\ MaxOpens \in Nat

VARIABLES
    \* the store
    ledger,      \* schema_migrations: file_sha256 of each applied migration
    tables,      \* the repair tables and their triggers exist
    digests,     \* migration_semantic_digests
    restamps,    \* migration_sha_restamps of each migration, by restamp_id
    \* the openers
    pc,          \* what each does next
    package,     \* the package it runs
    applied,     \* its copy of the ledger: applied_records()
    at,          \* the migration it handles
    inForce,     \* in_force of _verify_or_restamp
    \* observers, not in the code
    vetted,      \* the migrations some opener of this release has gone past
    opens,       \* openings so far
    alone,       \* openers during whose opening no other has written
    settled,     \* packages that opened alone, with no write since
    quiet        \* openers of a settled package, with no write since

store     == <<ledger, tables, digests, restamps>>
opener    == <<pc, package, applied, at, inForce>>
observers == <<vetted, opens, alone, settled, quiet>>
vars      == <<store, opener, observers>>

Verifying == {"verify", "backfill", "compare", "restamp"}
Working   == Verifying \cup {"tables", "create", "ledger", "apply", "return"}
Done      == {"closed", "open", "tampered", "failed"}

Digests  == [mig : Migs, raw : Raws, meaning : Meanings]
Restamps == [superseded : Raws, raw : Raws]
Ledgers  == [Migs -> Raws \cup {None}]

TypeOK ==
    /\ ledger \in Ledgers
    /\ tables \in BOOLEAN
    /\ digests \subseteq Digests
    /\ restamps \in [Migs -> Seq(Restamps)]
    /\ pc \in [Openers -> Working \cup Done]
    /\ package \in [Openers -> Packages]
    /\ applied \in [Openers -> Ledgers]
    /\ at \in [Openers -> 1..NMigrations + 1]
    /\ inForce \in [Openers -> Raws \cup {None}]
    /\ \A o \in Openers : pc[o] \in Verifying => applied[o][at[o]] \in Raws
    /\ vetted \subseteq Migs
    /\ opens \in 0..MaxOpens
    /\ alone \subseteq Openers
    /\ settled \subseteq Packages
    /\ quiet \subseteq Openers

-----------------------------------------------------------------------------
Files(o) == FilesOf[package[o]]

\* The file of the migration the opener handles.
File(o) == Files(o)[at[o]]

\* Mutant: the first restamp wins (ORDER BY restamp_id without DESC).
FirstRestamp(m, ledgerSha) ==
    IF restamps[m] = <<>> THEN ledgerSha ELSE restamps[m][1].raw

\* _effective_recorded_sha(): the latest restamp wins, else the ledger row.
EffectiveSha(m, ledgerSha) ==
    IF restamps[m] = <<>> THEN ledgerSha
    ELSE restamps[m][Len(restamps[m])].raw

\* _recorded_semantic(): at most one meaning, by the primary key.
Recorded(m, raw) ==
    {d.meaning : d \in {e \in digests : e.mig = m /\ e.raw = raw}}

\* _append_semantic_digest(): INSERT OR IGNORE on the key (mig, raw).
WithDigest(m, raw) ==
    IF Recorded(m, raw) # {} THEN digests
    ELSE digests \cup {[mig |-> m, raw |-> raw, meaning |-> MeaningOf[raw]]}

\* A store of an earlier release, or an empty one: the first n files of some
\* package are applied, nothing of the repair bookkeeping exists.
Init ==
    /\ \E p \in Packages : \E n \in 0..Len(FilesOf[p]) :
         ledger = [m \in Migs |-> IF m <= n THEN FilesOf[p][m] ELSE None]
    /\ tables = FALSE /\ digests = {} /\ restamps = [m \in Migs |-> <<>>]
    /\ pc = [o \in Openers |-> "closed"]
    /\ package = [o \in Openers |-> CHOOSE p \in Packages : TRUE]
    /\ applied = [o \in Openers |-> [m \in Migs |-> None]]
    /\ at = [o \in Openers |-> 1]
    /\ inForce = [o \in Openers |-> None]
    /\ vetted = {} /\ opens = 0
    /\ alone = {} /\ settled = {} /\ quiet = {}

\* What the observers make of a write by o, and of a step without one.
Wrote(o) ==
    /\ alone' = alone \cap {o}
    /\ settled' = {} /\ quiet' = {}
    /\ UNCHANGED opens

NoWrite == UNCHANGED <<opens, alone, settled, quiet>>

Goto(o, step) == pc' = [pc EXCEPT ![o] = step]

\* Mutant: every file is taken to be in the ledger.
VerifyAll(o, i, rows) == IF i > Len(Files(o)) THEN "return" ELSE "verify"

\* What apply_pending does with file i, by the copy of the ledger.
StepFor(o, i, rows) ==
    IF i > Len(Files(o)) THEN "return"
    ELSE IF rows[i] # None THEN "verify" ELSE "apply"

\* The loop goes on to the next file, or is over.
Advance(o) ==
    /\ at' = [at EXCEPT ![o] = @ + 1]
    /\ vetted' = vetted \cup {at[o]}
    /\ Goto(o, StepFor(o, at[o] + 1, applied[o]))

-----------------------------------------------------------------------------
\* discover() and open_db(): a process of some package starts to open.
Open(o) ==
    /\ pc[o] \in Done /\ opens < MaxOpens
    /\ \E p \in Packages :
         /\ package' = [package EXCEPT ![o] = p]
         /\ quiet' = IF p \in settled THEN quiet \cup {o} ELSE quiet \ {o}
    /\ Goto(o, "tables")
    /\ applied' = [applied EXCEPT ![o] = [m \in Migs |-> None]]
    /\ at' = [at EXCEPT ![o] = 1]
    /\ inForce' = [inForce EXCEPT ![o] = None]
    /\ opens' = opens + 1
    /\ alone' = alone \cup {o}
    /\ UNCHANGED <<store, vetted, settled>>

\* _repair_tables_present()
LookForTables(o) ==
    /\ pc[o] = "tables"
    /\ Goto(o, IF tables THEN "ledger" ELSE "create")
    /\ UNCHANGED <<store, package, applied, at, inForce, observers>>

\* _ensure_repair_tables(): one transaction, IF NOT EXISTS throughout.
CreateTables(o) ==
    /\ pc[o] = "create"
    /\ tables' = TRUE
    /\ Goto(o, "ledger")
    /\ UNCHANGED <<ledger, digests, restamps, package, applied, at, inForce>>
    /\ UNCHANGED vetted
    /\ Wrote(o)

\* applied_records(): read once, before the loop.
ReadLedger(o) ==
    /\ pc[o] = "ledger"
    /\ applied' = [applied EXCEPT ![o] = ledger]
    /\ Goto(o, StepFor(o, 1, ledger))
    /\ UNCHANGED <<store, package, at, inForce, observers>>

\* Mutant: the ledger row goes in without its semantic digest.
ApplyWithoutDigest(o) ==
    /\ pc[o] = "apply" /\ ledger[at[o]] = None
    /\ ledger' = [ledger EXCEPT ![at[o]] = File(o)]
    /\ Advance(o)
    /\ UNCHANGED <<tables, digests, restamps, package, applied, inForce>>
    /\ Wrote(o)

\* Mutant: a row that another opener wrote is replaced (INSERT OR REPLACE).
ApplyOver(o) ==
    /\ pc[o] = "apply"
    /\ ledger' = [ledger EXCEPT ![at[o]] = File(o)]
    /\ digests' = WithDigest(at[o], File(o))
    /\ Advance(o)
    /\ UNCHANGED <<tables, restamps, package, applied, inForce>>
    /\ Wrote(o)

\* A file that is not in the copy of the ledger: its statements, the ledger row
\* and the semantic digest, in one transaction.
Apply(o) ==
    /\ pc[o] = "apply" /\ ledger[at[o]] = None
    /\ ledger' = [ledger EXCEPT ![at[o]] = File(o)]
    /\ digests' = WithDigest(at[o], File(o))
    /\ Advance(o)
    /\ UNCHANGED <<tables, restamps, package, applied, inForce>>
    /\ Wrote(o)

\* Another opener applied it since: the statements or the primary key of the
\* ledger fail, the transaction is rolled back (MigrationApplyError).
ApplyFails(o) ==
    /\ pc[o] = "apply" /\ ledger[at[o]] # None
    /\ Goto(o, "failed")
    /\ UNCHANGED <<store, package, applied, at, inForce, observers>>

(***************************************************************************)
(* _verify_or_restamp: the digest in force, then the meaning recorded for  *)
(* it, then the repair; each reads the store anew.                         *)
(***************************************************************************)
ReadInForce(o) ==
    LET sha == EffectiveSha(at[o], applied[o][at[o]]) IN
    /\ pc[o] = "verify"
    /\ inForce' = [inForce EXCEPT ![o] = sha]
    /\ Goto(o, IF sha = File(o) THEN "backfill" ELSE "compare")
    /\ UNCHANGED <<store, package, applied, at, observers>>

\* The file is the one in force and its meaning is recorded: nothing to do.
Verified(o) ==
    /\ pc[o] = "backfill" /\ Recorded(at[o], File(o)) # {}
    /\ Advance(o)
    /\ UNCHANGED <<store, package, applied, inForce>> /\ NoWrite

\* Mutant: nothing heals a store of an earlier release.
BackfillNothing(o) ==
    /\ pc[o] = "backfill" /\ Recorded(at[o], File(o)) = {}
    /\ Advance(o)
    /\ UNCHANGED <<store, package, applied, inForce>> /\ NoWrite

\* The store predates the digests: the meaning is recorded now.
Backfill(o) ==
    /\ pc[o] = "backfill" /\ Recorded(at[o], File(o)) = {}
    /\ digests' = WithDigest(at[o], File(o))
    /\ Advance(o)
    /\ UNCHANGED <<ledger, tables, restamps, package, applied, inForce>>
    /\ Wrote(o)

\* Mutant: a mismatch is repaired as soon as any meaning is recorded.
AnyMeaning(o) == Recorded(at[o], inForce[o]) # {}

\* The edit is comment-only: the meaning in force is the file's.
SameMeaning(o) == Recorded(at[o], inForce[o]) = {MeaningOf[File(o)]}

Compare(o) ==
    /\ pc[o] = "compare"
    /\ Goto(o, IF SameMeaning(o) THEN "restamp" ELSE "tampered")
    /\ UNCHANGED <<store, package, applied, at, inForce, observers>>

\* Mutant: the row names the ledger's digest, not the one in force.
RestampOfLedger(o) ==
    /\ pc[o] = "restamp"
    /\ restamps' = [restamps EXCEPT ![at[o]] =
                      Append(@, [superseded |-> applied[o][at[o]],
                                 raw        |-> File(o)])]
    /\ digests' = WithDigest(at[o], File(o))
    /\ Advance(o)
    /\ UNCHANGED <<ledger, tables, package, applied, inForce>>
    /\ Wrote(o)

\* _append_restamp(): the compensating row and the digest, one transaction.
Restamp(o) ==
    /\ pc[o] = "restamp"
    /\ restamps' = [restamps EXCEPT ![at[o]] =
                      Append(@, [superseded |-> inForce[o], raw |-> File(o)])]
    /\ digests' = WithDigest(at[o], File(o))
    /\ Advance(o)
    /\ UNCHANGED <<ledger, tables, package, applied, inForce>>
    /\ Wrote(o)

\* apply_pending returns and the store is handed to the caller.
Return(o) ==
    /\ pc[o] = "return"
    /\ Goto(o, "open")
    /\ settled' = IF o \in alone THEN settled \cup {package[o]} ELSE settled
    /\ UNCHANGED <<store, package, applied, at, inForce>>
    /\ UNCHANGED <<vetted, opens, alone, quiet>>

\* Killed, or refused the write lock (busy_timeout): nothing is left half-done.
Die(o) ==
    /\ pc[o] \in Working
    /\ Goto(o, "closed")
    /\ UNCHANGED <<store, package, applied, at, inForce, observers>>

\* No opening is left within the bound.
Rest ==
    /\ opens = MaxOpens /\ \A o \in Openers : pc[o] \in Done
    /\ UNCHANGED vars

OpenerStep(o) ==
    \/ LookForTables(o) \/ CreateTables(o) \/ ReadLedger(o)
    \/ Apply(o) \/ ApplyFails(o)
    \/ ReadInForce(o) \/ Verified(o) \/ Backfill(o) \/ Compare(o) \/ Restamp(o)
    \/ Return(o)

Next ==
    \/ \E o \in Openers : Open(o) \/ OpenerStep(o) \/ Die(o)
    \/ Rest

Spec == Init /\ [][Next]_vars

-----------------------------------------------------------------------------
\* The schema is what the ledger says was applied, and the digest in force
\* means the same: no chain of restamps, however the openers interleave,
\* passes a schema change off as an edit of commentary.
RestampsKeepMeaning ==
    \A m \in Migs : ledger[m] # None =>
        MeaningOf[EffectiveSha(m, ledger[m])] = MeaningOf[ledger[m]]

\* A store handed to the caller has the schema of the caller's own files, for
\* as long as the caller holds it.
OpenStoreHasSchema ==
    \A o \in Openers : pc[o] = "open" =>
        \A m \in DOMAIN Files(o) :
            /\ ledger[m] # None
            /\ MeaningOf[ledger[m]] = MeaningOf[Files(o)[m]]

\* A store is refused only for a changed schema, or for an edit made before any
\* opener of this release went past the migration: once it was applied, verified
\* or backfilled, a comment-only edit no longer bricks the store.
RefusalIsReal ==
    [][\A o \in Openers : pc[o] # "tampered" /\ pc'[o] = "tampered" =>
          \/ MeaningOf[ledger[at[o]]] # MeaningOf[File(o)]
          \/ at[o] \notin vetted /\ ledger[at[o]] # File(o)]_vars

\* Once a store was opened, the meaning of every digest in force is on record,
\* so the next comment-only edit can be repaired.
OpenStoreRepairable ==
    \A o \in Openers : pc[o] = "open" =>
        \A m \in DOMAIN Files(o) :
            Recorded(m, EffectiveSha(m, ledger[m])) = {MeaningOf[ledger[m]]}

\* Every restamp replaces a digest that was in force before it: the ledger's
\* or an earlier restamp's.  The chain of edits can be audited.
RestampsAuditable ==
    \A m \in Migs : \A k \in DOMAIN restamps[m] :
        LET r == restamps[m][k] IN
        /\ r.superseded # r.raw
        /\ r.superseded \in {ledger[m]} \cup {restamps[m][j].raw : j \in 1..k - 1}

\* Opening a store that the same package has left in order, with no write in
\* between, takes no write transaction and is never refused.
SteadyOpenWritesNothing ==
    \A o \in quiet :
        /\ pc[o] \notin {"create", "apply", "compare", "restamp"}
        /\ pc[o] \notin {"tampered", "failed"}
        /\ pc[o] = "backfill" => Recorded(at[o], File(o)) # {}
=============================================================================
