--------------------------- MODULE ScreensProofs ---------------------------
(***************************************************************************)
(* Proofs, for every value of the constants, of the safety properties of   *)
(* Screens.  The inductive invariant is built in layers, each inductive    *)
(* relative to the ones before it:                                         *)
(*                                                                         *)
(*   CommandInv   what a command holds at each of its steps                *)
(*   StoreInv     how rows and supersessions belong together               *)
(*   ManifestInv  which manifest entries a backfill has gone past          *)
(*   VoidingInv   which target rows it has gone past                       *)
(*   VerdictInv   what `screen verdict` said of the rows of its first read *)
(***************************************************************************)
EXTENDS Screens, TLAPS

CommandInv ==
    \A p \in Procs :
        /\ at[p] \in {"look", "select", "void", "recheck", "write"} => kind[p] = "backfill"
        /\ at[p] \in {"check", "insert"} =>
             kind[p] \in {"backfill", "ingest"} /\ next[p] \in DOMAIN manifest[p]
        /\ at[p] = "derive" => kind[p] = "verdict"
        /\ kind[p] = "backfill" => reason[p] \in Reasons
        /\ victims[p] \subseteq admissible
        /\ at[p] \in {"recheck", "write"} => row[p] \in victims[p]

\* Only ingested rows are admissible, only ingested rows are superseded, each
\* once, and every other row supersedes one of the same log.
StoreInv ==
    /\ \A id \in admissible : id.by = None
    /\ \A s \in supersessions : s[1].by = None /\ s[2].by # None /\ s[2].log = s[1].log
    /\ \A s, u \in supersessions : s[1] = u[1] => s = u
    /\ \A id \in stored : id.by # None => \E s \in supersessions : s[2] = id

\* The entries before the one it is at are stored; all are, once it voids.
ManifestInv ==
    \A p \in Procs :
        kind[p] = "backfill" /\ at[p] \notin {"idle", "failed"} =>
            \A i \in DOMAIN manifest[p] :
                i < next[p] \/ at[p] \in {"select", "void", "recheck", "write", "done"} =>
                    Ingested(manifest[p][i].log) \in stored

\* The rows of the targets before the one it is at are superseded, those of the
\* one it is at are superseded or still to be; all are, once it is done.
VoidingInv ==
    \A p \in Procs :
        /\ kind[p] = "backfill" /\ at[p] \in {"select", "void", "recheck", "write", "done"} =>
             \A id \in due[p] :
                 /\ id \in admissible
                 /\ \E i \in DOMAIN Targets : SkillOf[id.log] = Targets[i]
        /\ kind[p] = "backfill" /\ at[p] = "done" => due[p] \subseteq Superseded
        /\ at[p] \in {"select", "void", "recheck", "write"} =>
             \A id \in due[p], i \in DOMAIN Targets :
                 i < next[p] /\ SkillOf[id.log] = Targets[i] => id \in Superseded
        /\ at[p] \in {"void", "recheck", "write"} =>
             \A id \in due[p] :
                 next[p] \in DOMAIN Targets /\ SkillOf[id.log] = Targets[next[p]] =>
                     id \in Superseded \cup victims[p]

VerdictInv ==
    \A p \in Procs :
        kind[p] = "verdict" /\ at[p] = "derive" =>
            \A id \in seen[p] :
                /\ id \in stored \cap admissible
                /\ SkillOf[id.log] \in named[p] \/ PinMatches(PinOf[id.log], fresh[p])

-----------------------------------------------------------------------------
(* Layer 1: types and commands. *)

LEMMA TypeInit == ASSUME Init PROVE TypeOK /\ CommandInv
  BY ScreenAssumption DEF Init, TypeOK, CommandInv, Steps

LEMMA BeginTypes ==
  ASSUME TypeOK,
         NEW p \in Procs, NEW k \in {"none", "backfill", "ingest", "verdict"},
         NEW step \in Steps, NEW m \in Seq(Entries), NEW r \in Reasons \cup {None},
         Begin(p, k, step, m, r), NoReader(p)
  PROVE  TypeOK'
  BY DEF TypeOK, Begin, NoReader, store

LEMMA TypeStep ==
  ASSUME TypeOK, CommandInv, [Next]_vars
  PROVE  TypeOK'
<1>1. ASSUME NEW p \in Procs, NEW m \in Manifests, NEW r \in Reasons, StartBackfill(p, m, r)
      PROVE  TypeOK'
  BY <1>1, ScreenAssumption DEF StartBackfill, TypeOK, Steps, Begin, NoReader, Go, OnlyStore, Raise, store, writer, reader
<1>2. ASSUME NEW p \in Procs, NEW log \in Logs, NEW ruling \in Rulings, StartIngest(p, log, ruling)
      PROVE  TypeOK'
  <2> DEFINE e == [log |-> log, ruling |-> ruling, d4 |-> "absent"]
  <2>1. e \in Entries
    BY <1>2 DEF Entries, D4Fields
  <2>2. <<e>> \in Seq(Entries)
    BY <2>1
  <2> HIDE DEF e
  <2>3. Begin(p, "ingest", "check", <<e>>, None) /\ NoReader(p)
    BY <1>2 DEF StartIngest, e
  <2> QED
    BY <2>2, <2>3, BeginTypes DEF Steps
<1>3. ASSUME NEW p \in Procs, NEW f \in FreshPins, StartVerdict(p, f)
      PROVE  TypeOK'
  BY <1>3, ScreenAssumption DEF StartVerdict, TypeOK, Steps, Live, Superseded, Ids, Begin, NoReader, Go, OnlyStore, Raise, store, writer, reader
<1>4. ASSUME NEW p \in Procs, SkipStored(p)
      PROVE  TypeOK'
  BY <1>4, ScreenAssumption DEF SkipStored, TypeOK, CommandInv, Steps, Begin, NoReader, Go, OnlyStore, Raise, store, writer, reader
<1>5. ASSUME NEW p \in Procs, Look(p)
      PROVE  TypeOK'
  BY <1>5, ScreenAssumption DEF Look, TypeOK, CommandInv, Steps, Begin, NoReader, Go, OnlyStore, Raise, store, writer, reader
<1>6. ASSUME NEW p \in Procs, Check(p)
      PROVE  TypeOK'
  BY <1>6, ScreenAssumption DEF Check, TypeOK, CommandInv, Steps, Begin, NoReader, Go, OnlyStore, Raise, store, writer, reader
<1>7. ASSUME NEW p \in Procs, AlreadyIngested(p)
      PROVE  TypeOK'
  BY <1>7, ScreenAssumption DEF AlreadyIngested, TypeOK, CommandInv, Steps, Begin, NoReader, Go, OnlyStore, Raise, store, writer, reader
<1>8. ASSUME NEW p \in Procs, InsertRun(p)
      PROVE  TypeOK'
  <2> DEFINE id == Ingested(Entry(p).log)
  <2>1. id \in Ids
    <3>1. manifest[p] \in Seq(Entries) /\ next[p] \in DOMAIN manifest[p]
      BY <1>8 DEF InsertRun, TypeOK, CommandInv
    <3>2. Entry(p) \in Entries
      BY <3>1 DEF Entry
    <3> QED
      BY <3>2 DEF Ids, Entries, Ingested
  <2> HIDE DEF id
  <2>2. /\ stored' = stored \cup {id}
        /\ admissible' = admissible \/ admissible' = admissible \cup {id}
    BY <1>8 DEF InsertRun, id
  <2> QED
    BY <1>8, <2>1, <2>2 DEF InsertRun, TypeOK, Steps, Go, reader
<1>9. ASSUME NEW p \in Procs, BeginVoiding(p)
      PROVE  TypeOK'
  BY <1>9, ScreenAssumption DEF BeginVoiding, TypeOK, Steps, TargetRows, Begin, NoReader, Go, OnlyStore, Raise, store, writer, reader
<1>10. ASSUME NEW p \in Procs, SelectRows(p)
      PROVE  TypeOK'
  BY <1>10, ScreenAssumption DEF SelectRows, TypeOK, Steps, RowsOf, Begin, NoReader, Go, OnlyStore, Raise, store, writer, reader
<1>11. ASSUME NEW p \in Procs, SkipSuperseded(p)
      PROVE  TypeOK'
  BY <1>11, ScreenAssumption DEF SkipSuperseded, TypeOK, CommandInv, Steps, Begin, NoReader, Go, OnlyStore, Raise, store, writer, reader
<1>12. ASSUME NEW p \in Procs, NEW id \in victims[p], CallSupersede(p, id)
      PROVE  TypeOK'
  BY <1>12, ScreenAssumption DEF CallSupersede, TypeOK, CommandInv, Steps, Begin, NoReader, Go, OnlyStore, Raise, store, writer, reader
<1>13. ASSUME NEW p \in Procs, Recheck(p)
      PROVE  TypeOK'
  BY <1>13, ScreenAssumption DEF Recheck, TypeOK, CommandInv, Steps, Begin, NoReader, Go, OnlyStore, Raise, store, writer, reader
<1>14. ASSUME NEW p \in Procs, AlreadySuperseded(p)
      PROVE  TypeOK'
  BY <1>14, ScreenAssumption DEF AlreadySuperseded, TypeOK, CommandInv, Steps, Begin, NoReader, Go, OnlyStore, Raise, store, writer, reader
<1>15. ASSUME NEW p \in Procs, KeyRefused(p)
      PROVE  TypeOK'
  BY <1>15, ScreenAssumption DEF KeyRefused, TypeOK, CommandInv, Steps, Begin, NoReader, Go, OnlyStore, Raise, store, writer, reader
<1>16. ASSUME NEW p \in Procs, Supersede(p)
      PROVE  TypeOK'
  BY <1>16, ScreenAssumption DEF Supersede, TypeOK, CommandInv, Steps, Ids, Superseding, Begin, NoReader, Go, OnlyStore, Raise, store, writer, reader
<1>17. ASSUME NEW p \in Procs, NextTarget(p)
      PROVE  TypeOK'
  BY <1>17, ScreenAssumption DEF NextTarget, TypeOK, CommandInv, Steps, Begin, NoReader, Go, OnlyStore, Raise, store, writer, reader
<1>18. ASSUME NEW p \in Procs, FinishBackfill(p)
      PROVE  TypeOK'
  BY <1>18, ScreenAssumption DEF FinishBackfill, TypeOK, CommandInv, Steps, Begin, NoReader, Go, OnlyStore, Raise, store, writer, reader
<1>19. ASSUME NEW p \in Procs, Derive(p)
      PROVE  TypeOK'
  BY <1>19, ScreenAssumption DEF Derive, TypeOK, Steps, Live, Begin, NoReader, Go, OnlyStore, Raise, store, writer, reader
<1>20. ASSUME NEW p \in Procs, Crash(p)
      PROVE  TypeOK'
  BY <1>20, ScreenAssumption DEF Crash, TypeOK, CommandInv, Steps, Begin, NoReader, Go, OnlyStore, Raise, store, writer, reader
<1>21. CASE UNCHANGED vars
  BY <1>21, ScreenAssumption DEF vars, store, writer, reader, TypeOK, CommandInv, Steps, Begin, NoReader, Go, OnlyStore, Raise, store, writer, reader
<1> QED
  BY <1>1, <1>2, <1>3, <1>4, <1>5, <1>6, <1>7, <1>8, <1>9, <1>10, <1>11, <1>12, <1>13, <1>14, <1>15, <1>16, <1>17, <1>18, <1>19, <1>20, <1>21
     DEF Next, Step, Rest

LEMMA CommandStep ==
  ASSUME TypeOK, CommandInv, [Next]_vars
  PROVE  CommandInv'
<1>1. ASSUME NEW p \in Procs, NEW m \in Manifests, NEW r \in Reasons, StartBackfill(p, m, r)
      PROVE  CommandInv'
  BY <1>1 DEF StartBackfill, TypeOK, CommandInv, Steps, Begin, NoReader, Go, OnlyStore, Raise, store, writer, reader
<1>2. ASSUME NEW p \in Procs, NEW log \in Logs, NEW ruling \in Rulings, StartIngest(p, log, ruling)
      PROVE  CommandInv'
  BY <1>2 DEF StartIngest, TypeOK, CommandInv, Steps, Begin, NoReader, Go, OnlyStore, Raise, store, writer, reader
<1>3. ASSUME NEW p \in Procs, NEW f \in FreshPins, StartVerdict(p, f)
      PROVE  CommandInv'
  BY <1>3 DEF StartVerdict, TypeOK, CommandInv, Steps, Begin, NoReader, Go, OnlyStore, Raise, store, writer, reader
<1>4. ASSUME NEW p \in Procs, SkipStored(p)
      PROVE  CommandInv'
  BY <1>4 DEF SkipStored, TypeOK, CommandInv, Steps, Begin, NoReader, Go, OnlyStore, Raise, store, writer, reader
<1>5. ASSUME NEW p \in Procs, Look(p)
      PROVE  CommandInv'
  BY <1>5 DEF Look, TypeOK, CommandInv, Steps, Begin, NoReader, Go, OnlyStore, Raise, store, writer, reader
<1>6. ASSUME NEW p \in Procs, Check(p)
      PROVE  CommandInv'
  BY <1>6 DEF Check, TypeOK, CommandInv, Steps, Begin, NoReader, Go, OnlyStore, Raise, store, writer, reader
<1>7. ASSUME NEW p \in Procs, AlreadyIngested(p)
      PROVE  CommandInv'
  BY <1>7 DEF AlreadyIngested, TypeOK, CommandInv, Steps, Begin, NoReader, Go, OnlyStore, Raise, store, writer, reader
<1>8. ASSUME NEW p \in Procs, InsertRun(p)
      PROVE  CommandInv'
  BY <1>8 DEF InsertRun, TypeOK, CommandInv, Steps, Begin, NoReader, Go, OnlyStore, Raise, store, writer, reader
<1>9. ASSUME NEW p \in Procs, BeginVoiding(p)
      PROVE  CommandInv'
  BY <1>9 DEF BeginVoiding, TypeOK, CommandInv, Steps, Begin, NoReader, Go, OnlyStore, Raise, store, writer, reader
<1>10. ASSUME NEW p \in Procs, SelectRows(p)
      PROVE  CommandInv'
  BY <1>10 DEF SelectRows, TypeOK, CommandInv, Steps, RowsOf, Begin, NoReader, Go, OnlyStore, Raise, store, writer, reader
<1>11. ASSUME NEW p \in Procs, SkipSuperseded(p)
      PROVE  CommandInv'
  BY <1>11 DEF SkipSuperseded, TypeOK, CommandInv, Steps, Begin, NoReader, Go, OnlyStore, Raise, store, writer, reader
<1>12. ASSUME NEW p \in Procs, NEW id \in victims[p], CallSupersede(p, id)
      PROVE  CommandInv'
  BY <1>12 DEF CallSupersede, TypeOK, CommandInv, Steps, Begin, NoReader, Go, OnlyStore, Raise, store, writer, reader
<1>13. ASSUME NEW p \in Procs, Recheck(p)
      PROVE  CommandInv'
  BY <1>13 DEF Recheck, TypeOK, CommandInv, Steps, Begin, NoReader, Go, OnlyStore, Raise, store, writer, reader
<1>14. ASSUME NEW p \in Procs, AlreadySuperseded(p)
      PROVE  CommandInv'
  BY <1>14 DEF AlreadySuperseded, TypeOK, CommandInv, Steps, Begin, NoReader, Go, OnlyStore, Raise, store, writer, reader
<1>15. ASSUME NEW p \in Procs, KeyRefused(p)
      PROVE  CommandInv'
  BY <1>15 DEF KeyRefused, TypeOK, CommandInv, Steps, Begin, NoReader, Go, OnlyStore, Raise, store, writer, reader
<1>16. ASSUME NEW p \in Procs, Supersede(p)
      PROVE  CommandInv'
  BY <1>16 DEF Supersede, TypeOK, CommandInv, Steps, Begin, NoReader, Go, OnlyStore, Raise, store, writer, reader
<1>17. ASSUME NEW p \in Procs, NextTarget(p)
      PROVE  CommandInv'
  BY <1>17 DEF NextTarget, TypeOK, CommandInv, Steps, Begin, NoReader, Go, OnlyStore, Raise, store, writer, reader
<1>18. ASSUME NEW p \in Procs, FinishBackfill(p)
      PROVE  CommandInv'
  BY <1>18 DEF FinishBackfill, TypeOK, CommandInv, Steps, Begin, NoReader, Go, OnlyStore, Raise, store, writer, reader
<1>19. ASSUME NEW p \in Procs, Derive(p)
      PROVE  CommandInv'
  BY <1>19 DEF Derive, TypeOK, CommandInv, Steps, Begin, NoReader, Go, OnlyStore, Raise, store, writer, reader
<1>20. ASSUME NEW p \in Procs, Crash(p)
      PROVE  CommandInv'
  BY <1>20 DEF Crash, TypeOK, CommandInv, Steps, Begin, NoReader, Go, OnlyStore, Raise, store, writer, reader
<1>21. CASE UNCHANGED vars
  BY <1>21 DEF vars, store, writer, reader, TypeOK, CommandInv, Steps, Begin, NoReader, Go, OnlyStore, Raise, store, writer, reader
<1> QED
  BY <1>1, <1>2, <1>3, <1>4, <1>5, <1>6, <1>7, <1>8, <1>9, <1>10, <1>11, <1>12, <1>13, <1>14, <1>15, <1>16, <1>17, <1>18, <1>19, <1>20, <1>21
     DEF Next, Step, Rest

-----------------------------------------------------------------------------
(* Layer 2: the store. *)

\* Only two transactions write the store.
LEMMA StoreMoves ==
  ASSUME [Next]_vars
  PROVE  \/ UNCHANGED store
         \/ \E p \in Procs : InsertRun(p)
         \/ \E p \in Procs : Supersede(p)
<1>1. ASSUME NEW p \in Procs, NEW m \in Manifests, NEW r \in Reasons, StartBackfill(p, m, r)
      PROVE  UNCHANGED store
  BY <1>1 DEF StartBackfill, Begin, NoReader, Go, OnlyStore, Raise, store, writer, reader
<1>2. ASSUME NEW p \in Procs, NEW log \in Logs, NEW ruling \in Rulings, StartIngest(p, log, ruling)
      PROVE  UNCHANGED store
  BY <1>2 DEF StartIngest, Begin, NoReader, Go, OnlyStore, Raise, store, writer, reader
<1>3. ASSUME NEW p \in Procs, NEW f \in FreshPins, StartVerdict(p, f)
      PROVE  UNCHANGED store
  BY <1>3 DEF StartVerdict, Begin, NoReader, Go, OnlyStore, Raise, store, writer, reader
<1>4. ASSUME NEW p \in Procs, SkipStored(p)
      PROVE  UNCHANGED store
  BY <1>4 DEF SkipStored, Begin, NoReader, Go, OnlyStore, Raise, store, writer, reader
<1>5. ASSUME NEW p \in Procs, Look(p)
      PROVE  UNCHANGED store
  BY <1>5 DEF Look, Begin, NoReader, Go, OnlyStore, Raise, store, writer, reader
<1>6. ASSUME NEW p \in Procs, Check(p)
      PROVE  UNCHANGED store
  BY <1>6 DEF Check, Begin, NoReader, Go, OnlyStore, Raise, store, writer, reader
<1>7. ASSUME NEW p \in Procs, AlreadyIngested(p)
      PROVE  UNCHANGED store
  BY <1>7 DEF AlreadyIngested, Begin, NoReader, Go, OnlyStore, Raise, store, writer, reader
<1>8. ASSUME NEW p \in Procs, InsertRun(p)
      PROVE  \E q \in Procs : InsertRun(q)
  BY <1>8
<1>9. ASSUME NEW p \in Procs, BeginVoiding(p)
      PROVE  UNCHANGED store
  BY <1>9 DEF BeginVoiding, Begin, NoReader, Go, OnlyStore, Raise, store, writer, reader
<1>10. ASSUME NEW p \in Procs, SelectRows(p)
      PROVE  UNCHANGED store
  BY <1>10 DEF SelectRows, Begin, NoReader, Go, OnlyStore, Raise, store, writer, reader
<1>11. ASSUME NEW p \in Procs, SkipSuperseded(p)
      PROVE  UNCHANGED store
  BY <1>11 DEF SkipSuperseded, Begin, NoReader, Go, OnlyStore, Raise, store, writer, reader
<1>12. ASSUME NEW p \in Procs, NEW id \in victims[p], CallSupersede(p, id)
      PROVE  UNCHANGED store
  BY <1>12 DEF CallSupersede, Begin, NoReader, Go, OnlyStore, Raise, store, writer, reader
<1>13. ASSUME NEW p \in Procs, Recheck(p)
      PROVE  UNCHANGED store
  BY <1>13 DEF Recheck, Begin, NoReader, Go, OnlyStore, Raise, store, writer, reader
<1>14. ASSUME NEW p \in Procs, AlreadySuperseded(p)
      PROVE  UNCHANGED store
  BY <1>14 DEF AlreadySuperseded, Begin, NoReader, Go, OnlyStore, Raise, store, writer, reader
<1>15. ASSUME NEW p \in Procs, KeyRefused(p)
      PROVE  UNCHANGED store
  BY <1>15 DEF KeyRefused, Begin, NoReader, Go, OnlyStore, Raise, store, writer, reader
<1>16. ASSUME NEW p \in Procs, Supersede(p)
      PROVE  \E q \in Procs : Supersede(q)
  BY <1>16
<1>17. ASSUME NEW p \in Procs, NextTarget(p)
      PROVE  UNCHANGED store
  BY <1>17 DEF NextTarget, Begin, NoReader, Go, OnlyStore, Raise, store, writer, reader
<1>18. ASSUME NEW p \in Procs, FinishBackfill(p)
      PROVE  UNCHANGED store
  BY <1>18 DEF FinishBackfill, Begin, NoReader, Go, OnlyStore, Raise, store, writer, reader
<1>19. ASSUME NEW p \in Procs, Derive(p)
      PROVE  UNCHANGED store
  BY <1>19 DEF Derive, Begin, NoReader, Go, OnlyStore, Raise, store, writer, reader
<1>20. ASSUME NEW p \in Procs, Crash(p)
      PROVE  UNCHANGED store
  BY <1>20 DEF Crash, Begin, NoReader, Go, OnlyStore, Raise, store, writer, reader
<1>21. CASE UNCHANGED vars
  BY <1>21 DEF vars, store, writer, reader, Begin, NoReader, Go, OnlyStore, Raise, store, writer, reader
<1> QED
  BY <1>1, <1>2, <1>3, <1>4, <1>5, <1>6, <1>7, <1>8, <1>9, <1>10, <1>11, <1>12, <1>13, <1>14, <1>15, <1>16, <1>17, <1>18, <1>19, <1>20, <1>21
     DEF Next, Step, Rest

\* Rows and supersessions are only ever added.
LEMMA AppendOnly ==
  ASSUME [Next]_vars
  PROVE  /\ stored \subseteq stored' /\ admissible \subseteq admissible'
         /\ Superseded \subseteq Superseded'
<1>1. CASE UNCHANGED store
  BY <1>1 DEF store, Superseded
<1>2. ASSUME NEW p \in Procs, InsertRun(p)
      PROVE  stored \subseteq stored' /\ admissible \subseteq admissible' /\ Superseded \subseteq Superseded'
  BY <1>2 DEF InsertRun, Superseded
<1>3. ASSUME NEW p \in Procs, Supersede(p)
      PROVE  stored \subseteq stored' /\ admissible \subseteq admissible' /\ Superseded \subseteq Superseded'
  BY <1>3 DEF Supersede, Superseded
<1> QED
  BY <1>1, <1>2, <1>3, StoreMoves

LEMMA StoreStep ==
  ASSUME TypeOK, CommandInv, StoreInv, [Next]_vars
  PROVE  StoreInv'
<1>1. CASE UNCHANGED store
  BY <1>1 DEF store, StoreInv
<1>2. ASSUME NEW p \in Procs, InsertRun(p)
      PROVE  StoreInv'
  <2>1. /\ stored' = stored \cup {Ingested(Entry(p).log)}
        /\ admissible' \subseteq admissible \cup {Ingested(Entry(p).log)}
        /\ supersessions' = supersessions
    BY <1>2 DEF InsertRun
  <2> QED
    BY <2>1 DEF StoreInv, Ingested
<1>3. ASSUME NEW p \in Procs, Supersede(p)
      PROVE  StoreInv'
  <2> DEFINE new == Superseding(row[p], reason[p])
  <2>1. row[p] \in admissible /\ reason[p] \in Reasons
    BY <1>3 DEF Supersede, CommandInv
  <2>2. new.log = row[p].log /\ new.by # None
    BY <2>1, ScreenAssumption DEF Superseding
  <2>3. row[p].by = None
    BY <2>1 DEF StoreInv
  <2>4. /\ stored' = stored \cup {new}
        /\ admissible' = admissible
        /\ supersessions' = supersessions \cup {<<row[p], new>>}
        /\ \A s \in supersessions : s[1] # row[p]
    BY <1>3 DEF Supersede, KeysAllow, VoidRuling
  <2> HIDE DEF new
  <2>5. \A s \in supersessions' :
           \/ s \in supersessions
           \/ s = <<row[p], new>> /\ s[1] = row[p] /\ s[2] = new
    BY <2>4
  <2>6. \A id \in admissible' : id.by = None
    BY <2>4 DEF StoreInv
  <2>7. \A s \in supersessions' : s[1].by = None /\ s[2].by # None /\ s[2].log = s[1].log
    BY <2>2, <2>3, <2>5 DEF StoreInv
  <2>8. \A s, u \in supersessions' : s[1] = u[1] => s = u
    BY <2>4, <2>5 DEF StoreInv
  <2>9. \A id \in stored' : id.by # None => \E s \in supersessions' : s[2] = id
    <3>1. <<row[p], new>> \in supersessions' /\ <<row[p], new>>[2] = new
      BY <2>4
    <3>2. \A id \in stored' : id \in stored \/ id = new
      BY <2>4
    <3> QED
      BY <3>1, <3>2, <2>4 DEF StoreInv
  <2> QED
    BY <2>6, <2>7, <2>8, <2>9 DEF StoreInv
<1> QED
  BY <1>1, <1>2, <1>3, StoreMoves

LEMMA LiveRows ==
  ASSUME TypeOK, StoreInv
  PROVE  OneLiveRowPerLog /\ VoidedLogNeverCounts
<1>1. \A id \in stored : id \in Ids
  BY DEF TypeOK
<1>2. \A id \in Ids : id.by = None => id = Ingested(id.log)
  BY DEF Ids, Ingested
<1>3. \A l \in Logs : Ingested(l).log = l /\ Ingested(l).by = None
  BY DEF Ingested
<1>4. \A s \in supersessions : s[1] \in stored /\ s[2] \in stored
  BY DEF TypeOK
<1>5. \A id : id \in Superseded <=> \E s \in supersessions : s[1] = id
  BY DEF Superseded
<1>6. ASSUME NEW l \in Logs, Ingested(l) \in stored
      PROVE  \E id \in Live : \A x \in Live : x.log = l <=> x = id
  <2>1. CASE Ingested(l) \notin Superseded
    <3>1. Ingested(l) \in Live
      BY <1>6, <2>1 DEF Live
    <3>2. ASSUME NEW x \in Live, x.log = l PROVE x = Ingested(l)
      <4>1. x \in stored /\ x \in Ids
        BY <1>1 DEF Live
      <4>2. ASSUME x.by # None PROVE FALSE
        <5>1. PICK s \in supersessions : s[2] = x
          BY <4>1, <4>2 DEF StoreInv
        <5>2. s[1].log = l /\ s[1].by = None /\ s[1] \in Ids
          BY <5>1, <3>2, <1>1, <1>4 DEF StoreInv
        <5> QED
          BY <5>1, <5>2, <1>2, <1>5, <2>1
      <4> QED
        BY <4>1, <4>2, <3>2, <1>2
    <3> QED
      BY <3>1, <3>2, <1>3
  <2>2. CASE Ingested(l) \in Superseded
    <3>1. PICK s \in supersessions : s[1] = Ingested(l)
      BY <2>2, <1>5
    <3>2. s[2] \in stored /\ s[2].by # None /\ s[2].log = l
      BY <3>1, <1>3, <1>4 DEF StoreInv
    <3>3. s[2] \in Live
      BY <3>2, <1>5 DEF Live, StoreInv
    <3>4. ASSUME NEW x \in Live, x.log = l PROVE x = s[2]
      <4>1. x \in stored /\ x \in Ids /\ x \notin Superseded
        BY <1>1 DEF Live
      <4>2. x.by # None
        BY <4>1, <3>4, <1>2, <2>2
      <4>3. PICK u \in supersessions : u[2] = x
        BY <4>1, <4>2 DEF StoreInv
      <4>4. u[1].log = l /\ u[1].by = None /\ u[1] \in Ids
        BY <4>3, <3>4, <1>1, <1>4 DEF StoreInv
      <4>5. u = s
        BY <4>4, <3>1, <1>2 DEF StoreInv
      <4> QED
        BY <4>3, <4>5
    <3> QED
      BY <3>2, <3>3, <3>4
  <2> QED
    BY <2>1, <2>2
<1>7. ASSUME NEW s \in supersessions, NEW id \in Live \cap admissible, id.log = s[1].log
      PROVE  FALSE
  <2>1. id.by = None /\ s[1].by = None /\ id \in Ids /\ s[1] \in Ids
    BY <1>1, <1>4 DEF StoreInv, Live
  <2>2. id = s[1]
    BY <2>1, <1>2, <1>7
  <2> QED
    BY <2>2, <1>5 DEF Live
<1> QED
  BY <1>6, <1>7 DEF OneLiveRowPerLog, VoidedLogNeverCounts

-----------------------------------------------------------------------------
(* Layer 3: the manifest. *)

LEMMA ManifestStep ==
  ASSUME TypeOK, CommandInv, ManifestInv, [Next]_vars
  PROVE  ManifestInv'
<1>1. ASSUME NEW p \in Procs, NEW m \in Manifests, NEW r \in Reasons, StartBackfill(p, m, r)
      PROVE  ManifestInv'
  BY <1>1, AppendOnly, ScreenAssumption DEF StartBackfill, TypeOK, CommandInv, ManifestInv, Steps, Begin, NoReader, Go, OnlyStore, Raise, store, writer, reader
<1>2. ASSUME NEW p \in Procs, NEW log \in Logs, NEW ruling \in Rulings, StartIngest(p, log, ruling)
      PROVE  ManifestInv'
  BY <1>2, AppendOnly DEF StartIngest, TypeOK, CommandInv, ManifestInv, Steps, Begin, NoReader, Go, OnlyStore, Raise, store, writer, reader
<1>3. ASSUME NEW p \in Procs, NEW f \in FreshPins, StartVerdict(p, f)
      PROVE  ManifestInv'
  BY <1>3, AppendOnly DEF StartVerdict, TypeOK, CommandInv, ManifestInv, Steps, Begin, NoReader, Go, OnlyStore, Raise, store, writer, reader
<1>4. ASSUME NEW p \in Procs, SkipStored(p)
      PROVE  ManifestInv'
  BY <1>4, AppendOnly DEF SkipStored, TypeOK, CommandInv, ManifestInv, Steps, Begin, NoReader, Go, OnlyStore, Raise, store, writer, reader, Entry
<1>5. ASSUME NEW p \in Procs, Look(p)
      PROVE  ManifestInv'
  BY <1>5, AppendOnly DEF Look, TypeOK, CommandInv, ManifestInv, Steps, Begin, NoReader, Go, OnlyStore, Raise, store, writer, reader
<1>6. ASSUME NEW p \in Procs, Check(p)
      PROVE  ManifestInv'
  BY <1>6, AppendOnly DEF Check, TypeOK, CommandInv, ManifestInv, Steps, Begin, NoReader, Go, OnlyStore, Raise, store, writer, reader
<1>7. ASSUME NEW p \in Procs, AlreadyIngested(p)
      PROVE  ManifestInv'
  BY <1>7, AppendOnly DEF AlreadyIngested, TypeOK, CommandInv, ManifestInv, Steps, Begin, NoReader, Go, OnlyStore, Raise, store, writer, reader
<1>8. ASSUME NEW p \in Procs, InsertRun(p)
      PROVE  ManifestInv'
  BY <1>8, AppendOnly DEF InsertRun, TypeOK, CommandInv, ManifestInv, Steps, Begin, NoReader, Go, OnlyStore, Raise, store, writer, reader, Entry
<1>9. ASSUME NEW p \in Procs, BeginVoiding(p)
      PROVE  ManifestInv'
  BY <1>9, AppendOnly DEF BeginVoiding, TypeOK, CommandInv, ManifestInv, Steps, Begin, NoReader, Go, OnlyStore, Raise, store, writer, reader
<1>10. ASSUME NEW p \in Procs, SelectRows(p)
      PROVE  ManifestInv'
  BY <1>10, AppendOnly DEF SelectRows, TypeOK, CommandInv, ManifestInv, Steps, Begin, NoReader, Go, OnlyStore, Raise, store, writer, reader
<1>11. ASSUME NEW p \in Procs, SkipSuperseded(p)
      PROVE  ManifestInv'
  BY <1>11, AppendOnly DEF SkipSuperseded, TypeOK, CommandInv, ManifestInv, Steps, Begin, NoReader, Go, OnlyStore, Raise, store, writer, reader
<1>12. ASSUME NEW p \in Procs, NEW id \in victims[p], CallSupersede(p, id)
      PROVE  ManifestInv'
  BY <1>12, AppendOnly DEF CallSupersede, TypeOK, CommandInv, ManifestInv, Steps, Begin, NoReader, Go, OnlyStore, Raise, store, writer, reader
<1>13. ASSUME NEW p \in Procs, Recheck(p)
      PROVE  ManifestInv'
  BY <1>13, AppendOnly DEF Recheck, TypeOK, CommandInv, ManifestInv, Steps, Begin, NoReader, Go, OnlyStore, Raise, store, writer, reader
<1>14. ASSUME NEW p \in Procs, AlreadySuperseded(p)
      PROVE  ManifestInv'
  BY <1>14, AppendOnly DEF AlreadySuperseded, TypeOK, CommandInv, ManifestInv, Steps, Begin, NoReader, Go, OnlyStore, Raise, store, writer, reader
<1>15. ASSUME NEW p \in Procs, KeyRefused(p)
      PROVE  ManifestInv'
  BY <1>15, AppendOnly DEF KeyRefused, TypeOK, CommandInv, ManifestInv, Steps, Begin, NoReader, Go, OnlyStore, Raise, store, writer, reader
<1>16. ASSUME NEW p \in Procs, Supersede(p)
      PROVE  ManifestInv'
  BY <1>16, AppendOnly DEF Supersede, TypeOK, CommandInv, ManifestInv, Steps, Begin, NoReader, Go, OnlyStore, Raise, store, writer, reader
<1>17. ASSUME NEW p \in Procs, NextTarget(p)
      PROVE  ManifestInv'
  BY <1>17, AppendOnly DEF NextTarget, TypeOK, CommandInv, ManifestInv, Steps, Begin, NoReader, Go, OnlyStore, Raise, store, writer, reader
<1>18. ASSUME NEW p \in Procs, FinishBackfill(p)
      PROVE  ManifestInv'
  BY <1>18, AppendOnly DEF FinishBackfill, TypeOK, CommandInv, ManifestInv, Steps, Begin, NoReader, Go, OnlyStore, Raise, store, writer, reader
<1>19. ASSUME NEW p \in Procs, Derive(p)
      PROVE  ManifestInv'
  BY <1>19, AppendOnly DEF Derive, TypeOK, CommandInv, ManifestInv, Steps, Begin, NoReader, Go, OnlyStore, Raise, store, writer, reader
<1>20. ASSUME NEW p \in Procs, Crash(p)
      PROVE  ManifestInv'
  BY <1>20, AppendOnly DEF Crash, TypeOK, CommandInv, ManifestInv, Steps, Begin, NoReader, Go, OnlyStore, Raise, store, writer, reader
<1>21. CASE UNCHANGED vars
  BY <1>21, AppendOnly DEF vars, store, writer, reader, TypeOK, CommandInv, ManifestInv, Steps, Begin, NoReader, Go, OnlyStore, Raise, store, writer, reader
<1> QED
  BY <1>1, <1>2, <1>3, <1>4, <1>5, <1>6, <1>7, <1>8, <1>9, <1>10, <1>11, <1>12, <1>13, <1>14, <1>15, <1>16, <1>17, <1>18, <1>19, <1>20, <1>21
     DEF Next, Step, Rest

-----------------------------------------------------------------------------
(* Layer 4: the targets. *)

LEMMA VoidingStep ==
  ASSUME TypeOK, CommandInv, VoidingInv, [Next]_vars
  PROVE  VoidingInv'
<1> USE ScreenAssumption
<1>1. ASSUME NEW p \in Procs, NEW m \in Manifests, NEW r \in Reasons, StartBackfill(p, m, r)
      PROVE  VoidingInv'
  BY <1>1, AppendOnly DEF StartBackfill, TypeOK, CommandInv, VoidingInv, Steps, Begin, NoReader, Go, OnlyStore, Raise, store, writer, reader
<1>2. ASSUME NEW p \in Procs, NEW log \in Logs, NEW ruling \in Rulings, StartIngest(p, log, ruling)
      PROVE  VoidingInv'
  BY <1>2, AppendOnly DEF StartIngest, TypeOK, CommandInv, VoidingInv, Steps, Begin, NoReader, Go, OnlyStore, Raise, store, writer, reader
<1>3. ASSUME NEW p \in Procs, NEW f \in FreshPins, StartVerdict(p, f)
      PROVE  VoidingInv'
  BY <1>3, AppendOnly DEF StartVerdict, TypeOK, CommandInv, VoidingInv, Steps, Begin, NoReader, Go, OnlyStore, Raise, store, writer, reader
<1>4. ASSUME NEW p \in Procs, SkipStored(p)
      PROVE  VoidingInv'
  BY <1>4, AppendOnly DEF SkipStored, TypeOK, CommandInv, VoidingInv, Steps, Begin, NoReader, Go, OnlyStore, Raise, store, writer, reader
<1>5. ASSUME NEW p \in Procs, Look(p)
      PROVE  VoidingInv'
  BY <1>5, AppendOnly DEF Look, TypeOK, CommandInv, VoidingInv, Steps, Begin, NoReader, Go, OnlyStore, Raise, store, writer, reader
<1>6. ASSUME NEW p \in Procs, Check(p)
      PROVE  VoidingInv'
  BY <1>6, AppendOnly DEF Check, TypeOK, CommandInv, VoidingInv, Steps, Begin, NoReader, Go, OnlyStore, Raise, store, writer, reader
<1>7. ASSUME NEW p \in Procs, AlreadyIngested(p)
      PROVE  VoidingInv'
  BY <1>7, AppendOnly DEF AlreadyIngested, TypeOK, CommandInv, VoidingInv, Steps, Begin, NoReader, Go, OnlyStore, Raise, store, writer, reader
<1>8. ASSUME NEW p \in Procs, InsertRun(p)
      PROVE  VoidingInv'
  BY <1>8, AppendOnly DEF InsertRun, TypeOK, CommandInv, VoidingInv, Steps, Begin, NoReader, Go, OnlyStore, Raise, store, writer, reader
<1>9. ASSUME NEW p \in Procs, BeginVoiding(p)
      PROVE  VoidingInv'
  BY <1>9, AppendOnly DEF BeginVoiding, TypeOK, CommandInv, VoidingInv, Steps, Begin, NoReader, Go, OnlyStore, Raise, store, writer, reader, TargetRows
<1>10. ASSUME NEW p \in Procs, SelectRows(p)
      PROVE  VoidingInv'
  BY <1>10, AppendOnly DEF SelectRows, TypeOK, CommandInv, VoidingInv, Steps, Begin, NoReader, Go, OnlyStore, Raise, store, writer, reader, RowsOf
<1>11. ASSUME NEW p \in Procs, SkipSuperseded(p)
      PROVE  VoidingInv'
  BY <1>11, AppendOnly DEF SkipSuperseded, TypeOK, CommandInv, VoidingInv, Steps, Begin, NoReader, Go, OnlyStore, Raise, store, writer, reader
<1>12. ASSUME NEW p \in Procs, NEW id \in victims[p], CallSupersede(p, id)
      PROVE  VoidingInv'
  BY <1>12, AppendOnly DEF CallSupersede, TypeOK, CommandInv, VoidingInv, Steps, Begin, NoReader, Go, OnlyStore, Raise, store, writer, reader
<1>13. ASSUME NEW p \in Procs, Recheck(p)
      PROVE  VoidingInv'
  BY <1>13, AppendOnly DEF Recheck, TypeOK, CommandInv, VoidingInv, Steps, Begin, NoReader, Go, OnlyStore, Raise, store, writer, reader
<1>14. ASSUME NEW p \in Procs, AlreadySuperseded(p)
      PROVE  VoidingInv'
  BY <1>14, AppendOnly DEF AlreadySuperseded, TypeOK, CommandInv, VoidingInv, Steps, Begin, NoReader, Go, OnlyStore, Raise, store, writer, reader
<1>15. ASSUME NEW p \in Procs, KeyRefused(p)
      PROVE  VoidingInv'
  BY <1>15, AppendOnly DEF KeyRefused, TypeOK, CommandInv, VoidingInv, Steps, Begin, NoReader, Go, OnlyStore, Raise, store, writer, reader
<1>16. ASSUME NEW p \in Procs, Supersede(p)
      PROVE  VoidingInv'
  <2>1. Superseded' = Superseded \cup {row[p]}
    <3> DEFINE s == <<row[p], Superseding(row[p], reason[p])>>
    <3>1. supersessions' = supersessions \cup {s} /\ s[1] = row[p]
      BY <1>16 DEF Supersede
    <3> HIDE DEF s
    <3> QED
      BY <3>1 DEF Superseded
  <2>2. /\ at[p] = "write" /\ at' = [at EXCEPT ![p] = "void"]
        /\ victims' = [victims EXCEPT ![p] = @ \ {row[p]}]
        /\ admissible \subseteq admissible'
        /\ UNCHANGED <<kind, next, due>>
    BY <1>16 DEF Supersede, Go
  <2> QED
    BY <2>1, <2>2 DEF TypeOK, VoidingInv
<1>17. ASSUME NEW p \in Procs, NextTarget(p)
      PROVE  VoidingInv'
  BY <1>17, AppendOnly DEF NextTarget, TypeOK, CommandInv, VoidingInv, Steps, Begin, NoReader, Go, OnlyStore, Raise, store, writer, reader
<1>18. ASSUME NEW p \in Procs, FinishBackfill(p)
      PROVE  VoidingInv'
  <2>1. \A i \in DOMAIN Targets : i < next[p]
    BY <1>18 DEF FinishBackfill, TypeOK
  <2>2. due[p] \subseteq Superseded
    <3>1. kind[p] = "backfill" /\ at[p] = "select"
      BY <1>18 DEF FinishBackfill, CommandInv
    <3>2. \A id \in due[p] : \E i \in DOMAIN Targets : SkillOf[id.log] = Targets[i]
      BY <3>1 DEF VoidingInv
    <3> QED
      BY <2>1, <3>1, <3>2 DEF VoidingInv
  <2>3. /\ at[p] = "select" /\ at' = [at EXCEPT ![p] = "done"]
        /\ UNCHANGED <<stored, admissible, supersessions, kind, next, victims, due>>
    BY <1>18 DEF FinishBackfill, Go, OnlyStore, store, writer
  <2> QED
    BY <2>2, <2>3 DEF TypeOK, VoidingInv, Superseded
<1>19. ASSUME NEW p \in Procs, Derive(p)
      PROVE  VoidingInv'
  BY <1>19, AppendOnly DEF Derive, TypeOK, CommandInv, VoidingInv, Steps, Begin, NoReader, Go, OnlyStore, Raise, store, writer, reader
<1>20. ASSUME NEW p \in Procs, Crash(p)
      PROVE  VoidingInv'
  BY <1>20, AppendOnly DEF Crash, TypeOK, CommandInv, VoidingInv, Steps, Begin, NoReader, Go, OnlyStore, Raise, store, writer, reader
<1>21. CASE UNCHANGED vars
  BY <1>21, AppendOnly DEF vars, store, writer, reader, TypeOK, CommandInv, VoidingInv, Steps, Begin, NoReader, Go, OnlyStore, Raise, store, writer, reader
<1> QED
  BY <1>1, <1>2, <1>3, <1>4, <1>5, <1>6, <1>7, <1>8, <1>9, <1>10, <1>11, <1>12, <1>13, <1>14, <1>15, <1>16, <1>17, <1>18, <1>19, <1>20, <1>21
     DEF Next, Step, Rest

-----------------------------------------------------------------------------
(* Layer 5: screen verdict. *)

LEMMA VerdictStep ==
  ASSUME TypeOK, CommandInv, VerdictInv, [Next]_vars
  PROVE  VerdictInv'
<1>1. ASSUME NEW p \in Procs, NEW m \in Manifests, NEW r \in Reasons, StartBackfill(p, m, r)
      PROVE  VerdictInv'
  BY <1>1, AppendOnly DEF StartBackfill, TypeOK, CommandInv, VerdictInv, Steps, Begin, NoReader, Go, OnlyStore, Raise, store, writer, reader
<1>2. ASSUME NEW p \in Procs, NEW log \in Logs, NEW ruling \in Rulings, StartIngest(p, log, ruling)
      PROVE  VerdictInv'
  BY <1>2, AppendOnly DEF StartIngest, TypeOK, CommandInv, VerdictInv, Steps, Begin, NoReader, Go, OnlyStore, Raise, store, writer, reader
<1>3. ASSUME NEW p \in Procs, NEW f \in FreshPins, StartVerdict(p, f)
      PROVE  VerdictInv'
  BY <1>3, AppendOnly DEF StartVerdict, TypeOK, CommandInv, VerdictInv, Steps, Begin, NoReader, Go, OnlyStore, Raise, store, writer, reader, StalePin, PinMatches, Live
<1>4. ASSUME NEW p \in Procs, SkipStored(p)
      PROVE  VerdictInv'
  BY <1>4, AppendOnly DEF SkipStored, TypeOK, CommandInv, VerdictInv, Steps, Begin, NoReader, Go, OnlyStore, Raise, store, writer, reader
<1>5. ASSUME NEW p \in Procs, Look(p)
      PROVE  VerdictInv'
  BY <1>5, AppendOnly DEF Look, TypeOK, CommandInv, VerdictInv, Steps, Begin, NoReader, Go, OnlyStore, Raise, store, writer, reader
<1>6. ASSUME NEW p \in Procs, Check(p)
      PROVE  VerdictInv'
  BY <1>6, AppendOnly DEF Check, TypeOK, CommandInv, VerdictInv, Steps, Begin, NoReader, Go, OnlyStore, Raise, store, writer, reader
<1>7. ASSUME NEW p \in Procs, AlreadyIngested(p)
      PROVE  VerdictInv'
  BY <1>7, AppendOnly DEF AlreadyIngested, TypeOK, CommandInv, VerdictInv, Steps, Begin, NoReader, Go, OnlyStore, Raise, store, writer, reader
<1>8. ASSUME NEW p \in Procs, InsertRun(p)
      PROVE  VerdictInv'
  BY <1>8, AppendOnly DEF InsertRun, TypeOK, CommandInv, VerdictInv, Steps, Begin, NoReader, Go, OnlyStore, Raise, store, writer, reader
<1>9. ASSUME NEW p \in Procs, BeginVoiding(p)
      PROVE  VerdictInv'
  BY <1>9, AppendOnly DEF BeginVoiding, TypeOK, CommandInv, VerdictInv, Steps, Begin, NoReader, Go, OnlyStore, Raise, store, writer, reader
<1>10. ASSUME NEW p \in Procs, SelectRows(p)
      PROVE  VerdictInv'
  BY <1>10, AppendOnly DEF SelectRows, TypeOK, CommandInv, VerdictInv, Steps, Begin, NoReader, Go, OnlyStore, Raise, store, writer, reader
<1>11. ASSUME NEW p \in Procs, SkipSuperseded(p)
      PROVE  VerdictInv'
  BY <1>11, AppendOnly DEF SkipSuperseded, TypeOK, CommandInv, VerdictInv, Steps, Begin, NoReader, Go, OnlyStore, Raise, store, writer, reader
<1>12. ASSUME NEW p \in Procs, NEW id \in victims[p], CallSupersede(p, id)
      PROVE  VerdictInv'
  BY <1>12, AppendOnly DEF CallSupersede, TypeOK, CommandInv, VerdictInv, Steps, Begin, NoReader, Go, OnlyStore, Raise, store, writer, reader
<1>13. ASSUME NEW p \in Procs, Recheck(p)
      PROVE  VerdictInv'
  BY <1>13, AppendOnly DEF Recheck, TypeOK, CommandInv, VerdictInv, Steps, Begin, NoReader, Go, OnlyStore, Raise, store, writer, reader
<1>14. ASSUME NEW p \in Procs, AlreadySuperseded(p)
      PROVE  VerdictInv'
  BY <1>14, AppendOnly DEF AlreadySuperseded, TypeOK, CommandInv, VerdictInv, Steps, Begin, NoReader, Go, OnlyStore, Raise, store, writer, reader
<1>15. ASSUME NEW p \in Procs, KeyRefused(p)
      PROVE  VerdictInv'
  BY <1>15, AppendOnly DEF KeyRefused, TypeOK, CommandInv, VerdictInv, Steps, Begin, NoReader, Go, OnlyStore, Raise, store, writer, reader
<1>16. ASSUME NEW p \in Procs, Supersede(p)
      PROVE  VerdictInv'
  BY <1>16, AppendOnly DEF Supersede, TypeOK, CommandInv, VerdictInv, Steps, Begin, NoReader, Go, OnlyStore, Raise, store, writer, reader
<1>17. ASSUME NEW p \in Procs, NextTarget(p)
      PROVE  VerdictInv'
  BY <1>17, AppendOnly DEF NextTarget, TypeOK, CommandInv, VerdictInv, Steps, Begin, NoReader, Go, OnlyStore, Raise, store, writer, reader
<1>18. ASSUME NEW p \in Procs, FinishBackfill(p)
      PROVE  VerdictInv'
  BY <1>18, AppendOnly DEF FinishBackfill, TypeOK, CommandInv, VerdictInv, Steps, Begin, NoReader, Go, OnlyStore, Raise, store, writer, reader
<1>19. ASSUME NEW p \in Procs, Derive(p)
      PROVE  VerdictInv'
  BY <1>19, AppendOnly DEF Derive, TypeOK, CommandInv, VerdictInv, Steps, Begin, NoReader, Go, OnlyStore, Raise, store, writer, reader
<1>20. ASSUME NEW p \in Procs, Crash(p)
      PROVE  VerdictInv'
  BY <1>20, AppendOnly DEF Crash, TypeOK, CommandInv, VerdictInv, Steps, Begin, NoReader, Go, OnlyStore, Raise, store, writer, reader
<1>21. CASE UNCHANGED vars
  BY <1>21, AppendOnly DEF vars, store, writer, reader, TypeOK, CommandInv, VerdictInv, Steps, Begin, NoReader, Go, OnlyStore, Raise, store, writer, reader
<1> QED
  BY <1>1, <1>2, <1>3, <1>4, <1>5, <1>6, <1>7, <1>8, <1>9, <1>10, <1>11, <1>12, <1>13, <1>14, <1>15, <1>16, <1>17, <1>18, <1>19, <1>20, <1>21
     DEF Next, Step, Rest

LEMMA AccountStep ==
  ASSUME TypeOK, CommandInv, VerdictInv, VerdictAccountsForEveryRow, [Next]_vars
  PROVE  VerdictAccountsForEveryRow'
<1>1. ASSUME NEW p \in Procs, NEW m \in Manifests, NEW r \in Reasons, StartBackfill(p, m, r)
      PROVE  VerdictAccountsForEveryRow'
  BY <1>1, AppendOnly DEF StartBackfill, TypeOK, CommandInv, VerdictAccountsForEveryRow, Steps, Begin, NoReader, Go, OnlyStore, Raise, store, writer, reader
<1>2. ASSUME NEW p \in Procs, NEW log \in Logs, NEW ruling \in Rulings, StartIngest(p, log, ruling)
      PROVE  VerdictAccountsForEveryRow'
  BY <1>2, AppendOnly DEF StartIngest, TypeOK, CommandInv, VerdictAccountsForEveryRow, Steps, Begin, NoReader, Go, OnlyStore, Raise, store, writer, reader
<1>3. ASSUME NEW p \in Procs, NEW f \in FreshPins, StartVerdict(p, f)
      PROVE  VerdictAccountsForEveryRow'
  BY <1>3, AppendOnly DEF StartVerdict, TypeOK, CommandInv, VerdictAccountsForEveryRow, Steps, Begin, NoReader, Go, OnlyStore, Raise, store, writer, reader
<1>4. ASSUME NEW p \in Procs, SkipStored(p)
      PROVE  VerdictAccountsForEveryRow'
  BY <1>4, AppendOnly DEF SkipStored, TypeOK, CommandInv, VerdictAccountsForEveryRow, Steps, Begin, NoReader, Go, OnlyStore, Raise, store, writer, reader
<1>5. ASSUME NEW p \in Procs, Look(p)
      PROVE  VerdictAccountsForEveryRow'
  BY <1>5, AppendOnly DEF Look, TypeOK, CommandInv, VerdictAccountsForEveryRow, Steps, Begin, NoReader, Go, OnlyStore, Raise, store, writer, reader
<1>6. ASSUME NEW p \in Procs, Check(p)
      PROVE  VerdictAccountsForEveryRow'
  BY <1>6, AppendOnly DEF Check, TypeOK, CommandInv, VerdictAccountsForEveryRow, Steps, Begin, NoReader, Go, OnlyStore, Raise, store, writer, reader
<1>7. ASSUME NEW p \in Procs, AlreadyIngested(p)
      PROVE  VerdictAccountsForEveryRow'
  BY <1>7, AppendOnly DEF AlreadyIngested, TypeOK, CommandInv, VerdictAccountsForEveryRow, Steps, Begin, NoReader, Go, OnlyStore, Raise, store, writer, reader
<1>8. ASSUME NEW p \in Procs, InsertRun(p)
      PROVE  VerdictAccountsForEveryRow'
  BY <1>8, AppendOnly DEF InsertRun, TypeOK, CommandInv, VerdictAccountsForEveryRow, Steps, Begin, NoReader, Go, OnlyStore, Raise, store, writer, reader
<1>9. ASSUME NEW p \in Procs, BeginVoiding(p)
      PROVE  VerdictAccountsForEveryRow'
  BY <1>9, AppendOnly DEF BeginVoiding, TypeOK, CommandInv, VerdictAccountsForEveryRow, Steps, Begin, NoReader, Go, OnlyStore, Raise, store, writer, reader
<1>10. ASSUME NEW p \in Procs, SelectRows(p)
      PROVE  VerdictAccountsForEveryRow'
  BY <1>10, AppendOnly DEF SelectRows, TypeOK, CommandInv, VerdictAccountsForEveryRow, Steps, Begin, NoReader, Go, OnlyStore, Raise, store, writer, reader
<1>11. ASSUME NEW p \in Procs, SkipSuperseded(p)
      PROVE  VerdictAccountsForEveryRow'
  BY <1>11, AppendOnly DEF SkipSuperseded, TypeOK, CommandInv, VerdictAccountsForEveryRow, Steps, Begin, NoReader, Go, OnlyStore, Raise, store, writer, reader
<1>12. ASSUME NEW p \in Procs, NEW id \in victims[p], CallSupersede(p, id)
      PROVE  VerdictAccountsForEveryRow'
  BY <1>12, AppendOnly DEF CallSupersede, TypeOK, CommandInv, VerdictAccountsForEveryRow, Steps, Begin, NoReader, Go, OnlyStore, Raise, store, writer, reader
<1>13. ASSUME NEW p \in Procs, Recheck(p)
      PROVE  VerdictAccountsForEveryRow'
  BY <1>13, AppendOnly DEF Recheck, TypeOK, CommandInv, VerdictAccountsForEveryRow, Steps, Begin, NoReader, Go, OnlyStore, Raise, store, writer, reader
<1>14. ASSUME NEW p \in Procs, AlreadySuperseded(p)
      PROVE  VerdictAccountsForEveryRow'
  BY <1>14, AppendOnly DEF AlreadySuperseded, TypeOK, CommandInv, VerdictAccountsForEveryRow, Steps, Begin, NoReader, Go, OnlyStore, Raise, store, writer, reader
<1>15. ASSUME NEW p \in Procs, KeyRefused(p)
      PROVE  VerdictAccountsForEveryRow'
  BY <1>15, AppendOnly DEF KeyRefused, TypeOK, CommandInv, VerdictAccountsForEveryRow, Steps, Begin, NoReader, Go, OnlyStore, Raise, store, writer, reader
<1>16. ASSUME NEW p \in Procs, Supersede(p)
      PROVE  VerdictAccountsForEveryRow'
  BY <1>16, AppendOnly DEF Supersede, TypeOK, CommandInv, VerdictAccountsForEveryRow, Steps, Begin, NoReader, Go, OnlyStore, Raise, store, writer, reader
<1>17. ASSUME NEW p \in Procs, NextTarget(p)
      PROVE  VerdictAccountsForEveryRow'
  BY <1>17, AppendOnly DEF NextTarget, TypeOK, CommandInv, VerdictAccountsForEveryRow, Steps, Begin, NoReader, Go, OnlyStore, Raise, store, writer, reader
<1>18. ASSUME NEW p \in Procs, FinishBackfill(p)
      PROVE  VerdictAccountsForEveryRow'
  BY <1>18, AppendOnly DEF FinishBackfill, TypeOK, CommandInv, VerdictAccountsForEveryRow, Steps, Begin, NoReader, Go, OnlyStore, Raise, store, writer, reader
<1>19. ASSUME NEW p \in Procs, Derive(p)
      PROVE  VerdictAccountsForEveryRow'
  BY <1>19, AppendOnly DEF Derive, TypeOK, CommandInv, VerdictAccountsForEveryRow, Steps, Begin, NoReader, Go, OnlyStore, Raise, store, writer, reader, VerdictInv, Live
<1>20. ASSUME NEW p \in Procs, Crash(p)
      PROVE  VerdictAccountsForEveryRow'
  BY <1>20, AppendOnly DEF Crash, TypeOK, CommandInv, VerdictAccountsForEveryRow, Steps, Begin, NoReader, Go, OnlyStore, Raise, store, writer, reader
<1>21. CASE UNCHANGED vars
  BY <1>21, AppendOnly DEF vars, store, writer, reader, TypeOK, CommandInv, VerdictAccountsForEveryRow, Steps, Begin, NoReader, Go, OnlyStore, Raise, store, writer, reader
<1> QED
  BY <1>1, <1>2, <1>3, <1>4, <1>5, <1>6, <1>7, <1>8, <1>9, <1>10, <1>11, <1>12, <1>13, <1>14, <1>15, <1>16, <1>17, <1>18, <1>19, <1>20, <1>21
     DEF Next, Step, Rest

-----------------------------------------------------------------------------
(* The theorems. *)

Inv ==
    /\ TypeOK /\ CommandInv /\ StoreInv /\ ManifestInv /\ VoidingInv
    /\ VerdictInv /\ VerdictAccountsForEveryRow

LEMMA InvInit == ASSUME Init PROVE Inv
  BY TypeInit DEF Init, Inv, StoreInv, ManifestInv, VoidingInv, VerdictInv,
                  VerdictAccountsForEveryRow

LEMMA InvStep == ASSUME Inv, [Next]_vars PROVE Inv'
  BY TypeStep, CommandStep, StoreStep, ManifestStep, VoidingStep, VerdictStep,
     AccountStep DEF Inv

LEMMA InvHolds == Spec => []Inv
  BY InvInit, InvStep, PTL DEF Spec

\* Every command is at a step of its own code, every supersession refers to rows
\* that are stored.
THEOREM Typed == Spec => []TypeOK
<1>1. Inv => TypeOK
  BY DEF Inv
<1> QED
  BY <1>1, InvHolds, PTL

\* However many backfills race to supersede a row, with however many texts, a log
\* that was ingested has exactly one live row (screens.py, supersede_screen_run).
THEOREM OneLiveRow == Spec => []OneLiveRowPerLog
<1>1. Inv => OneLiveRowPerLog
  BY LiveRows DEF Inv
<1> QED
  BY <1>1, InvHolds, PTL

\* A voided log never enters p0 again (screens.py, derive_p0_by_skill).
THEOREM VoidedStaysVoid == Spec => []VoidedLogNeverCounts
<1>1. Inv => VoidedLogNeverCounts
  BY LiveRows DEF Inv
<1> QED
  BY <1>1, InvHolds, PTL

\* A backfill that ends normally leaves no row of the disposition table that it
\* found or stored live (screen_backfill.py, supersede_d4_screen_runs).
THEOREM TargetsVoided == Spec => []BackfillVoidsItsTargets
<1>1. Inv => BackfillVoidsItsTargets
  BY DEF Inv, VoidingInv, BackfillVoidsItsTargets
<1> QED
  BY <1>1, InvHolds, PTL

\* A backfill that ends normally reached every entry of its manifest
\* (screen_backfill.py, apply_manifest).
THEOREM ManifestReached == Spec => []ManifestIsStored
<1>1. Inv => ManifestIsStored
  BY DEF Inv, ManifestInv, ManifestIsStored
<1> QED
  BY <1>1, InvHolds, PTL

\* No row that was live when `screen verdict` began is left out silently
\* (screens.py, select_stale_pin_skills and derive_p0_by_skill).
THEOREM VerdictComplete == Spec => []VerdictAccountsForEveryRow
<1>1. Inv => VerdictAccountsForEveryRow
  BY DEF Inv
<1> QED
  BY <1>1, InvHolds, PTL

=============================================================================
