-------------------------- MODULE MigrationsProofs ---------------------------
(***************************************************************************)
(* Proofs, for every number of openers, packages, files and openings, of   *)
(* the safety properties of Migrations.  Four layers:                      *)
(*                                                                         *)
(*   PlaceInv   which file an opener is at, against its list of files      *)
(*   StoreInv   what the rows of the store say of each other               *)
(*   OpenerInv  what an opener may rely on of a store it has partly read   *)
(*   SteadyInv  what is left to write for an opener that nobody else       *)
(*              has written behind                                         *)
(*                                                                         *)
(* An opener relies on rows it read some steps ago.  This is sound because *)
(* a step only adds to the store (StoreGrows): the proof treats the step   *)
(* of another opener once, and each action once, for its own opener.       *)
(***************************************************************************)
EXTENDS Migrations, SequenceTheorems, TLAPS

-----------------------------------------------------------------------------
\* The steps that handle one file, and the one that refuses it.
AtFile == Verifying \cup {"apply", "tampered"}

\* The steps that follow from the digest in force.
Judging == {"backfill", "compare", "restamp"}

PlaceInv ==
    \A o \in Openers :
        /\ pc[o] \in {"tables", "create", "ledger"} => at[o] = 1
        /\ pc[o] \in AtFile => at[o] \in 1..Len(Files(o))
        /\ pc[o] \in {"return", "open"} => at[o] > Len(Files(o))
        /\ pc[o] \in Judging => inForce[o] \in Raws

Inv1 == TypeOK /\ PlaceInv

\* The meaning of a digest is on record.
HasDigest(m, raw) == \E d \in digests : d.mig = m /\ d.raw = raw

\* The digests that are or were in force for a migration.
Named(m) == {ledger[m]} \cup {restamps[m][k].raw : k \in 1..Len(restamps[m])}

DigestsHonest == \A d \in digests : d.meaning = MeaningOf[d.raw]

RestampsHonest ==
    \A m \in Migs : \A k \in 1..Len(restamps[m]) :
        /\ ledger[m] # None
        /\ MeaningOf[restamps[m][k].raw] = MeaningOf[ledger[m]]
        /\ HasDigest(m, restamps[m][k].raw)
        /\ HasDigest(m, ledger[m])

\* What an opener has gone past, be it applied, verified or repaired, has the
\* meaning of its ledger row on record.
VettedOnRecord ==
    \A m \in vetted : ledger[m] # None /\ HasDigest(m, ledger[m])

StoreInv ==
    /\ DigestsHonest
    /\ RestampsHonest
    /\ RestampsAuditable
    /\ VettedOnRecord

Inv2 == Inv1 /\ StoreInv

\* The rows of an opener's copy are still in the ledger.
CopyAgrees(o) ==
    \A m \in Migs : applied[o][m] # None => ledger[m] = applied[o][m]

\* The digest in force has its meaning on record, now and from now on.
Covered(m) == HasDigest(m, ledger[m]) \/ restamps[m] # <<>>

\* The store has the schema of the opener's file m.
InOrder(o, m) ==
    /\ ledger[m] # None
    /\ MeaningOf[ledger[m]] = MeaningOf[Files(o)[m]]

\* The files the opener has gone past.
PastInOrder(o) ==
    pc[o] \in Working \cup {"open"} =>
        \A m \in 1..Len(Files(o)) : m < at[o] => InOrder(o, m) /\ Covered(m)

\* The file the opener is at.
CurrentFile(o) ==
    /\ pc[o] \in Verifying => ledger[at[o]] # None
    /\ pc[o] = "backfill" =>
         /\ InOrder(o, at[o])
         /\ File(o) = ledger[at[o]] \/ restamps[at[o]] # <<>>
    /\ pc[o] \in {"compare", "restamp"} =>
         /\ inForce[o] # File(o)
         /\ inForce[o] \in Named(at[o])
         /\ HasDigest(at[o], inForce[o]) \/ inForce[o] = ledger[at[o]]
    /\ pc[o] = "restamp" => InOrder(o, at[o]) /\ HasDigest(at[o], inForce[o])

OpenerInv(o) == CopyAgrees(o) /\ PastInOrder(o) /\ CurrentFile(o)

Inv3 == Inv2 /\ \A o \in Openers : OpenerInv(o)

-----------------------------------------------------------------------------
(***************************************************************************)
(* Layer 4: the store that one opener has left in order, and that nobody   *)
(* has written to since.                                                   *)
(***************************************************************************)

\* Migration m is applied, the file is the one in force, its meaning on record.
FileSteady(m, file) ==
    /\ ledger[m] # None
    /\ EffectiveSha(m, ledger[m]) = file
    /\ HasDigest(m, file)

\* There is nothing that an opener of package p would have to write.
Steady(p) ==
    /\ tables
    /\ \A m \in 1..Len(FilesOf[p]) : FileSteady(m, FilesOf[p][m])

\* The steps after the opener has read the ledger.
Copied == Verifying \cup {"apply", "return"}

\* An opener that nobody else has written behind: the files it has gone past
\* are steady, and its copy is still exact for those ahead.
AloneInv(o) ==
    /\ pc[o] \in Copied \cup {"ledger"} => tables
    /\ pc[o] \in Copied =>
         \A m \in 1..Len(Files(o)) :
             IF m < at[o] THEN FileSteady(m, Files(o)[m])
                          ELSE applied[o][m] = ledger[m]
    /\ pc[o] = "backfill" => EffectiveSha(at[o], ledger[at[o]]) = File(o)

\* An opener of a package that found the store steady: it is still steady.
QuietInv(o) ==
    /\ Steady(package[o])
    /\ pc[o] \in Copied => applied[o] = ledger
    /\ pc[o] \notin {"create", "apply", "compare", "restamp", "tampered", "failed"}

SteadyInv ==
    /\ \A o \in alone : AloneInv(o)
    /\ \A p \in settled : Steady(p)
    /\ \A o \in quiet : QuietInv(o)

Inv4 == Inv3 /\ SteadyInv

-----------------------------------------------------------------------------
(***************************************************************************)
(* Operators.                                                              *)
(***************************************************************************)

\* discover(): the files of a package are numbered within Migs.
LEMMA FilesType ==
    ASSUME NEW p \in Packages
    PROVE  /\ FilesOf[p] \in Seq(Raws)
           /\ Len(FilesOf[p]) \in Nat
           /\ Len(FilesOf[p]) <= NMigrations
           /\ \A m \in 1..Len(FilesOf[p]) : m \in Migs /\ FilesOf[p][m] \in Raws
<1>1. FilesOf[p] \in Seq(Raws) /\ Len(FilesOf[p]) <= NMigrations
  BY MigrationsAssumption
<1>2. Len(FilesOf[p]) \in Nat
  BY <1>1, LenProperties
<1>3. \A m \in 1..Len(FilesOf[p]) : FilesOf[p][m] \in Raws
  BY <1>1, ElementOfSeq
<1> QED
  BY <1>1, <1>2, <1>3, MigrationsAssumption DEF Migs

\* _effective_recorded_sha(): the digest in force is a digest.
LEMMA EffectiveType ==
    ASSUME TypeOK, NEW m \in Migs, NEW sha \in Raws
    PROVE  EffectiveSha(m, sha) \in Raws
<1>1. CASE restamps[m] = <<>>
  BY <1>1 DEF EffectiveSha
<1>2. CASE restamps[m] # <<>>
  <2>1. restamps[m] \in Seq(Restamps)
    BY DEF TypeOK
  <2>2. Len(restamps[m]) \in 1..Len(restamps[m])
    BY <1>2, <2>1, EmptySeq, LenProperties
  <2>3. restamps[m][Len(restamps[m])] \in Restamps
    BY <2>1, <2>2, ElementOfSeq
  <2> QED
    BY <1>2, <2>3 DEF EffectiveSha, Restamps
<1> QED
  BY <1>1, <1>2

\* _append_semantic_digest(): what it writes.
LEMMA WithDigestAdds ==
    ASSUME TypeOK, NEW m \in Migs, NEW raw \in Raws
    PROVE  /\ digests \subseteq WithDigest(m, raw)
           /\ WithDigest(m, raw) \subseteq Digests
           /\ \E d \in WithDigest(m, raw) : d.mig = m /\ d.raw = raw
           /\ DigestsHonest =>
                \A d \in WithDigest(m, raw) : d.meaning = MeaningOf[d.raw]
<1> DEFINE new == [mig |-> m, raw |-> raw, meaning |-> MeaningOf[raw]]
<1>1. new \in Digests
  BY MigrationsAssumption DEF Digests
<1>2. CASE Recorded(m, raw) # {}
  BY <1>2 DEF TypeOK, WithDigest, Recorded, DigestsHonest
<1>3. CASE Recorded(m, raw) = {}
  <2>1. WithDigest(m, raw) = digests \cup {new}
    BY <1>3 DEF WithDigest
  <2>2. new.mig = m /\ new.raw = raw /\ new.meaning = MeaningOf[raw]
    OBVIOUS
  <2> HIDE DEF new
  <2> QED
    BY <1>1, <2>1, <2>2 DEF TypeOK, DigestsHonest
<1> QED
  BY <1>2, <1>3

\* StepFor: the loop of apply_pending leaves an opener at a legal place.
LEMMA StepForPlace ==
    ASSUME TypeOK, NEW o \in Openers, NEW i \in Nat, NEW rows \in Ledgers
    PROVE  /\ StepFor(o, i, rows) \in {"return", "verify", "apply"}
           /\ StepFor(o, i, rows) = "return" <=> i > Len(Files(o))
           /\ i \in Migs /\ StepFor(o, i, rows) = "verify" => rows[i] \in Raws
  BY DEF StepFor, Ledgers

-----------------------------------------------------------------------------
(***************************************************************************)
(* Layer 1: types and places.                                              *)
(***************************************************************************)

\* A store that nobody has opened yet, and openers at rest.
LEMMA Init1 == Init => Inv1
<1> SUFFICES ASSUME Init PROVE Inv1
  OBVIOUS
<1>1. PICK p \in Packages : \E n \in 0..Len(FilesOf[p]) :
        ledger = [m \in Migs |-> IF m <= n THEN FilesOf[p][m] ELSE None]
  BY DEF Init
<1>2. PICK n \in 0..Len(FilesOf[p]) :
        ledger = [m \in Migs |-> IF m <= n THEN FilesOf[p][m] ELSE None]
  BY <1>1
<1>3. ledger \in Ledgers
  BY <1>2, FilesType, MigrationsAssumption DEF Ledgers, Migs
<1>4. restamps \in [Migs -> Seq(Restamps)]
  BY DEF Init
<1>5. applied \in [Openers -> Ledgers]
  BY DEF Init, Ledgers
<1>6. (CHOOSE q \in Packages : TRUE) \in Packages
  BY <1>1
<1>7. pc \in [Openers -> Working \cup Done] /\ package \in [Openers -> Packages]
  BY <1>6 DEF Init, Done
<1>8. at \in [Openers -> 1..NMigrations + 1] /\ opens \in 0..MaxOpens
  BY MigrationsAssumption DEF Init
<1>9. \A o \in Openers : pc[o] = "closed"
  BY DEF Init
<1>10. inForce \in [Openers -> Raws \cup {None}]
  BY DEF Init
<1>11. TypeOK
  BY <1>3, <1>4, <1>5, <1>7, <1>8, <1>9, <1>10
     DEF TypeOK, Init, Verifying
<1>12. PlaceInv
  BY <1>9 DEF PlaceInv, AtFile, Verifying, Judging
<1> QED
  BY <1>11, <1>12 DEF Inv1

\* The observers stay in their types, whatever a step writes.
ObserverTypes ==
    /\ vetted \subseteq Migs /\ opens \in 0..MaxOpens
    /\ alone \subseteq Openers /\ settled \subseteq Packages
    /\ quiet \subseteq Openers

\* A write, or a step without one, keeps the types of the observers, and so
\* does going past a file.
LEMMA ObserversTyped ==
    ASSUME Inv1, NEW o \in Openers,
           \/ UNCHANGED observers
           \/ Wrote(o) /\ UNCHANGED vetted
           \/ (Wrote(o) \/ NoWrite) /\ pc[o] \in AtFile /\ Advance(o)
    PROVE  ObserverTypes'
<1>1. pc[o] \in AtFile => at[o] \in Migs
  BY FilesType DEF Inv1, TypeOK, PlaceInv, Files
<1>2. vetted' \subseteq Migs
  BY <1>1 DEF Inv1, TypeOK, Advance, observers
<1>3. CASE UNCHANGED observers
  BY <1>2, <1>3 DEF Inv1, TypeOK, ObserverTypes, observers
<1>4. CASE Wrote(o) \/ NoWrite
  BY <1>2, <1>4 DEF Inv1, TypeOK, ObserverTypes, Wrote, NoWrite
<1> QED
  BY <1>3, <1>4

\* Advance(): the next file, or the end of the list.
LEMMA AdvanceKeeps1 ==
    ASSUME Inv1, NEW o \in Openers, pc[o] \in {"apply", "backfill", "restamp"},
           Advance(o), UNCHANGED <<package, applied, inForce>>
    PROVE  /\ pc' \in [Openers -> Working \cup Done]
           /\ at' \in [Openers -> 1..NMigrations + 1]
           /\ \A q \in Openers : pc'[q] \in Verifying => applied'[q][at'[q]] \in Raws
           /\ PlaceInv'
<1> USE DEF Inv1
<1>1. at[o] \in 1..Len(Files(o)) /\ at[o] \in 1..NMigrations + 1
  BY DEF PlaceInv, TypeOK, AtFile, Verifying
<1>2. Len(Files(o)) \in Nat /\ Len(Files(o)) <= NMigrations
  BY FilesType DEF TypeOK, Files
<1> DEFINE next == StepFor(o, at[o] + 1, applied[o])
<1>3. at' = [at EXCEPT ![o] = at[o] + 1] /\ pc' = [pc EXCEPT ![o] = next]
  BY DEF Advance, Goto, TypeOK
<1>4. /\ next \in {"return", "verify", "apply"}
      /\ next = "return" <=> at[o] + 1 > Len(Files(o))
      /\ next = "verify" => applied[o][at[o] + 1] \in Raws
  BY <1>1, <1>2, StepForPlace, MigrationsAssumption DEF TypeOK, Migs
<1> HIDE DEF next
<1>5. pc' \in [Openers -> Working \cup Done]
  BY <1>3, <1>4 DEF TypeOK, Working, Verifying
<1>6. at' \in [Openers -> 1..NMigrations + 1]
  BY <1>1, <1>2, <1>3, MigrationsAssumption DEF TypeOK
<1>7. \A q \in Openers : pc'[q] \in Verifying => applied'[q][at'[q]] \in Raws
  BY <1>3, <1>4 DEF TypeOK, Verifying
<1>8. \A q \in Openers : Files(q)' = Files(q)
  BY DEF Files
<1>9. PlaceInv'
  <2> SUFFICES ASSUME NEW q \in Openers
               PROVE  /\ pc'[q] \in {"tables", "create", "ledger"} => at'[q] = 1
                      /\ pc'[q] \in AtFile => at'[q] \in 1..Len(Files(q))
                      /\ pc'[q] \in {"return", "open"} => at'[q] > Len(Files(q))
                      /\ pc'[q] \in Judging => inForce'[q] \in Raws
    BY <1>8 DEF PlaceInv
  <2>1. CASE q = o
    BY <2>1, <1>1, <1>2, <1>3, <1>4 DEF TypeOK, AtFile, Verifying, Judging
  <2>2. CASE q # o
    BY <2>2, <1>3 DEF TypeOK, PlaceInv
  <2> QED
    BY <2>1, <2>2
<1> QED
  BY <1>5, <1>6, <1>7, <1>9

\* A step that only moves the program counter of one opener.
LEMMA MoveKeeps1 ==
    ASSUME Inv1, NEW o \in Openers, NEW step \in Working \cup Done,
           Goto(o, step), UNCHANGED <<store, package, applied, at>>,
           inForce' \in [Openers -> Raws \cup {None}], tables' \in BOOLEAN,
           ObserverTypes',
           step \in Verifying => applied[o][at[o]] \in Raws,
           step \in {"tables", "create", "ledger"} => at[o] = 1,
           step \in AtFile => at[o] \in 1..Len(Files(o)),
           step \in {"return", "open"} => at[o] > Len(Files(o)),
           step \in Judging => inForce'[o] \in Raws,
           \A q \in Openers : q # o => inForce'[q] = inForce[q]
    PROVE  Inv1'
<1>1. pc' = [pc EXCEPT ![o] = step]
  BY DEF Goto
<1>2. \A q \in Openers : Files(q)' = Files(q)
  BY DEF Files
<1>3. TypeOK'
  BY <1>1 DEF Inv1, TypeOK, store, ObserverTypes
<1>4. PlaceInv'
  BY <1>1, <1>2 DEF Inv1, TypeOK, PlaceInv
<1> QED
  BY <1>3, <1>4 DEF Inv1

\* Every step keeps the types and leaves each opener at a legal place.
LEMMA Next1 == Inv1 /\ [Next]_vars => Inv1'
<1> SUFFICES ASSUME Inv1, [Next]_vars PROVE Inv1'
  OBVIOUS
<1> USE DEF Inv1
<1>0. CASE UNCHANGED vars
  BY <1>0 DEF TypeOK, PlaceInv, Files, vars, store, opener, observers
<1> SUFFICES ASSUME NEW o \in Openers, Open(o) \/ OpenerStep(o) \/ Die(o)
             PROVE  Inv1'
  BY <1>0 DEF Next, Rest
<1>a. /\ Len(Files(o)) \in Nat /\ Len(Files(o)) <= NMigrations
      /\ \A m \in 1..Len(Files(o)) : m \in Migs /\ Files(o)[m] \in Raws
  BY FilesType DEF TypeOK, Files
<1>1. CASE Open(o)
  <2>1. PICK p \in Packages :
          /\ package' = [package EXCEPT ![o] = p]
          /\ quiet' = IF p \in settled THEN quiet \cup {o} ELSE quiet \ {o}
    BY <1>1 DEF Open
  <2>2. /\ pc' = [pc EXCEPT ![o] = "tables"] /\ at' = [at EXCEPT ![o] = 1]
        /\ applied' = [applied EXCEPT ![o] = [m \in Migs |-> None]]
        /\ inForce' = [inForce EXCEPT ![o] = None] /\ opens' = opens + 1
        /\ alone' = alone \cup {o} /\ opens < MaxOpens
        /\ UNCHANGED <<ledger, tables, digests, restamps, vetted, settled>>
    BY <1>1 DEF Open, Goto, store
  <2>3. applied' \in [Openers -> Ledgers]
    BY <2>2 DEF TypeOK, Ledgers
  <2>4. TypeOK'
    <3>1. package' \in [Openers -> Packages] /\ quiet' \subseteq Openers
      BY <2>1 DEF TypeOK
    <3>2. /\ pc' \in [Openers -> Working \cup Done]
          /\ at' \in [Openers -> 1..NMigrations + 1]
          /\ inForce' \in [Openers -> Raws \cup {None}]
          /\ opens' \in 0..MaxOpens /\ alone' \subseteq Openers
      BY <2>2, MigrationsAssumption DEF TypeOK, Working
    <3>3. \A q \in Openers : pc'[q] \in Verifying => applied'[q][at'[q]] \in Raws
      BY <2>2 DEF TypeOK, Verifying
    <3> QED
      BY <2>2, <2>3, <3>1, <3>2, <3>3 DEF TypeOK
  <2>5. PlaceInv'
    BY <2>1, <2>2 DEF TypeOK, PlaceInv, Files, AtFile, Verifying, Judging
  <2> QED
    BY <2>4, <2>5
<1>2. CASE LookForTables(o)
  BY <1>2, MoveKeeps1, ObserversTyped
     DEF LookForTables, TypeOK, PlaceInv, store, Working, Verifying, AtFile, Judging
<1>3. CASE CreateTables(o)
  <2>1. /\ UNCHANGED <<ledger, digests, restamps, package, applied, at, inForce>>
        /\ tables' = TRUE /\ Wrote(o) /\ UNCHANGED vetted /\ pc[o] = "create"
        /\ pc' = [pc EXCEPT ![o] = "ledger"]
    BY <1>3 DEF CreateTables, Goto
  <2>2. ObserverTypes'
    BY <2>1, ObserversTyped
  <2>3. TypeOK'
    BY <2>1, <2>2 DEF TypeOK, Working, Verifying, ObserverTypes
  <2>4. PlaceInv'
    BY <2>1 DEF TypeOK, PlaceInv, Files, AtFile, Verifying, Judging
  <2> QED
    BY <2>3, <2>4
<1>4. CASE ReadLedger(o)
  <2> DEFINE next == StepFor(o, 1, ledger)
  <2>1. /\ UNCHANGED <<ledger, tables, digests, restamps, package, at, inForce>>
        /\ applied' = [applied EXCEPT ![o] = ledger] /\ UNCHANGED observers
        /\ pc' = [pc EXCEPT ![o] = next] /\ pc[o] = "ledger"
    BY <1>4 DEF ReadLedger, Goto, store
  <2>2. at[o] = 1
    BY <2>1 DEF PlaceInv
  <2>3. /\ next \in {"return", "verify", "apply"}
        /\ next = "return" <=> 1 > Len(Files(o))
        /\ next = "verify" => ledger[1] \in Raws
    BY <1>a, StepForPlace, MigrationsAssumption DEF TypeOK, Migs
  <2> HIDE DEF next
  <2>4. ObserverTypes'
    BY <2>1, ObserversTyped
  <2>5. pc' \in [Openers -> Working \cup Done] /\ applied' \in [Openers -> Ledgers]
    BY <2>1, <2>3 DEF TypeOK, Working, Verifying
  <2>6. \A q \in Openers : pc'[q] \in Verifying => applied'[q][at'[q]] \in Raws
    BY <2>1, <2>2, <2>3 DEF TypeOK, Verifying
  <2>7. TypeOK'
    BY <2>1, <2>4, <2>5, <2>6 DEF TypeOK, ObserverTypes
  <2>8. PlaceInv'
    BY <1>a, <2>1, <2>2, <2>3 DEF TypeOK, PlaceInv, Files, AtFile, Verifying, Judging
  <2> QED
    BY <2>7, <2>8
<1>5. CASE Apply(o)
  <2>1. /\ UNCHANGED <<tables, restamps, package, applied, inForce>>
        /\ ledger' = [ledger EXCEPT ![at[o]] = File(o)] /\ pc[o] = "apply"
        /\ digests' = WithDigest(at[o], File(o)) /\ Advance(o) /\ Wrote(o)
    BY <1>5 DEF Apply
  <2>2. at[o] \in Migs /\ File(o) \in Raws
    BY <1>a, <2>1 DEF PlaceInv, AtFile, File
  <2>3. ledger' \in Ledgers
    BY <2>1, <2>2 DEF TypeOK, Ledgers
  <2>4. digests' \subseteq Digests
    BY <2>1, <2>2, WithDigestAdds
  <2>5. ObserverTypes'
    BY <2>1, ObserversTyped DEF AtFile
  <2> QED
    BY <2>1, <2>3, <2>4, <2>5, AdvanceKeeps1 DEF TypeOK, ObserverTypes
<1>6. CASE ApplyFails(o)
  <2>1. "failed" \in Working \cup Done /\ "failed" \notin AtFile \cup Working
    BY DEF Working, Verifying, Done, AtFile
  <2> QED
    BY <1>6, <2>1, MoveKeeps1, ObserversTyped
       DEF ApplyFails, TypeOK, store, Working, Verifying, AtFile, Judging
<1>7. CASE ReadInForce(o)
  <2> DEFINE sha == EffectiveSha(at[o], applied[o][at[o]])
             step == IF sha = File(o) THEN "backfill" ELSE "compare"
  <2>1. /\ UNCHANGED <<store, package, applied, at>> /\ pc[o] = "verify"
        /\ inForce' = [inForce EXCEPT ![o] = sha] /\ Goto(o, step)
        /\ UNCHANGED observers
    BY <1>7 DEF ReadInForce
  <2>2. at[o] \in 1..Len(Files(o)) /\ applied[o][at[o]] \in Raws
    BY <2>1 DEF PlaceInv, TypeOK, AtFile, Verifying
  <2>3. sha \in Raws
    BY <1>a, <2>2, EffectiveType
  <2>4. step \in {"backfill", "compare"}
    OBVIOUS
  <2> HIDE DEF sha, step
  <2>5. inForce' \in [Openers -> Raws \cup {None}]
    BY <2>1, <2>3 DEF TypeOK
  <2>6. ObserverTypes' /\ inForce'[o] \in Raws
    BY <2>1, <2>3, ObserversTyped DEF TypeOK
  <2>7. step \in Working \cup Done
    BY <2>4 DEF Working, Verifying
  <2>8. tables' \in BOOLEAN /\ \A q \in Openers : q # o => inForce'[q] = inForce[q]
    BY <2>1 DEF TypeOK, store
  <2> QED
    BY <2>1, <2>2, <2>4, <2>5, <2>6, <2>7, <2>8, MoveKeeps1
<1>8. CASE Verified(o)
  <2>1. /\ UNCHANGED <<store, package, applied, inForce>> /\ NoWrite
        /\ pc[o] = "backfill" /\ Advance(o)
    BY <1>8 DEF Verified
  <2>2. ObserverTypes'
    BY <2>1, ObserversTyped DEF AtFile, Verifying
  <2> QED
    BY <2>1, <2>2, AdvanceKeeps1 DEF TypeOK, ObserverTypes, store
<1>9. CASE Backfill(o)
  <2>1. /\ UNCHANGED <<ledger, tables, restamps, package, applied, inForce>>
        /\ digests' = WithDigest(at[o], File(o)) /\ Advance(o) /\ Wrote(o)
        /\ pc[o] = "backfill"
    BY <1>9 DEF Backfill
  <2>2. at[o] \in Migs /\ File(o) \in Raws
    BY <1>a, <2>1 DEF PlaceInv, AtFile, Verifying, File
  <2>3. digests' \subseteq Digests
    BY <2>1, <2>2, WithDigestAdds
  <2>4. ObserverTypes'
    BY <2>1, ObserversTyped DEF AtFile, Verifying
  <2> QED
    BY <2>1, <2>3, <2>4, AdvanceKeeps1 DEF TypeOK, ObserverTypes
<1>10. CASE Compare(o)
  <2>1. "tampered" \in AtFile /\ "restamp" \in AtFile
    BY DEF AtFile, Verifying
  <2>2. /\ at[o] \in 1..Len(Files(o)) /\ applied[o][at[o]] \in Raws
        /\ inForce[o] \in Raws
    BY <1>10 DEF Compare, PlaceInv, TypeOK, AtFile, Verifying, Judging
  <2>3. ObserverTypes'
    BY <1>10, ObserversTyped DEF Compare
  <2> DEFINE step == IF SameMeaning(o) THEN "restamp" ELSE "tampered"
  <2>4. /\ Goto(o, step) /\ step \in {"restamp", "tampered"}
        /\ UNCHANGED <<store, package, applied, at, inForce>>
    BY <1>10 DEF Compare
  <2> HIDE DEF step
  <2>5. step \in Working \cup Done
    BY <2>4 DEF Working, Verifying, Done
  <2> QED
    BY <2>2, <2>3, <2>4, <2>5, MoveKeeps1 DEF TypeOK, store
<1>11. CASE Restamp(o)
  <2> DEFINE row == [superseded |-> inForce[o], raw |-> File(o)]
  <2>1. /\ UNCHANGED <<ledger, tables, package, applied, inForce>>
        /\ restamps' = [restamps EXCEPT ![at[o]] = Append(restamps[at[o]], row)]
        /\ digests' = WithDigest(at[o], File(o)) /\ Advance(o) /\ Wrote(o)
        /\ pc[o] = "restamp"
    BY <1>11 DEF Restamp, TypeOK
  <2>2. at[o] \in Migs /\ File(o) \in Raws
    BY <1>a, <2>1 DEF PlaceInv, AtFile, Verifying, File
  <2>3. inForce[o] \in Raws
    BY <2>1 DEF PlaceInv, Judging
  <2>4. digests' \subseteq Digests
    BY <2>1, <2>2, WithDigestAdds
  <2>5. restamps' \in [Migs -> Seq(Restamps)]
    <3>1. row \in Restamps
      BY <2>2, <2>3 DEF Restamps
    <3>2. Append(restamps[at[o]], row) \in Seq(Restamps)
      BY <2>2, <3>1, AppendProperties DEF TypeOK
    <3> QED
      BY <2>1, <2>2, <3>2 DEF TypeOK
  <2>6. ObserverTypes'
    BY <2>1, ObserversTyped DEF AtFile, Verifying
  <2> QED
    BY <2>1, <2>4, <2>5, <2>6, AdvanceKeeps1 DEF TypeOK, ObserverTypes
<1>12. CASE Return(o)
  <2>1. /\ UNCHANGED <<store, package, applied, at, inForce>>
        /\ UNCHANGED <<vetted, opens, alone, quiet>>
        /\ settled' \subseteq Packages /\ Goto(o, "open") /\ pc[o] = "return"
    BY <1>12 DEF Return, TypeOK
  <2>2. "open" \in Working \cup Done /\ "open" \notin AtFile \cup Working
    BY DEF Working, Verifying, Done, AtFile
  <2> QED
    BY <2>1, <2>2, MoveKeeps1
       DEF TypeOK, PlaceInv, ObserverTypes, store, Working, Judging
<1>13. CASE Die(o)
  <2>1. "closed" \in Working \cup Done /\ "closed" \notin AtFile \cup Working
    BY DEF Working, Verifying, Done, AtFile
  <2> QED
    BY <1>13, <2>1, MoveKeeps1, ObserversTyped
       DEF Die, TypeOK, store, Working, Verifying, AtFile, Judging
<1> QED
  BY <1>1, <1>2, <1>3, <1>4, <1>5, <1>6, <1>7, <1>8, <1>9, <1>10, <1>11,
     <1>12, <1>13 DEF OpenerStep

-----------------------------------------------------------------------------
(***************************************************************************)
(* Layer 2: the store.  Rows are added and never changed.                  *)
(***************************************************************************)
StoreGrows ==
    /\ digests \subseteq digests'
    /\ \A m \in Migs : ledger[m] # None => ledger'[m] = ledger[m]
    /\ \A m \in Migs : /\ Len(restamps[m]) <= Len(restamps'[m])
                       /\ \A k \in 1..Len(restamps[m]) :
                            restamps'[m][k] = restamps[m][k]

\* The repairs are triggers and inserts: no step takes a row away.
LEMMA NextGrows == Inv1 /\ [Next]_vars => StoreGrows
<1> SUFFICES ASSUME Inv1, [Next]_vars PROVE StoreGrows
  OBVIOUS
<1> USE DEF Inv1
<1>a. \A m \in Migs : Len(restamps[m]) \in Nat
  BY LenProperties DEF TypeOK
<1>0. CASE UNCHANGED store
  BY <1>0, <1>a DEF StoreGrows, store
<1> SUFFICES ASSUME NEW o \in Openers, OpenerStep(o), ~UNCHANGED store
             PROVE  StoreGrows
  BY <1>0 DEF Next, Rest, vars, Open, Die
<1>c. pc[o] \in AtFile => at[o] \in Migs /\ File(o) \in Raws
  BY FilesType DEF TypeOK, PlaceInv, Files, File
<1>1. CASE CreateTables(o)
  BY <1>1, <1>a DEF StoreGrows, CreateTables
<1>2. CASE Apply(o)
  <2>1. digests \subseteq digests'
    BY <1>2, <1>c, WithDigestAdds DEF Apply, AtFile
  <2>2. \A m \in Migs : ledger[m] # None => ledger'[m] = ledger[m]
    BY <1>2, <1>c DEF Apply, AtFile, TypeOK, Ledgers
  <2> QED
    BY <1>2, <1>a, <2>1, <2>2 DEF StoreGrows, Apply
<1>3. CASE Backfill(o)
  <2>1. digests \subseteq digests'
    BY <1>3, <1>c, WithDigestAdds DEF Backfill, AtFile, Verifying
  <2> QED
    BY <1>3, <1>a, <2>1 DEF StoreGrows, Backfill
<1>4. CASE Restamp(o)
  <2> DEFINE row == [superseded |-> inForce[o], raw |-> File(o)]
  <2>1. /\ restamps' = [restamps EXCEPT ![at[o]] = Append(restamps[at[o]], row)]
        /\ digests' = WithDigest(at[o], File(o)) /\ ledger' = ledger
        /\ at[o] \in Migs /\ File(o) \in Raws
        /\ inForce[o] \in Raws
    BY <1>4, <1>c DEF Restamp, AtFile, Verifying, PlaceInv, Judging, TypeOK
  <2>2. digests \subseteq digests'
    BY <2>1, WithDigestAdds
  <2>3. row \in Restamps
    BY <2>1 DEF Restamps
  <2>4. /\ Len(Append(restamps[at[o]], row)) = Len(restamps[at[o]]) + 1
        /\ \A k \in 1..Len(restamps[at[o]]) :
             Append(restamps[at[o]], row)[k] = restamps[at[o]][k]
    BY <2>1, <2>3, AppendProperties DEF TypeOK
  <2> HIDE DEF row
  <2>5. \A m \in Migs : /\ Len(restamps[m]) <= Len(restamps'[m])
                        /\ \A k \in 1..Len(restamps[m]) :
                             restamps'[m][k] = restamps[m][k]
    BY <1>a, <2>1, <2>4 DEF TypeOK
  <2> QED
    BY <2>1, <2>2, <2>5 DEF StoreGrows
<1>5. ~(LookForTables(o) \/ ReadLedger(o) \/ ApplyFails(o) \/ ReadInForce(o)
          \/ Verified(o) \/ Compare(o) \/ Return(o))
  BY DEF LookForTables, ReadLedger, ApplyFails, ReadInForce, Verified, Compare,
         Return
<1> QED
  BY <1>1, <1>2, <1>3, <1>4, <1>5 DEF OpenerStep

\* What stays true of a migration when the store grows.
LEMMA GrowthKeeps ==
    ASSUME Inv1, Inv1', StoreGrows, NEW m \in Migs
    PROVE  /\ \A raw : HasDigest(m, raw) => HasDigest(m, raw)'
           /\ ledger[m] # None => Named(m) \subseteq Named(m)'
           /\ ledger[m] # None /\ Covered(m) => Covered(m)'
<1>1. \A raw : HasDigest(m, raw) => HasDigest(m, raw)'
  BY DEF StoreGrows, HasDigest
<1>2. restamps[m] \in Seq(Restamps) /\ restamps'[m] \in Seq(Restamps)
  BY DEF Inv1, TypeOK
<1>3. /\ Len(restamps[m]) \in Nat /\ Len(restamps'[m]) \in Nat
      /\ restamps[m] # <<>> <=> Len(restamps[m]) # 0
      /\ restamps'[m] # <<>> <=> Len(restamps'[m]) # 0
  BY <1>2, EmptySeq, LenProperties
<1>4. /\ Len(restamps[m]) <= Len(restamps'[m])
      /\ \A k \in 1..Len(restamps[m]) : restamps'[m][k] = restamps[m][k]
      /\ ledger[m] # None => ledger'[m] = ledger[m]
  BY DEF StoreGrows
<1>5. ledger[m] # None => Named(m) \subseteq Named(m)'
  BY <1>3, <1>4 DEF Named
<1>6. ledger[m] # None /\ Covered(m) => Covered(m)'
  BY <1>1, <1>3, <1>4 DEF Covered
<1> QED
  BY <1>1, <1>5, <1>6

\* An opener that stands still keeps what it may rely on, whatever the others
\* write.
LEMMA OthersKeep ==
    ASSUME Inv3, Inv1', StoreGrows, NEW q \in Openers,
           pc'[q] = pc[q], package'[q] = package[q], applied'[q] = applied[q],
           at'[q] = at[q], inForce'[q] = inForce[q]
    PROVE  OpenerInv(q)'
<1> USE DEF Inv3, Inv2, Inv1
<1>1. Files(q)' = Files(q) /\ File(q)' = File(q)
  BY DEF Files, File
<1>2. /\ \A m \in 1..Len(Files(q)) : m \in Migs
      /\ pc[q] \in AtFile => at[q] \in Migs
  BY FilesType DEF TypeOK, PlaceInv, Files
<1>3. \A m \in Migs : InOrder(q, m) => InOrder(q, m)'
  BY <1>1 DEF InOrder, StoreGrows
<1>4. CopyAgrees(q)'
  BY DEF OpenerInv, CopyAgrees, StoreGrows
<1>5. PastInOrder(q)'
  <2> SUFFICES ASSUME pc[q] \in Working \cup {"open"},
                      NEW m \in 1..Len(Files(q)), m < at[q]
               PROVE  InOrder(q, m)' /\ Covered(m)'
    BY <1>1 DEF PastInOrder
  <2>1. InOrder(q, m) /\ Covered(m) /\ m \in Migs
    BY <1>2 DEF OpenerInv, PastInOrder
  <2> QED
    BY <1>3, <2>1, GrowthKeeps DEF InOrder
<1>6. CurrentFile(q)'
  <2> SUFFICES ASSUME pc[q] \in Verifying PROVE CurrentFile(q)'
    BY DEF CurrentFile, Verifying
  <2>1. at[q] \in Migs /\ CurrentFile(q)
    BY <1>2 DEF AtFile, OpenerInv
  <2>2. ledger[at[q]] # None /\ ledger'[at[q]] = ledger[at[q]]
    BY <2>1 DEF CurrentFile, StoreGrows
  <2>3. restamps[at[q]] # <<>> => restamps'[at[q]] # <<>>
    <3>1. restamps[at[q]] \in Seq(Restamps) /\ restamps'[at[q]] \in Seq(Restamps)
      BY <2>1 DEF TypeOK
    <3>2. Len(restamps[at[q]]) <= Len(restamps'[at[q]])
      BY <2>1 DEF StoreGrows
    <3> QED
      BY <3>1, <3>2, EmptySeq, LenProperties
  <2>4. /\ HasDigest(at[q], inForce[q]) => HasDigest(at[q], inForce[q])'
        /\ inForce[q] \in Named(at[q]) => inForce'[q] \in Named(at[q])'
    <3>1. HasDigest(at[q], inForce[q]) => HasDigest(at[q], inForce[q])'
      BY DEF HasDigest, StoreGrows
    <3>2. ASSUME inForce[q] \in Named(at[q]) PROVE inForce'[q] \in Named(at[q])'
      <4>1. CASE inForce[q] = ledger[at[q]]
        BY <4>1, <2>2 DEF Named
      <4>2. CASE \E k \in 1..Len(restamps[at[q]]) :
                   inForce[q] = restamps[at[q]][k].raw
        <5>1. PICK k \in 1..Len(restamps[at[q]]) :
                     inForce[q] = restamps[at[q]][k].raw
          BY <4>2
        <5>2. /\ Len(restamps[at[q]]) \in Nat /\ Len(restamps'[at[q]]) \in Nat
              /\ Len(restamps[at[q]]) <= Len(restamps'[at[q]])
              /\ restamps'[at[q]][k] = restamps[at[q]][k]
          BY <2>1, <5>1, LenProperties DEF TypeOK, StoreGrows
        <5>3. k \in 1..Len(restamps'[at'[q]])
              /\ inForce'[q] = restamps'[at'[q]][k].raw
          BY <5>1, <5>2
        <5> QED
          BY <5>3 DEF Named
      <4> QED
        BY <3>2, <4>1, <4>2 DEF Named
    <3> QED
      BY <3>1, <3>2
  <2>5. InOrder(q, at[q]) => InOrder(q, at[q])'
    BY <1>1, <2>2 DEF InOrder
  <2> QED
    BY <1>1, <2>1, <2>2, <2>3, <2>4, <2>5 DEF CurrentFile
<1> QED
  BY <1>4, <1>5, <1>6 DEF OpenerInv

\* _recorded_semantic(): with honest rows, the meaning of the digest or nothing.
LEMMA RecordedMeaning ==
    ASSUME StoreInv, NEW m, NEW raw
    PROVE  /\ Recorded(m, raw) # {} <=> HasDigest(m, raw)
           /\ HasDigest(m, raw) => Recorded(m, raw) = {MeaningOf[raw]}
  BY DEF StoreInv, DigestsHonest, Recorded, HasDigest

\* The digest in force means what the ledger's does, is one that was named, and
\* its meaning is on record once the migration is covered.
LEMMA EffectiveFacts ==
    ASSUME Inv1, StoreInv, NEW m \in Migs, ledger[m] # None
    PROVE  LET sha == EffectiveSha(m, ledger[m]) IN
           /\ sha \in Named(m)
           /\ MeaningOf[sha] = MeaningOf[ledger[m]]
           /\ Covered(m) => HasDigest(m, sha)
           /\ restamps[m] # <<>> => HasDigest(m, sha)
           /\ restamps[m] = <<>> => sha = ledger[m]
<1>1. CASE restamps[m] = <<>>
  BY <1>1 DEF EffectiveSha, Named, Covered
<1>2. CASE restamps[m] # <<>>
  <2>1. Len(restamps[m]) \in 1..Len(restamps[m])
    BY <1>2, EmptySeq, LenProperties DEF Inv1, TypeOK
  <2>2. /\ MeaningOf[restamps[m][Len(restamps[m])].raw] = MeaningOf[ledger[m]]
        /\ HasDigest(m, restamps[m][Len(restamps[m])].raw)
    BY <2>1 DEF StoreInv, RestampsHonest
  <2> QED
    BY <1>2, <2>1, <2>2 DEF EffectiveSha, Named
<1> QED
  BY <1>1, <1>2

\* A restamped migration has the meaning of its ledger row on record.
LEMMA RestampedOnRecord ==
    ASSUME Inv1, StoreInv, NEW m \in Migs, restamps[m] # <<>>
    PROVE  HasDigest(m, ledger[m])
<1>1. 1 \in 1..Len(restamps[m])
  BY EmptySeq, LenProperties DEF Inv1, TypeOK
<1> QED
  BY <1>1 DEF StoreInv, RestampsHonest

\* An opener about to restamp found the meaning of the ledger row on record.
LEMMA RestampingOnRecord ==
    ASSUME Inv3, NEW o \in Openers, pc[o] = "restamp", at[o] \in Migs
    PROVE  HasDigest(at[o], ledger[at[o]])
<1>1. HasDigest(at[o], inForce[o]) /\ inForce[o] \in Named(at[o])
  BY DEF Inv3, OpenerInv, CurrentFile
<1>2. CASE inForce[o] = ledger[at[o]]
  BY <1>1, <1>2
<1>3. CASE \E k \in 1..Len(restamps[at[o]]) : inForce[o] = restamps[at[o]][k].raw
  BY <1>3 DEF Inv3, Inv2, StoreInv, RestampsHonest
<1> QED
  BY <1>1, <1>2, <1>3 DEF Named

\* No opener goes past a migration without the meaning of its ledger row.
LEMMA NextVetted == Inv3 /\ Inv1' /\ StoreGrows /\ [Next]_vars => VettedOnRecord'
<1> SUFFICES ASSUME Inv3, Inv1', StoreGrows, [Next]_vars,
                    NEW m \in vetted'
             PROVE  ledger'[m] # None /\ HasDigest(m, ledger[m])'
  BY DEF VettedOnRecord
<1> USE DEF Inv3, Inv2, Inv1
<1>1. CASE m \in vetted
  <2>1. m \in Migs /\ ledger[m] # None /\ HasDigest(m, ledger[m])
    BY <1>1 DEF TypeOK, StoreInv, VettedOnRecord
  <2> QED
    BY <2>1 DEF StoreGrows, HasDigest
<1>2. CASE m \notin vetted
  <2>1. PICK o \in Openers : Apply(o) \/ Verified(o) \/ Backfill(o) \/ Restamp(o)
    BY <1>2 DEF Next, Open, OpenerStep, Die, Rest, LookForTables, CreateTables,
                ReadLedger, ApplyFails, ReadInForce, Compare, Return, observers,
                vars
  <2>2. /\ m = at[o] /\ pc[o] \in {"apply", "backfill", "restamp"}
    BY <1>2, <2>1 DEF Apply, Verified, Backfill, Restamp, Advance
  <2>3. m \in Migs /\ File(o) \in Raws
    BY <2>2, FilesType DEF TypeOK, PlaceInv, AtFile, Verifying, Files, File
  <2>4. ASSUME ledger[m] # None, HasDigest(m, ledger[m])
        PROVE  ledger'[m] # None /\ HasDigest(m, ledger[m])'
    BY <2>3, <2>4 DEF StoreGrows, HasDigest
  <2>5. CASE Apply(o)
    <3>1. ledger'[m] = File(o) /\ digests' = WithDigest(m, File(o))
      BY <2>2, <2>3, <2>5 DEF Apply, TypeOK, Ledgers
    <3>2. \E d \in digests' : d.mig = m /\ d.raw = File(o)
      BY <2>3, <3>1, WithDigestAdds
    <3> QED
      BY <2>3, <3>1, <3>2, MigrationsAssumption DEF HasDigest
  <2>6. CASE Verified(o) \/ Backfill(o)
    <3>1. /\ ledger[m] # None /\ ledger' = ledger
          /\ File(o) = ledger[m] \/ restamps[m] # <<>>
      BY <2>2, <2>6
         DEF Verified, Backfill, OpenerInv, CurrentFile, Verifying, store
    <3>2. \E d \in digests' : d.mig = m /\ d.raw = File(o)
      <4>1. CASE Verified(o)
        BY <2>2, <4>1, RecordedMeaning DEF Verified, HasDigest, store
      <4>2. CASE Backfill(o)
        BY <2>2, <2>3, <4>2, WithDigestAdds DEF Backfill
      <4> QED
        BY <2>6, <4>1, <4>2
    <3>3. CASE File(o) = ledger[m]
      BY <3>1, <3>2, <3>3 DEF HasDigest
    <3>4. CASE restamps[m] # <<>>
      BY <2>3, <2>4, <3>1, <3>4, RestampedOnRecord
    <3> QED
      BY <3>1, <3>3, <3>4
  <2>7. CASE Restamp(o)
    <3>1. pc[o] = "restamp" /\ ledger[m] # None
      BY <2>2, <2>7 DEF Restamp, OpenerInv, CurrentFile, Verifying
    <3> QED
      BY <2>2, <2>3, <2>4, <3>1, RestampingOnRecord
  <2> QED
    BY <2>1, <2>5, <2>6, <2>7
<1> QED
  BY <1>1, <1>2

\* Whatever an opener does, the rows of the store still agree.
LEMMA NextStore == Inv3 /\ Inv1' /\ StoreGrows /\ [Next]_vars => StoreInv'
<1> SUFFICES ASSUME Inv3, Inv1', StoreGrows, [Next]_vars PROVE StoreInv'
  OBVIOUS
<1> USE DEF Inv3, Inv2, Inv1
<1>a. \A m \in Migs : \A raw : HasDigest(m, raw) => HasDigest(m, raw)'
  BY GrowthKeeps
<1>b. VettedOnRecord'
  BY NextVetted
<1>0. CASE UNCHANGED store
  BY <1>0, <1>b DEF StoreInv, DigestsHonest, RestampsHonest, RestampsAuditable,
                    HasDigest, store
<1> SUFFICES ASSUME NEW o \in Openers, OpenerStep(o), ~UNCHANGED store
             PROVE  StoreInv'
  BY <1>0 DEF Next, Rest, vars, Open, Die
<1>c. pc[o] \in AtFile => at[o] \in Migs /\ File(o) \in Raws
  BY FilesType DEF TypeOK, PlaceInv, Files, File
<1>d. ASSUME digests' = WithDigest(at[o], File(o)), pc[o] \in AtFile
      PROVE  /\ DigestsHonest'
             /\ \E d \in digests' : d.mig = at[o] /\ d.raw = File(o)
  BY <1>c, <1>d, WithDigestAdds DEF StoreInv, DigestsHonest
<1>1. CASE CreateTables(o)
  BY <1>1, <1>b DEF CreateTables, StoreInv, DigestsHonest, RestampsHonest,
                    RestampsAuditable, HasDigest
<1>2. CASE Apply(o)
  <2>1. /\ pc[o] = "apply" /\ ledger[at[o]] = None /\ restamps' = restamps
        /\ ledger' = [ledger EXCEPT ![at[o]] = File(o)]
        /\ digests' = WithDigest(at[o], File(o))
        /\ at[o] \in Migs /\ File(o) \in Raws
    BY <1>2, <1>c DEF Apply, AtFile
  <2>2. \A k \in 1..Len(restamps[at[o]]) : FALSE
    BY <2>1 DEF StoreInv, RestampsHonest
  <2>3. \A m \in Migs : m # at[o] => ledger'[m] = ledger[m]
    BY <2>1 DEF TypeOK, Ledgers
  <2>4. ledger'[at[o]] = File(o)
    BY <2>1 DEF TypeOK, Ledgers
  <2>5. DigestsHonest' /\ \E d \in digests' : d.mig = at[o] /\ d.raw = File(o)
    BY <1>d, <2>1 DEF AtFile
  <2>6. RestampsHonest'
    BY <1>a, <2>1, <2>2, <2>3 DEF StoreInv, RestampsHonest
  <2>7. RestampsAuditable'
    <3> SUFFICES ASSUME NEW m \in Migs, NEW k \in DOMAIN restamps[m]
                 PROVE  /\ restamps[m][k].superseded # restamps[m][k].raw
                        /\ restamps[m][k].superseded \in
                             {ledger'[m]} \cup {restamps[m][j].raw : j \in 1..k - 1}
      BY <2>1 DEF RestampsAuditable
    <3>1. DOMAIN restamps[m] = 1..Len(restamps[m])
      BY LenProperties DEF TypeOK
    <3>2. ledger'[m] = ledger[m]
      BY <2>2, <2>3, <3>1
    <3> QED
      BY <3>2 DEF StoreInv, RestampsAuditable
  <2> QED
    BY <1>b, <2>5, <2>6, <2>7 DEF StoreInv
<1>3. CASE Backfill(o)
  <2>1. /\ digests' = WithDigest(at[o], File(o)) /\ pc[o] \in AtFile
        /\ UNCHANGED <<ledger, restamps>>
    BY <1>3 DEF Backfill, AtFile, Verifying
  <2>2. DigestsHonest'
    BY <1>d, <2>1
  <2>3. RestampsHonest' /\ RestampsAuditable'
    BY <1>a, <2>1 DEF StoreInv, RestampsHonest, RestampsAuditable
  <2> QED
    BY <1>b, <2>2, <2>3 DEF StoreInv
<1>4. CASE Restamp(o)
  <2> DEFINE row == [superseded |-> inForce[o], raw |-> File(o)]
             m0  == at[o]
             n   == Len(restamps[m0])
  <2>1. /\ restamps' = [restamps EXCEPT ![m0] = Append(restamps[m0], row)]
        /\ digests' = WithDigest(m0, File(o)) /\ ledger' = ledger
        /\ m0 \in Migs /\ File(o) \in Raws /\ inForce[o] \in Raws
        /\ pc[o] = "restamp" /\ pc[o] \in AtFile
    BY <1>4, <1>c DEF Restamp, AtFile, Verifying, PlaceInv, Judging, TypeOK
  <2>2. DigestsHonest' /\ \E d \in digests' : d.mig = m0 /\ d.raw = File(o)
    BY <1>d, <2>1
  <2>3. row.superseded = inForce[o] /\ row.raw = File(o) /\ row \in Restamps
    BY <2>1 DEF Restamps
  <2>4. /\ n \in Nat /\ Len(restamps'[m0]) = n + 1
        /\ restamps'[m0][n + 1] = row
        /\ \A k \in 1..n : restamps'[m0][k] = restamps[m0][k]
        /\ DOMAIN restamps'[m0] = 1..n + 1 /\ DOMAIN restamps[m0] = 1..n
    BY <2>1, <2>3, AppendProperties, LenProperties DEF TypeOK
  <2>5. \A m \in Migs : m # m0 => restamps'[m] = restamps[m]
    BY <2>1 DEF TypeOK
  <2>6. /\ inForce[o] # File(o) /\ inForce[o] \in Named(m0)
        /\ MeaningOf[ledger[m0]] = MeaningOf[File(o)] /\ ledger[m0] # None
        /\ HasDigest(m0, ledger[m0])
    BY <2>1, RestampingOnRecord DEF OpenerInv, CurrentFile, InOrder, File
  <2> HIDE DEF row, n
  <2>7. RestampsHonest'
    <3> SUFFICES ASSUME NEW m \in Migs, NEW k \in 1..Len(restamps'[m])
                 PROVE  /\ ledger[m] # None
                        /\ MeaningOf[restamps'[m][k].raw] = MeaningOf[ledger[m]]
                        /\ \E d \in digests' :
                             d.mig = m /\ d.raw = restamps'[m][k].raw
                        /\ \E d \in digests' : d.mig = m /\ d.raw = ledger[m]
      BY <2>1 DEF RestampsHonest, HasDigest
    <3>1. CASE m = m0 /\ k = n + 1
      BY <3>1, <2>2, <2>3, <2>4, <2>6 DEF HasDigest, StoreGrows
    <3>2. CASE ~(m = m0 /\ k = n + 1)
      <4>1. k \in 1..Len(restamps[m]) /\ restamps'[m][k] = restamps[m][k]
        BY <3>2, <2>4, <2>5 DEF n
      <4>2. HasDigest(m, restamps'[m][k].raw) /\ HasDigest(m, ledger[m])
        BY <4>1 DEF StoreInv, RestampsHonest
      <4> QED
        BY <4>1, <4>2 DEF StoreInv, RestampsHonest, HasDigest, StoreGrows
    <3> QED
      BY <3>1, <3>2
  <2>8. RestampsAuditable'
    <3> SUFFICES ASSUME NEW m \in Migs, NEW k \in DOMAIN restamps'[m]
                 PROVE  /\ restamps'[m][k].superseded # restamps'[m][k].raw
                        /\ restamps'[m][k].superseded \in
                             {ledger[m]} \cup {restamps'[m][j].raw : j \in 1..k - 1}
      BY <2>1 DEF RestampsAuditable
    <3>1. CASE m = m0 /\ k = n + 1
      <4>1. restamps'[m][k] = row /\ k - 1 = n
        BY <3>1, <2>4
      <4>2. inForce[o] \in {ledger[m]} \cup {restamps[m][j].raw : j \in 1..n}
        BY <3>1, <2>6 DEF Named, n
      <4>3. \A j \in 1..n : restamps'[m][j] = restamps[m][j]
        BY <3>1, <2>4
      <4> QED
        BY <4>1, <4>2, <4>3, <2>3, <2>6
    <3>2. CASE ~(m = m0 /\ k = n + 1)
      <4>1. DOMAIN restamps[m] = 1..Len(restamps[m])
        BY LenProperties DEF TypeOK
      <4>2. /\ k \in DOMAIN restamps[m] /\ k \in Nat
            /\ \A j \in 1..k : restamps'[m][j] = restamps[m][j]
        BY <3>2, <4>1, <2>4, <2>5 DEF n
      <4>3. /\ restamps[m][k].superseded # restamps[m][k].raw
            /\ restamps[m][k].superseded \in
                 {ledger[m]} \cup {restamps[m][j].raw : j \in 1..k - 1}
        BY <4>2 DEF StoreInv, RestampsAuditable
      <4>4. restamps'[m][k] = restamps[m][k]
            /\ \A j \in 1..k - 1 : restamps'[m][j] = restamps[m][j]
        BY <4>1, <4>2
      <4> QED
        BY <4>3, <4>4
    <3> QED
      BY <3>1, <3>2
  <2> QED
    BY <1>b, <2>2, <2>7, <2>8 DEF StoreInv
<1>5. ~(LookForTables(o) \/ ReadLedger(o) \/ ApplyFails(o) \/ ReadInForce(o)
          \/ Verified(o) \/ Compare(o) \/ Return(o))
  BY DEF LookForTables, ReadLedger, ApplyFails, ReadInForce, Verified, Compare,
         Return
<1> QED
  BY <1>1, <1>2, <1>3, <1>4, <1>5 DEF OpenerStep

-----------------------------------------------------------------------------
(***************************************************************************)
(* Layer 3: the openers.                                                   *)
(***************************************************************************)

\* What the opener has gone past stays in order while it stays at its file.
LEMMA PastKeeps ==
    ASSUME Inv3, Inv1', StoreGrows, NEW o \in Openers,
           pc[o] \in Working, package' = package
    PROVE  \A m \in 1..Len(Files(o)) : m < at[o] =>
             InOrder(o, m)' /\ Covered(m)'
<1> SUFFICES ASSUME NEW m \in 1..Len(Files(o)), m < at[o]
             PROVE  InOrder(o, m)' /\ Covered(m)'
  OBVIOUS
<1>1. m \in Migs
  BY FilesType DEF Inv3, Inv2, Inv1, TypeOK, Files
<1>2. InOrder(o, m) /\ Covered(m)
  BY DEF Inv3, OpenerInv, PastInOrder
<1>3. Covered(m)'
  BY <1>1, <1>2, GrowthKeeps DEF Inv3, Inv2, InOrder
<1>4. InOrder(o, m)'
  BY <1>1, <1>2 DEF InOrder, StoreGrows, Files
<1> QED
  BY <1>3, <1>4

\* Advance(): going past a file that is in order keeps everything so.
LEMMA AdvanceKeeps3 ==
    ASSUME Inv3, Inv1', StoreGrows, NEW o \in Openers,
           pc[o] \in {"apply", "backfill", "restamp"}, Advance(o),
           UNCHANGED <<package, applied, inForce>>,
           ledger'[at[o]] # None,
           MeaningOf[ledger'[at[o]]] = MeaningOf[File(o)],
           \/ \E d \in digests' : d.mig = at[o] /\ d.raw = ledger'[at[o]]
           \/ restamps'[at[o]] # <<>>
    PROVE  OpenerInv(o)'
<1> USE DEF Inv3, Inv2, Inv1
<1> DEFINE next == StepFor(o, at[o] + 1, applied[o])
<1>1. at' = [at EXCEPT ![o] = at[o] + 1] /\ pc' = [pc EXCEPT ![o] = next]
  BY DEF Advance, Goto, TypeOK
<1>2. at[o] \in Nat /\ at'[o] = at[o] + 1 /\ pc'[o] = next
  BY <1>1, MigrationsAssumption DEF TypeOK
<1>3. next \in {"return", "verify", "apply"}
  BY DEF StepFor
<1> HIDE DEF next
<1>4. CopyAgrees(o)'
  BY DEF OpenerInv, CopyAgrees, StoreGrows
<1>5. PastInOrder(o)'
  <2>1. \A m \in 1..Len(Files(o)) : m < at[o] => InOrder(o, m)' /\ Covered(m)'
    BY PastKeeps DEF Working, Verifying
  <2>2. Files(o)' = Files(o)
    BY DEF Files
  <2>3. \A m \in 1..Len(Files(o)) : m < at'[o] => m < at[o] \/ m = at[o]
    BY <1>2
  <2>4. \A m \in 1..Len(Files(o)) : m = at[o] => InOrder(o, m)' /\ Covered(m)'
    BY <2>2 DEF InOrder, Covered, HasDigest, File, Files
  <2> QED
    BY <2>1, <2>2, <2>3, <2>4 DEF PastInOrder
<1>6. CurrentFile(o)'
  <2>1. pc'[o] = "verify" => applied'[o][at'[o]] \in Raws /\ at'[o] \in Migs
    <3>1. pc'[o] = "verify" => at'[o] \in 1..Len(Files(o))'
      BY DEF PlaceInv, AtFile, Verifying
    <3>2. \A m \in 1..Len(Files(o))' : m \in Migs
      BY FilesType DEF TypeOK, Files
    <3> QED
      BY <3>1, <3>2 DEF TypeOK, Verifying
  <2>2. pc'[o] = "verify" => ledger'[at'[o]] # None
    BY <1>4, <2>1, MigrationsAssumption DEF CopyAgrees
  <2> QED
    BY <1>2, <1>3, <2>2 DEF CurrentFile, Verifying
<1> QED
  BY <1>4, <1>5, <1>6 DEF OpenerInv

\* Each step of an opener leaves it with what it may rely on next.
LEMMA OwnStepKeeps ==
    ASSUME Inv3, Inv1', StoreGrows, NEW o \in Openers,
           Open(o) \/ OpenerStep(o) \/ Die(o)
    PROVE  OpenerInv(o)'
<1> USE DEF Inv3, Inv2, Inv1
<1>a. /\ Len(Files(o)) \in Nat
      /\ \A m \in 1..Len(Files(o)) : m \in Migs /\ Files(o)[m] \in Raws
      /\ pc[o] \in AtFile => at[o] \in 1..Len(Files(o)) /\ at[o] \in Migs
                              /\ File(o) \in Raws
  BY FilesType DEF TypeOK, PlaceInv, Files, File
<1>b. CopyAgrees(o) /\ PastInOrder(o) /\ CurrentFile(o)
  BY DEF OpenerInv
<1>c. applied' = applied => CopyAgrees(o)'
  BY <1>b DEF CopyAgrees, StoreGrows
<1>d. package' = package => File(o)' = Files(o)[at'[o]] /\ Files(o)' = Files(o)
  BY DEF File, Files
<1>e. ASSUME package' = package, at' = at, pc[o] \in Working
      PROVE  PastInOrder(o)'
  BY <1>d, <1>e, PastKeeps DEF PastInOrder
<1>1. CASE Open(o)
  <2>1. /\ pc'[o] = "tables" /\ at'[o] = 1
        /\ applied'[o] = [m \in Migs |-> None]
    BY <1>1 DEF Open, Goto, TypeOK
  <2>2. PastInOrder(o)'
    <3>1. \A m \in 1..Len(Files(o))' : ~(m < at'[o])
      BY <2>1, FilesType DEF TypeOK, Files
    <3> QED
      BY <3>1 DEF PastInOrder
  <2> QED
    BY <2>1, <2>2 DEF OpenerInv, CopyAgrees, CurrentFile, Verifying
<1>2. CASE LookForTables(o) \/ CreateTables(o)
  <2>1. /\ pc'[o] \in {"ledger", "create"} /\ pc[o] \in Working
        /\ UNCHANGED <<package, applied, at>>
    BY <1>2 DEF LookForTables, CreateTables, Goto, TypeOK, Working
  <2> QED
    BY <1>c, <1>e, <2>1 DEF OpenerInv, CurrentFile, Verifying
<1>3. CASE ReadLedger(o)
  <2>1. /\ applied'[o] = ledger /\ pc[o] = "ledger" /\ at' = at
        /\ pc'[o] \in {"return", "verify", "apply"} /\ package' = package
        /\ ledger' = ledger
    BY <1>3 DEF ReadLedger, Goto, TypeOK, StepFor, store
  <2>2. pc'[o] = "verify" => ledger'[at'[o]] # None
    BY <2>1, MigrationsAssumption DEF TypeOK, Verifying
  <2>3. CopyAgrees(o)' /\ CurrentFile(o)'
    BY <2>1, <2>2 DEF CopyAgrees, CurrentFile, Verifying
  <2>4. PastInOrder(o)'
    BY <1>e, <2>1 DEF Working
  <2> QED
    BY <2>3, <2>4 DEF OpenerInv
<1>4. CASE Apply(o)
  <2>1. /\ pc[o] = "apply" /\ ledger' = [ledger EXCEPT ![at[o]] = File(o)]
        /\ digests' = WithDigest(at[o], File(o)) /\ Advance(o)
        /\ UNCHANGED <<package, applied, inForce>>
        /\ at[o] \in Migs /\ File(o) \in Raws
    BY <1>4, <1>a DEF Apply, AtFile
  <2>2. ledger'[at[o]] = File(o) /\ File(o) # None
    BY <2>1, MigrationsAssumption DEF TypeOK, Ledgers
  <2>3. \E d \in digests' : d.mig = at[o] /\ d.raw = File(o)
    BY <2>1, WithDigestAdds
  <2> QED
    BY <2>1, <2>2, <2>3, AdvanceKeeps3
<1>5. CASE ApplyFails(o) \/ Die(o)
  <2>1. /\ pc'[o] \in {"failed", "closed"} /\ applied' = applied
    BY <1>5 DEF ApplyFails, Die, Goto, TypeOK
  <2> QED
    BY <1>c, <2>1 DEF OpenerInv, PastInOrder, CurrentFile, Working, Verifying
<1>6. CASE ReadInForce(o)
  <2> DEFINE sha == EffectiveSha(at[o], applied[o][at[o]])
  <2>1. /\ UNCHANGED <<ledger, digests, restamps, package, applied, at>>
        /\ inForce'[o] = sha /\ pc[o] = "verify"
        /\ pc'[o] = IF sha = File(o) THEN "backfill" ELSE "compare"
    BY <1>6 DEF ReadInForce, Goto, TypeOK, store
  <2>2. /\ at[o] \in Migs /\ at[o] \in 1..Len(Files(o))
        /\ applied[o][at[o]] \in Raws /\ ledger[at[o]] # None
    BY <1>a, <1>b, <2>1 DEF AtFile, Verifying, TypeOK, CurrentFile
  <2>3. applied[o][at[o]] = ledger[at[o]]
    BY <1>b, <2>2, MigrationsAssumption DEF CopyAgrees
  <2>4. /\ sha \in Named(at[o])
        /\ MeaningOf[sha] = MeaningOf[ledger[at[o]]]
        /\ restamps[at[o]] # <<>> => HasDigest(at[o], sha)
        /\ restamps[at[o]] = <<>> => sha = ledger[at[o]]
    BY <2>2, <2>3, EffectiveFacts
  <2>5. HasDigest(at[o], sha) \/ sha = ledger[at[o]]
    BY <2>4
  <2> HIDE DEF sha
  <2>6. ASSUME sha = File(o) PROVE CurrentFile(o)'
    BY <1>d, <2>1, <2>2, <2>4, <2>6 DEF CurrentFile, InOrder, File, Verifying
  <2>7. ASSUME sha # File(o) PROVE CurrentFile(o)'
    <3>1. /\ inForce'[o] # File(o)' /\ ledger'[at'[o]] # None
          /\ pc'[o] = "compare"
      BY <2>1, <2>2, <2>7 DEF File, Files
    <3>2. HasDigest(at[o], inForce[o])' \/ (inForce[o] = ledger[at[o]])'
      BY <2>1, <2>5 DEF HasDigest
    <3>3. (inForce[o] \in Named(at[o]))'
      BY <2>1, <2>4 DEF Named
    <3> QED
      BY <3>1, <3>2, <3>3 DEF CurrentFile, Verifying, HasDigest, Named, InOrder
  <2>8. PastInOrder(o)'
    BY <1>e, <2>1 DEF Working, Verifying
  <2> QED
    BY <1>c, <2>1, <2>6, <2>7, <2>8 DEF OpenerInv
<1>7. CASE Verified(o) \/ Backfill(o)
  <2>1. /\ pc[o] = "backfill" /\ Advance(o) /\ ledger' = ledger
        /\ UNCHANGED <<restamps, package, applied, inForce>>
    BY <1>7 DEF Verified, Backfill, store
  <2>2. /\ at[o] \in Migs /\ File(o) \in Raws /\ ledger[at[o]] # None
        /\ MeaningOf[ledger[at[o]]] = MeaningOf[File(o)]
        /\ File(o) = ledger[at[o]] \/ restamps[at[o]] # <<>>
    BY <1>a, <1>b, <2>1 DEF AtFile, Verifying, CurrentFile, InOrder, File
  <2>3. \E d \in digests' : d.mig = at[o] /\ d.raw = File(o)
    <3>1. CASE Verified(o)
      BY <3>1, RecordedMeaning DEF Verified, HasDigest, store
    <3>2. CASE Backfill(o)
      BY <3>2, <2>2, WithDigestAdds DEF Backfill
    <3> QED
      BY <1>7, <3>1, <3>2
  <2> QED
    BY <2>1, <2>2, <2>3, AdvanceKeeps3
<1>8. CASE Compare(o)
  <2>1. /\ UNCHANGED <<ledger, digests, restamps, package, applied, at, inForce>>
        /\ pc'[o] = IF SameMeaning(o) THEN "restamp" ELSE "tampered"
        /\ pc[o] = "compare"
    BY <1>8 DEF Compare, Goto, TypeOK, store
  <2>2. /\ at[o] \in Migs /\ ledger[at[o]] # None
        /\ inForce[o] # File(o) /\ inForce[o] \in Named(at[o])
        /\ HasDigest(at[o], inForce[o]) \/ inForce[o] = ledger[at[o]]
    BY <1>a, <1>b, <2>1 DEF AtFile, Verifying, CurrentFile
  <2>3. MeaningOf[inForce[o]] = MeaningOf[ledger[at[o]]]
    BY <2>2 DEF Named, StoreInv, RestampsHonest
  <2>4. ASSUME SameMeaning(o) PROVE CurrentFile(o)'
    <3>1. HasDigest(at[o], inForce[o])
      BY <2>4, RecordedMeaning DEF SameMeaning
    <3>2. MeaningOf[inForce[o]] = MeaningOf[File(o)]
      BY <2>4, <3>1, RecordedMeaning DEF SameMeaning
    <3>3. InOrder(o, at[o])'
      BY <1>d, <2>1, <2>2, <2>3, <3>2 DEF InOrder, File
    <3>4. /\ pc'[o] = "restamp" /\ ledger'[at'[o]] # None
          /\ inForce'[o] # File(o)'
      BY <2>1, <2>2, <2>4 DEF File, Files
    <3>5. HasDigest(at[o], inForce[o])' /\ (inForce[o] \in Named(at[o]))'
      BY <2>1, <2>2, <3>1 DEF HasDigest, Named
    <3> QED
      BY <3>3, <3>4, <3>5 DEF CurrentFile, Verifying, HasDigest, Named, InOrder
  <2>5. ASSUME ~SameMeaning(o) PROVE CurrentFile(o)'
    BY <2>1, <2>5 DEF CurrentFile, Verifying
  <2>6. PastInOrder(o)'
    BY <1>e, <2>1 DEF Working, Verifying
  <2> QED
    BY <1>c, <2>1, <2>4, <2>5, <2>6 DEF OpenerInv
<1>9. CASE Restamp(o)
  <2> DEFINE row == [superseded |-> inForce[o], raw |-> File(o)]
  <2>1. /\ pc[o] = "restamp" /\ Advance(o) /\ ledger' = ledger
        /\ UNCHANGED <<package, applied, inForce>>
        /\ restamps' = [restamps EXCEPT ![at[o]] = Append(restamps[at[o]], row)]
    BY <1>9 DEF Restamp, TypeOK
  <2>2. /\ at[o] \in Migs /\ File(o) \in Raws /\ ledger[at[o]] # None
        /\ MeaningOf[ledger[at[o]]] = MeaningOf[File(o)]
    BY <1>a, <1>b, <2>1 DEF AtFile, Verifying, CurrentFile, InOrder, File
  <2>3. row \in Restamps
    BY <2>1, <2>2 DEF Restamps, PlaceInv, Judging
  <2>4. restamps'[at[o]] # <<>>
    BY <2>1, <2>2, <2>3, AppendProperties DEF TypeOK
  <2> QED
    BY <2>1, <2>2, <2>4, AdvanceKeeps3
<1>10. CASE Return(o)
  <2>1. /\ pc[o] = "return" /\ pc'[o] = "open"
        /\ UNCHANGED <<package, applied, at>>
    BY <1>10 DEF Return, Goto, TypeOK
  <2> QED
    BY <1>c, <1>e, <2>1 DEF OpenerInv, CurrentFile, Working, Verifying
<1> QED
  BY <1>1, <1>2, <1>3, <1>4, <1>5, <1>6, <1>7, <1>8, <1>9, <1>10 DEF OpenerStep

-----------------------------------------------------------------------------
(***************************************************************************)
(* The invariant, and what follows from it.                                *)
(***************************************************************************)
LEMMA Init3 == Init => Inv3
<1> SUFFICES ASSUME Init PROVE Inv3
  OBVIOUS
<1>1. Inv1
  BY Init1
<1>2. digests = {} /\ \A m \in Migs : restamps[m] = <<>>
  BY DEF Init
<1>3. DigestsHonest /\ RestampsHonest /\ RestampsAuditable
  BY <1>2 DEF DigestsHonest, RestampsHonest, RestampsAuditable
<1>4. VettedOnRecord
  BY DEF Init, VettedOnRecord
<1>5. ASSUME NEW o \in Openers PROVE OpenerInv(o)
  <2>1. pc[o] = "closed" /\ applied[o] = [m \in Migs |-> None]
    BY DEF Init
  <2> QED
    BY <2>1 DEF OpenerInv, CopyAgrees, PastInOrder, CurrentFile, Working, Verifying
<1> QED
  BY <1>1, <1>3, <1>4, <1>5 DEF Inv3, Inv2, StoreInv

\* Every step of every opener keeps the invariant.
LEMMA Next3 == Inv3 /\ [Next]_vars => Inv3'
<1> SUFFICES ASSUME Inv3, [Next]_vars PROVE Inv3'
  OBVIOUS
<1>1. Inv1' /\ StoreGrows
  BY Next1, NextGrows DEF Inv3, Inv2
<1>2. StoreInv'
  BY <1>1, NextStore
<1>3. ASSUME NEW q \in Openers PROVE OpenerInv(q)'
  <2>1. CASE UNCHANGED opener
    BY <1>1, <2>1, OthersKeep DEF opener
  <2>2. CASE \E o \in Openers : Open(o) \/ OpenerStep(o) \/ Die(o)
    <3>1. PICK o \in Openers : Open(o) \/ OpenerStep(o) \/ Die(o)
      BY <2>2
    <3>2. CASE q = o
      BY <1>1, <3>1, <3>2, OwnStepKeeps
    <3>3. CASE q # o
      <4>1. /\ pc'[q] = pc[q] /\ package'[q] = package[q]
            /\ applied'[q] = applied[q] /\ at'[q] = at[q]
            /\ inForce'[q] = inForce[q]
        BY <3>1, <3>3
           DEF Open, OpenerStep, Die, LookForTables, CreateTables, ReadLedger,
               Apply, ApplyFails, ReadInForce, Verified, Backfill, Compare,
               Restamp, Return, Advance, Goto, store, Inv3, Inv2, Inv1, TypeOK
      <4> QED
        BY <1>1, <4>1, OthersKeep
    <3> QED
      BY <3>2, <3>3
  <2> QED
    BY <2>1, <2>2 DEF Next, Rest, vars
<1> QED
  BY <1>1, <1>2, <1>3 DEF Inv3, Inv2

\* The invariant holds in every reachable state.
LEMMA InvariantHolds == Spec => []Inv3
  BY Init3, Next3, PTL DEF Spec

\* apply_pending only handles files and digests that exist.
THEOREM TypeCorrect == Spec => []TypeOK
<1>1. Inv3 => TypeOK
  BY DEF Inv3, Inv2, Inv1
<1> QED
  BY <1>1, InvariantHolds, PTL

\* However many openers interleave and restamp, the digest in force means what
\* the ledger's does.
THEOREM MeaningKept == Spec => []RestampsKeepMeaning
<1>1. Inv3 => RestampsKeepMeaning
  BY EffectiveFacts DEF Inv3, Inv2, RestampsKeepMeaning
<1> QED
  BY <1>1, InvariantHolds, PTL

\* A store handed to a caller has, and keeps, the schema of the caller's files.
THEOREM SchemaHolds == Spec => []OpenStoreHasSchema
<1>1. ASSUME Inv3 PROVE OpenStoreHasSchema
  <2> SUFFICES ASSUME NEW o \in Openers, pc[o] = "open", NEW m \in DOMAIN Files(o)
               PROVE  InOrder(o, m)
    BY DEF OpenStoreHasSchema, InOrder
  <2>1. DOMAIN Files(o) = 1..Len(Files(o)) /\ Len(Files(o)) \in Nat
    BY <1>1, FilesType, LenProperties DEF Inv3, Inv2, Inv1, TypeOK, Files
  <2>2. m < at[o]
    BY <1>1, <2>1 DEF Inv3, Inv2, Inv1, PlaceInv, TypeOK
  <2> QED
    BY <1>1, <2>1, <2>2 DEF Inv3, OpenerInv, PastInOrder
<1> QED
  BY <1>1, InvariantHolds, PTL

\* TamperedMigrationError is raised for a changed schema, or for an edit made
\* before any opener of this release went past the migration.
THEOREM RefusalsAreReal == Spec => RefusalIsReal
<1>1. ASSUME Inv3, [Next]_vars, NEW o \in Openers,
             pc[o] # "tampered", pc'[o] = "tampered"
      PROVE  \/ MeaningOf[ledger[at[o]]] # MeaningOf[File(o)]
             \/ at[o] \notin vetted /\ ledger[at[o]] # File(o)
  <2>1. Compare(o) /\ ~SameMeaning(o)
    <3>1. PICK q \in Openers : Open(q) \/ OpenerStep(q) \/ Die(q)
      BY <1>1 DEF Next, Rest, vars, opener
    <3>2. pc \in [Openers -> Working \cup Done]
      BY <1>1 DEF Inv3, Inv2, Inv1, TypeOK
    <3>3. ASSUME NEW step, Goto(q, step), step # "tampered" PROVE FALSE
      BY <1>1, <3>2, <3>3 DEF Goto
    <3>4. Compare(q)
      BY <3>1, <3>3
         DEF Open, OpenerStep, Die, LookForTables, CreateTables, ReadLedger,
             Apply, ApplyFails, ReadInForce, Verified, Backfill, Restamp,
             Return, Advance, StepFor
    <3> QED
      BY <1>1, <3>2, <3>4 DEF Compare, Goto
  <2>2. at[o] \in Migs
    BY <1>1, <2>1, FilesType
       DEF Compare, Inv3, Inv2, Inv1, TypeOK, PlaceInv, AtFile, Verifying, Files
  <2>3. /\ inForce[o] # File(o) /\ inForce[o] \in Named(at[o])
        /\ HasDigest(at[o], inForce[o]) \/ inForce[o] = ledger[at[o]]
    BY <1>1, <2>1 DEF Compare, Inv3, OpenerInv, CurrentFile
  <2>4. MeaningOf[inForce[o]] = MeaningOf[ledger[at[o]]]
    BY <1>1, <2>2, <2>3 DEF Named, Inv3, Inv2, StoreInv, RestampsHonest
  <2>5. CASE HasDigest(at[o], inForce[o])
    BY <1>1, <2>1, <2>4, <2>5, RecordedMeaning DEF SameMeaning, Inv3, Inv2
  <2>6. CASE ~HasDigest(at[o], inForce[o])
    BY <1>1, <2>3, <2>6 DEF Inv3, Inv2, StoreInv, VettedOnRecord
  <2> QED
    BY <2>5, <2>6
<1>2. Inv3 /\ [Next]_vars =>
        [\A o \in Openers : pc[o] # "tampered" /\ pc'[o] = "tampered" =>
           \/ MeaningOf[ledger[at[o]]] # MeaningOf[File(o)]
           \/ at[o] \notin vetted /\ ledger[at[o]] # File(o)]_vars
  BY <1>1
<1> QED
  BY <1>2, InvariantHolds, PTL DEF Spec, RefusalIsReal

\* A store that was opened can take the next comment-only edit.
THEOREM Repairable == Spec => []OpenStoreRepairable
<1>1. ASSUME Inv3 PROVE OpenStoreRepairable
  <2> SUFFICES ASSUME NEW o \in Openers, pc[o] = "open", NEW m \in DOMAIN Files(o)
               PROVE  Recorded(m, EffectiveSha(m, ledger[m])) =
                        {MeaningOf[ledger[m]]}
    BY DEF OpenStoreRepairable
  <2>1. /\ DOMAIN Files(o) = 1..Len(Files(o)) /\ Len(Files(o)) \in Nat
        /\ m \in Migs
    BY <1>1, FilesType, LenProperties DEF Inv3, Inv2, Inv1, TypeOK, Files
  <2>2. m < at[o]
    BY <1>1, <2>1 DEF Inv3, Inv2, Inv1, PlaceInv, TypeOK
  <2>3. InOrder(o, m) /\ Covered(m)
    BY <1>1, <2>1, <2>2 DEF Inv3, OpenerInv, PastInOrder
  <2>4. /\ HasDigest(m, EffectiveSha(m, ledger[m]))
        /\ MeaningOf[EffectiveSha(m, ledger[m])] = MeaningOf[ledger[m]]
    BY <1>1, <2>1, <2>3, EffectiveFacts DEF Inv3, Inv2, InOrder
  <2> QED
    BY <1>1, <2>4, RecordedMeaning DEF Inv3, Inv2
<1> QED
  BY <1>1, InvariantHolds, PTL

\* The chain of restamps of a migration has no gap.
THEOREM Auditable == Spec => []RestampsAuditable
<1>1. Inv3 => RestampsAuditable
  BY DEF Inv3, Inv2, StoreInv
<1> QED
  BY <1>1, InvariantHolds, PTL
-----------------------------------------------------------------------------
(***************************************************************************)
(* Layer 4                                                                 *)
(***************************************************************************)

\* A step that writes nothing to the store leaves steady what was steady.
LEMMA SteadyWithoutWrite ==
    ASSUME UNCHANGED store
    PROVE  /\ \A m, f : FileSteady(m, f)' <=> FileSteady(m, f)
           /\ \A p : Steady(p)' <=> Steady(p)
<1>1. \A m, f : FileSteady(m, f)' <=> FileSteady(m, f)
  BY DEF store, FileSteady, EffectiveSha, HasDigest
<1> QED
  BY <1>1 DEF Steady, store

\* A step of another opener that writes nothing is not noticed.
LEMMA BystanderKeeps ==
    ASSUME UNCHANGED store, NEW q \in Openers,
           pc'[q] = pc[q], package'[q] = package[q], applied'[q] = applied[q],
           at'[q] = at[q]
    PROVE  /\ AloneInv(q) => AloneInv(q)'
           /\ QuietInv(q) => QuietInv(q)'
<1>1. Files(q)' = Files(q) /\ File(q)' = File(q)
  BY DEF Files, File
<1>2. AloneInv(q) => AloneInv(q)'
  BY <1>1, SteadyWithoutWrite DEF AloneInv, store, EffectiveSha
<1>3. QuietInv(q) => QuietInv(q)'
  BY SteadyWithoutWrite DEF QuietInv, store
<1> QED
  BY <1>2, <1>3

\* Advance(): going past a file that is steady, with no other row touched.
LEMMA AdvanceAlone ==
    ASSUME Inv3, NEW o \in Openers, AloneInv(o),
           pc[o] \in {"apply", "backfill", "restamp"}, Advance(o),
           UNCHANGED <<package, applied, tables>>,
           \A m \in Migs : m # at[o] =>
               ledger'[m] = ledger[m] /\ restamps'[m] = restamps[m],
           digests \subseteq digests',
           NEW k, NEW file, k = at[o], file = File(o), FileSteady(k, file)'
    PROVE  AloneInv(o)'
<1> USE DEF Inv3, Inv2, Inv1
<1> DEFINE next == StepFor(o, at[o] + 1, applied[o])
<1>1. at' = [at EXCEPT ![o] = at[o] + 1] /\ pc' = [pc EXCEPT ![o] = next]
  BY DEF Advance, Goto, TypeOK
<1>2. at[o] \in Nat /\ at'[o] = at[o] + 1 /\ pc'[o] = next
  BY <1>1, MigrationsAssumption DEF TypeOK
<1>3. next \in {"return", "verify", "apply"}
  BY DEF StepFor
<1> HIDE DEF next
<1>4. tables'
  BY DEF AloneInv, Copied, Verifying
<1>5. Files(o)' = Files(o)
  BY DEF Files
<1>6. ASSUME NEW m \in 1..Len(Files(o))
      PROVE  IF m < at'[o] THEN FileSteady(m, Files(o)[m])'
                           ELSE applied'[o][m] = ledger'[m]
  <2>1. m \in Migs /\ m \in Nat
    BY FilesType DEF TypeOK, Files
  <2>2. IF m < at[o] THEN FileSteady(m, Files(o)[m]) ELSE applied[o][m] = ledger[m]
    BY DEF AloneInv, Copied, Verifying
  <2>3. CASE m < at[o]
    <3>1. m # at[o] /\ m < at'[o]
      BY <1>2, <2>1, <2>3
    <3>2. FileSteady(m, Files(o)[m])
      BY <2>2, <2>3
    <3>3. ledger'[m] = ledger[m] /\ restamps'[m] = restamps[m]
      BY <2>1, <3>1
    <3>4. FileSteady(m, Files(o)[m])'
      BY <1>5, <3>2, <3>3 DEF FileSteady, EffectiveSha, HasDigest
    <3> QED
      BY <3>1, <3>4
  <2>4. CASE m = at[o]
    <3>1. m = k /\ Files(o)[m] = file
      BY <2>4 DEF File
    <3>2. FileSteady(m, Files(o)[m])'
      BY <1>5, <3>1
    <3>3. m < at'[o]
      BY <1>2, <2>4
    <3> QED
      BY <3>2, <3>3
  <2>5. CASE ~(m < at[o]) /\ m # at[o]
    <3>1. ~(m < at'[o])
      BY <1>2, <2>1, <2>5
    <3> QED
      BY <2>1, <2>2, <2>5, <3>1
  <2> QED
    BY <2>3, <2>4, <2>5
<1> QED
  BY <1>2, <1>3, <1>4, <1>5, <1>6 DEF AloneInv

\* The row that _append_restamp() adds is the one in force.
LEMMA RestampInForce ==
    ASSUME Inv1, NEW o \in Openers, pc[o] = "restamp", Restamp(o)
    PROVE  /\ at[o] \in Migs
           /\ \A m \in Migs : m # at[o] => restamps'[m] = restamps[m]
           /\ restamps'[at[o]] # <<>>
           /\ restamps'[at[o]][Len(restamps'[at[o]])].raw = File(o)
<1> DEFINE row == [superseded |-> inForce[o], raw |-> File(o)]
           s == restamps[at[o]]
<1>1. /\ at[o] \in 1..Len(Files(o)) /\ inForce[o] \in Raws
      /\ restamps' = [restamps EXCEPT ![at[o]] = Append(@, row)]
  BY DEF Inv1, PlaceInv, AtFile, Verifying, Judging, Restamp
<1>2. at[o] \in Migs /\ File(o) \in Raws
  BY <1>1, FilesType DEF Inv1, TypeOK, Files, File
<1>3. s \in Seq(Restamps) /\ row \in Restamps
  BY <1>1, <1>2 DEF Inv1, TypeOK, Restamps
<1> HIDE DEF row
<1>4. restamps'[at[o]] = Append(s, row)
  BY <1>1, <1>2 DEF Inv1, TypeOK
<1>5. /\ Append(s, row) # <<>>
      /\ Append(s, row)[Len(Append(s, row))] = row
  BY <1>3, AppendProperties
<1>6. row.raw = File(o)
  BY DEF row
<1> QED
  BY <1>1, <1>2, <1>4, <1>5, <1>6 DEF Inv1, TypeOK

\* An opener that is alone stays sure of the files it has gone past.
LEMMA OwnStepAlone ==
    ASSUME Inv3, Inv1', NEW o \in Openers, OpenerStep(o) \/ Die(o), AloneInv(o)
    PROVE  AloneInv(o)'
<1> USE DEF Inv3, Inv2, Inv1
<1>a. /\ Len(Files(o)) \in Nat
      /\ \A m \in 1..Len(Files(o)) : m \in Migs /\ Files(o)[m] \in Raws
      /\ pc[o] \in AtFile => at[o] \in 1..Len(Files(o)) /\ at[o] \in Migs
                              /\ File(o) \in Raws
      /\ at[o] \in Nat
  BY FilesType, MigrationsAssumption DEF TypeOK, PlaceInv, Files, File
<1>b. package' = package => File(o)' = Files(o)[at'[o]] /\ Files(o)' = Files(o)
  BY DEF File, Files
<1>1. CASE LookForTables(o) \/ CreateTables(o)
  <2>1. /\ pc'[o] \in {"ledger", "create"}
        /\ pc'[o] = "ledger" => tables'
    BY <1>1 DEF LookForTables, CreateTables, Goto, TypeOK, store
  <2> QED
    BY <2>1 DEF AloneInv, Copied, Verifying
<1>2. CASE ReadLedger(o)
  <2>1. /\ pc[o] = "ledger" /\ pc'[o] \in {"return", "verify", "apply"}
        /\ applied'[o] = ledger /\ UNCHANGED <<store, package, at>>
    BY <1>2 DEF ReadLedger, Goto, TypeOK, StepFor
  <2>2. at[o] = 1 /\ tables
    BY <2>1 DEF PlaceInv, AloneInv
  <2>3. \A m \in 1..Len(Files(o)) : ~(m < at'[o]) /\ applied'[o][m] = ledger'[m]
    BY <1>a, <2>1, <2>2 DEF store
  <2> QED
    BY <1>b, <2>1, <2>2, <2>3 DEF AloneInv, store
<1>3. CASE Apply(o)
  <2>1. /\ pc[o] = "apply" /\ ledger[at[o]] = None
        /\ ledger' = [ledger EXCEPT ![at[o]] = File(o)]
        /\ digests' = WithDigest(at[o], File(o)) /\ Advance(o)
        /\ UNCHANGED <<tables, restamps, package, applied>>
        /\ at[o] \in Migs /\ File(o) \in Raws
    BY <1>3, <1>a DEF Apply, AtFile
  <2>2. /\ ledger'[at[o]] = File(o) /\ File(o) # None
        /\ \A m \in Migs : m # at[o] => ledger'[m] = ledger[m]
    BY <2>1, MigrationsAssumption DEF TypeOK, Ledgers
  <2>3. restamps[at[o]] = <<>>
    <3>1. restamps[at[o]] \in Seq(Restamps)
      BY <2>1 DEF TypeOK
    <3>2. ~(1 \in 1..Len(restamps[at[o]]))
      BY <2>1 DEF StoreInv, RestampsHonest
    <3>3. Len(restamps[at[o]]) \in Nat
      BY <3>1, LenProperties
    <3>4. Len(restamps[at[o]]) = 0
      BY <3>2, <3>3
    <3> QED
      BY <3>1, <3>4, EmptySeq
  <2>4. digests \subseteq digests' /\ \E d \in digests' : d.mig = at[o] /\ d.raw = File(o)
    BY <2>1, WithDigestAdds
  <2> PICK k, file : k = at[o] /\ file = File(o)
    OBVIOUS
  <2>5. FileSteady(k, file)'
    BY <2>1, <2>2, <2>3, <2>4 DEF FileSteady, EffectiveSha, HasDigest
  <2> QED
    BY <1>3, <2>1, <2>2, <2>4, <2>5, AdvanceAlone
<1>4. CASE ApplyFails(o) \/ Die(o)
  <2>1. pc'[o] \in {"failed", "closed"}
    BY <1>4 DEF ApplyFails, Die, Goto, TypeOK
  <2> QED
    BY <2>1 DEF AloneInv, Copied, Verifying
<1>5. CASE ReadInForce(o) \/ Compare(o)
  <2>1. /\ pc[o] \in {"verify", "compare"}
        /\ pc'[o] \in {"backfill", "compare", "restamp", "tampered"}
        /\ UNCHANGED <<store, package, applied, at>>
    BY <1>5 DEF ReadInForce, Compare, Goto, TypeOK
  <2>2. at[o] \in 1..Len(Files(o)) /\ tables
    BY <1>a, <2>1 DEF AtFile, Verifying, AloneInv, Copied
  <2>3. pc'[o] = "backfill" => EffectiveSha(at[o], ledger[at[o]]) = File(o)
    <3> SUFFICES ASSUME pc'[o] = "backfill"
                 PROVE  EffectiveSha(at[o], ledger[at[o]]) = File(o)
      OBVIOUS
    <3>1. EffectiveSha(at[o], applied[o][at[o]]) = File(o)
      BY <1>5 DEF ReadInForce, Compare, Goto, TypeOK
    <3>2. applied[o][at[o]] = ledger[at[o]]
      BY <1>a, <2>1, <2>2 DEF AloneInv, Copied, Verifying
    <3> QED
      BY <3>1, <3>2
  <2>4. (pc[o] = "backfill" => EffectiveSha(at[o], ledger[at[o]]) = File(o))'
    BY <1>b, <2>1, <2>3 DEF EffectiveSha, store, File, Files
  <2>5. \A m \in 1..Len(Files(o)) :
          IF m < at[o] THEN FileSteady(m, Files(o)[m]) ELSE applied[o][m] = ledger[m]
    BY <2>1 DEF AloneInv, Copied, Verifying
  <2>6. \A m, f : FileSteady(m, f)' <=> FileSteady(m, f)
    BY <2>1, SteadyWithoutWrite
  <2>7. \A m \in 1..Len(Files(o)') :
          IF m < at'[o] THEN FileSteady(m, Files(o)[m])' ELSE applied'[o][m] = ledger'[m]
    BY <1>b, <2>1, <2>5, <2>6 DEF store
  <2> QED
    BY <2>1, <2>2, <2>4, <2>7 DEF AloneInv, store
<1>6. CASE Verified(o) \/ Backfill(o)
  <2>1. /\ pc[o] = "backfill" /\ Advance(o)
        /\ UNCHANGED <<ledger, restamps, tables, package, applied>>
    BY <1>6 DEF Verified, Backfill, store
  <2>2. at[o] \in Migs /\ File(o) \in Raws /\ ledger[at[o]] # None
    BY <1>a, <2>1 DEF AtFile, Verifying, OpenerInv, CurrentFile
  <2>3. EffectiveSha(at[o], ledger[at[o]]) = File(o)
    BY <2>1 DEF AloneInv
  <2>4. digests \subseteq digests' /\ \E d \in digests' : d.mig = at[o] /\ d.raw = File(o)
    <3>1. CASE Verified(o)
      BY <3>1, RecordedMeaning DEF Verified, HasDigest, store
    <3>2. CASE Backfill(o)
      BY <3>2, <2>2, WithDigestAdds DEF Backfill
    <3> QED
      BY <1>6, <3>1, <3>2
  <2> PICK k, file : k = at[o] /\ file = File(o)
    OBVIOUS
  <2>5. FileSteady(k, file)'
    BY <2>1, <2>2, <2>3, <2>4 DEF FileSteady, EffectiveSha, HasDigest
  <2> QED
    BY <2>1, <2>4, <2>5, AdvanceAlone
<1>7. CASE Restamp(o)
  <2>1. /\ pc[o] = "restamp" /\ Advance(o) /\ ledger' = ledger
        /\ UNCHANGED <<tables, package, applied>>
        /\ digests' = WithDigest(at[o], File(o))
    BY <1>7 DEF Restamp
  <2>2. /\ at[o] \in Migs /\ File(o) \in Raws /\ ledger[at[o]] # None
        /\ \A m \in Migs : m # at[o] => restamps'[m] = restamps[m]
        /\ restamps'[at[o]] # <<>>
        /\ restamps'[at[o]][Len(restamps'[at[o]])].raw = File(o)
    BY <1>7, <1>a, <2>1, RestampInForce DEF AtFile, Verifying, OpenerInv, CurrentFile
  <2>3. digests \subseteq digests' /\ \E d \in digests' : d.mig = at[o] /\ d.raw = File(o)
    BY <2>1, <2>2, WithDigestAdds
  <2> PICK k, file : k = at[o] /\ file = File(o)
    OBVIOUS
  <2>4. FileSteady(k, file)'
    BY <2>1, <2>2, <2>3 DEF FileSteady, EffectiveSha, HasDigest
  <2> QED
    BY <2>1, <2>2, <2>3, <2>4, AdvanceAlone
<1>8. CASE Return(o)
  <2>1. pc'[o] = "open"
    BY <1>8 DEF Return, Goto, TypeOK
  <2> QED
    BY <2>1 DEF AloneInv, Copied, Verifying
<1> QED
  BY <1>1, <1>2, <1>3, <1>4, <1>5, <1>6, <1>7, <1>8 DEF OpenerStep
\* An opener of a store that is in order finds each file in its copy of the
\* ledger and has nothing to write.
LEMMA OwnStepQuiet ==
    ASSUME Inv3, NEW o \in Openers, OpenerStep(o) \/ Die(o), UNCHANGED store,
           QuietInv(o)
    PROVE  QuietInv(o)'
<1> USE DEF Inv3, Inv2, Inv1
<1>a. /\ Len(Files(o)) \in Nat /\ at[o] \in Nat
      /\ pc[o] \in AtFile => at[o] \in 1..Len(Files(o))
  BY FilesType, MigrationsAssumption DEF TypeOK, PlaceInv, Files
<1>b. \A m \in 1..Len(Files(o)) : ledger[m] # None /\ FileSteady(m, Files(o)[m])
  BY DEF QuietInv, Steady, FileSteady, Files
<1>c. package' = package => Steady(package[o])'
  <2> SUFFICES ASSUME package' = package PROVE Steady(package[o])'
    OBVIOUS
  <2> QED
    BY DEF QuietInv, Steady, FileSteady, EffectiveSha, HasDigest, store
<1>d. ASSUME NEW i \in Nat \ {0} PROVE StepFor(o, i, ledger) \in {"return", "verify"}
  <2>1. CASE i > Len(Files(o))
    BY <2>1 DEF StepFor
  <2>2. CASE ~(i > Len(Files(o)))
    <3>1. i \in 1..Len(Files(o))
      BY <1>a, <1>d, <2>2
    <3> QED
      BY <1>b, <3>1 DEF StepFor
  <2> QED
    BY <2>1, <2>2
<1>1. CASE LookForTables(o)
  <2>1. pc'[o] = "ledger" /\ package' = package
    BY <1>1 DEF LookForTables, Goto, TypeOK, QuietInv, Steady
  <2> QED
    BY <1>c, <2>1 DEF QuietInv, Copied, Verifying
<1>2. CASE ReadLedger(o)
  <2>1. /\ pc'[o] \in {"return", "verify"} /\ package' = package
        /\ applied'[o] = ledger'
    BY <1>2, <1>d DEF ReadLedger, Goto, TypeOK, store
  <2> QED
    BY <1>c, <2>1 DEF QuietInv
<1>3. CASE ReadInForce(o)
  <2>1. /\ pc[o] = "verify" /\ UNCHANGED <<package, applied>>
        /\ pc'[o] = IF EffectiveSha(at[o], applied[o][at[o]]) = File(o)
                    THEN "backfill" ELSE "compare"
    BY <1>3 DEF ReadInForce, Goto, TypeOK
  <2>2. applied[o] = ledger /\ at[o] \in 1..Len(Files(o))
    BY <1>a, <2>1 DEF QuietInv, Copied, Verifying, AtFile
  <2>3. EffectiveSha(at[o], ledger[at[o]]) = File(o)
    BY <1>b, <2>2 DEF FileSteady, File
  <2>4. pc'[o] = "backfill" /\ applied'[o] = ledger'
    BY <2>1, <2>2, <2>3 DEF store
  <2> QED
    BY <1>c, <2>1, <2>4 DEF QuietInv
<1>4. CASE Verified(o)
  <2>1. /\ pc[o] = "backfill" /\ UNCHANGED <<package, applied>>
        /\ pc'[o] = StepFor(o, at[o] + 1, applied[o])
    BY <1>4 DEF Verified, Advance, Goto, TypeOK
  <2>2. applied[o] = ledger
    BY <2>1 DEF QuietInv, Copied, Verifying
  <2>3. pc'[o] \in {"return", "verify"} /\ applied'[o] = ledger'
    BY <1>a, <1>d, <2>1, <2>2 DEF store
  <2> QED
    BY <1>c, <2>1, <2>3 DEF QuietInv
<1>5. CASE Backfill(o)
  <2>1. pc[o] = "backfill" /\ Recorded(at[o], File(o)) = {}
    BY <1>5 DEF Backfill
  <2>2. HasDigest(at[o], File(o))
    BY <1>a, <1>b, <2>1 DEF AtFile, Verifying, FileSteady, File
  <2> QED
    BY <2>1, <2>2, RecordedMeaning
<1>6. CASE CreateTables(o) \/ Apply(o) \/ ApplyFails(o) \/ Compare(o) \/ Restamp(o)
  BY <1>6 DEF CreateTables, Apply, ApplyFails, Compare, Restamp, QuietInv
<1>7. CASE Return(o) \/ Die(o)
  <2>1. pc'[o] \in {"open", "closed"} /\ package' = package
    BY <1>7 DEF Return, Die, Goto, TypeOK
  <2> QED
    BY <1>c, <2>1 DEF QuietInv, Copied, Verifying
<1> QED
  BY <1>1, <1>2, <1>3, <1>4, <1>5, <1>6, <1>7 DEF OpenerStep

\* An opening that nobody wrote behind leaves the store steady for its package.
LEMMA ReturnsSteady ==
    ASSUME Inv3, NEW o \in Openers, pc[o] = "return", AloneInv(o)
    PROVE  Steady(package[o])
<1>1. tables /\ at[o] > Len(Files(o)) /\ at[o] \in Nat /\ Len(Files(o)) \in Nat
  BY FilesType, MigrationsAssumption
     DEF Inv3, Inv2, Inv1, TypeOK, PlaceInv, AloneInv, Copied, Files
<1>2. \A m \in 1..Len(Files(o)) : m < at[o]
  BY <1>1
<1>3. \A m \in 1..Len(Files(o)) : FileSteady(m, Files(o)[m])
  BY <1>2 DEF AloneInv, Copied
<1> QED
  BY <1>1, <1>3 DEF Steady, Files

\* A step of one opener leaves the others where they are.
LEMMA OthersStay ==
    ASSUME TypeOK, NEW o \in Openers, NEW q \in Openers, q # o,
           Open(o) \/ OpenerStep(o) \/ Die(o)
    PROVE  /\ pc'[q] = pc[q] /\ package'[q] = package[q]
           /\ applied'[q] = applied[q] /\ at'[q] = at[q]
  BY DEF Open, OpenerStep, Die, LookForTables, CreateTables, ReadLedger,
         Apply, ApplyFails, ReadInForce, Verified, Backfill, Compare,
         Restamp, Return, Advance, Goto, store, TypeOK

\* A write by one opener: only that opener can still be alone, and no package
\* counts as settled.
LEMMA WriteKeepsSteady ==
    ASSUME Inv4, Inv1', NEW o \in Openers, OpenerStep(o), Wrote(o)
    PROVE  SteadyInv'
<1>1. alone' \subseteq alone /\ alone' \subseteq {o} /\ settled' = {} /\ quiet' = {}
  BY DEF Wrote
<1>2. o \in alone => AloneInv(o)'
  BY OwnStepAlone DEF Inv4, SteadyInv
<1> QED
  BY <1>1, <1>2 DEF SteadyInv

\* The steps of an opener that write no row; Return may settle its package.
LEMMA ReadKeepsSteady ==
    ASSUME Inv4, Inv1', NEW o \in Openers, OpenerStep(o) \/ Die(o),
           UNCHANGED store, UNCHANGED <<alone, quiet>>,
           settled' = settled \/ Return(o)
    PROVE  SteadyInv'
<1> USE DEF Inv4
<1>1. ASSUME NEW q \in alone' PROVE AloneInv(q)'
  <2>1. q \in Openers /\ AloneInv(q)
    BY <1>1 DEF SteadyInv, Inv3, Inv2, Inv1, TypeOK
  <2>2. CASE q = o
    BY <2>1, <2>2, OwnStepAlone
  <2>3. CASE q # o
    BY <2>1, <2>3, OthersStay, BystanderKeeps DEF Inv3, Inv2, Inv1
  <2> QED
    BY <2>2, <2>3
<1>2. ASSUME NEW p \in settled' PROVE Steady(p)'
  <2>1. p \in settled \/ (Return(o) /\ o \in alone /\ p = package[o])
    BY <1>2 DEF Return
  <2>2. Steady(p)
    BY <2>1, ReturnsSteady DEF SteadyInv, Return
  <2> QED
    BY <2>2, SteadyWithoutWrite
<1>3. ASSUME NEW q \in quiet' PROVE QuietInv(q)'
  <2>1. q \in Openers /\ QuietInv(q)
    BY <1>3 DEF SteadyInv, Inv3, Inv2, Inv1, TypeOK
  <2>2. CASE q = o
    BY <2>1, <2>2, OwnStepQuiet
  <2>3. CASE q # o
    BY <2>1, <2>3, OthersStay, BystanderKeeps DEF Inv3, Inv2, Inv1
  <2> QED
    BY <2>2, <2>3
<1> QED
  BY <1>1, <1>2, <1>3 DEF SteadyInv

\* A process starts to open: it is alone until another writes, and it is quiet
\* when its package left the store in order.
LEMMA OpenKeepsSteady ==
    ASSUME Inv4, NEW o \in Openers, Open(o)
    PROVE  SteadyInv'
<1> USE DEF Inv4
<1>1. /\ UNCHANGED <<store, settled>> /\ alone' = alone \cup {o}
      /\ pc'[o] = "tables"
  BY DEF Open, Goto, Inv3, Inv2, Inv1, TypeOK
<1>2. PICK p \in Packages :
        /\ package' = [package EXCEPT ![o] = p]
        /\ quiet' = IF p \in settled THEN quiet \cup {o} ELSE quiet \ {o}
  BY DEF Open
<1>3. package'[o] = p
  BY <1>2 DEF Inv3, Inv2, Inv1, TypeOK
<1>4. ASSUME NEW q \in alone' PROVE AloneInv(q)'
  <2>1. CASE q = o
    BY <1>1, <2>1 DEF AloneInv, Copied, Verifying
  <2>2. CASE q # o
    <3>1. q \in Openers /\ AloneInv(q)
      BY <1>1, <1>4, <2>2 DEF SteadyInv, Inv3, Inv2, Inv1, TypeOK
    <3> QED
      BY <1>1, <2>2, <3>1, OthersStay, BystanderKeeps DEF Inv3, Inv2, Inv1
  <2> QED
    BY <2>1, <2>2
<1>5. ASSUME NEW q \in settled' PROVE Steady(q)'
  BY <1>1, <1>5, SteadyWithoutWrite DEF SteadyInv
<1>6. ASSUME NEW q \in quiet' PROVE QuietInv(q)'
  <2>1. CASE q = o
    <3>1. Steady(p)
      BY <1>2, <1>6, <2>1 DEF SteadyInv
    <3>2. Steady(package[o])'
      BY <1>1, <1>3, <3>1
         DEF Steady, FileSteady, EffectiveSha, HasDigest, store
    <3> QED
      BY <1>1, <2>1, <3>2 DEF QuietInv, Copied, Verifying
  <2>2. CASE q # o
    <3>1. q \in Openers /\ QuietInv(q)
      BY <1>2, <1>6, <2>2 DEF SteadyInv, Inv3, Inv2, Inv1, TypeOK
    <3> QED
      BY <1>1, <2>2, <3>1, OthersStay, BystanderKeeps DEF Inv3, Inv2, Inv1
  <2> QED
    BY <2>1, <2>2
<1> QED
  BY <1>4, <1>5, <1>6 DEF SteadyInv

LEMMA Next4 == Inv4 /\ [Next]_vars => Inv4'
<1> SUFFICES ASSUME Inv4, [Next]_vars PROVE Inv4'
  OBVIOUS
<1>1. Inv3' /\ Inv1'
  BY Next3 DEF Inv4, Inv3, Inv2
<1>2. CASE \E o \in Openers : Open(o)
  BY <1>1, <1>2, OpenKeepsSteady DEF Inv4
<1>3. CASE \E o \in Openers : OpenerStep(o) \/ Die(o)
  <2>1. PICK o \in Openers : OpenerStep(o) \/ Die(o)
    BY <1>3
  <2>2. \/ OpenerStep(o) /\ Wrote(o)
        \/ /\ UNCHANGED store /\ UNCHANGED <<alone, quiet>>
           /\ settled' = settled \/ Return(o)
    BY <2>1
       DEF OpenerStep, Die, LookForTables, CreateTables, ReadLedger, Apply,
           ApplyFails, ReadInForce, Verified, Backfill, Compare, Restamp, Return,
           NoWrite, observers
  <2>3. SteadyInv'
    BY <1>1, <2>1, <2>2, WriteKeepsSteady, ReadKeepsSteady
  <2> QED
    BY <1>1, <2>3 DEF Inv4
<1>4. CASE UNCHANGED vars
  <2>1. UNCHANGED <<store, alone, settled, quiet, pc, package, applied, at>>
    BY <1>4 DEF vars, opener, observers
  <2>2. \A q \in Openers : /\ AloneInv(q) => AloneInv(q)'
                           /\ QuietInv(q) => QuietInv(q)'
    BY <2>1, BystanderKeeps
  <2>3. SteadyInv'
    BY <2>1, <2>2, SteadyWithoutWrite DEF Inv4, SteadyInv, Inv3, Inv2, Inv1, TypeOK
  <2> QED
    BY <1>1, <2>3 DEF Inv4
<1> QED
  BY <1>2, <1>3, <1>4 DEF Next, Rest

\* An opener that finds the store as its own package left it takes no write
\* transaction and is never refused: neither Apply nor Restamp nor Backfill.
THEOREM SteadyOpens == Spec => []SteadyOpenWritesNothing
<1>1. Init => Inv4
  <2>1. Init => SteadyInv
    BY DEF Init, SteadyInv
  <2> QED
    BY <2>1, Init3 DEF Inv4
<1>2. ASSUME Inv4 PROVE SteadyOpenWritesNothing
  <2> USE DEF Inv4, Inv3, Inv2, Inv1
  <2> SUFFICES ASSUME NEW o \in quiet
               PROVE  /\ pc[o] \notin {"create", "apply", "compare", "restamp"}
                      /\ pc[o] \notin {"tampered", "failed"}
                      /\ pc[o] = "backfill" => Recorded(at[o], File(o)) # {}
    BY DEF SteadyOpenWritesNothing
  <2>1. QuietInv(o) /\ o \in Openers
    BY <1>2 DEF SteadyInv, TypeOK
  <2>2. pc[o] = "backfill" => HasDigest(at[o], File(o))
    <3>1. pc[o] = "backfill" => at[o] \in 1..Len(FilesOf[package[o]])
      BY <1>2, <2>1 DEF PlaceInv, AtFile, Verifying, Files
    <3> QED
      BY <2>1, <3>1 DEF QuietInv, Steady, FileSteady, File, Files
  <2> QED
    BY <1>2, <2>1, <2>2, RecordedMeaning DEF QuietInv
<1> QED
  BY <1>1, <1>2, Next4, PTL DEF Spec

=============================================================================
