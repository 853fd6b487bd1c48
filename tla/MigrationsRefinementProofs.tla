---------------------- MODULE MigrationsRefinementProofs ----------------------
(***************************************************************************)
(* Proof, for every number of openers, packages, files and openings, that  *)
(* Migrations implements a SchemaStore.  The invariant of MigrationsProofs *)
(* says that the digest in force always means what the ledger's does, so   *)
(* the schema in force only changes with the ledger: Apply installs,       *)
(* Return hands out, Open closes, and every other step is a stutter.       *)
(***************************************************************************)
EXTENDS MigrationsRefinement, MigrationsProofs

\* The state of the store and of its holders that the openers implement.
Schema == [m \in Migs |-> SchemaInForce(m)]
Held == [o \in Openers |-> IF pc[o] = "open" THEN {package[o]} ELSE {}]

-----------------------------------------------------------------------------
\* The meanings of a package's files, in the order of the files.
LEMMA SchemaOfMeaning ==
    ASSUME NEW p \in Packages
    PROVE  /\ Len(SchemaOf[p]) = Len(FilesOf[p])
           /\ \A m \in 1..Len(FilesOf[p]) :
                SchemaOf[p][m] = MeaningOf[FilesOf[p][m]]
<1>1. Len(FilesOf[p]) \in Nat
  BY FilesType
<1>2. SchemaOf[p] = [m \in 1..Len(FilesOf[p]) |-> MeaningOf[FilesOf[p][m]]]
  BY DEF SchemaOf
<1>3. \A m \in 1..Len(FilesOf[p]) : MeaningOf[FilesOf[p][m]] \in Meanings
  BY FilesType, MigrationsAssumption
<1>4. SchemaOf[p] \in Seq(Meanings)
  BY <1>1, <1>2, <1>3, IsASeq
<1> QED
  BY <1>1, <1>2, <1>4, LenProperties

\* The digest in force means what the ledger's does.
LEMMA SchemaOfLedger ==
    ASSUME Inv1, StoreInv, NEW m \in Migs
    PROVE  SchemaInForce(m) =
             IF ledger[m] = None THEN {} ELSE {MeaningOf[ledger[m]]}
BY EffectiveFacts DEF SchemaInForce

\* The store fits a file of an opener's package just when it is in order.
LEMMA InOrderInForce ==
    ASSUME Inv1, StoreInv, NEW o \in Openers, NEW m \in 1..Len(Files(o)),
           InOrder(o, m)
    PROVE  Schema[m] = {SchemaOf[package[o]][m]}
<1>1. package[o] \in Packages /\ m \in Migs
  BY FilesType DEF Inv1, TypeOK, Files
<1>2. SchemaOf[package[o]][m] = MeaningOf[Files(o)[m]]
  BY <1>1, SchemaOfMeaning DEF Files
<1> QED
  BY <1>1, <1>2, SchemaOfLedger DEF InOrder, Schema

\* The schema in force, read off the ledger.
LedgerSchema ==
    [m \in Migs |-> IF ledger[m] = None THEN {} ELSE {MeaningOf[ledger[m]]}]

SchemaAgrees == Schema = LedgerSchema

LEMMA SchemaIsLedgers == Inv3 => SchemaAgrees
BY SchemaOfLedger DEF Inv3, Inv2, SchemaAgrees, Schema, LedgerSchema

\* A step that leaves the ledger alone leaves the schema in force alone.
LEMMA SameLedgerSameSchema ==
    Inv3 /\ Inv3' /\ ledger' = ledger => Schema' = Schema
<1>1. Inv3' => SchemaAgrees'
  BY SchemaIsLedgers, PTL
<1>2. ledger' = ledger => LedgerSchema' = LedgerSchema
  BY DEF LedgerSchema
<1> QED
  BY <1>1, <1>2, SchemaIsLedgers DEF SchemaAgrees

-----------------------------------------------------------------------------
(***************************************************************************)
(* Initial states.                                                         *)
(***************************************************************************)
LEMMA StartsAsSchemaStore == Init => Store!Init
<1> SUFFICES ASSUME Init PROVE Store!Init
  OBVIOUS
<1>p. PICK p \in Packages : \E n \in 0..Len(FilesOf[p]) :
        ledger = [m \in Migs |-> IF m <= n THEN FilesOf[p][m] ELSE None]
  BY DEF Init
<1>1. PICK n \in 0..Len(FilesOf[p]) :
        ledger = [m \in Migs |-> IF m <= n THEN FilesOf[p][m] ELSE None]
  BY <1>p
<1>2. Len(FilesOf[p]) \in Nat /\ Len(SchemaOf[p]) = Len(FilesOf[p])
  BY FilesType, SchemaOfMeaning
<1>3. Schema = LedgerSchema
  BY Init3, SchemaIsLedgers DEF SchemaAgrees
<1>4. ASSUME NEW m \in Migs
      PROVE  Schema[m] = IF m <= n THEN {SchemaOf[p][m]} ELSE {}
  <2>1. CASE m <= n
    <3>1. m \in 1..Len(FilesOf[p])
      BY <1>2, <2>1 DEF Migs
    <3>2. FilesOf[p][m] \in Raws /\ SchemaOf[p][m] = MeaningOf[FilesOf[p][m]]
      BY <3>1, FilesType, SchemaOfMeaning
    <3>3. ledger[m] = FilesOf[p][m] /\ ledger[m] # None
      BY <1>1, <2>1, <3>2, MigrationsAssumption
    <3> QED
      BY <1>3, <2>1, <3>2, <3>3 DEF LedgerSchema
  <2>2. CASE ~(m <= n)
    BY <1>1, <1>3, <2>2 DEF LedgerSchema
  <2> QED
    BY <2>1, <2>2
<1>5. Schema = [m \in Migs |-> IF m <= n THEN {SchemaOf[p][m]} ELSE {}]
  BY <1>4 DEF Schema
<1>6. Held = [o \in Openers |-> {}]
  BY DEF Init, Held
<1> QED
  BY <1>2, <1>5, <1>6 DEF Store!Init, Store!Migs, Schema, Held, Migs

-----------------------------------------------------------------------------
(***************************************************************************)
(* Steps.                                                                  *)
(***************************************************************************)

\* What an opener's own step does to the packages the store is held for.
LEMMA HeldChanges ==
    ASSUME TypeOK, NEW o \in Openers, NEW step,
           pc' = [pc EXCEPT ![o] = step],
           \A q \in Openers \ {o} : package'[q] = package[q]
    PROVE  Held' = [Held EXCEPT ![o] =
                      IF step = "open" THEN {package'[o]} ELSE {}]
<1>1. pc'[o] = step /\ \A q \in Openers \ {o} : pc'[q] = pc[q]
  BY DEF TypeOK
<1> QED
  BY <1>1 DEF Held

\* An opener that neither held the store nor is handed it changes no holding.
LEMMA HeldStays ==
    ASSUME TypeOK, NEW o \in Openers, NEW step, pc[o] # "open", step # "open",
           pc' = [pc EXCEPT ![o] = step],
           \A q \in Openers \ {o} : package'[q] = package[q]
    PROVE  Held' = Held
BY HeldChanges DEF Held

\* A file that is not in the ledger is installed over the package's earlier
\* ones, which are all in order.
LEMMA ApplyInstalls ==
    ASSUME Inv3, Inv3', NEW o \in Openers, Apply(o)
    PROVE  Store!Install(package[o], at[o])
           /\ at[o] \in 1..Len(SchemaOf[package[o]])
<1>1. /\ pc[o] = "apply" /\ ledger[at[o]] = None
      /\ ledger' = [ledger EXCEPT ![at[o]] = File(o)]
      /\ pc' = [pc EXCEPT ![o] = StepFor(o, at[o] + 1, applied[o])]
      /\ package' = package
  BY DEF Apply, Advance, Goto
<1>2. /\ TypeOK /\ package[o] \in Packages
      /\ at[o] \in 1..Len(Files(o))
  BY <1>1 DEF Inv3, Inv2, Inv1, TypeOK, PlaceInv, AtFile
<1>3. /\ at[o] \in Migs /\ File(o) \in Raws
      /\ \A k \in 1..Len(Files(o)) : k \in Migs
      /\ Len(Files(o)) \in Nat
  BY <1>2, FilesType DEF Files, File
<1>4. /\ Len(SchemaOf[package[o]]) = Len(Files(o))
      /\ SchemaOf[package[o]][at[o]] = MeaningOf[File(o)]
  BY <1>2, SchemaOfMeaning DEF Files, File
<1>5. Schema = LedgerSchema /\ Schema' = LedgerSchema'
  <2>1. Inv3' => SchemaAgrees'
    BY SchemaIsLedgers, PTL
  <2> QED
    BY <2>1, SchemaIsLedgers DEF SchemaAgrees
<1>6. Schema[at[o]] = {}
  BY <1>1, <1>3, <1>5 DEF LedgerSchema
<1>7. Schema' = [Schema EXCEPT ![at[o]] = {SchemaOf[package[o]][at[o]]}]
  <2>1. File(o) # None
    BY <1>3, MigrationsAssumption
  <2>2. ledger \in Ledgers
    BY <1>2 DEF TypeOK
  <2>3. LedgerSchema' =
          [LedgerSchema EXCEPT ![at[o]] = {MeaningOf[File(o)]}]
    BY <1>1, <1>3, <2>1, <2>2 DEF LedgerSchema, Ledgers
  <2> QED
    BY <1>4, <1>5, <2>3
<1>8. \A k \in 1..at[o] - 1 : Schema[k] = {SchemaOf[package[o]][k]}
  <2>1. ASSUME NEW k \in 1..at[o] - 1
        PROVE  k \in 1..Len(Files(o)) /\ k < at[o]
    BY <1>2, <1>3
  <2>2. ASSUME NEW k \in 1..at[o] - 1 PROVE InOrder(o, k)
    BY <1>1, <2>1 DEF Inv3, OpenerInv, PastInOrder, Working
  <2> QED
    BY <2>1, <2>2, InOrderInForce DEF Inv3, Inv2
<1>9. Held' = Held
  <2>1. StepFor(o, at[o] + 1, applied[o]) # "open"
    BY DEF StepFor
  <2> QED
    BY <1>1, <1>2, <2>1, HeldStays
<1> QED
  BY <1>2, <1>4, <1>6, <1>7, <1>8, <1>9
     DEF Store!Install, Store!Has, Schema, Held

\* A store is returned to an opener all of whose files are in order.
LEMMA ReturnHandsOut ==
    ASSUME Inv3, Inv3', NEW o \in Openers, Return(o),
           NEW p \in Packages, p = package[o]
    PROVE  Store!HandOut(o, p)
<1>1. /\ pc[o] = "return" /\ pc' = [pc EXCEPT ![o] = "open"]
      /\ ledger' = ledger /\ package' = package
  BY DEF Return, Goto, store
<1>2. /\ TypeOK /\ package[o] \in Packages /\ at[o] > Len(Files(o))
      /\ at[o] \in Int
  BY <1>1 DEF Inv3, Inv2, Inv1, TypeOK, PlaceInv
<1>3. /\ Len(SchemaOf[package[o]]) = Len(Files(o))
      /\ Len(Files(o)) \in Nat
  BY <1>2, FilesType, SchemaOfMeaning DEF Files
<1>4. \A m \in 1..Len(Files(o)) : Schema[m] = {SchemaOf[package[o]][m]}
  <2>1. ASSUME NEW m \in 1..Len(Files(o)) PROVE InOrder(o, m)
    <3>1. m < at[o]
      BY <1>2, <1>3
    <3> QED
      BY <1>1, <3>1 DEF Inv3, OpenerInv, PastInOrder, Working
  <2> QED
    BY <2>1, InOrderInForce DEF Inv3, Inv2
<1>5. Held[o] = {}
  BY <1>1 DEF Held
<1>6. Held' = [Held EXCEPT ![o] = {package[o]}]
  BY <1>1, <1>2, HeldChanges
<1>7. Schema' = Schema
  BY <1>1, SameLedgerSameSchema
<1> QED
  BY <1>3, <1>4, <1>5, <1>6, <1>7 DEF Store!HandOut, Store!Has, Schema, Held

\* A process that opens the store again lets go of the one it had.
LEMMA OpenCloses ==
    ASSUME Inv3, Inv3', NEW o \in Openers, Open(o)
    PROVE  Store!Close(o) \/ UNCHANGED Store!vars
<1>1. /\ pc' = [pc EXCEPT ![o] = "tables"] /\ ledger' = ledger
      /\ \A q \in Openers \ {o} : package'[q] = package[q]
  BY DEF Open, Goto, store, Inv3, Inv2, Inv1, TypeOK
<1>2. TypeOK
  BY DEF Inv3, Inv2, Inv1
<1>3. Schema' = Schema
  BY <1>1, SameLedgerSameSchema
<1>4. Held' = [Held EXCEPT ![o] = {}]
  <2>1. Held' = [Held EXCEPT ![o] =
                   IF "tables" = "open" THEN {package'[o]} ELSE {}]
    BY <1>1, <1>2, HeldChanges
  <2> QED
    BY <2>1
<1>5. CASE pc[o] = "open"
  <2>1. Held[o] # {}
    BY <1>5 DEF Held
  <2> QED
    BY <1>3, <1>4, <2>1 DEF Store!Close, Schema, Held
<1>6. CASE pc[o] # "open"
  <2>1. Held' = Held
    BY <1>1, <1>2, <1>6, HeldStays
  <2> QED
    BY <1>3, <2>1 DEF Store!vars, Schema, Held
<1> QED
  BY <1>5, <1>6

\* No other step of an opener touches the ledger, nor the holdings.
LEMMA OtherStepsStutter ==
    ASSUME Inv3, Inv3', NEW o \in Openers,
           \/ Die(o) \/ LookForTables(o) \/ CreateTables(o) \/ ReadLedger(o)
           \/ ApplyFails(o) \/ ReadInForce(o) \/ Verified(o) \/ Backfill(o)
           \/ Compare(o) \/ Restamp(o)
    PROVE  UNCHANGED Store!vars
<1>1. ledger' = ledger /\ package' = package /\ pc[o] # "open"
  BY DEF Die, LookForTables, CreateTables, ReadLedger, ApplyFails, ReadInForce,
         Verified, Backfill, Compare, Restamp, store, Working, Verifying
<1>2. PICK step : step # "open" /\ pc' = [pc EXCEPT ![o] = step]
  BY DEF Die, LookForTables, CreateTables, ReadLedger, ApplyFails, ReadInForce,
         Verified, Backfill, Compare, Restamp, Advance, Goto, StepFor
<1>3. TypeOK
  BY DEF Inv3, Inv2, Inv1
<1>4. Held' = Held
  BY <1>1, <1>2, <1>3, HeldStays
<1>5. Schema' = Schema
  BY <1>1, SameLedgerSameSchema
<1> QED
  BY <1>4, <1>5 DEF Store!vars, Schema, Held

\* Every step is one of a schema store, or none.
LEMMA StepsAsSchemaStore ==
    Inv3 /\ Inv3' /\ [Next]_vars => [Store!Next]_(Store!vars)
<1> SUFFICES ASSUME Inv3, Inv3', [Next]_vars
             PROVE  Store!Next \/ UNCHANGED Store!vars
  OBVIOUS
<1>1. CASE UNCHANGED vars
  <2>1. ledger' = ledger /\ pc' = pc /\ package' = package
    BY <1>1 DEF vars, store, opener
  <2>2. Schema' = Schema
    BY <2>1, SameLedgerSameSchema
  <2>3. Held' = Held
    BY <2>1 DEF Held
  <2> QED
    BY <2>2, <2>3 DEF Store!vars, Schema, Held
<1>2. CASE \E o \in Openers : Open(o) \/ OpenerStep(o) \/ Die(o)
  <2>1. PICK o \in Openers : Open(o) \/ OpenerStep(o) \/ Die(o)
    BY <1>2
  <2>2. CASE Open(o)
    BY <2>2, OpenCloses DEF Store!Next
  <2>3. CASE Apply(o)
    <3>1. package[o] \in Packages
      BY DEF Inv3, Inv2, Inv1, TypeOK
    <3> QED
      BY <2>3, <3>1, ApplyInstalls DEF Store!Next
  <2>4. CASE Return(o)
    <3>1. PICK p \in Packages : p = package[o]
      BY DEF Inv3, Inv2, Inv1, TypeOK
    <3>2. Store!HandOut(o, p)
      BY <2>4, <3>1, ReturnHandsOut
    <3> QED
      BY <3>2 DEF Store!Next
  <2> QED
    BY <2>1, <2>2, <2>3, <2>4, OtherStepsStutter DEF OpenerStep
<1> QED
  BY <1>1, <1>2 DEF Next, Rest

\* However many openers of however many package versions interleave, die and
\* restamp, they implement a store whose migrations are installed once, in
\* order and with one meaning, and which is handed only to those it fits.
THEOREM StoreIsSchemaStore == Spec => ImplementsSchemaStore
<1>1. Inv3 /\ Inv3' /\ [Next]_vars => [Store!Next]_(Store!vars)
  BY StepsAsSchemaStore
<1> QED
  BY <1>1, StartsAsSchemaStore, InvariantHolds, PTL
     DEF Spec, ImplementsSchemaStore, Store!Spec
=============================================================================
