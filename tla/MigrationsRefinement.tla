------------------------- MODULE MigrationsRefinement -------------------------
(***************************************************************************)
(* Openers that apply, verify, backfill and restamp one store concurrently *)
(* implement a SchemaStore.  The meaning of a migration is that of the     *)
(* digest in force, which restamps move from file to file.                 *)
(***************************************************************************)
EXTENDS Migrations

\* The meaning of migration m that the store vouches for.
SchemaInForce(m) ==
    IF ledger[m] = None THEN {} ELSE {MeaningOf[EffectiveSha(m, ledger[m])]}

SchemaOf ==
    [p \in Packages |->
        [m \in 1..Len(FilesOf[p]) |-> MeaningOf[FilesOf[p][m]]]]

Store == INSTANCE SchemaStore WITH
    Holders <- Openers,
    schema <- [m \in Migs |-> SchemaInForce(m)],
    held <- [o \in Openers |-> IF pc[o] = "open" THEN {package[o]} ELSE {}]

\* However openers of several package versions interleave, die, fail and
\* restamp, the schema in force changes only by installing a migration that the
\* store lacks, on top of the installing package's own earlier ones; and a store
\* is handed only to a package that its schema in force fits.
ImplementsSchemaStore == Store!Spec
=============================================================================
