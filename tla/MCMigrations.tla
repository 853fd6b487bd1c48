----------------------------- MODULE MCMigrations -----------------------------
(***************************************************************************)
(* Instance of Migrations for TLC.  Raw digests 1 and 2 are one schema     *)
(* with different comments, 3 is another schema in the same file; 4 is a   *)
(* second file.  "old" has one file, "new" reworded it and added a second, *)
(* "bad" changed the first file's schema.                                  *)
(***************************************************************************)
EXTENDS MigrationsRefinement

MCMeaningOf == [r \in 1..4 |-> IF r <= 2 THEN 1 ELSE r]

MCFilesOf ==
    [p \in Packages |-> CASE p = "old" -> <<1>>
                          [] p = "new" -> <<2, 4>>
                          [] p = "bad" -> <<3, 4>>]
=============================================================================
