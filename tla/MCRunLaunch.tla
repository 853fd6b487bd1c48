----------------------------- MODULE MCRunLaunch -----------------------------
(***************************************************************************)
(* Instance of RunLaunch for TLC: two skills of one clause each.           *)
(***************************************************************************)
EXTENDS RunLaunch, TLC

MCClausesOf == [s \in Skills |-> <<s>>]

\* One skill of two clauses, for the run about --clause.
MCTwoClauses == [s \in Skills |-> <<"c1", "c2">>]

MCClauseOptions == {None, "c2"}

\* Terminals and uuids are interchangeable.
Alike == Permutations(Procs) \cup Permutations(RunIds)
=============================================================================
