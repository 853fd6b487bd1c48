----------------------------- MODULE SchemaStore -----------------------------
(***************************************************************************)
(* What opening a store promises of its schema.  A migration is installed  *)
(* once, with the meaning that some package gives it, on top of the same   *)
(* package's earlier migrations, and keeps that meaning.  A store is       *)
(* handed only to a process whose package it fits.  There is no file, no   *)
(* digest, no restamp and no failed opening here.                          *)
(***************************************************************************)
EXTENDS Integers, Sequences

CONSTANTS
    Packages,    \* installed versions of the package
    Holders,     \* processes a store is handed to
    NMigrations, \* the longest list of migrations
    SchemaOf     \* the meanings of each package's migrations, in order

VARIABLES
    schema,      \* the meaning each migration was installed with, if any
    held         \* the package each process holds the store for, if any

vars == <<schema, held>>

Migs == 1..NMigrations

\* The store has migration m as package p means it.
Has(p, m) == schema[m] = {SchemaOf[p][m]}

Init ==
    /\ \E p \in Packages : \E n \in 0..Len(SchemaOf[p]) :
         schema = [m \in Migs |-> IF m <= n THEN {SchemaOf[p][m]} ELSE {}]
    /\ held = [h \in Holders |-> {}]

Install(p, m) ==
    /\ schema[m] = {}
    /\ \A k \in 1..m - 1 : Has(p, k)
    /\ schema' = [schema EXCEPT ![m] = {SchemaOf[p][m]}]
    /\ UNCHANGED held

HandOut(h, p) ==
    /\ held[h] = {}
    /\ \A m \in 1..Len(SchemaOf[p]) : Has(p, m)
    /\ held' = [held EXCEPT ![h] = {p}]
    /\ UNCHANGED schema

Close(h) ==
    /\ held[h] # {}
    /\ held' = [held EXCEPT ![h] = {}]
    /\ UNCHANGED schema

Next ==
    \/ \E p \in Packages : \E m \in 1..Len(SchemaOf[p]) : Install(p, m)
    \/ \E h \in Holders : Close(h) \/ \E p \in Packages : HandOut(h, p)

Spec == Init /\ [][Next]_vars
=============================================================================
