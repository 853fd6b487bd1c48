--------------------------- MODULE UninterruptedRun ---------------------------
(***************************************************************************)
(* What an ablation run promises of the evidence it leaves: the rows are   *)
(* those of one run that was never interrupted.  Clauses are settled one   *)
(* after the other; a measurable clause by comparisons that are recorded   *)
(* one by one until the stopping rule ends its loop, an unmeasurable one   *)
(* by an outcome row; then the run is stamped.  There is no process, no    *)
(* budget, no runtime database and no crash here.                          *)
(***************************************************************************)
EXTENDS Stopping, Sequences, FiniteSets

CONSTANTS NClauses, Unmeasurable, NullFloor

VARIABLES
    rows,       \* the verdict rows of each clause
    outcomes,   \* the refused clauses
    stamped     \* completed_at is set

vars == <<rows, outcomes, stamped>>

Clauses == 1..NClauses

Init ==
    /\ rows = [c \in Clauses |-> <<>>]
    /\ outcomes = {}
    /\ stamped = FALSE

\* The sampling loop of a clause: its state before the first comparison, after
\* one more row, and after each prefix of the rows it recorded.
LoopStart ==
    [tally |-> EmptyTally, issued |-> 0, check |-> NMin, on |-> TRUE]

LoopStep(s, row) ==
    LET t == IF row.admissible THEN Add(s.tally, row.obs) ELSE s.tally
        i == s.issued + 1
    IN  [tally |-> t, issued |-> i, check |-> NextCheck(t, i, s.check),
         on |-> LoopGoesOn(t, i, s.check)]

LoopAfter(s) ==
    LET after[n \in 0..Len(s)] ==
            IF n = 0 THEN LoopStart ELSE LoopStep(after[n - 1], s[n])
    IN  after

LoopOn(c) == LoopAfter(rows[c])[Len(rows[c])].on

Settled(c) == IF c \in Unmeasurable THEN c \in outcomes ELSE ~LoopOn(c)

\* The clause whose turn it is.
Current(c) == ~Settled(c) /\ \A d \in 1..c - 1 : Settled(d)

\* One null sample per comparison, over all the clauses so far.
NullsAtNext == 1 + Cardinality(UNION {{c} \X (1..Len(rows[c])) : c \in Clauses})

Measure(c) ==
    /\ c \notin Unmeasurable /\ Current(c)
    /\ \E obs \in Observations, admissible \in {FALSE, NullsAtNext >= NullFloor} :
         rows' = [rows EXCEPT ![c] =
                    Append(@, [idx |-> Len(@), obs |-> obs,
                               admissible |-> admissible])]
    /\ UNCHANGED <<outcomes, stamped>>

Refuse(c) ==
    /\ c \in Unmeasurable /\ Current(c)
    /\ outcomes' = outcomes \cup {c}
    /\ UNCHANGED <<rows, stamped>>

Stamp ==
    /\ \A c \in Clauses : Settled(c)
    /\ ~stamped
    /\ stamped' = TRUE
    /\ UNCHANGED <<rows, outcomes>>

Next == (\E c \in Clauses : Measure(c) \/ Refuse(c)) \/ Stamp

Spec == Init /\ [][Next]_vars
=============================================================================
