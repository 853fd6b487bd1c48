------------------------- MODULE AblationRunRefinement -------------------------
(***************************************************************************)
(* A crashed and resumed AblationRun leaves the evidence of an             *)
(* UninterruptedRun.                                                       *)
(***************************************************************************)
EXTENDS AblationRun

Uninterrupted == INSTANCE UninterruptedRun WITH
    rows <- verdicts,
    stamped <- runRow = "completed"

\* Whatever crashes, failed calls, aborts and resumes happen, every change of
\* verdicts, refusal outcomes and completed_at is one an uninterrupted run
\* makes: verdicts of the next comparison of the clause whose turn it is, never
\* past its stop, and the stamp only when every clause is settled.
ImplementsUninterruptedRun == Uninterrupted!Spec

\* Every stored sample belongs to a comparison that is recorded, or to the one
\* comparison that an uninterrupted run would record next: a resumed run stops
\* at exactly the sample where the rule stops it, never one later.
NoSampleBeyondStop ==
    \A s \in samples :
        \/ s[3] < Len(verdicts[s[1]])
        \/ s[3] = Len(verdicts[s[1]]) /\ Uninterrupted!Current(s[1])
=============================================================================
