-------------------------- MODULE MCMetricIdentity --------------------------
(* A small instance of MetricIdentity. *)
EXTENDS MetricIdentity, TLC

CONSTANTS original, commented, altered, bumped, v1, v2, a1, a2, tie, first, input

\* An edit of a comment, an edit of the code that forgot the version, and one
\* that did not.
MCVersionOf == original :> v1 @@ commented :> v1 @@ altered :> v1 @@ bumped :> v2
MCBehaviourOf == original :> "x" @@ commented :> "x" @@ altered :> "y" @@ bumped :> "z"

Checkout(s, g) == [source |-> s, algo |-> g]

MCBuilds == {Checkout(s, a1) : s \in Sources} \cup {Checkout(s, a2) : s \in {original, altered}}

\* The second algorithm gives each behaviour the digest the first gives another.
MCDigestOf ==
    [b \in MCBuilds |->
        LET behaviour == MCBehaviourOf[b.source]
        IN  IF b.algo = a1 THEN behaviour
            ELSE IF behaviour = "x" THEN "y" ELSE "x"]

\* A pair with a win, whose verdict two commands may freeze, and one without.
MCInputOf == first :> input @@ tie :> None

Alike == Permutations(Procs)
=============================================================================
