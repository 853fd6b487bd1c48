---------------------- MODULE AblationRunRefinementProofs ----------------------
(***************************************************************************)
(* Proof, for every value of the constants, that a crashed and resumed     *)
(* AblationRun implements an UninterruptedRun.  Three layers are added to  *)
(* the invariant of AblationRunProofs, each inductive relative to the ones *)
(* before it:                                                              *)
(*                                                                         *)
(*   LoopInv    the loop's variables, against the loop that the stored     *)
(*              rows of its clause would have driven; and which clauses    *)
(*              are settled, against where the process is                  *)
(*   NullInv    the NullAccumulator, against the stored rows               *)
(*   StopInv    the samples, against the clause whose turn it is           *)
(*                                                                         *)
(* The last section says when the rule is read: only as scheduled.         *)
(***************************************************************************)
EXTENDS AblationRunRefinement, AblationRunProofs, WellFoundedInduction

After(s) == Uninterrupted!LoopAfter(s)
Settled(c) == Uninterrupted!Settled(c)
Current(c) == Uninterrupted!Current(c)

-----------------------------------------------------------------------------
(***************************************************************************)
(* Layer 7: the loop and the clauses.                                      *)
(***************************************************************************)

\* No clause has a row past the row that ended its loop.
NoRowBeyondStop ==
    \A c \in Clauses : \A i \in 0..Len(verdicts[c]) - 1 : After(verdicts[c])[i].on

\* The loop is where the first rows of its clause, as many as the comparisons
\* issued, would have led it.
LoopInPlace ==
    pc \in InClause =>
        After(verdicts[clause])[issued] =
            [tally |-> tally, issued |-> issued, check |-> check, on |-> TRUE]

\* Only a clause that can be measured has rows, only one that cannot an outcome.
ClauseKinds ==
    /\ \A c \in Unmeasurable : verdicts[c] = <<>>
    /\ outcomes \subseteq Unmeasurable
    /\ pc \in InClause => clause \notin Unmeasurable
    /\ pc = "refuse" => clause \in Unmeasurable

\* The clauses behind the process are settled, and so is every clause before
\* one that has a row or an outcome, or that is past its stop.
ClausesBehind ==
    /\ \A d \in Clauses : d < clause => Settled(d)
    /\ pc = "advance" => Settled(clause)
    /\ pc = "advance" /\ clause \notin Unmeasurable => issued = Len(verdicts[clause])
    /\ pc = "advance" /\ clause \in Unmeasurable => issued = 0
    /\ pc = "refuse" => issued = 0
    /\ pc = "complete" => clause = NClauses + 1
    /\ \A c, d \in Clauses :
         d < c /\ (verdicts[c] # <<>> \/ c \in outcomes) => Settled(d)

\* A run is stamped only when each of its clauses is at its stop.
StampedIsSettled ==
    runRow = "completed" => \A c \in Clauses : Settled(c)

LoopInv ==
    /\ NoRowBeyondStop
    /\ LoopInPlace
    /\ ClauseKinds
    /\ ClausesBehind
    /\ StampedIsSettled

Inv7 == Inv3 /\ LoopInv

(***************************************************************************)
(* Layer 8: the NullAccumulator.                                           *)
(***************************************************************************)

\* A bar of h[c] cells over each clause.
Bars(h) == UNION {{c} \X (1..h[c]) : c \in Clauses}

\* The comparisons the process has gone past.
SeenIn ==
    [c \in Clauses |->
        IF c < clause THEN Len(verdicts[c])
        ELSE IF c = clause /\ pc \in InClause \cup {"advance"} THEN issued
        ELSE 0]

NullInv ==
    pc # "abort" =>
        nulls = Cardinality(Bars(SeenIn)) + (IF pc = "judge" THEN 1 ELSE 0)

Inv8 == Inv7 /\ NullInv

(***************************************************************************)
(* Layer 9: the samples.                                                   *)
(***************************************************************************)
StopInv ==
    /\ NoSampleBeyondStop
    /\ \A s \in samples : s[1] \notin Unmeasurable

Inv9 == Inv7 /\ StopInv
-----------------------------------------------------------------------------
(***************************************************************************)
(* The state of the loop after each prefix of a clause's rows.             *)
(***************************************************************************)

\* A set of natural numbers that is not empty has a least member.
LEMMA LeastOf ==
    ASSUME NEW T, T \subseteq Nat, T # {}
    PROVE  \E m \in T : \A k \in T : m <= k
<1> DEFINE Less == {p \in Nat \X Nat : p[1] < p[2]}
<1>1. IsWellFoundedOn(Less, Nat)
  <2>1. Less = OpToRel(<, Nat)
    BY Zenon DEF OpToRel
  <2> QED
    BY <2>1, NatLessThanWellFounded
<1>2. \E m \in T : \A k \in T : ~(<<k, m>> \in Less)
  <2> HIDE DEF Less
  <2> QED
    BY <1>1, WFMin
<1>3. PICK m \in T : \A k \in T : ~(<<k, m>> \in Less)
  BY <1>2
<1>4. ASSUME NEW k \in T PROVE m <= k
  <2>1. <<k, m>> \in Nat \X Nat /\ ~(<<k, m>> \in Less)
    BY <1>3
  <2> QED
    BY <2>1
<1> QED
  BY <1>4

\* f is the loop over the first n rows of s.
LoopRuns(f, s, n) ==
    f = [i \in 0..n |->
            IF i = 0 THEN Uninterrupted!LoopStart
            ELSE Uninterrupted!LoopStep(f[i - 1], s[i])]

\* The loop can be run over any number of rows.
LEMMA LoopExists ==
    ASSUME NEW s, NEW n \in Nat
    PROVE  \E f : LoopRuns(f, s, n)
<1> DEFINE T == {m \in Nat : ~\E f : LoopRuns(f, s, m)}
<1> SUFFICES ASSUME T # {} PROVE FALSE
  OBVIOUS
<1>1. PICK m \in T : \A k \in T : m <= k
  BY LeastOf
<1>2. m # 0
  <2> DEFINE f == [i \in 0..0 |-> Uninterrupted!LoopStart]
  <2>1. LoopRuns(f, s, 0)
    BY DEF LoopRuns
  <2> QED
    BY <1>1, <2>1
<1>3. m - 1 \in Nat /\ m - 1 \notin T
  BY <1>1, <1>2
<1>4. PICK g : LoopRuns(g, s, m - 1)
  BY <1>3
<1> DEFINE f == [i \in 0..m |->
                    IF i = m THEN Uninterrupted!LoopStep(g[m - 1], s[m]) ELSE g[i]]
<1>5. ASSUME NEW i \in 0..m
      PROVE  f[i] = IF i = 0 THEN Uninterrupted!LoopStart
                    ELSE Uninterrupted!LoopStep(f[i - 1], s[i])
  <2>1. CASE i = m
    <3>1. i - 1 \in 0..m /\ i - 1 # m /\ i # 0
      BY <1>2, <2>1
    <3>2. f[i - 1] = g[m - 1]
      BY <2>1, <3>1
    <3> QED
      BY <2>1, <3>1, <3>2
  <2>2. CASE i = 0
    <3>1. i # m /\ i \in 0..m - 1
      BY <1>2, <2>2
    <3> QED
      BY <1>4, <2>2, <3>1 DEF LoopRuns
  <2>3. CASE i # m /\ i # 0
    <3>1. i \in 0..m - 1 /\ i - 1 \in 0..m /\ i - 1 # m
      BY <2>3
    <3>2. f[i] = g[i] /\ f[i - 1] = g[i - 1]
      BY <2>3, <3>1
    <3>3. g[i] = Uninterrupted!LoopStep(g[i - 1], s[i])
      BY <1>4, <2>3, <3>1 DEF LoopRuns
    <3> QED
      BY <2>3, <3>2, <3>3
  <2> QED
    BY <2>1, <2>2, <2>3
<1>6. LoopRuns(f, s, m)
  BY <1>5 DEF LoopRuns
<1> QED
  BY <1>1, <1>6

\* LoopAfter is the loop over all the rows of a sequence.
LEMMA AfterRuns ==
    ASSUME NEW s, Len(s) \in Nat
    PROVE  LoopRuns(After(s), s, Len(s))
<1>1. \E f : LoopRuns(f, s, Len(s))
  BY LoopExists
<1> QED
  BY <1>1 DEF LoopRuns, After, Uninterrupted!LoopAfter

\* Two sequences of rows have the same first n rows.
Agree(s, t, n) == \A i \in 1..n : s[i] = t[i]

\* Two runs of the loop over rows that agree as far as the shorter one goes
\* agree as far as it goes.
LEMMA LoopUnique ==
    ASSUME NEW s, NEW t, NEW n \in Nat, NEW m \in Nat, n <= m,
           Agree(s, t, n),
           NEW f, NEW g, LoopRuns(f, s, n), LoopRuns(g, t, m)
    PROVE  \A i \in 0..n : f[i] = g[i]
<1> DEFINE T == {i \in 0..n : f[i] # g[i]}
<1> SUFFICES ASSUME T # {} PROVE FALSE
  OBVIOUS
<1>1. T \subseteq Nat
  OBVIOUS
<1>2. PICK i \in T : \A k \in T : i <= k
  BY <1>1, LeastOf
<1>3. i \in 0..n /\ i \in 0..m
  OBVIOUS
<1>4. CASE i = 0
  BY <1>2, <1>3, <1>4 DEF LoopRuns
<1>5. CASE i # 0
  <2>1. i - 1 \in 0..n /\ i - 1 \notin T /\ i \in 1..n
    BY <1>2, <1>3, <1>5
  <2>2. f[i - 1] = g[i - 1] /\ s[i] = t[i]
    BY <2>1 DEF Agree
  <2>3. /\ f[i] = Uninterrupted!LoopStep(f[i - 1], s[i])
        /\ g[i] = Uninterrupted!LoopStep(g[i - 1], t[i])
    BY <1>3, <1>5 DEF LoopRuns
  <2> QED
    BY <1>2, <2>2, <2>3
<1> QED
  BY <1>4, <1>5

\* The loop before the first row.
LEMMA AfterNone ==
    ASSUME NEW s \in Seq(VerdictRows)
    PROVE  After(s)[0] = [tally |-> EmptyTally, issued |-> 0, check |-> NMin,
                          on |-> TRUE]
<1>1. Len(s) \in Nat /\ 0 \in 0..Len(s)
  OBVIOUS
<1>2. After(s)[0] = Uninterrupted!LoopStart
  BY <1>1, AfterRuns DEF LoopRuns
<1> QED
  BY <1>2 DEF Uninterrupted!LoopStart, Uninterrupted!EmptyTally, EmptyTally

\* The loop after one more of the rows.
LEMMA AfterNext ==
    ASSUME NEW s \in Seq(VerdictRows), NEW i \in 1..Len(s)
    PROVE  After(s)[i] = Uninterrupted!LoopStep(After(s)[i - 1], s[i])
<1>1. Len(s) \in Nat /\ i \in 0..Len(s) /\ i # 0
  OBVIOUS
<1> QED
  BY <1>1, AfterRuns DEF LoopRuns

\* A row more leaves the loop over the rows before it alone.
LEMMA AfterAppend ==
    ASSUME NEW s \in Seq(VerdictRows), NEW row \in VerdictRows
    PROVE  /\ \A i \in 0..Len(s) : After(Append(s, row))[i] = After(s)[i]
           /\ After(Append(s, row))[Len(s) + 1] =
                Uninterrupted!LoopStep(After(s)[Len(s)], row)
<1> DEFINE t == Append(s, row)
<1>1. /\ t \in Seq(VerdictRows) /\ Len(t) = Len(s) + 1 /\ Len(s) \in Nat
      /\ \A i \in 1..Len(s) : t[i] = s[i]
      /\ t[Len(s) + 1] = row
  OBVIOUS
<1> HIDE DEF t
<1>2. LoopRuns(After(s), s, Len(s)) /\ LoopRuns(After(t), t, Len(t))
  BY <1>1, AfterRuns
<1>3. /\ Len(s) \in Nat /\ Len(t) \in Nat /\ Len(s) <= Len(t)
      /\ Agree(s, t, Len(s))
  BY <1>1 DEF Agree
<1>4. \A i \in 0..Len(s) : After(s)[i] = After(t)[i]
  BY <1>2, <1>3, LoopUnique
<1>5. After(t)[Len(s) + 1] = Uninterrupted!LoopStep(After(t)[Len(s)], row)
  <2>1. Len(s) + 1 \in 1..Len(t) /\ (Len(s) + 1) - 1 = Len(s)
    BY <1>1
  <2> QED
    BY <1>1, <2>1, AfterNext
<1> QED
  BY <1>1, <1>4, <1>5 DEF t

\* One comparison of the uninterrupted loop is the end of a comparison of the
\* process: the same tally, the same next check, the same decision.
LEMMA StepAgrees ==
    ASSUME NEW t, NEW i, NEW k, NEW row
    PROVE  LET u == IF row.admissible THEN Add(t, row.obs) ELSE t
           IN  Uninterrupted!LoopStep(
                   [tally |-> t, issued |-> i, check |-> k, on |-> TRUE], row) =
               [tally |-> u, issued |-> i + 1, check |-> NextCheck(u, i + 1, k),
                on |-> LoopGoesOn(u, i + 1, k)]
<1>1. \A u, n, c : Uninterrupted!NextCheck(u, n, c) = NextCheck(u, n, c)
  BY DEF NextCheck, Uninterrupted!NextCheck, BelowTarget, NextCheckAt, AtMost, Total,
     Uninterrupted!BelowTarget, Uninterrupted!NextCheckAt, Uninterrupted!AtMost,
     Uninterrupted!Total
<1>2. \A u, n, c : Uninterrupted!LoopGoesOn(u, n, c) = LoopGoesOn(u, n, c)
  BY DEF LoopGoesOn, ShouldStop, Decided, Discordant, BelowTarget, AtMost, Total,
     Uninterrupted!LoopGoesOn, Uninterrupted!ShouldStop, Uninterrupted!Decided,
     Uninterrupted!Discordant, Uninterrupted!BelowTarget, Uninterrupted!AtMost,
     Uninterrupted!Total
<1>3. \A u, o : Uninterrupted!Add(u, o) = Add(u, o)
  BY DEF Add, Uninterrupted!Add
<1> QED
  BY <1>1, <1>2, <1>3 DEF Uninterrupted!LoopStep

-----------------------------------------------------------------------------
(***************************************************************************)
(* Layer 7: the loop and the clauses                                       *)
(***************************************************************************)

\* Clause c is settled by the rows v and the outcomes o.
SettledBy(c, v, o) ==
    IF c \in Unmeasurable THEN c \in o ELSE ~After(v[c])[Len(v[c])].on

\* What is settled depends on the stored rows and outcomes alone.
LEMMA SettledMeaning ==
    ASSUME NEW c
    PROVE  /\ Settled(c) <=> SettledBy(c, verdicts, outcomes)
           /\ Settled(c)' <=> SettledBy(c, verdicts', outcomes')
BY DEF Settled, SettledBy, After, Uninterrupted!Settled, Uninterrupted!LoopOn

\* A step that leaves the rows and the loop's place in them alone.
LoopFrame ==
    /\ UNCHANGED <<verdicts, outcomes>>
    /\ pc' \in InClause =>
         pc \in InClause /\ UNCHANGED <<clause, issued, tally, check>>
    /\ pc' \in {"advance", "refuse", "complete"} => UNCHANGED <<pc, clause, issued>>
    /\ clause' <= clause
    /\ runRow' = "completed" => runRow = "completed"

\* Such a step keeps the loop where its rows have led it.
LEMMA FrameLoopInv == TypeOK /\ TypeOK' /\ LoopInv /\ LoopFrame => LoopInv'
<1> SUFFICES ASSUME TypeOK, TypeOK', LoopInv, LoopFrame PROVE LoopInv'
  OBVIOUS
<1>1. \A c : Settled(c)' <=> Settled(c)
  BY SettledMeaning DEF LoopFrame
<1>2. NoRowBeyondStop'
  BY DEF LoopInv, NoRowBeyondStop, LoopFrame, After
<1>3. LoopInPlace'
  <2> SUFFICES ASSUME pc' \in InClause
               PROVE  After(verdicts[clause])[issued] =
                        [tally |-> tally, issued |-> issued, check |-> check,
                         on |-> TRUE]
    BY DEF LoopInPlace, LoopFrame, After
  <2> QED
    BY DEF LoopInv, LoopInPlace, LoopFrame
<1>4. ClauseKinds'
  BY DEF LoopInv, ClauseKinds, LoopFrame
<1>5. ClausesBehind'
  <2>1. \A d \in Clauses : d < clause' => d < clause
    BY RunAssumption DEF TypeOK, LoopFrame, Clauses
  <2>2. \A d \in Clauses : d < clause' => Settled(d)'
    BY <1>1, <2>1 DEF LoopInv, ClausesBehind
  <2>3. pc' \in {"advance", "refuse", "complete"} =>
          UNCHANGED <<pc, clause, issued, verdicts>>
    BY DEF LoopFrame
  <2>4. (pc = "advance" => Settled(clause))' /\ (pc = "complete" => clause = NClauses + 1)'
    BY <1>1, <2>3 DEF LoopInv, ClausesBehind
  <2>5. /\ (pc = "advance" /\ clause \notin Unmeasurable => issued = Len(verdicts[clause]))'
        /\ (pc = "advance" /\ clause \in Unmeasurable => issued = 0)'
        /\ (pc = "refuse" => issued = 0)'
    BY <2>3 DEF LoopInv, ClausesBehind
  <2>6. \A c, d \in Clauses :
          d < c /\ (verdicts[c] # <<>> \/ c \in outcomes)' => Settled(d)'
    BY <1>1 DEF LoopInv, ClausesBehind, LoopFrame
  <2> QED
    BY <2>2, <2>4, <2>5, <2>6 DEF ClausesBehind
<1>6. StampedIsSettled'
  BY <1>1 DEF LoopInv, StampedIsSettled, LoopFrame
<1> QED
  BY <1>2, <1>3, <1>4, <1>5, <1>6 DEF LoopInv

\* Before the first row every loop is at its start.
LEMMA InitInv7 == Init => Inv7
<1> SUFFICES ASSUME Init PROVE LoopInv
  BY InitInv3 DEF Inv7
<1> USE DEF Init, IdleProcess
<1>1. \A c \in Clauses : verdicts[c] = <<>> /\ Len(verdicts[c]) = 0
  OBVIOUS
<1>2. NoRowBeyondStop
  BY <1>1 DEF NoRowBeyondStop
<1>3. ClausesBehind
  BY <1>1, RunAssumption DEF ClausesBehind, Clauses
<1>4. LoopInPlace /\ ClauseKinds /\ StampedIsSettled
  BY <1>1, RunAssumption DEF LoopInPlace, ClauseKinds, StampedIsSettled, InClause
<1> QED
  BY <1>2, <1>3, <1>4 DEF LoopInv

\* The row that is stored for a recorded comparison is the next one of its clause.
LEMMA PersistedIsNext ==
    ASSUME TypeOK, VerdictsInOrder, NEW c \in Clauses, NEW i \in Nat,
           i < Len(verdicts[c])
    PROVE  PersistedRow(c, i) = verdicts[c][i + 1]
<1>1. verdicts[c] \in Seq(VerdictRows)
  BY DEF TypeOK
<1>2. i + 1 \in DOMAIN verdicts[c]
  BY <1>1
<1>3. \A k \in DOMAIN verdicts[c] : verdicts[c][k].idx = i <=> k = i + 1
  BY <1>1 DEF VerdictsInOrder
<1>4. (CHOOSE k \in DOMAIN verdicts[c] : verdicts[c][k].idx = i) = i + 1
  BY <1>2, <1>3
<1> QED
  BY <1>4 DEF PersistedRow

\* The end of a comparison takes the loop one row further.
LEMMA LoopAdvances ==
    ASSUME LoopInv, pc = "judge", issued \in Nat,
           NEW s \in Seq(VerdictRows), issued + 1 <= Len(s),
           After(s)[issued] = After(verdicts[clause])[issued],
           EndComparison(Absorb(s[issued + 1]))
    PROVE  /\ issued' = issued + 1
           /\ pc' \in {"gate", "advance"}
           /\ pc' = "gate" =>
                After(s)[issued'] = [tally |-> tally', issued |-> issued',
                                     check |-> check', on |-> TRUE]
           /\ pc' = "advance" => ~After(s)[issued'].on
<1> DEFINE row == s[issued + 1]
           u == IF row.admissible THEN Add(tally, row.obs) ELSE tally
<1>1. u = Absorb(row)
  BY DEF Absorb
<1>2. After(s)[issued] = [tally |-> tally, issued |-> issued, check |-> check, on |-> TRUE]
  BY DEF LoopInv, LoopInPlace, InClause
<1>3. issued + 1 \in 1..Len(s) /\ (issued + 1) - 1 = issued
  OBVIOUS
<1>4. After(s)[issued + 1] = Uninterrupted!LoopStep(After(s)[issued], row)
  BY <1>3, AfterNext
<1> HIDE DEF row, u
<1>5. After(s)[issued + 1] =
        [tally |-> u, issued |-> issued + 1, check |-> NextCheck(u, issued + 1, check),
         on |-> LoopGoesOn(u, issued + 1, check)]
  BY <1>2, <1>4, StepAgrees DEF u
<1>6. EndComparison(u)
  BY <1>1 DEF row
<1>7. /\ tally' = u /\ issued' = issued + 1 /\ check' = NextCheck(u, issued + 1, check)
      /\ pc' = IF LoopGoesOn(u, issued + 1, check) THEN "gate" ELSE "advance"
  BY <1>6 DEF EndComparison, Goto
<1>8. CASE LoopGoesOn(u, issued + 1, check)
  <2>1. LoopGoesOn(u, issued + 1, check) = TRUE
    BY <1>8 DEF LoopGoesOn
  <2> QED
    BY <1>5, <1>7, <2>1
<1>9. CASE ~LoopGoesOn(u, issued + 1, check)
  <2>1. LoopGoesOn(u, issued + 1, check) = FALSE
    BY <1>9 DEF LoopGoesOn
  <2>2. pc' = "advance"
    BY <1>7, <1>9
  <2> QED
    BY <1>5, <1>7, <2>1, <2>2
<1> QED
  BY <1>8, <1>9

\* A fresh verdict moves the loop and the stored rows of its clause together.
LEMMA RecordLoopInv == Inv7 /\ Inv3' /\ RecordVerdict => LoopInv'
<1> SUFFICES ASSUME Inv7, Inv3', RecordVerdict PROVE LoopInv'
  OBVIOUS
<1> USE DEF Inv7
<1>0. TypeOK /\ TypeOK' /\ VerdictInv /\ LoopInv /\ ControlInv
  BY DEF Inv3, Inv2, Inv1
<1> PICK row \in ScorableRows :
      /\ verdicts' = [verdicts EXCEPT ![clause] = Append(@, row)]
      /\ EndComparison(Absorb(row))
  BY DEF RecordVerdict
<1> DEFINE seq == verdicts[clause]
           n == Len(seq)
<1>1. /\ pc = "judge" /\ issued \notin recorded
      /\ UNCHANGED <<runRow, outcomes, clause>>
  BY DEF RecordVerdict
<1>2. /\ clause \in Clauses /\ clause \notin Unmeasurable /\ issued \in 0..NMax - 1
      /\ pc \in InClause
  BY <1>0, <1>1, ScheduleAssumption DEF ControlInv, LoopInv, ClauseKinds, InClause, TypeOK
<1>3. seq \in Seq(VerdictRows) /\ n \in Nat
  BY <1>0, <1>2 DEF TypeOK
<1>4. issued = n
  BY <1>0, <1>1, <1>2, <1>3 DEF VerdictInv
<1>5. row \in VerdictRows
  <2>1. (nulls >= NullFloor) \in BOOLEAN /\ {issued} \subseteq 0..NMax - 1
    BY <1>2, RunAssumption DEF TypeOK
  <2> QED
    BY <2>1, Zenon DEF ScorableRows, VerdictRows
<1>6. /\ verdicts'[clause] = Append(seq, row)
      /\ \A d \in Clauses : d # clause => verdicts'[d] = verdicts[d]
  BY <1>0, <1>2 DEF TypeOK
<1> DEFINE s == Append(seq, row)
<1>7. /\ s \in Seq(VerdictRows) /\ Len(s) = n + 1 /\ s[n + 1] = row
      /\ \A i \in 0..n : After(s)[i] = After(seq)[i]
  BY <1>3, <1>5, AfterAppend
<1>8. After(seq)[n].on
  BY <1>0, <1>2, <1>4 DEF LoopInv, LoopInPlace
<1> HIDE DEF s
<1>9. /\ issued' = n + 1 /\ pc' \in {"gate", "advance"}
      /\ pc' = "gate" =>
           After(s)[issued'] = [tally |-> tally', issued |-> issued',
                                check |-> check', on |-> TRUE]
      /\ pc' = "advance" => ~After(s)[issued'].on
  <2>1. /\ issued \in Nat /\ issued + 1 <= Len(s) /\ s[issued + 1] = row
        /\ After(s)[issued] = After(verdicts[clause])[issued]
    BY <1>3, <1>4, <1>7
  <2>2. EndComparison(Absorb(s[issued + 1]))
    BY <2>1
  <2> QED
    BY <1>0, <1>1, <1>4, <1>7, <2>1, <2>2, LoopAdvances
<1>10. ~Settled(clause)
  BY <1>2, <1>8, SettledMeaning DEF SettledBy
<1>11. \A d \in Clauses : d # clause => (Settled(d)' <=> Settled(d))
  <2> TAKE d \in Clauses
  <2> HAVE d # clause
  <2>1. SettledBy(d, verdicts', outcomes') <=> SettledBy(d, verdicts, outcomes)
    BY <1>1, <1>6 DEF SettledBy
  <2> QED
    BY <2>1, SettledMeaning
<1>12. NoRowBeyondStop'
  <2> SUFFICES ASSUME NEW c \in Clauses, NEW i \in 0..Len(verdicts'[c]) - 1
               PROVE  After(verdicts'[c])[i].on
    BY DEF NoRowBeyondStop, After
  <2>1. CASE c # clause
    BY <1>0, <1>6, <2>1 DEF LoopInv, NoRowBeyondStop
  <2>2. CASE c = clause /\ i < n
    <3>1. i \in 0..n - 1 /\ i \in 0..n
      BY <1>3, <1>6, <1>7, <2>2 DEF s
    <3>2. After(seq)[i].on
      BY <1>0, <1>2, <3>1 DEF LoopInv, NoRowBeyondStop
    <3> QED
      BY <1>6, <1>7, <2>2, <3>1, <3>2 DEF s
  <2>3. CASE c = clause /\ ~(i < n)
    <3>1. i = n /\ i \in 0..n
      BY <1>3, <1>6, <1>7, <2>3 DEF s
    <3> QED
      BY <1>6, <1>7, <1>8, <2>3, <3>1 DEF s
  <2> QED
    BY <2>1, <2>2, <2>3
<1>13. LoopInPlace'
  <2> SUFFICES ASSUME pc' \in InClause
               PROVE  After(verdicts'[clause'])[issued'] =
                        [tally |-> tally', issued |-> issued', check |-> check',
                         on |-> TRUE]
    BY DEF LoopInPlace, After
  <2>1. pc' = "gate"
    BY <1>9 DEF InClause
  <2> QED
    BY <1>1, <1>6, <1>9, <2>1 DEF s
<1>14. ClauseKinds'
  <2>1. \A c \in Unmeasurable : c \in Clauses /\ c # clause
    BY <1>2, RunAssumption
  <2>2. \A c \in Unmeasurable : verdicts'[c] = <<>>
    BY <1>0, <1>6, <2>1 DEF LoopInv, ClauseKinds
  <2>3. outcomes' \subseteq Unmeasurable /\ clause' \notin Unmeasurable /\ pc' # "refuse"
    BY <1>0, <1>1, <1>2, <1>9 DEF LoopInv, ClauseKinds
  <2> QED
    BY <2>2, <2>3 DEF ClauseKinds
<1>15. ClausesBehind'
  <2>1. \A d \in Clauses : d < clause => Settled(d)'
    <3> TAKE d \in Clauses
    <3> HAVE d < clause
    <3>1. d # clause
      BY <1>2 DEF Clauses
    <3> QED
      BY <1>0, <1>11, <3>1 DEF LoopInv, ClausesBehind
  <2>2. pc' = "advance" =>
          SettledBy(clause, verdicts', outcomes') /\ issued' = Len(verdicts'[clause])
    BY <1>2, <1>6, <1>7, <1>9 DEF SettledBy, s
  <2>3. pc' = "advance" => Settled(clause)'
    <3>1. pc' = "advance" => SettledBy(clause', verdicts', outcomes')
      BY <1>1, <2>2
    <3> QED
      BY <3>1 DEF Settled, SettledBy, After, Uninterrupted!Settled, Uninterrupted!LoopOn
  <2>4. \A c, d \in Clauses :
          d < c /\ (verdicts[c] # <<>> \/ c \in outcomes)' => Settled(d)'
    <3> SUFFICES ASSUME NEW c \in Clauses, NEW d \in Clauses, d < c,
                        verdicts'[c] # <<>> \/ c \in outcomes'
                 PROVE  Settled(d)'
      OBVIOUS
    <3>1. CASE c = clause
      BY <2>1, <3>1
    <3>2. CASE c # clause
      <4>1. Settled(d)
        BY <1>0, <1>1, <1>6, <3>2 DEF LoopInv, ClausesBehind
      <4> QED
        BY <1>10, <1>11, <4>1
    <3> QED
      BY <3>1, <3>2
  <2> QED
    BY <1>1, <1>2, <1>9, <2>1, <2>2, <2>3, <2>4 DEF ClausesBehind
<1>16. StampedIsSettled'
  BY <1>0, <1>1, <1>2, <1>10 DEF LoopInv, StampedIsSettled
<1> QED
  BY <1>12, <1>13, <1>14, <1>15, <1>16 DEF LoopInv

\* A replayed verdict moves the loop over the stored rows of its clause.
LEMMA ReplayLoopInv == Inv7 /\ Inv3' /\ ReplayVerdict => LoopInv'
<1> SUFFICES ASSUME Inv7, Inv3', ReplayVerdict PROVE LoopInv'
  OBVIOUS
<1> USE DEF Inv7
<1>0. TypeOK /\ TypeOK' /\ VerdictInv /\ LoopInv /\ ControlInv /\ VerdictsInOrder
  BY DEF Inv3, Inv2, Inv1, VerdictInv
<1> DEFINE seq == verdicts[clause]
<1>1. /\ pc = "judge" /\ issued \in recorded
      /\ EndComparison(Absorb(PersistedRow(clause, issued)))
      /\ UNCHANGED <<runRow, verdicts, outcomes, clause>>
  BY DEF ReplayVerdict, evidence
<1>2. /\ clause \in Clauses /\ clause \notin Unmeasurable /\ issued \in Nat
      /\ pc \in InClause
  BY <1>0, <1>1 DEF ControlInv, LoopInv, ClauseKinds, InClause, TypeOK
<1>3. seq \in Seq(VerdictRows) /\ Len(seq) \in Nat
  <2>1. verdicts \in [Clauses -> Seq(VerdictRows)]
    BY <1>0 DEF TypeOK
  <2> QED
    BY <1>2, <2>1
<1>4. issued < Len(seq)
  BY <1>0, <1>1, <1>2, <1>3 DEF VerdictInv
<1>5. PersistedRow(clause, issued) = seq[issued + 1]
  BY <1>0, <1>2, <1>4, PersistedIsNext
<1>6. /\ issued' = issued + 1 /\ pc' \in {"gate", "advance"}
      /\ pc' = "gate" =>
           After(seq)[issued'] = [tally |-> tally', issued |-> issued',
                                  check |-> check', on |-> TRUE]
      /\ pc' = "advance" => ~After(seq)[issued'].on
  <2>1. EndComparison(Absorb(seq[issued + 1])) /\ issued + 1 <= Len(seq)
    BY <1>1, <1>2, <1>3, <1>4, <1>5
  <2> QED
    BY <1>0, <1>1, <1>2, <1>3, <2>1, LoopAdvances
<1>7. \A d : Settled(d)' <=> Settled(d)
  BY <1>1, SettledMeaning
<1>8. NoRowBeyondStop'
  BY <1>0, <1>1 DEF LoopInv, NoRowBeyondStop, After
<1>9. LoopInPlace'
  <2> SUFFICES ASSUME pc' \in InClause
               PROVE  After(verdicts[clause])[issued'] =
                        [tally |-> tally', issued |-> issued', check |-> check',
                         on |-> TRUE]
    BY <1>1 DEF LoopInPlace, After
  <2> QED
    BY <1>6 DEF InClause
<1>10. ClauseKinds'
  BY <1>0, <1>1, <1>2, <1>6 DEF LoopInv, ClauseKinds
<1>11. pc' = "advance" => issued' = Len(seq)
  <2> SUFFICES ASSUME pc' = "advance", issued' # Len(seq) PROVE FALSE
    OBVIOUS
  <2>1. issued' \in 0..Len(seq) - 1
    BY <1>2, <1>3, <1>4, <1>6
  <2>2. After(seq)[issued'].on
    BY <1>0, <1>2, <2>1 DEF LoopInv, NoRowBeyondStop
  <2> QED
    BY <1>6, <2>2
<1>12. ClausesBehind'
  <2>1. pc' = "advance" => SettledBy(clause, verdicts, outcomes)
    BY <1>2, <1>6, <1>11 DEF SettledBy
  <2>2. (pc = "advance" => Settled(clause))'
    BY <1>1, <1>7, <2>1, SettledMeaning
  <2>3. /\ \A d \in Clauses : d < clause' => Settled(d)'
        /\ \A c, d \in Clauses :
             d < c /\ (verdicts[c] # <<>> \/ c \in outcomes)' => Settled(d)'
    BY <1>0, <1>1, <1>7 DEF LoopInv, ClausesBehind
  <2> QED
    BY <1>1, <1>2, <1>6, <1>11, <2>2, <2>3 DEF ClausesBehind
<1>13. StampedIsSettled'
  BY <1>0, <1>1, <1>7 DEF LoopInv, StampedIsSettled
<1> QED
  BY <1>8, <1>9, <1>10, <1>12, <1>13 DEF LoopInv

\* Every step keeps the loop where the stored rows of its clause have led it.
LEMMA NextInv7 == Inv7 /\ [Next]_vars => Inv7'
<1> SUFFICES ASSUME Inv7, [Next]_vars PROVE LoopInv'
  BY NextInv3 DEF Inv7
<1> USE DEF evidence, runtime, process, attempt, loop, counts, observers, Goto
<1>0. Inv3 /\ Inv3' /\ LoopInv
  BY NextInv3 DEF Inv7
<1>1. TypeOK /\ TypeOK' /\ VerdictInv /\ ControlInv
  BY <1>0 DEF Inv3, Inv2, Inv1
<1>2. CASE EnterClause
  <2>1. /\ pc' = IF clause \in Unmeasurable THEN "refuse" ELSE "gate"
        /\ issued' = 0 /\ tally' = EmptyTally /\ check' = NMin
        /\ clause \in Clauses
        /\ UNCHANGED <<runRow, verdicts, outcomes, clause>>
    BY <1>2 DEF EnterClause
  <2>2. \A d : Settled(d)' <=> Settled(d)
    BY <2>1, SettledMeaning
  <2>3. NoRowBeyondStop'
    BY <1>0, <2>1 DEF LoopInv, NoRowBeyondStop, After
  <2>4. LoopInPlace'
    <3>1. After(verdicts[clause])[0] =
            [tally |-> EmptyTally, issued |-> 0, check |-> NMin, on |-> TRUE]
      BY <1>1, <2>1, AfterNone DEF TypeOK
    <3> QED
      BY <2>1, <3>1 DEF LoopInPlace, After
  <2>5. ClauseKinds'
    BY <1>0, <2>1 DEF LoopInv, ClauseKinds, InClause
  <2>6. ClausesBehind'
    <3>1. /\ \A d \in Clauses : d < clause' => Settled(d)'
          /\ \A c, d \in Clauses :
               d < c /\ (verdicts[c] # <<>> \/ c \in outcomes)' => Settled(d)'
      BY <1>0, <2>1, <2>2 DEF LoopInv, ClausesBehind
    <3> QED
      BY <2>1, <3>1 DEF ClausesBehind
  <2>7. StampedIsSettled'
    BY <1>0, <2>1, <2>2 DEF LoopInv, StampedIsSettled
  <2> QED
    BY <2>3, <2>4, <2>5, <2>6, <2>7 DEF LoopInv
<1>3. CASE RefuseClause
  <2>1. /\ pc = "refuse" /\ pc' = "advance" /\ outcomes' = outcomes \cup {clause}
        /\ UNCHANGED <<runRow, verdicts, clause, issued>>
    BY <1>3 DEF RefuseClause
  <2>2. clause \in Unmeasurable /\ clause \in Clauses /\ issued = 0
    BY <1>0, <1>1, <2>1 DEF LoopInv, ClauseKinds, ClausesBehind, ControlInv
  <2>3. \A d : Settled(d) => Settled(d)'
    BY <2>1, SettledMeaning DEF SettledBy
  <2>4. Settled(clause)'
    <3>1. clause' \in Unmeasurable /\ clause' \in outcomes'
      BY <2>1, <2>2
    <3> QED
      BY <3>1 DEF Settled, Uninterrupted!Settled
  <2>5. NoRowBeyondStop'
    BY <1>0, <2>1 DEF LoopInv, NoRowBeyondStop, After
  <2>6. LoopInPlace' /\ ClauseKinds'
    BY <1>0, <2>1, <2>2 DEF LoopInv, LoopInPlace, ClauseKinds, InClause
  <2>7. ClausesBehind'
    <3>1. \A d \in Clauses : d < clause' => Settled(d)'
      BY <1>0, <2>1, <2>3 DEF LoopInv, ClausesBehind
    <3>2. \A c, d \in Clauses :
            d < c /\ (verdicts[c] # <<>> \/ c \in outcomes)' => Settled(d)'
      BY <1>0, <2>1, <2>3, <3>1 DEF LoopInv, ClausesBehind
    <3> QED
      BY <2>1, <2>2, <2>4, <3>1, <3>2 DEF ClausesBehind
  <2>8. StampedIsSettled'
    BY <1>0, <2>1, <2>3 DEF LoopInv, StampedIsSettled
  <2> QED
    BY <2>5, <2>6, <2>7, <2>8 DEF LoopInv
<1>4. CASE RecordVerdict
  BY <1>0, <1>4, RecordLoopInv DEF Inv7
<1>5. CASE ReplayVerdict
  BY <1>0, <1>5, ReplayLoopInv DEF Inv7
<1>6. CASE AdvanceClause
  <2>1. /\ pc = "advance" /\ clause' = clause + 1
        /\ pc' = IF clause = NClauses THEN "complete" ELSE "clause"
        /\ UNCHANGED <<runRow, verdicts, outcomes>>
    BY <1>6 DEF AdvanceClause
  <2>2. \A d : Settled(d)' <=> Settled(d)
    BY <2>1, SettledMeaning
  <2>3. NoRowBeyondStop'
    BY <1>0, <2>1 DEF LoopInv, NoRowBeyondStop, After
  <2>4. LoopInPlace' /\ ClauseKinds'
    BY <1>0, <2>1 DEF LoopInv, LoopInPlace, ClauseKinds, InClause
  <2>5. ClausesBehind'
    <3>1. \A d \in Clauses : d < clause' => d < clause \/ d = clause
      BY <1>1, <2>1, RunAssumption DEF TypeOK, Clauses
    <3>2. \A d \in Clauses : d < clause' => Settled(d)'
      BY <1>0, <2>1, <2>2, <3>1 DEF LoopInv, ClausesBehind
    <3>3. \A c, d \in Clauses :
            d < c /\ (verdicts[c] # <<>> \/ c \in outcomes)' => Settled(d)'
      BY <1>0, <2>1, <2>2 DEF LoopInv, ClausesBehind
    <3>4. (pc = "complete" => clause = NClauses + 1)'
      BY <2>1
    <3> QED
      BY <2>1, <3>2, <3>3, <3>4 DEF ClausesBehind
  <2>6. StampedIsSettled'
    BY <1>0, <2>1, <2>2 DEF LoopInv, StampedIsSettled
  <2> QED
    BY <2>3, <2>4, <2>5, <2>6 DEF LoopInv
<1>7. CASE StampCompleted
  <2>1. /\ pc = "complete" /\ pc' = "finish"
        /\ UNCHANGED <<verdicts, outcomes, clause>>
    BY <1>7 DEF StampCompleted
  <2>2. \A d : Settled(d)' <=> Settled(d)
    BY <2>1, SettledMeaning
  <2>3. \A d \in Clauses : Settled(d)
    <3>1. \A d \in Clauses : d < clause
      BY <1>0, <2>1, RunAssumption DEF LoopInv, ClausesBehind, Clauses
    <3> QED
      BY <1>0, <3>1 DEF LoopInv, ClausesBehind
  <2>4. NoRowBeyondStop'
    BY <1>0, <2>1 DEF LoopInv, NoRowBeyondStop, After
  <2>5. LoopInPlace' /\ ClauseKinds'
    BY <1>0, <2>1 DEF LoopInv, LoopInPlace, ClauseKinds, InClause
  <2>6. ClausesBehind' /\ StampedIsSettled'
    BY <2>1, <2>2, <2>3 DEF ClausesBehind, StampedIsSettled
  <2> QED
    BY <2>4, <2>5, <2>6 DEF LoopInv
<1>8. CASE ~(\/ EnterClause \/ RefuseClause \/ RecordVerdict \/ ReplayVerdict
             \/ AdvanceClause \/ StampCompleted)
  <2> SUFFICES LoopFrame
    BY <1>0, <1>1, FrameLoopInv
  <2>0. clause \in Nat /\ 1 <= clause
    BY <1>1 DEF TypeOK
  <2> USE DEF LoopFrame, InClause
  <2>1. CASE StartRun
    BY <2>0, <2>1 DEF StartRun
  <2>2. CASE InitRuntime
    BY <2>0, <2>2 DEF InitRuntime
  <2>3. CASE Warmup
    BY <2>0, <2>3 DEF Warmup
  <2>4. CASE WarmupSpend
    BY <2>0, <2>4 DEF WarmupSpend
  <2>5. CASE Resume
    BY <2>0, <2>5 DEF Resume
  <2>6. CASE RepairBudget
    BY <2>0, <2>6 DEF RepairBudget
  <2>7. CASE PassGate
    BY <2>0, <2>7 DEF PassGate
  <2>8. CASE CloseGate
    BY <2>0, <2>8 DEF CloseGate
  <2>9. CASE BudgetAbort
    BY <2>0, <2>9 DEF BudgetAbort, Forget
  <2>10. CASE LoadSample
    BY <2>0, <2>10 DEF LoadSample, NextCondition
  <2>11. CASE CallSubject
    BY <2>0, <2>11 DEF CallSubject
  <2>12. CASE CallFails
    BY <2>0, <2>12 DEF CallFails, Forget
  <2>13. CASE InsertSample
    BY <2>0, <2>13 DEF InsertSample
  <2>14. CASE WriteLedger
    BY <2>0, <2>14 DEF WriteLedger
  <2>15. CASE UpdateSpend
    BY <2>0, <2>15 DEF UpdateSpend, NextCondition
  <2>16. CASE StampRefused
    BY <2>0, <2>16 DEF StampRefused, Forget
  <2>17. CASE FinishProgress
    BY <2>0, <2>17 DEF FinishProgress
  <2>18. CASE Reconcile
    BY <2>0, <2>18 DEF Reconcile, Forget
  <2>19. CASE Crash
    BY <2>0, <2>19 DEF Crash, Forget
  <2>20. CASE Rest
    BY <2>0, <2>20 DEF Rest, vars
  <2>21. CASE UNCHANGED vars
    BY <2>0, <2>21 DEF vars
  <2> QED
    BY <1>8, <2>1, <2>2, <2>3, <2>4, <2>5, <2>6, <2>7, <2>8, <2>9, <2>10,
       <2>11, <2>12, <2>13, <2>14, <2>15, <2>16, <2>17, <2>18, <2>19, <2>20,
       <2>21 DEF Next, Runner
<1> QED
  BY <1>2, <1>3, <1>4, <1>5, <1>6, <1>7, <1>8

-----------------------------------------------------------------------------
(***************************************************************************)
(* Layer 8: the NullAccumulator                                            *)
(***************************************************************************)

\* Finitely many bars of finite length have finitely many cells.
LEMMA BarsFinite ==
    ASSUME NEW h \in [Clauses -> Nat]
    PROVE  IsFiniteSet(Bars(h)) /\ Cardinality(Bars(h)) \in Nat
<1> DEFINE bar == [c \in Clauses |-> {c} \X (1..h[c])]
           S == {bar[c] : c \in Clauses}
<1>1. IsFiniteSet(Clauses)
  <2>1. NClauses \in Int /\ 1 \in Int
    BY RunAssumption
  <2> QED
    BY <2>1, FS_Interval DEF Clauses
<1>2. IsFiniteSet(S)
  <2>1. bar \in Surjection(Clauses, S)
    BY DEF Surjection
  <2> QED
    BY <1>1, <2>1, FS_Surjection
<1>3. \A b \in S : IsFiniteSet(b)
  <2> SUFFICES ASSUME NEW c \in Clauses PROVE IsFiniteSet({c} \X (1..h[c]))
    OBVIOUS
  <2>1. IsFiniteSet({c})
    BY FS_Singleton
  <2>2. IsFiniteSet(1..h[c])
    <3>1. h[c] \in Int /\ 1 \in Int
      OBVIOUS
    <3> QED
      BY <3>1, FS_Interval
  <2> QED
    BY <2>1, <2>2, FS_Product
<1>4. Bars(h) = UNION S
  BY DEF Bars
<1> HIDE DEF S
<1>5. IsFiniteSet(UNION S)
  BY <1>2, <1>3, FS_UNION
<1> QED
  BY <1>4, <1>5, FS_CardinalityType

\* One more cell on one bar.
LEMMA BarsGrow ==
    ASSUME NEW h \in [Clauses -> Nat], NEW g \in [Clauses -> Nat], NEW c \in Clauses,
           g[c] = h[c] + 1, \A d \in Clauses : d # c => g[d] = h[d]
    PROVE  Cardinality(Bars(g)) = Cardinality(Bars(h)) + 1
<1> DEFINE cell == <<c, h[c] + 1>>
<1>1. \A d \in Clauses : \A i : <<d, i>> \in Bars(h) <=> i \in 1..h[d]
  BY DEF Bars
<1>2. cell \notin Bars(h)
  BY <1>1
<1>3. 1..g[c] = (1..h[c]) \cup {h[c] + 1}
  OBVIOUS
<1>4. Bars(g) = Bars(h) \cup {cell}
  <2>1. ASSUME NEW x \in Bars(g) PROVE x \in Bars(h) \cup {cell}
    <3>1. PICK d \in Clauses : x \in {d} \X (1..g[d])
      BY DEF Bars
    <3>2. x = <<d, x[2]>> /\ x[2] \in 1..g[d]
      BY <3>1
    <3>3. CASE d = c
      BY <1>1, <1>3, <3>2, <3>3
    <3>4. CASE d # c
      BY <1>1, <3>2, <3>4
    <3> QED
      BY <3>3, <3>4
  <2>2. ASSUME NEW x \in Bars(h) PROVE x \in Bars(g)
    <3>1. PICK d \in Clauses : x \in {d} \X (1..h[d])
      BY DEF Bars
    <3>2. 1..h[d] \subseteq 1..g[d]
      BY <1>3
    <3>3. x \in {d} \X (1..g[d])
      BY <3>1, <3>2
    <3> QED
      BY <3>3 DEF Bars
  <2>3. cell \in Bars(g)
    <3>1. h[c] + 1 \in 1..g[c]
      BY <1>3
    <3>2. cell \in {c} \X (1..g[c])
      BY <3>1
    <3> QED
      BY <3>2 DEF Bars
  <2> QED
    BY <2>1, <2>2, <2>3
<1> HIDE DEF cell
<1> QED
  BY <1>2, <1>4, BarsFinite, FS_AddElement

\* The number of comparisons gone past, at each clause.
LEMMA SeenType ==
    ASSUME TypeOK
    PROVE  SeenIn \in [Clauses -> Nat]
<1>1. \A c \in Clauses : Len(verdicts[c]) \in Nat
  BY DEF TypeOK
<1>2. issued \in Nat
  BY DEF TypeOK
<1> QED
  BY <1>1, <1>2 DEF SeenIn

\* A dead process has seen nothing.
LEMMA ForgetNulls ==
    ASSUME TypeOK', Forget
    PROVE  NullInv'
<1>1. clause' = 1 /\ pc' = "idle" /\ nulls' = 0
  BY DEF Forget
<1>2. \A c \in Clauses : ~(c < clause')
  BY <1>1, RunAssumption DEF Clauses
<1>3. SeenIn' = [c \in Clauses |-> 0]
  BY <1>1, <1>2 DEF SeenIn, InClause
<1>4. Bars([c \in Clauses |-> 0]) = {}
  BY DEF Bars
<1>5. Cardinality(Bars(SeenIn)') = 0
  BY <1>3, <1>4, FS_EmptySet DEF Bars
<1> QED
  BY <1>1, <1>5 DEF NullInv, Bars

\* A step that leaves what was seen alone, but for the null output in hand.
NullFrame ==
    /\ pc \notin {"abort", "judge"}
    /\ \A c \in Clauses : SeenIn'[c] = SeenIn[c]
    /\ nulls' = nulls + (IF pc' = "judge" THEN 1 ELSE 0)

\* Such a step keeps the nulls counted.
LEMMA FrameNullInv ==
    ASSUME NullInv, NullFrame, SeenIn \in [Clauses -> Nat]
    PROVE  NullInv'
<1>1. SeenIn' = SeenIn
  BY DEF NullFrame, SeenIn
<1>2. Bars(SeenIn)' = Bars(SeenIn)
  BY <1>1 DEF Bars
<1>3. Cardinality(Bars(SeenIn)) \in Nat
  BY BarsFinite
<1> QED
  BY <1>2, <1>3 DEF NullInv, NullFrame

\* The end of a comparison adds it to those seen.
LEMMA EndNullInv ==
    ASSUME Inv7, Inv7', NullInv, pc = "judge", pc' \in {"gate", "advance"},
           issued' = issued + 1, UNCHANGED <<clause, nulls>>,
           \A d \in Clauses : d # clause => verdicts'[d] = verdicts[d]
    PROVE  NullInv'
<1>1. TypeOK /\ TypeOK' /\ clause \in Clauses /\ issued \in Nat
  <2>1. TypeOK /\ TypeOK' /\ ControlInv
    BY DEF Inv7, Inv3, Inv2, Inv1
  <2>2. clause \in Clauses
    BY <2>1 DEF ControlInv, InClause
  <2>3. issued \in Nat
    BY <2>1 DEF TypeOK
  <2> QED
    BY <2>1, <2>2, <2>3
<1>2. SeenIn \in [Clauses -> Nat] /\ SeenIn' \in [Clauses -> Nat]
  <2>1. SeenIn \in [Clauses -> Nat]
    BY <1>1, SeenType
  <2>2. \A c \in Clauses : Len(verdicts'[c]) \in Nat
    BY <1>1 DEF TypeOK
  <2>3. issued' \in Nat
    BY <1>1
  <2> QED
    BY <2>1, <2>2, <2>3 DEF SeenIn
<1>3. SeenIn'[clause] = SeenIn[clause] + 1
  <2>1. ~(clause < clause)
    BY <1>1 DEF Clauses
  <2>2. SeenIn[clause] = issued /\ SeenIn'[clause] = issued'
    BY <1>1, <2>1 DEF SeenIn, InClause
  <2> QED
    BY <2>2
<1>4. \A d \in Clauses : d # clause => SeenIn'[d] = SeenIn[d]
  BY DEF SeenIn
<1>5. Cardinality(Bars(SeenIn')) = Cardinality(Bars(SeenIn)) + 1
  BY <1>1, <1>2, <1>3, <1>4, BarsGrow
<1>6. Cardinality(Bars(SeenIn)) \in Nat /\ Bars(SeenIn)' = Bars(SeenIn')
  BY <1>2, BarsFinite DEF Bars
<1> QED
  BY <1>5, <1>6 DEF NullInv

\* No process, no null outputs.
LEMMA InitInv8 == Init => Inv8
<1> SUFFICES ASSUME Init PROVE NullInv
  BY InitInv7 DEF Inv8
<1>1. clause = 1 /\ pc = "idle" /\ nulls = 0
  BY DEF Init, IdleProcess
<1>2. \A c \in Clauses : ~(c < clause)
  BY <1>1, RunAssumption DEF Clauses
<1>3. SeenIn = [c \in Clauses |-> 0]
  BY <1>1, <1>2 DEF SeenIn, InClause
<1>4. Bars([c \in Clauses |-> 0]) = {}
  BY DEF Bars
<1> QED
  BY <1>1, <1>3, <1>4, FS_EmptySet DEF NullInv

\* The NullAccumulator of a process holds one output for each comparison gone
\* past, however many of them it replayed.
LEMMA NextInv8 == Inv8 /\ [Next]_vars => Inv8'
<1> SUFFICES ASSUME Inv8, [Next]_vars PROVE NullInv'
  BY NextInv7 DEF Inv8
<1> USE DEF evidence, runtime, process, attempt, loop, counts, observers, Goto
<1>0. /\ Inv7 /\ Inv7' /\ NullInv /\ TypeOK /\ TypeOK' /\ ControlInv /\ LoopInv
      /\ SeenIn \in [Clauses -> Nat] /\ nulls \in Nat
  <2>1. Inv7 /\ Inv7' /\ NullInv
    BY NextInv7 DEF Inv8
  <2>2. TypeOK /\ TypeOK' /\ ControlInv /\ LoopInv
    BY <2>1 DEF Inv7, Inv3, Inv2, Inv1
  <2> QED
    BY <2>1, <2>2, SeenType DEF TypeOK
<1>1. CASE RecordVerdict
  <2>1. /\ pc = "judge" /\ issued' = issued + 1 /\ UNCHANGED <<clause, nulls>>
        /\ \E row : verdicts' = [verdicts EXCEPT ![clause] = Append(@, row)]
        /\ pc' \in {"gate", "advance"}
    BY <1>1 DEF RecordVerdict, EndComparison
  <2>2. \A d \in Clauses : d # clause => verdicts'[d] = verdicts[d]
    BY <1>0, <2>1 DEF TypeOK
  <2> QED
    BY <1>0, <2>1, <2>2, EndNullInv
<1>2. CASE ReplayVerdict
  <2>1. /\ pc = "judge" /\ issued' = issued + 1 /\ UNCHANGED <<clause, nulls, verdicts>>
        /\ pc' \in {"gate", "advance"}
    BY <1>2 DEF ReplayVerdict, EndComparison
  <2> QED
    BY <1>0, <2>1, EndNullInv
<1>3. CASE Forget
  BY <1>0, <1>3, ForgetNulls
<1>4. CASE CloseGate
  BY <1>4 DEF CloseGate, NullInv
<1>5. CASE UNCHANGED vars
  <2>1. SeenIn' = SeenIn
    BY <1>5 DEF vars, SeenIn
  <2>2. Bars(SeenIn)' = Bars(SeenIn)
    BY <2>1 DEF Bars
  <2> QED
    BY <1>0, <1>5, <2>2 DEF NullInv, vars
<1>6. CASE AdvanceClause
  <2>1. /\ pc = "advance" /\ pc' \in {"complete", "clause"} /\ clause' = clause + 1
        /\ UNCHANGED <<verdicts, nulls>>
    BY <1>6 DEF AdvanceClause
  <2>2. clause \in Clauses /\ issued = Len(verdicts[clause])
    BY <1>0, <2>1 DEF ControlInv, LoopInv, ClausesBehind, ClauseKinds
  <2>3. ASSUME NEW c \in Clauses PROVE SeenIn'[c] = SeenIn[c]
    <3>1. c < clause + 1 <=> c < clause \/ c = clause
      BY <2>2 DEF Clauses
    <3>2. c = clause => ~(c < clause)
      BY <2>2 DEF Clauses
    <3> QED
      BY <2>1, <2>2, <3>1, <3>2 DEF SeenIn, InClause
  <2>4. NullFrame
    BY <1>0, <2>1, <2>3 DEF NullFrame
  <2> QED
    BY <1>0, <2>4, FrameNullInv
<1>7. CASE EnterClause
  <2>1. /\ pc = "clause" /\ pc' \in {"refuse", "gate"} /\ issued' = 0
        /\ UNCHANGED <<verdicts, nulls, clause>>
    BY <1>7 DEF EnterClause
  <2>2. NullFrame
    BY <1>0, <2>1 DEF NullFrame, SeenIn, InClause
  <2> QED
    BY <1>0, <2>2, FrameNullInv
<1>8. CASE RefuseClause
  <2>1. /\ pc = "refuse" /\ pc' = "advance"
        /\ UNCHANGED <<verdicts, nulls, clause, issued>>
    BY <1>8 DEF RefuseClause
  <2>2. issued = 0
    BY <1>0, <2>1 DEF LoopInv, ClausesBehind
  <2>3. NullFrame
    BY <1>0, <2>1, <2>2 DEF NullFrame, SeenIn, InClause
  <2> QED
    BY <1>0, <2>3, FrameNullInv
<1>9. CASE LoadSample
  <2>1. /\ pc = "sample" /\ UNCHANGED <<verdicts, clause, issued>>
        /\ pc' \in {"sample", "judge"}
        /\ nulls' = nulls + (IF pc' = "judge" THEN 1 ELSE 0)
    BY <1>0, <1>9 DEF LoadSample, NextCondition
  <2>2. NullFrame
    BY <2>1 DEF NullFrame, SeenIn, InClause
  <2> QED
    BY <1>0, <2>2, FrameNullInv
<1>10. CASE UpdateSpend
  <2>1. /\ pc = "spend" /\ UNCHANGED <<verdicts, clause, issued>>
        /\ pc' \in {"sample", "judge"}
        /\ nulls' = nulls + (IF pc' = "judge" THEN 1 ELSE 0)
    BY <1>0, <1>10 DEF UpdateSpend, NextCondition
  <2>2. NullFrame
    BY <2>1 DEF NullFrame, SeenIn, InClause
  <2> QED
    BY <1>0, <2>2, FrameNullInv
<1>11. CASE \/ StartRun \/ Resume \/ InitRuntime \/ Warmup \/ WarmupSpend
            \/ RepairBudget \/ PassGate \/ CallSubject \/ InsertSample \/ WriteLedger
            \/ StampCompleted \/ FinishProgress
  <2> SUFFICES /\ UNCHANGED <<verdicts, clause, nulls, issued>>
               /\ pc \notin {"abort", "judge", "advance"}
               /\ pc' \notin {"judge", "advance"}
               /\ pc \in InClause <=> pc' \in InClause
    <3>1. NullFrame
      BY <1>0 DEF NullFrame, SeenIn
    <3> QED
      BY <1>0, <3>1, FrameNullInv
  <2> USE DEF InClause
  <2>1. CASE StartRun
    BY <2>1 DEF StartRun
  <2>2. CASE Resume
    BY <2>2 DEF Resume
  <2>3. CASE InitRuntime
    BY <2>3 DEF InitRuntime
  <2>4. CASE Warmup
    BY <2>4 DEF Warmup
  <2>5. CASE WarmupSpend
    BY <2>5 DEF WarmupSpend
  <2>6. CASE RepairBudget
    BY <2>6 DEF RepairBudget
  <2>7. CASE PassGate
    BY <2>7 DEF PassGate
  <2>8. CASE CallSubject
    BY <2>8 DEF CallSubject
  <2>9. CASE InsertSample
    BY <2>9 DEF InsertSample
  <2>10. CASE WriteLedger
    BY <2>10 DEF WriteLedger
  <2>11. CASE StampCompleted
    BY <2>11 DEF StampCompleted
  <2>12. CASE FinishProgress
    BY <2>12 DEF FinishProgress
  <2> QED
    BY <1>11, <2>1, <2>2, <2>3, <2>4, <2>5, <2>6, <2>7, <2>8, <2>9, <2>10, <2>11, <2>12
<1>12. BudgetAbort \/ CallFails \/ StampRefused \/ Reconcile \/ Crash => Forget
  BY DEF BudgetAbort, CallFails, StampRefused, Reconcile, Crash
<1>13. Rest => UNCHANGED vars
  BY DEF Rest
<1> QED
  BY <1>1, <1>2, <1>3, <1>4, <1>5, <1>6, <1>7, <1>8, <1>9, <1>10, <1>11, <1>12,
     <1>13 DEF Next, Runner

-----------------------------------------------------------------------------
(***************************************************************************)
(* Layer 9: the samples                                                    *)
(***************************************************************************)

\* The clause in the loop is the one whose turn it is once its stored verdicts
\* are replayed.
LEMMA LoopIsCurrent ==
    ASSUME Inv7, pc \in InClause, issued >= Len(verdicts[clause])
    PROVE  Current(clause) /\ issued = Len(verdicts[clause])
<1>1. /\ clause \in Clauses /\ clause \notin Unmeasurable /\ TypeOK
      /\ VerdictInv /\ LoopInv
  BY DEF Inv7, Inv3, Inv2, Inv1, ControlInv, LoopInv, ClauseKinds
<1>2. Len(verdicts[clause]) \in Nat /\ issued \in Nat
  BY <1>1 DEF TypeOK
<1>3. issued = Len(verdicts[clause])
  BY <1>1, <1>2 DEF VerdictInv
<1>4. After(verdicts[clause])[issued].on
  BY <1>1 DEF LoopInv, LoopInPlace
<1>5. ~Settled(clause)
  BY <1>1, <1>3, <1>4, SettledMeaning DEF SettledBy
<1>6. \A d \in 1..clause - 1 : Settled(d)
  <2>1. \A d \in 1..clause - 1 : d \in Clauses /\ d < clause
    BY <1>1, RunAssumption DEF Clauses
  <2> QED
    BY <1>1, <2>1 DEF LoopInv, ClausesBehind
<1> QED
  BY <1>3, <1>5, <1>6 DEF Current, Settled, Uninterrupted!Current

\* It is never the turn of two clauses.
LEMMA OneCurrent ==
    ASSUME NEW c \in Clauses, NEW d \in Clauses, Current(c), Current(d)
    PROVE  c = d
<1>1. c < d => c \in 1..d - 1
  BY RunAssumption DEF Clauses
<1>2. d < c => d \in 1..c - 1
  BY RunAssumption DEF Clauses
<1>3. c < d \/ d < c \/ c = d
  BY RunAssumption DEF Clauses
<1> QED
  BY <1>1, <1>2, <1>3 DEF Current, Uninterrupted!Current

\* A step that stores no sample, verdict or outcome.
StopFrame == UNCHANGED <<samples, verdicts, outcomes>>

\* Such a step keeps the samples within the stop.
LEMMA FrameStopInv == StopInv /\ StopFrame => StopInv'
<1> SUFFICES ASSUME StopInv, StopFrame PROVE StopInv'
  OBVIOUS
<1>1. \A c : Settled(c)' <=> Settled(c)
  BY SettledMeaning DEF StopFrame
<1>2. \A c : Current(c) => Current(c)'
  <2> SUFFICES ASSUME NEW c, Current(c) PROVE Current(c)'
    OBVIOUS
  <2>1. ~Settled(c) /\ \A d \in 1..c - 1 : Settled(d)
    BY DEF Current, Settled, Uninterrupted!Current
  <2>2. ~Settled(c)' /\ \A d \in 1..c - 1 : Settled(d)'
    BY <1>1, <2>1
  <2> QED
    BY <2>2 DEF Current, Settled, Uninterrupted!Current
<1> QED
  BY <1>2 DEF StopInv, NoSampleBeyondStop, StopFrame, Current

\* Nothing is sampled before the run starts.
LEMMA InitInv9 == Init => Inv9
BY InitInv7 DEF Inv9, StopInv, NoSampleBeyondStop, Init

\* Every step keeps the samples within the stop of their clauses.
LEMMA NextInv9 == Inv9 /\ [Next]_vars => Inv9'
<1> SUFFICES ASSUME Inv9, [Next]_vars PROVE StopInv'
  BY NextInv7 DEF Inv9
<1> USE DEF evidence, runtime, process, attempt, loop, counts, observers, Goto
<1>0. Inv7 /\ Inv7' /\ StopInv
  BY NextInv7 DEF Inv9
<1>1. /\ TypeOK /\ TypeOK' /\ VerdictInv /\ ControlInv /\ LoopInv /\ LoopInv'
      /\ \A s \in samples : s[1] \in Clauses /\ s[3] \in Nat
  <2>1. TypeOK /\ TypeOK' /\ VerdictInv /\ ControlInv /\ LoopInv /\ LoopInv'
    BY <1>0 DEF Inv7, Inv3, Inv2, Inv1
  <2>2. samples \subseteq Slots
    BY <2>1 DEF TypeOK
  <2>3. \A s \in Slots : s[1] \in Clauses /\ s[3] \in Nat
    BY DEF Slots
  <2> QED
    BY <2>1, <2>2, <2>3
<1>2. CASE InsertSample
  <2>1. /\ pc = "insert" /\ samples' = samples \cup {NextSlot}
        /\ UNCHANGED <<verdicts, outcomes, clause>>
    BY <1>2 DEF InsertSample
  <2>2. /\ clause \in Clauses /\ clause \notin Unmeasurable
        /\ Len(verdicts[clause]) \in Nat /\ issued \in Nat
    BY <1>1, <2>1 DEF ControlInv, InClause, LoopInv, ClauseKinds, TypeOK
  <2>3. issued < Len(verdicts[clause]) \/ (issued = Len(verdicts[clause]) /\ Current(clause))
    BY <1>0, <2>1, <2>2, LoopIsCurrent DEF InClause
  <2>4. NextSlot[1] = clause /\ NextSlot[3] = issued
    BY DEF NextSlot, Slot
  <2>5. \A s \in samples' :
          \/ s[3] < Len(verdicts[s[1]])
          \/ s[3] = Len(verdicts[s[1]]) /\ Current(s[1])
    BY <1>0, <2>1, <2>3, <2>4 DEF StopInv, NoSampleBeyondStop, Current
  <2>6. \A c : Current(c) => Current(c)'
    <3>1. \A c : Settled(c)' <=> Settled(c)
      BY <2>1, SettledMeaning
    <3> SUFFICES ASSUME NEW c, Current(c) PROVE Current(c)'
      OBVIOUS
    <3>2. ~Settled(c) /\ \A d \in 1..c - 1 : Settled(d)
      BY DEF Current, Settled, Uninterrupted!Current
    <3>3. ~Settled(c)' /\ \A d \in 1..c - 1 : Settled(d)'
      BY <3>1, <3>2
    <3> QED
      BY <3>3 DEF Current, Settled, Uninterrupted!Current
  <2>7. NoSampleBeyondStop'
    BY <2>1, <2>5, <2>6 DEF NoSampleBeyondStop, Current
  <2>8. \A s \in samples' : s[1] \notin Unmeasurable
    BY <1>0, <2>1, <2>2, <2>4 DEF StopInv
  <2> QED
    BY <2>7, <2>8 DEF StopInv
<1>3. CASE RecordVerdict
  <2>1. /\ pc = "judge" /\ issued \notin recorded
        /\ \E row : verdicts' = [verdicts EXCEPT ![clause] = Append(@, row)]
        /\ UNCHANGED <<samples, outcomes, clause>>
    BY <1>3 DEF RecordVerdict
  <2>2. clause \in Clauses /\ verdicts[clause] \in Seq(VerdictRows) /\ issued \in Nat
    BY <1>1, <2>1 DEF ControlInv, InClause, TypeOK
  <2>3. Current(clause)
    <3>1. issued >= Len(verdicts[clause])
      BY <1>1, <2>1, <2>2 DEF VerdictInv, InClause
    <3> QED
      BY <1>0, <2>1, <3>1, LoopIsCurrent DEF InClause
  <2>4. Len(verdicts'[clause]) = Len(verdicts[clause]) + 1
    <3>1. PICK row : verdicts' = [verdicts EXCEPT ![clause] = Append(@, row)]
      BY <2>1
    <3>2. verdicts'[clause] = Append(verdicts[clause], row)
      BY <1>1, <2>2, <3>1 DEF TypeOK
    <3> QED
      BY <2>2, <3>2
  <2>5. \A d \in Clauses : d # clause => verdicts'[d] = verdicts[d]
    BY <1>1, <2>1 DEF TypeOK
  <2>6. ASSUME NEW s \in samples
        PROVE  s[3] < Len(verdicts'[s[1]])
    <3>1. CASE s[1] = clause
      BY <1>0, <1>1, <2>2, <2>4, <3>1 DEF StopInv, NoSampleBeyondStop
    <3>2. CASE s[1] # clause
      <4>1. ~Current(s[1])
        BY <1>1, <2>2, <2>3, <3>2, OneCurrent
      <4>2. s[3] < Len(verdicts[s[1]])
        BY <1>0, <4>1 DEF StopInv, NoSampleBeyondStop, Current
      <4> QED
        BY <1>1, <2>5, <3>2, <4>2
    <3> QED
      BY <3>1, <3>2
  <2> QED
    BY <1>0, <2>1, <2>6 DEF StopInv, NoSampleBeyondStop
<1>4. CASE RefuseClause
  <2>1. /\ pc = "refuse" /\ outcomes' = outcomes \cup {clause}
        /\ UNCHANGED <<samples, verdicts, clause>>
    BY <1>4 DEF RefuseClause
  <2>2. clause \in Unmeasurable /\ clause \in Clauses
    BY <1>1, <2>1 DEF LoopInv, ClauseKinds, ControlInv
  <2>3. \A d : d # clause => (Settled(d)' <=> Settled(d))
    BY <2>1, SettledMeaning DEF SettledBy
  <2>4. ASSUME NEW s \in samples, Current(s[1])
        PROVE  Current(s[1])'
    <3>1. s[1] # clause /\ s[1] \in Clauses
      BY <1>0, <1>1, <2>2 DEF StopInv
    <3>2. ~Settled(s[1]) /\ \A d \in 1..s[1] - 1 : Settled(d)
      BY <2>4 DEF Current, Settled, Uninterrupted!Current
    <3>3. \A d : Settled(d) => Settled(d)'
      BY <2>1, SettledMeaning DEF SettledBy
    <3>4. ~Settled(s[1])' /\ \A d \in 1..s[1] - 1 : Settled(d)'
      BY <2>3, <3>1, <3>2, <3>3
    <3> QED
      BY <3>4 DEF Current, Settled, Uninterrupted!Current
  <2>5. NoSampleBeyondStop'
    BY <1>0, <2>1, <2>4 DEF StopInv, NoSampleBeyondStop, Current
  <2> QED
    BY <1>0, <2>1, <2>5 DEF StopInv
<1>5. CASE ~(InsertSample \/ RecordVerdict \/ RefuseClause)
  <2> SUFFICES StopFrame
    BY <1>0, FrameStopInv
  <2> USE DEF StopFrame
  <2>1. CASE Rest \/ UNCHANGED vars
    BY <2>1 DEF Rest, vars
  <2>2. CASE StartRun \/ Resume
    BY <2>2 DEF StartRun, Resume
  <2>3. CASE InitRuntime \/ Warmup \/ WarmupSpend \/ RepairBudget
    BY <2>3 DEF InitRuntime, Warmup, WarmupSpend, RepairBudget
  <2>4. CASE EnterClause \/ PassGate \/ CloseGate \/ BudgetAbort
    BY <2>4 DEF EnterClause, PassGate, CloseGate, BudgetAbort
  <2>5. CASE LoadSample \/ CallSubject \/ WriteLedger \/ UpdateSpend
    BY <2>5 DEF LoadSample, CallSubject, WriteLedger, UpdateSpend
  <2>6. CASE ReplayVerdict \/ AdvanceClause
    BY <2>6 DEF ReplayVerdict, AdvanceClause
  <2>7. CASE StampCompleted \/ StampRefused \/ FinishProgress \/ Reconcile
    BY <2>7 DEF StampCompleted, StampRefused, FinishProgress, Reconcile
  <2>8. CASE CallFails \/ Crash
    BY <2>8 DEF CallFails, Crash
  <2> QED
    BY <1>5, <2>1, <2>2, <2>3, <2>4, <2>5, <2>6, <2>7, <2>8 DEF Next, Runner
<1> QED
  BY <1>2, <1>3, <1>4, <1>5

\* No sample past the comparison that an uninterrupted run would record next is
\* ever stored: a resumed run (resume_ablation) stops sampling where the rule of
\* stopping.py ends the loop of _run_clause over the stored verdicts.
THEOREM SamplesStopWithRule == Spec => []NoSampleBeyondStop
<1>1. Spec => []Inv9
  BY InitInv9, NextInv9, PTL DEF Spec
<1>2. Inv9 => NoSampleBeyondStop
  BY DEF Inv9, StopInv
<1> QED
  BY <1>1, <1>2, PTL

\* completed_at is set only on a run whose every clause is at its stop, or was
\* refused and has its outcome row, whatever crashes and resumes came before.
THEOREM StampedRunSettled == Spec => []StampedIsSettled
<1>1. Spec => []Inv7
  BY InitInv7, NextInv7, PTL DEF Spec
<1>2. Inv7 => StampedIsSettled
  BY DEF Inv7, LoopInv
<1> QED
  BY <1>1, <1>2, PTL

\* No clause holds a verdict past the one that ended its loop: a resume that
\* replays the stored verdicts never reopens a clause.
THEOREM RowsStopWithRule == Spec => []NoRowBeyondStop
<1>1. Spec => []Inv7
  BY InitInv7, NextInv7, PTL DEF Spec
<1>2. Inv7 => NoRowBeyondStop
  BY DEF Inv7, LoopInv
<1> QED
  BY <1>1, <1>2, PTL

-----------------------------------------------------------------------------
(***************************************************************************)
(* The refinement                                                          *)
(***************************************************************************)

\* A run that has not started has the evidence of an uninterrupted one.
LEMMA InitRefines == Init => Uninterrupted!Init
BY DEF Init, Uninterrupted!Init, Clauses, Uninterrupted!Clauses

\* The null output in hand at a fresh verdict is counted as the uninterrupted
\* run counts it: one for each row, and one for the comparison at hand.
LEMMA NullsAgree ==
    ASSUME Inv8, pc = "judge", issued >= Len(verdicts[clause])
    PROVE  nulls = Uninterrupted!NullsAtNext
<1>0. Inv7 /\ TypeOK /\ LoopInv /\ NullInv /\ clause \in Clauses
  <2>1. Inv7 /\ TypeOK /\ LoopInv /\ NullInv /\ ControlInv
    BY DEF Inv8, Inv7, Inv3, Inv2, Inv1
  <2> QED
    BY <2>1 DEF ControlInv, InClause
<1>1. Current(clause) /\ issued = Len(verdicts[clause])
  BY <1>0, LoopIsCurrent DEF InClause
<1>2. ASSUME NEW c \in Clauses PROVE SeenIn[c] = Len(verdicts[c])
  <2>1. CASE c < clause
    BY <2>1 DEF SeenIn
  <2>2. CASE c = clause
    <3>1. ~(c < clause)
      BY <1>0, <2>2 DEF Clauses
    <3> QED
      BY <1>1, <2>2, <3>1 DEF SeenIn, InClause
  <2>3. CASE ~(c < clause) /\ c # clause
    <3>1. clause < c
      BY <1>0, <2>3 DEF Clauses
    <3>2. verdicts[c] = <<>>
      BY <1>0, <1>1, <3>1
         DEF LoopInv, ClausesBehind, Current, Settled, Uninterrupted!Current
    <3> QED
      BY <2>3, <3>2 DEF SeenIn
  <2> QED
    BY <2>1, <2>2, <2>3
<1>3. Bars(SeenIn) = UNION {{c} \X (1..Len(verdicts[c])) : c \in Clauses}
  BY <1>2 DEF Bars
<1>4. Cardinality(Bars(SeenIn)) \in Nat
  BY <1>0, SeenType, BarsFinite
<1>5. Uninterrupted!NullsAtNext = 1 + Cardinality(Bars(SeenIn))
  <2>1. Uninterrupted!NullsAtNext =
          1 + Cardinality(UNION {{c} \X (1..Len(verdicts[c])) : c \in Clauses})
    <3>1. \A S : Uninterrupted!Cardinality(S) = Cardinality(S)
      BY DEF Uninterrupted!Cardinality, Cardinality
    <3> QED
      BY <3>1 DEF Uninterrupted!NullsAtNext, Uninterrupted!Clauses, Clauses
  <2> QED
    BY <1>3, <2>1, Zenon
<1> QED
  BY <1>0, <1>4, <1>5 DEF NullInv

\* Every step of the process, the operator or a fault is a step of the
\* uninterrupted run, or changes nothing of what it shows.
LEMMA NextRefines ==
    Inv8 /\ [Next]_vars => [Uninterrupted!Next]_Uninterrupted!vars
<1> SUFFICES ASSUME Inv8, [Next]_vars
             PROVE  Uninterrupted!Next \/ UNCHANGED Uninterrupted!vars
  OBVIOUS
<1> USE DEF evidence, runtime, process, attempt, loop, counts, observers, Goto
<1>0. Inv8 /\ Inv7 /\ TypeOK /\ LoopInv /\ VerdictInv /\ ControlInv
  BY DEF Inv8, Inv7, Inv3, Inv2, Inv1
<1>1. CASE RecordVerdict
  <2>1. PICK row \in ScorableRows :
          verdicts' = [verdicts EXCEPT ![clause] = Append(@, row)]
    BY <1>1 DEF RecordVerdict
  <2>2. pc = "judge" /\ issued \notin recorded /\ UNCHANGED <<runRow, outcomes>>
    BY <1>1 DEF RecordVerdict
  <2>3. /\ clause \in Clauses /\ clause \notin Unmeasurable
        /\ Len(verdicts[clause]) \in Nat /\ issued \in Nat
    BY <1>0, <2>2 DEF ControlInv, LoopInv, ClauseKinds, InClause, TypeOK
  <2>4. issued >= Len(verdicts[clause])
    BY <1>0, <2>2, <2>3 DEF VerdictInv, InClause
  <2>5. Current(clause) /\ issued = Len(verdicts[clause])
    BY <1>0, <2>2, <2>4, LoopIsCurrent DEF InClause
  <2>6. nulls = Uninterrupted!NullsAtNext
    BY <1>0, <2>2, <2>4, NullsAgree
  <2>7. PICK obs \in Observations, admissible \in {FALSE, nulls >= NullFloor} :
          row = [idx |-> issued, obs |-> obs, admissible |-> admissible]
    BY Zenon DEF ScorableRows
  <2>8. verdicts' =
          [verdicts EXCEPT ![clause] =
             Append(@, [idx |-> Len(@), obs |-> obs, admissible |-> admissible])]
    BY <2>1, <2>5, <2>7
  <2>9. Uninterrupted!Measure(clause)
    BY <2>2, <2>3, <2>5, <2>6, <2>7, <2>8
       DEF Uninterrupted!Measure, Current, Observations, Uninterrupted!Observations
  <2> QED
    BY <2>3, <2>9 DEF Uninterrupted!Next, Uninterrupted!Clauses, Clauses
<1>2. CASE RefuseClause
  <2>1. /\ pc = "refuse" /\ outcomes' = outcomes \cup {clause}
        /\ UNCHANGED <<runRow, verdicts>>
    BY <1>2 DEF RefuseClause
  <2>2. clause \in Unmeasurable /\ clause \in Clauses
    BY <1>0, <2>1 DEF LoopInv, ClauseKinds, ControlInv
  <2>3. CASE clause \in outcomes
    BY <2>1, <2>3 DEF Uninterrupted!vars
  <2>4. CASE clause \notin outcomes
    <3>1. \A d \in 1..clause - 1 : d \in Clauses /\ d < clause
      BY <2>2, RunAssumption DEF Clauses
    <3>2. \A d \in 1..clause - 1 : Settled(d)
      BY <1>0, <3>1 DEF LoopInv, ClausesBehind
    <3>3. ~Settled(clause)
      BY <2>2, <2>4 DEF Settled, Uninterrupted!Settled
    <3>4. Uninterrupted!Refuse(clause)
      BY <2>1, <2>2, <3>2, <3>3 DEF Settled, Uninterrupted!Refuse, Uninterrupted!Current
    <3> QED
      BY <2>2, <3>4 DEF Uninterrupted!Next, Uninterrupted!Clauses, Clauses
  <2> QED
    BY <2>3, <2>4
<1>3. CASE StampCompleted
  <2>1. /\ pc = "complete" /\ runRow = "open" /\ runRow' = "completed"
        /\ UNCHANGED <<verdicts, outcomes>>
    BY <1>3 DEF StampCompleted
  <2>2. \A d \in Clauses : d < clause
    BY <1>0, <2>1, RunAssumption DEF LoopInv, ClausesBehind, Clauses
  <2>3. \A d \in Clauses : Settled(d)
    BY <1>0, <2>2 DEF LoopInv, ClausesBehind
  <2>4. Uninterrupted!Stamp
    BY <2>1, <2>3 DEF Settled, Uninterrupted!Stamp, Uninterrupted!Clauses, Clauses
  <2> QED
    BY <2>4 DEF Uninterrupted!Next
<1>4. CASE ~(RecordVerdict \/ RefuseClause \/ StampCompleted)
  <2> SUFFICES /\ UNCHANGED <<verdicts, outcomes>>
               /\ (runRow' = "completed") = (runRow = "completed")
    BY DEF Uninterrupted!vars
  <2>1. CASE Rest \/ UNCHANGED vars
    BY <2>1 DEF Rest, vars
  <2>2. CASE StartRun \/ Resume
    BY <2>2 DEF StartRun, Resume
  <2>3. CASE InitRuntime \/ Warmup \/ WarmupSpend \/ RepairBudget
    BY <2>3 DEF InitRuntime, Warmup, WarmupSpend, RepairBudget
  <2>4. CASE EnterClause \/ PassGate \/ CloseGate \/ BudgetAbort
    BY <2>4 DEF EnterClause, PassGate, CloseGate, BudgetAbort
  <2>5. CASE LoadSample \/ CallSubject \/ WriteLedger \/ UpdateSpend
    BY <2>5 DEF LoadSample, CallSubject, WriteLedger, UpdateSpend
  <2>6. CASE ReplayVerdict \/ AdvanceClause \/ InsertSample
    BY <2>6 DEF ReplayVerdict, AdvanceClause, InsertSample
  <2>7. CASE StampRefused \/ FinishProgress \/ Reconcile
    BY <2>7 DEF StampRefused, FinishProgress, Reconcile
  <2>8. CASE CallFails \/ Crash
    BY <2>8 DEF CallFails, Crash
  <2> QED
    BY <1>4, <2>1, <2>2, <2>3, <2>4, <2>5, <2>6, <2>7, <2>8 DEF Next, Runner
<1> QED
  BY <1>1, <1>2, <1>3, <1>4

\* A run that crashes, fails, is aborted and resumed leaves, step by step, the
\* verdicts, refusals and completed_at that a run without interruption leaves
\* (run_ablation, resume_ablation and _run_clause, against the bare loop).
THEOREM RunIsUninterrupted == Spec => ImplementsUninterruptedRun
<1>1. Spec => []Inv8
  BY InitInv8, NextInv8, PTL DEF Spec
<1> QED
  BY <1>1, InitRefines, NextRefines, PTL
     DEF Spec, ImplementsUninterruptedRun, Uninterrupted!Spec

-----------------------------------------------------------------------------
(***************************************************************************)
(* When the rule is read.  The operating characteristics of the sequential *)
(* test are those of its schedule: a clause may be decided at N_MIN, at a  *)
(* multiple of N_INC and at N_MAX, and at no total in between.             *)
(***************************************************************************)
Looks == {NMin, NMax} \cup {n * NInc : n \in Nat}

\* The state of a loop that reads the rule on schedule.
OnSchedule(x) ==
    /\ x.tally \in Tallies
    /\ x.issued \in 0..NMax
    /\ x.check \in Looks /\ x.check \in Nat /\ x.check <= NMax
    /\ Total(x.tally) <= x.issued
    /\ x.on => Total(x.tally) < x.check /\ x.issued < NMax
    /\ ~x.on => \/ x.issued = NMax
                \/ Decided(x.tally) /\ Total(x.tally) \in Looks

\* A measurable clause that is at its stop has used up its comparisons, or was
\* decided by a threshold that was read at a scheduled total.
DecidedOnSchedule ==
    \A c \in Clauses :
        LET s == After(verdicts[c])[Len(verdicts[c])] IN
        ~s.on => \/ Len(verdicts[c]) = NMax
                 \/ Decided(s.tally) /\ Total(s.tally) \in Looks

\* next_check_at(): the next scheduled total, past the one reached.
LEMMA NextCheckAtSchedule ==
    ASSUME NEW n \in Nat, n < NMax
    PROVE  /\ NextCheckAt(n) \in Looks /\ NextCheckAt(n) \in Nat
           /\ NextCheckAt(n) <= NMax /\ n < NextCheckAt(n)
<1>1. NInc \in Nat \ {0} /\ NMin \in Nat /\ NMax \in Nat /\ NMin <= NMax
  BY ScheduleAssumption
<1>2. CASE n < NMin
  BY <1>1, <1>2 DEF NextCheckAt, Looks
<1>3. CASE ~(n < NMin)
  <2> DEFINE q == n \div NInc
             next == (q + 1) * NInc
  <2>1. q \in Nat /\ q + 1 \in Nat
    BY <1>1
  <2>2. n < next
    BY <1>1
  <2>3. next \in Nat /\ next \in Looks
    BY <1>1, <2>1 DEF Looks
  <2>4. NextCheckAt(n) = AtMost(next, NMax)
    BY <1>3 DEF NextCheckAt
  <2> HIDE DEF next
  <2> QED
    BY <1>1, <2>2, <2>3, <2>4 DEF AtMost, Looks
<1> QED
  BY <1>2, <1>3

\* At the cap next_check_at() stays there.
LEMMA CheckAtEnd ==
    NextCheckAt(NMax) \in Looks /\ NextCheckAt(NMax) \in Nat /\ NextCheckAt(NMax) <= NMax
<1>1. NInc \in Nat \ {0} /\ NMin \in Nat /\ NMax \in Nat /\ NMin <= NMax
  BY ScheduleAssumption
<1> DEFINE q == NMax \div NInc
           next == (q + 1) * NInc
<1>2. NMax < next /\ next \in Nat
  <2>1. q \in Nat /\ q + 1 \in Nat
    BY <1>1
  <2> QED
    BY <1>1, <2>1
<1>3. NextCheckAt(NMax) = AtMost(next, NMax)
  BY <1>1 DEF NextCheckAt
<1> HIDE DEF next
<1> QED
  BY <1>1, <1>2, <1>3 DEF AtMost, Looks

\* A comparison adds at most one to the total.
LEMMA TotalGrows ==
    ASSUME NEW t \in Tallies, NEW obs \in Observations
    PROVE  /\ Add(t, obs) \in Tallies /\ Total(t) \in Nat
           /\ Total(Add(t, obs)) = Total(t) + 1
<1>1. Add(t, obs) \in Tallies
  BY AddType
<1>2. t.xf \in Nat /\ t.xn \in Nat /\ t.ties \in Nat
  BY DEF Tallies
<1> QED
  BY <1>1, <1>2 DEF Total, Add, Observations

\* One more comparison keeps the loop on its schedule.
LEMMA StepOnSchedule ==
    ASSUME NEW t \in Tallies, NEW i \in 0..NMax, NEW k, NEW row \in VerdictRows,
           OnSchedule([tally |-> t, issued |-> i, check |-> k, on |-> TRUE])
    PROVE  OnSchedule(Uninterrupted!LoopStep(
               [tally |-> t, issued |-> i, check |-> k, on |-> TRUE], row))
<1> DEFINE u == IF row.admissible THEN Add(t, row.obs) ELSE t
<1>1. /\ k \in Looks /\ k \in Nat /\ k <= NMax
      /\ Total(t) <= i /\ Total(t) < k /\ i < NMax
  BY DEF OnSchedule
<1>2. /\ u \in Tallies /\ Total(u) \in Nat /\ Total(t) \in Nat
      /\ Total(u) = Total(t) \/ Total(u) = Total(t) + 1
  <2>1. row.obs \in Observations
    BY DEF VerdictRows
  <2> QED
    BY <2>1, TotalGrows
<1>3. NMax \in Nat /\ i \in Nat /\ i + 1 \in 0..NMax
  BY <1>1, ScheduleAssumption
<1>4. Total(u) <= i + 1 /\ Total(u) <= k
  BY <1>1, <1>2, <1>3
<1>5. Uninterrupted!LoopStep(
          [tally |-> t, issued |-> i, check |-> k, on |-> TRUE], row) =
      [tally |-> u, issued |-> i + 1, check |-> NextCheck(u, i + 1, k),
       on |-> LoopGoesOn(u, i + 1, k)]
  BY StepAgrees
<1> HIDE DEF u
<1> DEFINE next == NextCheck(u, i + 1, k)
           on == LoopGoesOn(u, i + 1, k)
<1>6. CASE BelowTarget(u, i + 1, k)
  <2>1. next = k /\ on /\ Total(u) < k /\ i + 1 < NMax
    BY <1>1, <1>2, <1>3, <1>6 DEF NextCheck, LoopGoesOn, BelowTarget, AtMost
  <2> QED
    BY <1>1, <1>2, <1>3, <1>4, <1>5, <2>1 DEF OnSchedule
<1>7. CASE ~BelowTarget(u, i + 1, k)
  <2>1. next = NextCheckAt(Total(u))
    BY <1>7 DEF NextCheck
  <2>2. Total(u) = k \/ i + 1 = NMax
    BY <1>1, <1>2, <1>3, <1>4, <1>7 DEF BelowTarget, AtMost
  <2>3. on <=> ~ShouldStop(u) /\ Total(u) < NMax /\ i + 1 < NMax
    BY <1>7 DEF LoopGoesOn
  <2>4. next \in Looks /\ next \in Nat /\ next <= NMax
    <3>1. CASE Total(u) < NMax
      BY <1>2, <2>1, <3>1, NextCheckAtSchedule
    <3>2. CASE ~(Total(u) < NMax)
      <4>1. Total(u) = NMax
        BY <1>2, <1>3, <1>4, <3>2
      <4> QED
        BY <2>1, <4>1, CheckAtEnd
    <3> QED
      BY <3>1, <3>2
  <2>5. on => Total(u) < next
    BY <1>2, <2>1, <2>3, NextCheckAtSchedule
  <2>6. ~on => i + 1 = NMax \/ (Decided(u) /\ Total(u) \in Looks)
    <3> SUFFICES ASSUME ~on, i + 1 # NMax PROVE Decided(u) /\ Total(u) \in Looks
      OBVIOUS
    <3>1. Total(u) = k /\ k \in Looks /\ i + 1 < NMax
      BY <1>1, <1>3, <2>2
    <3>2. Total(u) < NMax
      BY <1>2, <1>3, <1>4, <3>1
    <3>3. ShouldStop(u)
      BY <2>3, <3>1, <3>2
    <3> QED
      BY <1>2, <1>3, <3>1, <3>2, <3>3 DEF ShouldStop
  <2> HIDE DEF next, on
  <2>7. on => i + 1 < NMax
    BY <2>3
  <2> QED
    BY <1>2, <1>3, <1>4, <1>5, <2>4, <2>5, <2>6, <2>7 DEF OnSchedule, next, on
<1> QED
  BY <1>6, <1>7

\* The state of a loop that goes on is a record of four fields.
LEMMA LoopShape ==
    ASSUME NEW s \in Seq(VerdictRows), NEW n \in 0..Len(s), After(s)[n].on
    PROVE  \E t, k : After(s)[n] =
             [tally |-> t, issued |-> After(s)[n].issued, check |-> k, on |-> TRUE]
<1>1. CASE n = 0
  <2>1. After(s)[n] = [tally |-> EmptyTally, issued |-> 0, check |-> NMin, on |-> TRUE]
    BY <1>1, AfterNone
  <2>2. After(s)[n].issued = 0
    BY <2>1
  <2> QED
    BY <2>1, <2>2
<1>2. CASE n # 0
  <2>1. n \in 1..Len(s)
    BY <1>2
  <2>2. After(s)[n] = Uninterrupted!LoopStep(After(s)[n - 1], s[n])
    BY <2>1, AfterNext
  <2> QED
    BY <2>2 DEF Uninterrupted!LoopStep, Uninterrupted!LoopGoesOn
<1> QED
  BY <1>1, <1>2

\* The loop over rows none of which lies past its stop is on schedule all along.
LEMMA LoopOnSchedule ==
    ASSUME NEW s \in Seq(VerdictRows),
           \A i \in 0..Len(s) - 1 : After(s)[i].on
    PROVE  \A i \in 0..Len(s) : OnSchedule(After(s)[i]) /\ After(s)[i].issued = i
<1> DEFINE Good(i) == OnSchedule(After(s)[i]) /\ After(s)[i].issued = i
           T == {i \in 0..Len(s) : ~Good(i)}
<1> SUFFICES ASSUME T # {} PROVE FALSE
  OBVIOUS
<1>1. Len(s) \in Nat /\ T \subseteq Nat
  OBVIOUS
<1>2. PICK i \in T : \A j \in T : i <= j
  BY <1>1, LeastOf
<1>3. i \in 0..Len(s) /\ ~Good(i)
  OBVIOUS
<1>4. CASE i = 0
  <2>1. After(s)[i] = [tally |-> EmptyTally, issued |-> 0, check |-> NMin, on |-> TRUE]
    BY <1>4, AfterNone
  <2>2. EmptyTally \in Tallies /\ Total(EmptyTally) = 0
    BY DEF EmptyTally, Tallies, Total
  <2> DEFINE x == [tally |-> EmptyTally, issued |-> 0, check |-> NMin, on |-> TRUE]
  <2>3. /\ x.tally = EmptyTally /\ x.issued = 0 /\ x.check = NMin /\ x.on
    OBVIOUS
  <2>4. OnSchedule(x)
    <3>1. /\ NMin \in Nat /\ NMin <= NMax /\ 0 < NMin /\ 0 < NMax
          /\ 0 \in 0..NMax
      BY ScheduleAssumption
    <3>2. NMin \in Looks
      BY DEF Looks
    <3> HIDE DEF x
    <3> QED
      BY <2>2, <2>3, <3>1, <3>2 DEF OnSchedule
  <2>5. Good(i)
    BY <1>4, <2>1, <2>4
  <2> QED
    BY <1>3, <2>5
<1>5. CASE i # 0
  <2>1. /\ i - 1 \in 0..Len(s) /\ i - 1 \in 0..Len(s) - 1 /\ i - 1 \notin T
        /\ i \in 1..Len(s) /\ (i - 1) + 1 = i
    BY <1>1, <1>2, <1>3, <1>5
  <2>2. Good(i - 1) /\ After(s)[i - 1].on
    BY <2>1
  <2>3. s[i] \in VerdictRows
    BY <2>1
  <2>4. After(s)[i] = Uninterrupted!LoopStep(After(s)[i - 1], s[i])
    BY <2>1, AfterNext
  <2>5. PICK t, k : After(s)[i - 1] =
                      [tally |-> t, issued |-> i - 1, check |-> k, on |-> TRUE]
    <3>1. \E t, k : After(s)[i - 1] = [tally |-> t, issued |-> After(s)[i - 1].issued,
                                      check |-> k, on |-> TRUE]
      <4>1. i - 1 \in 0..Len(s) /\ After(s)[i - 1].on
        BY <2>1, <2>2
      <4> HIDE DEF Good, T
      <4> QED
        BY <4>1, LoopShape
    <3>2. After(s)[i - 1].issued = i - 1
      BY <2>2
    <3> QED
      BY <3>1, <3>2
  <2> DEFINE x == [tally |-> t, issued |-> i - 1, check |-> k, on |-> TRUE]
  <2>6. OnSchedule(x) /\ t \in Tallies /\ i - 1 \in 0..NMax
    BY <2>2, <2>5 DEF OnSchedule
  <2>7. OnSchedule(Uninterrupted!LoopStep(x, s[i]))
    BY <2>3, <2>6, StepOnSchedule
  <2>8. Uninterrupted!LoopStep(x, s[i]).issued = i
    <3>1. x.issued + 1 = i
      BY <2>1
    <3> HIDE DEF x
    <3> QED
      BY <3>1 DEF Uninterrupted!LoopStep
  <2>9. Good(i)
    BY <2>4, <2>5, <2>7, <2>8
  <2> QED
    BY <1>3, <2>9
<1> QED
  BY <1>4, <1>5

\* However often a run was interrupted, no clause of it was decided by a look at
\* the data that the schedule of stopping.py does not provide for.
THEOREM NoUnscheduledLook == Spec => []DecidedOnSchedule
<1>1. Spec => []Inv7
  BY InitInv7, NextInv7, PTL DEF Spec
<1>2. ASSUME Inv7 PROVE DecidedOnSchedule
  <2> SUFFICES ASSUME NEW c \in Clauses, ~After(verdicts[c])[Len(verdicts[c])].on
               PROVE  LET s == After(verdicts[c])[Len(verdicts[c])] IN
                      \/ Len(verdicts[c]) = NMax
                      \/ Decided(s.tally) /\ Total(s.tally) \in Looks
    BY DEF DecidedOnSchedule
  <2>1. verdicts[c] \in Seq(VerdictRows) /\ Len(verdicts[c]) \in 0..Len(verdicts[c])
    BY <1>2 DEF Inv7, Inv3, Inv2, Inv1, TypeOK
  <2>2. \A i \in 0..Len(verdicts[c]) - 1 : After(verdicts[c])[i].on
    BY <1>2 DEF Inv7, LoopInv, NoRowBeyondStop
  <2>3. /\ OnSchedule(After(verdicts[c])[Len(verdicts[c])])
        /\ After(verdicts[c])[Len(verdicts[c])].issued = Len(verdicts[c])
    BY <2>1, <2>2, LoopOnSchedule
  <2> QED
    BY <2>3 DEF OnSchedule
<1> QED
  BY <1>1, <1>2, PTL

=============================================================================
