---------------------------- MODULE MCRiskEngine -----------------------------
(***************************************************************************)
(* RiskEngine with two evaluations from one address that are clean or as  *)
(* bad as can be, with counters on either side of the thresholds.          *)
(***************************************************************************)
EXTENDS RiskEngine, TLC

CONSTANTS e1, e2, i1, f1, f2, t1, t2, t3

TwoEvaluations == {e1, e2}
OneIp == {i1}
TwoFps == {f1, f2}
\* Signatures of thirteen characters: the second replays the first and the
\* third, which merely resemble each other.
ThreeTrajectories == {t1, t2, t3}
Leading(n) == [i \in 1..13 |-> IF i <= n THEN "a" ELSE "b"]
TheirSignatures == (t1 :> Leading(3)) @@ (t2 :> Leading(4)) @@ (t3 :> Leading(5))

\* Nothing noticed, or all that can be noticed.
SomeHabits == {{}, Sign \ {"nodata"}}

\* Nothing known, at the upper thresholds and above them.
SomeCounts == {[k \in Kinds |-> 0], [k \in Kinds |-> 10], [k \in Kinds |-> 21]}

Symmetry == Permutations(Evaluation) \cup Permutations(Fp)

\* The distance is the least number of edits, for short signatures.
ShortOnes == BoundedSeq({"a", "b"}, 3)

ASSUME DistanceAgrees ==
    \A s, t \in ShortOnes: IsLevenshtein(s, t, {"a", "b"})

\* A signature samples twenty points of any trajectory that has so many, and all
\* the points of one that has fewer.
ASSUME SamplesEnough ==
    \A len \in 0..200: Cardinality(Sampled(len)) = IF len < 20 THEN len ELSE 20

=============================================================================
