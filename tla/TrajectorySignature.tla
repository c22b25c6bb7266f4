------------------------- MODULE TrajectorySignature -------------------------
(***************************************************************************)
(* How the replay scorer compares two trajectories (replay.go:66-146): a   *)
(* signature of at most twenty points, and the similarity of two           *)
(* signatures by their edit distance.  A signature is a sequence of        *)
(* characters, of which only equality matters; <<>> is no signature.       *)
(***************************************************************************)
EXTENDS Integers, SequencesExt

\* computeTrajectorySignature: the indices, from zero, of the points it keeps.
Sampled(len) ==
    LET step == Max({len \div 20, 1})
    IN  {i \in 0..(len - 1): i % step = 0 /\ i \div step < 20}

Cost(x, y) == IF x = y THEN 0 ELSE 1

\* levenshtein, a turn of its outer loop: from the distances of a prefix of a to
\* every prefix of b, those of the prefix that is longer by x, its i-th character.
NextRow(prev, i, x, b) ==
    LET curr[j \in DOMAIN prev] ==
            IF j = 0 THEN [prev EXCEPT ![0] = i]
            ELSE LET c == curr[j - 1]
                 IN  [c EXCEPT ![j] = Min({c[j - 1] + 1, prev[j] + 1,
                                           prev[j - 1] + Cost(x, b[j])})]
    IN  curr[Len(b)]

Levenshtein(a, b) ==
    LET row[i \in 0..Len(a)] ==
            IF i = 0 THEN [j \in 0..Len(b) |-> j] ELSE NextRow(row[i - 1], i, a[i], b)
    IN  row[Len(a)][Len(b)]

\* Whether 1 - distance / maxLen is greater than 1 - percent / 100.
Within(a, b, percent) ==
    /\ a # <<>> /\ b # <<>>
    /\ 100 * Levenshtein(a, b) < percent * Max({Len(a), Len(b)})

\* The two thresholds, 0.92 and 0.8.
Replays(a, b) == Within(a, b, 8)
Resembles(a, b) == Within(a, b, 20)

-----------------------------------------------------------------------------
(* The distance by its definition: the least number of insertions,         *)
(* deletions and replacements of one character.                            *)

Edits(s, Char) ==
    {InsertAt(s, i, x): i \in 1..(Len(s) + 1), x \in Char}
    \cup {RemoveAt(s, i): i \in DOMAIN s}
    \cup {ReplaceAt(s, i, x): i \in DOMAIN s, x \in Char}

EditBall(s, Char, k) ==
    LET ball[n \in 0..k] ==
            IF n = 0 THEN {s}
            ELSE ball[n - 1] \cup UNION {Edits(t, Char): t \in ball[n - 1]}
    IN  ball[k]

IsLevenshtein(a, b, Char) ==
    LET d == Levenshtein(a, b)
    IN  b \in EditBall(a, Char, d) /\ (d > 0 => b \notin EditBall(a, Char, d - 1))

=============================================================================
