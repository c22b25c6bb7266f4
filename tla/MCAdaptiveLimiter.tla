------------------------- MODULE MCAdaptiveLimiter ---------------------------
(***************************************************************************)
(* AdaptiveLimiter with a base rate of four (one when tightened), a window *)
(* of two ticks and a fingerprint that a block tightens for two ticks.     *)
(* Behaviours start when three requests have already been through, so that *)
(* three more fill the window beyond its limit.                            *)
(***************************************************************************)
EXTENDS AdaptiveLimiter, TLC

CONSTANTS fp, r1, r2, r3, r4, r5, r6

Earlier == {r1, r2, r3}
Later == {r4, r5, r6}
AllRequests == Earlier \cup Later

MCDuration == [k \in Key |-> 2]

\* A state that Earlier reach alone, before the clock moves.
MCInit ==
    /\ now = 0
    /\ zset = [k \in Key |-> Earlier \X {0}]
    /\ tightened = [k \in Key |-> 0]
    /\ pc = [r \in Request |-> IF r \in Earlier THEN "allowed" ELSE "new"]
    /\ todo = [r \in Request |-> IF r \in Earlier THEN {} ELSE Key]
    /\ cur = [r \in Request |-> AnyKey]
    /\ limit = [r \in Request |-> IF r \in Earlier THEN BaseRate ELSE 0]
    /\ at = [r \in Request |-> 0]
    /\ unblock = [k \in Key |-> "idle"] /\ unblocks = 0

MCSpec == MCInit /\ [][Next]_vars

Live(f, points) == [r \in Request |-> IF pc[r] \in points THEN f[r] ELSE 0]

\* The locals of a handler die with it: no action and no property reads them
\* at the points left out.
View == <<now, zset, tightened, pc, todo, cur, Live(limit, {"trim", "count"}),
          Live(at, {"count", "add"}), admin>>

\* Requests that have, or have not, been through are interchangeable.
Symmetry == Permutations(Earlier) \cup Permutations(Later)

=============================================================================
