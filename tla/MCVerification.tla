--------------------------- MODULE MCVerification ----------------------------
(***************************************************************************)
(* Verification on a small instance.  Two requests race for one challenge, *)
(* on either store, and the clock runs until every nonce is forgotten.     *)
(***************************************************************************)
EXTENDS Verification

CONSTANTS c1, r1, r2

OneChallenge == {c1}
TwoRequests == {r1, r2}

\* No Redis at all, and one that answered when the process started.
NoneOrBoth == {{}, {"limiter", "reputation"}}

=============================================================================
