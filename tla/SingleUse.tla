------------------------------ MODULE SingleUse ------------------------------
(***************************************************************************)
(* What the verification service promises about a challenge, whatever      *)
(* stores, clocks and restarts lie behind it: a challenge is issued, it is *)
(* redeemed at most once, and never after it has been closed.              *)
(***************************************************************************)
EXTENDS Naturals

CONSTANT Challenge

VARIABLES
    issued,     \* the challenges handed out
    uses,       \* how often each challenge has been redeemed
    closed      \* the challenges that can no longer be redeemed

vars == <<issued, uses, closed>>

Init ==
    /\ issued = {}
    /\ uses = [c \in Challenge |-> 0]
    /\ closed = {}

Issue(c) ==
    /\ c \notin issued
    /\ issued' = issued \cup {c}
    /\ UNCHANGED <<uses, closed>>

Redeem(c) ==
    /\ c \in issued \ closed
    /\ uses[c] = 0
    /\ uses' = [uses EXCEPT ![c] = 1]
    /\ UNCHANGED <<issued, closed>>

\* Time passes or the signing key changes: some challenges close together.
Close(S) ==
    /\ S \subseteq issued
    /\ closed' = closed \cup S
    /\ UNCHANGED <<issued, uses>>

Next ==
    \/ \E c \in Challenge: Issue(c) \/ Redeem(c)
    \/ \E S \in SUBSET issued: Close(S)

Spec == Init /\ [][Next]_vars

=============================================================================
