----------------------------- MODULE TokenBucket -----------------------------
(***************************************************************************)
(* What the in-memory limiter promises: one bucket of Burst tokens per     *)
(* key, from which every request that is let through takes one.  A client  *)
(* may come under several keys.                                            *)
(***************************************************************************)
EXTENDS Naturals

CONSTANTS Client, Key, KeysOf, Burst

VARIABLES
    tokens,  \* in the bucket of each key
    passed   \* requests of each client that were let through

vars == <<tokens, passed>>

Init ==
    /\ tokens = [k \in Key |-> Burst]
    /\ passed = [c \in Client |-> 0]

Take(c) ==
    /\ \E k \in KeysOf[c]:
        /\ tokens[k] > 0
        /\ tokens' = [tokens EXCEPT ![k] = @ - 1]
    /\ passed' = [passed EXCEPT ![c] = @ + 1]

Refill(k) ==
    /\ tokens[k] < Burst
    /\ tokens' = [tokens EXCEPT ![k] = @ + 1]
    /\ UNCHANGED passed

Next == (\E c \in Client: Take(c)) \/ (\E k \in Key: Refill(k))

Spec == Init /\ [][Next]_vars

=============================================================================
