------------------------------ MODULE LossyLog -------------------------------
(***************************************************************************)
(* What the verification log promises: entries are numbered as they are    *)
(* handed over; an entry is written at most once, in that order, or is     *)
(* lost, and is never both.                                                *)
(***************************************************************************)
EXTENDS Naturals, Sequences

VARIABLES
    offered,  \* how many entries have been handed over
    pending,  \* the accepted entries that are neither written nor lost
    written,  \* the entries in the table, in the order they were written
    lost      \* the entries that will never be written

vars == <<offered, pending, written, lost>>

Init ==
    /\ offered = 0
    /\ pending = <<>>
    /\ written = <<>>
    /\ lost = {}

\* An entry is handed over: accepted at the end, or lost at once.
Offer ==
    /\ offered' = offered + 1
    /\ \/ pending' = Append(pending, offered + 1) /\ lost' = lost
       \/ lost' = lost \cup {offered + 1} /\ pending' = pending
    /\ UNCHANGED written

Write ==
    /\ pending # <<>>
    /\ written' = Append(written, Head(pending))
    /\ pending' = Tail(pending)
    /\ UNCHANGED <<offered, lost>>

\* The next k entries are given up together.
Lose(k) ==
    /\ lost' = lost \cup {pending[i] : i \in 1..k}
    /\ pending' = SubSeq(pending, k + 1, Len(pending))
    /\ UNCHANGED <<offered, written>>

Next == Offer \/ Write \/ \E k \in 1..Len(pending): Lose(k)

Spec == Init /\ [][Next]_vars

=============================================================================
