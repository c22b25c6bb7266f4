-------------------------- MODULE MCCircuitBreaker ---------------------------
(***************************************************************************)
(* CircuitBreaker with two callers, a threshold of two failures and a      *)
(* reset period of one tick.                                               *)
(***************************************************************************)
EXTENDS CircuitBreaker

CONSTANTS r1, r2

TwoCallers == {r1, r2}

=============================================================================
