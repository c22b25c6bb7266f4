------------------------ MODULE CircuitBreakerProofs -------------------------
(***************************************************************************)
(* For any number of callers, any threshold and any period: the breaker's  *)
(* atomics keep their types and never come to rest in disagreement.        *)
(***************************************************************************)
EXTENDS CircuitBreaker, TLAPS

\* The atomics, the callers and the clock keep their types.
THEOREM BreakerTypes == Spec => []TypeOK
<1> USE BreakerAssumption
        DEF TypeOK, LongAgo, Later, Count, Points, Go, breaker, vars
<1>1. Init => TypeOK
  BY DEF Init
<1>2. TypeOK /\ [Next]_vars => TypeOK'
  <2> SUFFICES ASSUME TypeOK, [Next]_vars PROVE TypeOK'
    OBVIOUS
  <2>1. ASSUME NEW r \in Caller, Available(r) PROVE TypeOK'
    <3>1. CASE AvailableLoad(r)
      BY <3>1 DEF AvailableLoad
    <3>2. CASE AvailableDue(r)
      BY <3>2 DEF AvailableDue
    <3>3. CASE AvailableClaim(r)
      BY <3>3 DEF AvailableClaim
    <3>4. CASE AvailablePing(r)
      BY <3>4 DEF AvailablePing
    <3>5. CASE AvailableClose(r)
      BY <3>5 DEF AvailableClose
    <3>6. CASE AvailableReset(r)
      BY <3>6 DEF AvailableReset
    <3>7. QED
      BY <2>1, <3>1, <3>2, <3>3, <3>4, <3>5, <3>6 DEF Available
  <2>2. ASSUME NEW r \in Caller, Neither(r) \/ Reply(r) \/ Cancel(r)
        PROVE  TypeOK'
    BY <2>2 DEF Neither, Reply, Cancel
  <2>3. ASSUME NEW r \in Caller, Record(r) PROVE TypeOK'
    <3>1. CASE RecordSuccess(r)
      BY <3>1 DEF RecordSuccess
    <3>2. CASE RecordFailure(r)
      BY <3>2 DEF RecordFailure
    <3>3. CASE RecordFailureOpen(r)
      BY <3>3 DEF RecordFailureOpen
    <3>4. CASE RecordFailureStamp(r)
      BY <3>4 DEF RecordFailureStamp
    <3>5. QED
      BY <2>3, <3>1, <3>2, <3>3, <3>4 DEF Record
  <2>4. CASE Tick
    BY <2>4 DEF Tick
  <2>5. CASE RedisFails \/ RedisReturns
    BY <2>5 DEF RedisFails, RedisReturns
  <2>6. CASE UNCHANGED vars
    BY <2>6
  <2>7. QED
    BY <2>1, <2>2, <2>3, <2>4, <2>5, <2>6 DEF Next
<1>3. QED
  BY <1>1, <1>2, PTL DEF Spec

\* A circuit that is closed with its counter at the threshold is about to be
\* opened or reset by some caller (redis.go:58-89).
THEOREM CounterSettles == Spec => []CounterAgrees
<1> USE BreakerAssumption
        DEF TypeOK, CounterAgrees, Count, Go, breaker, vars
<1>1. Init => CounterAgrees
  BY DEF Init
<1>2. TypeOK /\ CounterAgrees /\ [Next]_vars => CounterAgrees'
  <2> SUFFICES ASSUME TypeOK, CounterAgrees, [Next]_vars
               PROVE  CounterAgrees'
    OBVIOUS
  <2> SUFFICES ASSUME ~circuitOpen', failures' >= Threshold
               PROVE  \E q \in Caller: pc'[q] \in {"trip", "reset"}
    OBVIOUS
  <2>1. ASSUME NEW r \in Caller, Available(r)
        PROVE  \E q \in Caller: pc'[q] \in {"trip", "reset"}
    <3>1. CASE AvailableClose(r)
      BY <3>1 DEF AvailableClose
    <3>2. CASE AvailableReset(r)
      BY <3>2 DEF AvailableReset
    <3>3. CASE \/ AvailableLoad(r) \/ AvailableDue(r)
               \/ AvailableClaim(r) \/ AvailablePing(r)
      BY <3>3 DEF AvailableLoad, AvailableDue, AvailableClaim, AvailablePing
    <3>4. QED
      BY <2>1, <3>1, <3>2, <3>3 DEF Available
  <2>2. ASSUME NEW r \in Caller, Neither(r) \/ Reply(r) \/ Cancel(r)
        PROVE  \E q \in Caller: pc'[q] \in {"trip", "reset"}
    BY <2>2 DEF Neither, Reply, Cancel
  <2>3. ASSUME NEW r \in Caller, Record(r)
        PROVE  \E q \in Caller: pc'[q] \in {"trip", "reset"}
    <3>1. CASE RecordFailure(r)
      BY <3>1 DEF RecordFailure
    <3>2. CASE RecordSuccess(r) \/ RecordFailureOpen(r)
      BY <3>2 DEF RecordSuccess, RecordFailureOpen
    <3>3. CASE RecordFailureStamp(r)
      BY <3>3 DEF RecordFailureStamp
    <3>4. QED
      BY <2>3, <3>1, <3>2, <3>3 DEF Record
  <2>4. CASE Tick \/ RedisFails \/ RedisReturns \/ UNCHANGED vars
    BY <2>4 DEF Tick, RedisFails, RedisReturns
  <2>5. QED
    BY <2>1, <2>2, <2>3, <2>4 DEF Next
<1>3. QED
  BY <1>1, <1>2, BreakerTypes, PTL DEF Spec

=============================================================================
