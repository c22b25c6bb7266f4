--------------------------- MODULE CircuitBreaker ----------------------------
(***************************************************************************)
(* The circuit breaker of RedisClient (internal/storage/redis.go): three   *)
(* atomics that concurrent callers load and store one at a time, a clock,  *)
(* and a Redis that goes away and comes back.                              *)
(*                                                                         *)
(* Only distances in time matter, so lastAttempt is kept as the time that  *)
(* has passed since it, up to Period + 1 which stands for "long ago".      *)
(***************************************************************************)
EXTENDS Integers

CONSTANTS
    Caller,        \* goroutines that use the client
    Threshold,     \* circuitThreshold
    Period,        \* circuitResetPeriod, in ticks
    Cancellations, \* callers may cancel their context while Redis is up
    MaxCount       \* bound: the failure counter saturates here

ASSUME BreakerAssumption ==
    /\ Threshold \in Nat \ {0}
    /\ Period \in Nat
    /\ Cancellations \in BOOLEAN
    /\ MaxCount \in Nat /\ MaxCount >= Threshold

VARIABLES
    up,           \* Redis can be reached
    circuitOpen,  \* RedisClient.circuitOpen
    failures,     \* RedisClient.failures
    age,          \* time since RedisClient.lastAttempt
    pc,           \* where each caller is
    lag           \* time since a caller about to store lastAttempt read the
                  \* clock

breaker == <<circuitOpen, failures, age>>
vars == <<up, breaker, pc, lag>>

LongAgo == Period + 1
Later(t) == IF t < LongAgo THEN t + 1 ELSE t
Count(n) == IF n < MaxCount THEN n + 1 ELSE n

\* Inside Available, around the command, and inside the two record methods.
Points == {"idle", "open", "claim", "ping", "close", "reset",
           "command", "succeeded", "failed", "trip", "stamp"}

\* NewRedisClient: a failed first ping leaves the circuit open and
\* lastAttempt at zero.
Init ==
    /\ up \in BOOLEAN
    /\ circuitOpen = ~up
    /\ failures = 0
    /\ age = LongAgo
    /\ pc = [r \in Caller |-> "idle"]
    /\ lag = [r \in Caller |-> 0]

Go(r, from, to) ==
    /\ pc[r] = from
    /\ pc' = [pc EXCEPT ![r] = to]

-----------------------------------------------------------------------------
(* Available *)

AvailableLoad(r) ==
    /\ Go(r, "idle", IF circuitOpen THEN "open" ELSE "command")
    /\ UNCHANGED <<up, breaker, lag>>

AvailableDue_Inverted(r) ==
    /\ Go(r, "open", IF age > Period THEN "idle" ELSE "claim")
    /\ lag' = [lag EXCEPT ![r] = 0]
    /\ UNCHANGED <<up, breaker>>

\* Load lastAttempt and compare it with the clock.
AvailableDue(r) ==
    /\ Go(r, "open", IF age > Period THEN "claim" ELSE "idle")
    /\ lag' = [lag EXCEPT ![r] = 0]
    /\ UNCHANGED <<up, breaker>>

AvailableClaim_Deadline(r) ==
    /\ Go(r, "claim", "ping")
    /\ age' = lag[r] - Period
    /\ UNCHANGED <<up, circuitOpen, failures, lag>>

\* Store the time that was read before.
AvailableClaim(r) ==
    /\ Go(r, "claim", "ping")
    /\ age' = lag[r]
    /\ UNCHANGED <<up, circuitOpen, failures, lag>>

AvailablePing(r) ==
    /\ Go(r, "ping", IF up THEN "close" ELSE "idle")
    /\ UNCHANGED <<up, breaker, lag>>

AvailableClose(r) ==
    /\ Go(r, "close", "reset")
    /\ circuitOpen' = FALSE
    /\ UNCHANGED <<up, failures, age, lag>>

AvailableReset_Skipped(r) ==
    /\ Go(r, "reset", "command")
    /\ UNCHANGED <<up, breaker, lag>>

AvailableReset(r) ==
    /\ Go(r, "reset", "command")
    /\ failures' = 0
    /\ UNCHANGED <<up, circuitOpen, age, lag>>

-----------------------------------------------------------------------------
(* The command, and what is recorded of it *)

\* The caller wanted no command (Available alone, HealthCheck), or a Get
\* found nothing: neither a success nor a failure.
Neither(r) ==
    /\ Go(r, "command", "idle")
    /\ UNCHANGED <<up, breaker, lag>>

Reply(r) ==
    /\ \/ up /\ Go(r, "command", "succeeded")
       \/ ~up /\ Go(r, "command", "failed")
    /\ UNCHANGED <<up, breaker, lag>>

\* The caller's context ends (the client of the HTTP request went away).
Cancel(r) ==
    /\ Cancellations
    /\ Go(r, "command", "failed")
    /\ UNCHANGED <<up, breaker, lag>>

RecordSuccess(r) ==
    /\ Go(r, "succeeded", "idle")
    /\ failures' = 0
    /\ UNCHANGED <<up, circuitOpen, age, lag>>

\* failures.Add(1), compared with the threshold.
RecordFailure(r) ==
    /\ Go(r, "failed", IF Count(failures) >= Threshold THEN "trip" ELSE "idle")
    /\ failures' = Count(failures)
    /\ UNCHANGED <<up, circuitOpen, age, lag>>

RecordFailureOpen_Forgotten(r) ==
    /\ Go(r, "trip", "stamp")
    /\ UNCHANGED <<up, breaker, lag>>

RecordFailureOpen(r) ==
    /\ Go(r, "trip", "stamp")
    /\ circuitOpen' = TRUE
    /\ UNCHANGED <<up, failures, age, lag>>

RecordFailureStamp(r) ==
    /\ Go(r, "stamp", "idle")
    /\ age' = 0
    /\ UNCHANGED <<up, circuitOpen, failures, lag>>

-----------------------------------------------------------------------------
(* The world *)

Tick ==
    /\ age' = Later(age)
    /\ lag' = [r \in Caller |-> IF pc[r] = "claim" THEN Later(lag[r]) ELSE lag[r]]
    /\ UNCHANGED <<up, circuitOpen, failures, pc>>

RedisFails ==
    /\ up
    /\ up' = FALSE
    /\ UNCHANGED <<breaker, pc, lag>>

RedisReturns ==
    /\ ~up
    /\ up' = TRUE
    /\ UNCHANGED <<breaker, pc, lag>>

Available(r) ==
    \/ AvailableLoad(r) \/ AvailableDue(r) \/ AvailableClaim(r)
    \/ AvailablePing(r) \/ AvailableClose(r) \/ AvailableReset(r)

Record(r) ==
    \/ RecordSuccess(r) \/ RecordFailure(r)
    \/ RecordFailureOpen(r) \/ RecordFailureStamp(r)

Next ==
    \/ \E r \in Caller: Available(r) \/ Neither(r) \/ Reply(r) \/ Cancel(r) \/ Record(r)
    \/ Tick
    \/ RedisFails
    \/ RedisReturns

Spec == Init /\ [][Next]_vars

\* Goroutines run, the clock runs, and there is traffic: callers keep asking
\* whether Redis is available and some of them go on to send a command.
Fairness ==
    /\ WF_vars(Tick)
    /\ \A r \in Caller:
        /\ WF_vars(Available(r))
        /\ WF_vars(Reply(r) \/ Cancel(r) \/ Neither(r))
        /\ SF_vars(Reply(r))
        /\ WF_vars(Record(r))

FairSpec == Spec /\ Fairness

-----------------------------------------------------------------------------
(* What is claimed *)

TypeOK ==
    /\ up \in BOOLEAN /\ circuitOpen \in BOOLEAN
    /\ failures \in 0..MaxCount
    /\ age \in 0..LongAgo
    /\ pc \in [Caller -> Points]
    /\ lag \in [Caller -> 0..LongAgo]

\* The three atomics never come to rest in disagreement: a closed circuit
\* whose counter has reached the threshold means that some caller is still
\* about to open the circuit or to reset the counter.  Otherwise further
\* failures would be needed to notice an outage (redis.go:58-89).
CounterAgrees ==
    ~circuitOpen /\ failures >= Threshold =>
        \E r \in Caller: pc[r] \in {"trip", "reset"}

\* When Redis stays unreachable the circuit opens and stays open, although a
\* probe that succeeded earlier may still close it, and a success may still
\* reset the counter, after the outage began (redis.go:68-89).
OutageIsNoticed == <>[]~up => <>[]circuitOpen

\* When Redis stays reachable and commands no longer fail, the circuit closes
\* and stays closed, in whatever order the stores of lastAttempt, circuitOpen
\* and failures are made (redis.go:58-89).
RecoveryIsNoticed ==
    <>[](up /\ \A r \in Caller: pc[r] # "failed") => <>[]~circuitOpen

=============================================================================
