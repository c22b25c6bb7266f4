-------------------------- MODULE AdaptiveLimiter ----------------------------
(***************************************************************************)
(* The adaptive rate limiter (internal/ratelimit/adaptive.go): a sliding   *)
(* window in a Redis sorted set per dimension value, trimmed, counted and  *)
(* extended by three separate commands, and an in-memory table of the      *)
(* values whose limit is tightened.  RedisLimiter.Allow                    *)
(* (ratelimit_redis.go:31-64) is the case of one key never tightened.      *)
(***************************************************************************)
EXTENDS Integers, FiniteSets

CONSTANTS
    Request,       \* the verify requests; each is checked once
    Key,           \* their dimension values: an IP, a fingerprint
    BaseRate,      \* AdaptiveLimiter.baseRate
    Window,        \* AdaptiveLimiter.window, in ticks
    Slots,         \* how many requests are inside AllowMulti at a time
    Faults,        \* Redis commands may fail
    Duration,      \* per key, how long a block tightens it, in ticks
    Admin,         \* administrators may unblock
    MaxTime,       \* bound: the clock stops here
    MaxUnblocks,   \* bound: keys unblocked by administrators
    MaxBlocks      \* bound: requests that are blocked

ASSUME LimiterAssumption ==
    /\ IsFiniteSet(Request)
    /\ BaseRate \in Nat /\ BaseRate >= 4 /\ Window \in Nat \ {0} /\ Slots \in Nat \ {0}
    /\ Faults \in BOOLEAN /\ Admin \in BOOLEAN
    /\ Key # {} /\ Duration \in [Key -> Nat \ {0}]
    /\ MaxTime \in Nat /\ MaxUnblocks \in Nat /\ MaxBlocks \in Nat

VARIABLES
    now,        \* the clock
    zset,       \* per key, the sorted set: entries <<request, score>>
    tightened,  \* per key, until when it is tightened, 0 if it is not
    pc,         \* where each request is
    todo,       \* the dimensions a request has still to check
    cur,        \* the dimension it is checking
    limit,      \* the limit it read for that dimension
    at,         \* the time it read for that dimension
    unblock,    \* per key, how far an administrator's Unblock has come
    unblocks    \* keys unblocked so far

request == <<pc, todo, cur, limit, at>>
admin == <<unblock, unblocks>>
vars == <<now, zset, tightened, request, admin>>

Inside == {"next", "trim", "count", "add"}
Points == Inside \cup {"new", "allowed", "denied", "blocked"}
AnyKey == CHOOSE k \in Key: TRUE

\* baseRate / 4, in integers.
TightRate == BaseRate \div 4

Init ==
    /\ now = 0
    /\ zset = [k \in Key |-> {}]
    /\ tightened = [k \in Key |-> 0]
    /\ pc = [r \in Request |-> "new"]
    /\ todo = [r \in Request |-> Key]
    /\ cur = [r \in Request |-> AnyKey]
    /\ limit = [r \in Request |-> 0]
    /\ at = [r \in Request |-> 0]
    /\ unblock = [k \in Key |-> "idle"] /\ unblocks = 0

Go(r, from, to) ==
    /\ pc[r] = from
    /\ pc' = [pc EXCEPT ![r] = to]

-----------------------------------------------------------------------------
(* AllowMulti *)

Arrive(r) ==
    /\ Cardinality({q \in Request: pc[q] \in Inside}) < Slots
    /\ Go(r, "new", "next")
    /\ UNCHANGED <<now, zset, tightened, todo, cur, limit, at, admin>>

IsTightened(k) == now < tightened[k]

EffectiveRate_Swapped(k) == IF IsTightened(k) THEN BaseRate ELSE TightRate

EffectiveRate(k) == IF IsTightened(k) THEN TightRate ELSE BaseRate

\* The next dimension, in the random order of a Go map.
Dimension(r) ==
    /\ Go(r, "next", "trim")
    /\ \E k \in todo[r]:
        /\ cur' = [cur EXCEPT ![r] = k]
        /\ todo' = [todo EXCEPT ![r] = @ \ {k}]
        /\ limit' = [limit EXCEPT ![r] = EffectiveRate(k)]
    /\ UNCHANGED <<now, zset, tightened, at, admin>>

\* The dimension lets the request pass.
PassTo(r) == IF todo[r] = {} THEN "allowed" ELSE "next"

\* The entries that are still in the window.
Recent(S) == {e \in S: e[2] > now - Window}

Trim_WindowStart(r) ==
    /\ Go(r, "trim", "count")
    /\ at' = [at EXCEPT ![r] = now - Window]
    /\ zset' = [zset EXCEPT ![cur[r]] = Recent(@)]
    /\ UNCHANGED <<now, tightened, todo, cur, limit, admin>>

\* checkDimension reads the clock and trims the set.
Trim(r) ==
    /\ Go(r, "trim", "count")
    /\ at' = [at EXCEPT ![r] = now]
    /\ zset' = [zset EXCEPT ![cur[r]] = Recent(@)]
    /\ UNCHANGED <<now, tightened, todo, cur, limit, admin>>

Count_OffByOne(r) ==
    /\ Go(r, "count",
          IF Cardinality(zset[cur[r]]) > limit[r] THEN "denied" ELSE "add")
    /\ UNCHANGED <<now, zset, tightened, todo, cur, limit, at, admin>>

\* ZCard, compared with the limit.
Count(r) ==
    /\ Go(r, "count",
          IF Cardinality(zset[cur[r]]) >= limit[r] THEN "denied" ELSE "add")
    /\ UNCHANGED <<now, zset, tightened, todo, cur, limit, at, admin>>

\* ZAdd and Expire; the window is the same for all, so the expiry of the key
\* removes nothing that is recent.
Add(r) ==
    /\ Go(r, "add", PassTo(r))
    /\ zset' = [zset EXCEPT ![cur[r]] = @ \cup {<<r, at[r]>>}]
    /\ UNCHANGED <<now, tightened, todo, cur, limit, at, admin>>

\* A failed command leaves the decision to the in-memory token bucket.  A
\* ZAdd may have been executed all the same.
Fallback(r) ==
    /\ Faults
    /\ \E to \in {"denied", PassTo(r)}:
        \/ \E from \in {"trim", "count", "add"}: Go(r, from, to) /\ UNCHANGED zset
        \/ /\ Go(r, "add", to)
           /\ zset' = [zset EXCEPT ![cur[r]] = @ \cup {<<r, at[r]>>}]
    /\ UNCHANGED <<now, tightened, todo, cur, limit, at, admin>>

-----------------------------------------------------------------------------
(* What becomes of an allowed request *)

\* The risk engine blocks it, and RecordBlock begins.
RecordBlock(r) ==
    /\ Cardinality({q \in Request: pc[q] = "blocked"}) < MaxBlocks
    /\ Go(r, "allowed", "blocked")
    /\ todo' = [todo EXCEPT ![r] = Key]
    /\ UNCHANGED <<now, zset, tightened, cur, limit, at, admin>>

\* It tightens the request's dimension values one by one.
Tighten(r) ==
    /\ pc[r] = "blocked"
    /\ \E k \in todo[r]:
        /\ tightened' = [tightened EXCEPT ![k] = now + Duration[k]]
        /\ todo' = [todo EXCEPT ![r] = @ \ {k}]
    /\ UNCHANGED <<now, zset, pc, cur, limit, at, admin>>

-----------------------------------------------------------------------------
(* Administrators, the janitor and the clock *)

\* A deletion in Redis whose error nobody looks at.
Forget(k) ==
    \/ zset' = [zset EXCEPT ![k] = {}]
    \/ Faults /\ UNCHANGED zset

UnblockStep(k, from, to) ==
    /\ unblock[k] = from
    /\ unblock' = [unblock EXCEPT ![k] = to]

\* The admin handler deletes the window,
Purge(k) ==
    /\ Admin /\ unblocks < MaxUnblocks
    /\ UnblockStep(k, "idle", "purged")
    /\ unblocks' = unblocks + 1
    /\ Forget(k)
    /\ UNCHANGED <<now, tightened, request>>

\* then the limiter forgets the tightening
Relax(k) ==
    /\ UnblockStep(k, "purged", "relaxed")
    /\ tightened' = [tightened EXCEPT ![k] = 0]
    /\ UNCHANGED <<now, zset, request, unblocks>>

\* and deletes the window again.
Delete(k) ==
    /\ UnblockStep(k, "relaxed", "idle")
    /\ Forget(k)
    /\ UNCHANGED <<now, tightened, request, unblocks>>

Lapsed_Early(k) == tightened[k] # 0 /\ now < tightened[k]

Lapsed(k) == tightened[k] # 0 /\ now > tightened[k]

\* One round of cleanupLoop.
Cleanup ==
    /\ \E k \in Key: Lapsed(k)
    /\ tightened' = [k \in Key |-> IF Lapsed(k) THEN 0 ELSE tightened[k]]
    /\ UNCHANGED <<now, zset, request, admin>>

Tick ==
    /\ now < MaxTime
    /\ now' = now + 1
    /\ UNCHANGED <<zset, tightened, request, admin>>

Next ==
    \/ \E r \in Request:
        \/ Arrive(r) \/ Dimension(r) \/ Trim(r) \/ Count(r) \/ Add(r)
        \/ Fallback(r) \/ RecordBlock(r) \/ Tighten(r)
    \/ \E k \in Key: Purge(k) \/ Relax(k) \/ Delete(k)
    \/ Cleanup
    \/ Tick

Spec == Init /\ [][Next]_vars

-----------------------------------------------------------------------------
(* What is claimed *)

TypeOK ==
    /\ now \in Nat
    /\ zset \in [Key -> SUBSET (Request \X Nat)]
    /\ tightened \in [Key -> Nat]
    /\ pc \in [Request -> Points]
    /\ todo \in [Request -> SUBSET Key]
    /\ cur \in [Request -> Key]
    /\ limit \in [Request -> Nat]
    /\ at \in [Request -> Nat]
    /\ unblock \in [Key -> {"idle", "purged", "relaxed"}] /\ unblocks \in Nat

\* Requests that were counted in and have not yet been added.
Adding(k) == {r \in Request: pc[r] = "add" /\ cur[r] = k}

\* Counting and adding are separate commands, so a window may exceed its
\* limit, but by less than the number of requests that are inside at once
\* (adaptive.go:80-113).
OvershootBounded ==
    \A k \in Key: Cardinality(zset[k]) + Cardinality(Adding(k)) <= BaseRate + Slots - 1

\* While a key is tightened, the requests that were counted in after the
\* block exceed base_rate / 4 by less than the number of requests that are
\* inside at once, although some of them had read the old limit before it
\* (adaptive.go:63-68, 80-113).
TightenedBounded ==
    \A k \in Key: IsTightened(k) =>
        Cardinality({e \in zset[k]: e[2] > tightened[k] - Duration[k]})
            <= TightRate + Slots - 1

\* Blocks and the janitor share the table of deadlines and never undo each
\* other's work: while a key is tightened, a further block only moves the end
\* further away, and the janitor leaves it alone (adaptive.go:36-42, 115-120,
\* 137-150).  Nothing is said of what else may end a tightening: the
\* administrator's Relax does, and docs/architecture.md:126 would have ten
\* passes in a row do it as well, which nothing implements.
TighteningKept ==
    [][Cleanup \/ (\E r \in Request: Tighten(r)) =>
          \A k \in Key: IsTightened(k) => tightened'[k] >= tightened[k]]_vars

=============================================================================
