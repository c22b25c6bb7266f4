----------------------- MODULE AdaptiveLimiterProofs -------------------------
(***************************************************************************)
(* For any number of requests and keys, any rate and any number of         *)
(* requests inside the limiter at once: a window exceeds its limit by less *)
(* than that number, and so does the part of a tightened window that came  *)
(* after the block exceed base_rate / 4.  Nothing but a relaxation ends a   *)
(* tightening early.                                                       *)
(***************************************************************************)
EXTENDS AdaptiveLimiter, FiniteSetTheorems, TLAPS

\* A request holds no limit above the base rate.
LimitOK == \A r \in Request: limit[r] <= BaseRate

LEMMA RateOK ==
    /\ TightRate \in Nat /\ TightRate <= BaseRate
    /\ \A k \in Key: EffectiveRate(k) \in Nat /\ EffectiveRate(k) <= BaseRate
  BY LimiterAssumption DEF TightRate, EffectiveRate

\* The limiter keeps its types whatever fails and whoever intervenes
\* (adaptive.go).
THEOREM LimiterTypes == Spec => [](TypeOK /\ LimitOK)
<1> USE LimiterAssumption
        DEF TypeOK, LimitOK, Points, Inside, Go, request, admin, vars
<1>1. Init => TypeOK /\ LimitOK
  BY DEF Init, AnyKey
<1>2. TypeOK /\ LimitOK /\ [Next]_vars => (TypeOK /\ LimitOK)'
  <2> SUFFICES ASSUME TypeOK, LimitOK, [Next]_vars
               PROVE  (TypeOK /\ LimitOK)'
    OBVIOUS
  <2>1. ASSUME NEW r \in Request, Arrive(r) PROVE (TypeOK /\ LimitOK)'
    BY <2>1 DEF Arrive
  <2>2. ASSUME NEW r \in Request, Dimension(r) PROVE (TypeOK /\ LimitOK)'
    BY <2>2, RateOK DEF Dimension
  <2>3. ASSUME NEW r \in Request, Trim(r) PROVE (TypeOK /\ LimitOK)'
    BY <2>3 DEF Trim, Recent
  <2>4. ASSUME NEW r \in Request, Count(r) PROVE (TypeOK /\ LimitOK)'
    BY <2>4 DEF Count
  <2>5. ASSUME NEW r \in Request, Add(r) \/ Fallback(r)
        PROVE  (TypeOK /\ LimitOK)'
    <3>1. CASE Add(r)
      BY <3>1 DEF Add, PassTo
    <3>2. CASE Fallback(r)
      BY <3>2 DEF Fallback, PassTo
    <3>3. QED
      BY <2>5, <3>1, <3>2
  <2>6. ASSUME NEW r \in Request, RecordBlock(r) PROVE (TypeOK /\ LimitOK)'
    BY <2>6 DEF RecordBlock
  <2>7. ASSUME NEW r \in Request, Tighten(r) PROVE (TypeOK /\ LimitOK)'
    BY <2>7 DEF Tighten
  <2>8. ASSUME NEW k \in Key, Purge(k) \/ Relax(k) \/ Delete(k)
        PROVE  (TypeOK /\ LimitOK)'
    <3>1. CASE Purge(k)
      BY <3>1 DEF Purge, UnblockStep, Forget
    <3>2. CASE Relax(k)
      BY <3>2 DEF Relax, UnblockStep
    <3>3. CASE Delete(k)
      BY <3>3 DEF Delete, UnblockStep, Forget
    <3>4. QED
      BY <2>8, <3>1, <3>2, <3>3
  <2>9. CASE Cleanup \/ Tick \/ UNCHANGED vars
    BY <2>9 DEF Cleanup, Tick
  <2>10. QED
    BY <2>1, <2>2, <2>3, <2>4, <2>5, <2>6, <2>7, <2>8, <2>9 DEF Next
<1>3. QED
  BY <1>1, <1>2, PTL DEF Spec

-----------------------------------------------------------------------------
(* The overshoot *)

\* The requests inside the limiter.
InsideSet == {q \in Request: pc[q] \in Inside}

SlotsKept == Cardinality(InsideSet) <= Slots

WindowsFinite == \A k \in Key: IsFiniteSet(zset[k])

LimiterInv == TypeOK /\ LimitOK /\ SlotsKept /\ WindowsFinite /\ OvershootBounded

\* The sets of requests are finite, and those being added are inside.
LEMMA RequestSets ==
    ASSUME NEW k \in Key
    PROVE  /\ IsFiniteSet(InsideSet) /\ Cardinality(InsideSet) \in Nat
           /\ IsFiniteSet(Adding(k)) /\ Cardinality(Adding(k)) \in Nat
           /\ Cardinality(Adding(k)) <= Cardinality(InsideSet)
<1>1. InsideSet \in SUBSET Request /\ Adding(k) \in SUBSET InsideSet
  BY DEF InsideSet, Adding, Inside
<1>2. IsFiniteSet(InsideSet)
  BY <1>1, FS_Subset, LimiterAssumption
<1>3. IsFiniteSet(Adding(k)) /\ Cardinality(Adding(k)) <= Cardinality(InsideSet)
  BY <1>1, <1>2, FS_Subset
<1>4. QED
  BY <1>2, <1>3, FS_CardinalityType

\* Whoever leaves the limiter or moves on inside it keeps the slots.
LEMMA SlotsStay ==
    ASSUME LimiterInv, InsideSet' \subseteq InsideSet
    PROVE  SlotsKept'
<1>1. IsFiniteSet(InsideSet) /\ Cardinality(InsideSet) \in Nat
  <2>1. InsideSet \in SUBSET Request
    BY DEF InsideSet
  <2>2. QED
    BY <2>1, FS_Subset, FS_CardinalityType, LimiterAssumption
<1>2. IsFiniteSet(InsideSet') /\ Cardinality(InsideSet') <= Cardinality(InsideSet)
  BY <1>1, FS_Subset
<1>3. Cardinality(InsideSet') \in Nat
  BY <1>2, FS_CardinalityType
<1>4. QED
  BY <1>1, <1>2, <1>3, LimiterAssumption DEF LimiterInv, SlotsKept

\* Windows that only shrink, and additions that are only abandoned, keep the
\* bound.
LEMMA Shrinking ==
    ASSUME LimiterInv,
           \A k \in Key: zset'[k] \subseteq zset[k] /\ Adding(k)' \subseteq Adding(k)
    PROVE  WindowsFinite' /\ OvershootBounded'
<1> SUFFICES ASSUME NEW k \in Key
             PROVE  /\ IsFiniteSet(zset'[k])
                    /\ Cardinality(zset'[k]) + Cardinality(Adding(k)')
                         <= BaseRate + Slots - 1
  BY DEF WindowsFinite, OvershootBounded
<1>1. IsFiniteSet(zset[k]) /\ Cardinality(zset[k]) \in Nat
  BY FS_CardinalityType DEF LimiterInv, WindowsFinite
<1>2. /\ IsFiniteSet(zset'[k]) /\ Cardinality(zset'[k]) \in Nat
      /\ Cardinality(zset'[k]) <= Cardinality(zset[k])
  BY <1>1, FS_Subset, FS_CardinalityType
<1>3. IsFiniteSet(Adding(k)) /\ Cardinality(Adding(k)) \in Nat
  BY RequestSets
<1>4. Cardinality(Adding(k)') \in Nat /\ Cardinality(Adding(k)') <= Cardinality(Adding(k))
  BY <1>3, FS_Subset, FS_CardinalityType
<1>5. Cardinality(zset[k]) + Cardinality(Adding(k)) <= BaseRate + Slots - 1
  BY DEF LimiterInv, OvershootBounded
<1>6. QED
  BY <1>1, <1>2, <1>3, <1>4, <1>5, LimiterAssumption

\* A request that is added moves from the additions to the window.
LEMMA Moving ==
    ASSUME LimiterInv, NEW r \in Request, NEW e, pc[r] = "add",
           zset' = [zset EXCEPT ![cur[r]] = @ \cup {e}],
           cur' = cur, NEW to \in Points \ {"add"}, pc' = [pc EXCEPT ![r] = to]
    PROVE  WindowsFinite' /\ OvershootBounded'
<1> SUFFICES ASSUME NEW k \in Key
             PROVE  /\ IsFiniteSet(zset'[k])
                    /\ Cardinality(zset'[k]) + Cardinality(Adding(k)')
                         <= BaseRate + Slots - 1
  BY DEF WindowsFinite, OvershootBounded
<1>1. IsFiniteSet(zset[k]) /\ Cardinality(zset[k]) \in Nat
  BY FS_CardinalityType DEF LimiterInv, WindowsFinite
<1>2. IsFiniteSet(Adding(k)) /\ Cardinality(Adding(k)) \in Nat
  BY RequestSets
<1>3. Cardinality(zset[k]) + Cardinality(Adding(k)) <= BaseRate + Slots - 1
  BY DEF LimiterInv, OvershootBounded
<1>4. CASE k = cur[r]
  <2>1. zset'[k] = zset[k] \cup {e}
    BY <1>4 DEF LimiterInv, TypeOK
  <2>2. r \in Adding(k) /\ Adding(k)' = Adding(k) \ {r}
    BY <1>4 DEF LimiterInv, TypeOK, Adding, Points
  <2>3. /\ IsFiniteSet(zset'[k])
        /\ \/ Cardinality(zset'[k]) = Cardinality(zset[k])
           \/ Cardinality(zset'[k]) = Cardinality(zset[k]) + 1
    BY <1>1, <2>1, FS_AddElement
  <2>4. Cardinality(Adding(k)') = Cardinality(Adding(k)) - 1
    BY <1>2, <2>2, FS_RemoveElement
  <2>5. QED
    BY <1>1, <1>2, <1>3, <2>3, <2>4, LimiterAssumption
<1>5. CASE k # cur[r]
  <2>1. zset'[k] = zset[k]
    BY <1>5 DEF LimiterInv, TypeOK
  <2>2. Adding(k)' = Adding(k)
    BY <1>5 DEF LimiterInv, TypeOK, Adding
  <2>3. QED
    BY <1>1, <1>3, <2>1, <2>2
<1>6. QED
  BY <1>4, <1>5

\* A request that is counted in finds room, and its fellows inside fill at
\* most the other slots.
LEMMA Counting ==
    ASSUME LimiterInv, NEW r \in Request, Count(r), SlotsKept'
    PROVE  WindowsFinite' /\ OvershootBounded'
<1> USE DEF LimiterInv, TypeOK
<1>1. zset' = zset /\ cur' = cur /\ pc[r] = "count"
  BY DEF Count, Go
<1>2. CASE Cardinality(zset[cur[r]]) >= limit[r]
  <2>1. pc' = [pc EXCEPT ![r] = "denied"]
    BY <1>2 DEF Count, Go
  <2>2. \A k \in Key: Adding(k)' \subseteq Adding(k)
    BY <1>1, <2>1 DEF Adding
  <2>3. QED
    BY <1>1, <2>2, Shrinking
<1>3. CASE ~(Cardinality(zset[cur[r]]) >= limit[r])
  <2>1. pc' = [pc EXCEPT ![r] = "add"]
    BY <1>3 DEF Count, Go
  <2>2. WindowsFinite'
    BY <1>1 DEF WindowsFinite
  <2>3. ASSUME NEW k \in Key
        PROVE  Cardinality(zset'[k]) + Cardinality(Adding(k)') <= BaseRate + Slots - 1
    <3>1. CASE k = cur[r]
      <4>1. Cardinality(zset[k]) \in Nat
        BY FS_CardinalityType DEF WindowsFinite
      <4>2. limit[r] \in Nat /\ limit[r] <= BaseRate
        BY DEF LimitOK
      <4>3. Cardinality(zset[k]) < limit[r]
        BY <1>3, <3>1, <4>1, <4>2
      <4>4. InsideSet' \in SUBSET Request /\ Adding(k)' \in SUBSET InsideSet'
        BY DEF InsideSet, Adding, Inside
      <4>5. IsFiniteSet(InsideSet')
        BY <4>4, FS_Subset, LimiterAssumption
      <4>6. /\ Cardinality(InsideSet') \in Nat
            /\ Cardinality(Adding(k)') \in Nat
            /\ Cardinality(Adding(k)') <= Cardinality(InsideSet')
        BY <4>4, <4>5, FS_Subset, FS_CardinalityType
      <4>7. Cardinality(InsideSet') <= Slots
        BY DEF SlotsKept
      <4>8. QED
        BY <1>1, <4>1, <4>2, <4>3, <4>6, <4>7, LimiterAssumption
    <3>2. CASE k # cur[r]
      <4>1. Adding(k)' = Adding(k)
        BY <1>1, <2>1, <3>2 DEF Adding
      <4>2. QED
        BY <1>1, <4>1 DEF OvershootBounded
    <3>3. QED
      BY <3>1, <3>2
  <2>4. QED
    BY <2>2, <2>3 DEF OvershootBounded
<1>4. QED
  BY <1>2, <1>3

\* A request takes a slot only when one is free.
LEMMA Arriving ==
    ASSUME LimiterInv, NEW r \in Request, Arrive(r)
    PROVE  SlotsKept'
<1>1. InsideSet' \subseteq InsideSet \cup {r}
  BY DEF LimiterInv, TypeOK, Arrive, Go, InsideSet
<1>2. Cardinality(InsideSet) < Slots
  BY DEF Arrive, InsideSet
<1>3. IsFiniteSet(InsideSet) /\ Cardinality(InsideSet) \in Nat
  <2>1. InsideSet \in SUBSET Request
    BY DEF InsideSet
  <2>2. QED
    BY <2>1, FS_Subset, FS_CardinalityType, LimiterAssumption
<1>4. /\ IsFiniteSet(InsideSet \cup {r})
      /\ \/ Cardinality(InsideSet \cup {r}) = Cardinality(InsideSet)
         \/ Cardinality(InsideSet \cup {r}) = Cardinality(InsideSet) + 1
  BY <1>3, FS_AddElement
<1>5. /\ Cardinality(InsideSet') \in Nat
      /\ Cardinality(InsideSet') <= Cardinality(InsideSet \cup {r})
  BY <1>1, <1>4, FS_Subset, FS_CardinalityType
<1>6. QED
  BY <1>2, <1>3, <1>4, <1>5, LimiterAssumption DEF SlotsKept

\* No step gives away more slots than there are.
LEMMA SlotsInductive == LimiterInv /\ [Next]_vars => SlotsKept'
<1> SUFFICES ASSUME LimiterInv, [Next]_vars
             PROVE  SlotsKept'
  OBVIOUS
<1> USE DEF LimiterInv, TypeOK
<1>1. ASSUME NEW r \in Request, Arrive(r) PROVE SlotsKept'
  BY <1>1, Arriving
<1>2. ASSUME NEW r \in Request, NEW from \in Inside, NEW to \in Points, Go(r, from, to)
      PROVE  SlotsKept'
  BY <1>2, SlotsStay DEF Go, InsideSet
<1>3. ASSUME NEW r \in Request, Dimension(r) \/ Trim(r) \/ Count(r)
      PROVE  SlotsKept'
  BY <1>2, <1>3 DEF Dimension, Trim, Count, Inside, Points
<1>4. ASSUME NEW r \in Request, Add(r) \/ Fallback(r) PROVE SlotsKept'
  BY <1>2, <1>4 DEF Add, Fallback, PassTo, Inside, Points
<1>5. ASSUME NEW r \in Request, RecordBlock(r) \/ Tighten(r) PROVE SlotsKept'
  BY <1>5, SlotsStay DEF RecordBlock, Tighten, Go, InsideSet, Inside
<1>6. ASSUME NEW k \in Key, Purge(k) \/ Relax(k) \/ Delete(k) PROVE SlotsKept'
  BY <1>6, SlotsStay DEF Purge, Relax, Delete, request, InsideSet
<1>7. CASE Cleanup \/ Tick \/ UNCHANGED vars
  BY <1>7, SlotsStay DEF Cleanup, Tick, request, vars, InsideSet
<1>8. QED
  BY <1>1, <1>3, <1>4, <1>5, <1>6, <1>7 DEF Next

\* No step lets a window outgrow the bound.
LEMMA OvershootInductive ==
    LimiterInv /\ [Next]_vars => WindowsFinite' /\ OvershootBounded'
<1> SUFFICES ASSUME LimiterInv, [Next]_vars
             PROVE  WindowsFinite' /\ OvershootBounded'
  OBVIOUS
<1> USE DEF LimiterInv, TypeOK
<1>1. ASSUME NEW r \in Request, NEW from \in Points, NEW to \in Points \ {"add"},
             Go(r, from, to), zset' = zset, cur' = cur
      PROVE  WindowsFinite' /\ OvershootBounded'
  <2>1. \A k \in Key: zset'[k] \subseteq zset[k] /\ Adding(k)' \subseteq Adding(k)
    BY <1>1 DEF Go, Adding
  <2>2. QED
    BY <2>1, Shrinking
<1>2. ASSUME NEW r \in Request, Arrive(r) \/ RecordBlock(r) \/ Tighten(r)
      PROVE  WindowsFinite' /\ OvershootBounded'
  <2>1. CASE Arrive(r) \/ RecordBlock(r)
    BY <1>1, <2>1 DEF Arrive, RecordBlock, Points, Inside
  <2>2. CASE Tighten(r)
    <3>1. \A k \in Key: zset'[k] \subseteq zset[k] /\ Adding(k)' \subseteq Adding(k)
      BY <2>2 DEF Tighten, Adding
    <3>2. QED
      BY <3>1, Shrinking
  <2>3. QED
    BY <1>2, <2>1, <2>2
<1>3. ASSUME NEW r \in Request, Dimension(r) \/ Trim(r)
      PROVE  WindowsFinite' /\ OvershootBounded'
  <2>1. \A k \in Key: zset'[k] \subseteq zset[k] /\ Adding(k)' \subseteq Adding(k)
    BY <1>3 DEF Dimension, Trim, Recent, Go, Adding
  <2>2. QED
    BY <2>1, Shrinking
<1>4. ASSUME NEW r \in Request, Count(r)
      PROVE  WindowsFinite' /\ OvershootBounded'
  BY <1>4, SlotsInductive, Counting
<1>5. ASSUME NEW r \in Request, Add(r)
      PROVE  WindowsFinite' /\ OvershootBounded'
  <2>1. PassTo(r) \in Points \ {"add"}
    BY DEF PassTo, Points, Inside
  <2>2. QED
    BY <1>5, <2>1, Moving DEF Add, Go
<1>6. ASSUME NEW r \in Request, Fallback(r)
      PROVE  WindowsFinite' /\ OvershootBounded'
  <2>1. PICK to \in {"denied", PassTo(r)}:
          \/ \E from \in {"trim", "count", "add"}: Go(r, from, to) /\ UNCHANGED zset
          \/ /\ Go(r, "add", to)
             /\ zset' = [zset EXCEPT ![cur[r]] = @ \cup {<<r, at[r]>>}]
    BY <1>6 DEF Fallback
  <2>2. to \in Points \ {"add"} /\ cur' = cur
    BY <1>6 DEF Fallback, PassTo, Points, Inside
  <2>3. CASE \E from \in {"trim", "count", "add"}: Go(r, from, to) /\ UNCHANGED zset
    BY <1>1, <2>2, <2>3 DEF Points, Inside
  <2>4. CASE /\ Go(r, "add", to)
             /\ zset' = [zset EXCEPT ![cur[r]] = @ \cup {<<r, at[r]>>}]
    BY <2>2, <2>4, Moving DEF Go
  <2>5. QED
    BY <2>1, <2>3, <2>4
<1>7. ASSUME NEW k \in Key, Purge(k) \/ Relax(k) \/ Delete(k)
      PROVE  WindowsFinite' /\ OvershootBounded'
  <2>1. \A j \in Key: zset'[j] \subseteq zset[j] /\ Adding(j)' \subseteq Adding(j)
    BY <1>7 DEF Purge, Relax, Delete, Forget, request, Adding
  <2>2. QED
    BY <2>1, Shrinking
<1>8. CASE Cleanup \/ Tick \/ UNCHANGED vars
  <2>1. \A k \in Key: zset'[k] \subseteq zset[k] /\ Adding(k)' \subseteq Adding(k)
    BY <1>8 DEF Cleanup, Tick, request, vars, Adding
  <2>2. QED
    BY <2>1, Shrinking
<1>9. QED
  BY <1>2, <1>3, <1>4, <1>5, <1>6, <1>7, <1>8 DEF Next

\* At the start every slot is free and every window empty.
LEMMA LimiterStarts == Init => SlotsKept /\ WindowsFinite /\ OvershootBounded
<1> SUFFICES ASSUME Init
             PROVE  SlotsKept /\ WindowsFinite /\ OvershootBounded
  OBVIOUS
<1>1. InsideSet = {} /\ \A k \in Key: zset[k] = {} /\ Adding(k) = {}
  BY DEF Init, InsideSet, Inside, Adding
<1>2. Cardinality({}) = 0 /\ IsFiniteSet({})
  BY FS_EmptySet
<1>3. SlotsKept
  BY <1>1, <1>2, LimiterAssumption DEF SlotsKept
<1>4. WindowsFinite
  BY <1>1, <1>2 DEF WindowsFinite
<1>5. OvershootBounded
  <2>1. ASSUME NEW k \in Key
        PROVE  Cardinality(zset[k]) + Cardinality(Adding(k)) <= BaseRate + Slots - 1
    <3>1. Cardinality(zset[k]) = 0 /\ Cardinality(Adding(k)) = 0
      BY <1>1, <1>2, Zenon
    <3>2. 0 + 0 <= BaseRate + Slots - 1
      BY LimiterAssumption
    <3>3. QED
      BY <3>1, <3>2
  <2>2. QED
    BY <2>1 DEF OvershootBounded
<1>6. QED
  BY <1>3, <1>4, <1>5

\* A window never exceeds the base rate by as many requests as are inside the
\* limiter at once: for every number of requests, keys and slots, and with
\* Redis failing at any command (adaptive.go:80-113).
THEOREM OvershootIsBounded == Spec => []OvershootBounded
<1>1. Init => SlotsKept /\ WindowsFinite /\ OvershootBounded
  BY LimiterStarts
<1>2. /\ TypeOK /\ LimitOK /\ SlotsKept /\ WindowsFinite /\ OvershootBounded
      /\ [Next]_vars
      => (SlotsKept /\ WindowsFinite /\ OvershootBounded)'
  BY SlotsInductive, OvershootInductive DEF LimiterInv
<1>3. QED
  BY <1>1, <1>2, LimiterTypes, PTL DEF Spec

-----------------------------------------------------------------------------
(* The overshoot of a tightened key *)

\* What was added to a window since its key was tightened.
Since(k) == {e \in zset[k]: e[2] > tightened[k] - Duration[k]}

\* The requests that may still be added although they know of no tightening,
\* or have been counted in.
Unsettled(k) ==
    {r \in Request:
        /\ cur[r] = k
        /\ pc[r] = "add" \/ (pc[r] \in {"trim", "count"} /\ limit[r] > TightRate)}

\* Together they exceed the tightened rate by less than the slots.
TightBound(k) ==
    Cardinality(Since(k)) + Cardinality(Unsettled(k)) <= TightRate + Slots - 1

Tight == \A k \in Key: IsTightened(k) => TightBound(k)

\* Nothing comes from the future.
Timely ==
    /\ \A r \in Request: at[r] <= now
    /\ \A k \in Key: \A e \in zset[k]: e[2] <= now

LEMMA TightSets ==
    ASSUME LimiterInv, NEW k \in Key
    PROVE  /\ IsFiniteSet(Since(k)) /\ Cardinality(Since(k)) \in Nat
           /\ Cardinality(Since(k)) <= Cardinality(zset[k])
           /\ Cardinality(zset[k]) \in Nat
           /\ IsFiniteSet(Unsettled(k)) /\ Cardinality(Unsettled(k)) \in Nat
           /\ Cardinality(Unsettled(k)) <= Slots
<1>1. IsFiniteSet(zset[k]) /\ Since(k) \in SUBSET zset[k]
  BY DEF LimiterInv, WindowsFinite, Since
<1>2. InsideSet \in SUBSET Request /\ Unsettled(k) \in SUBSET InsideSet
  BY DEF InsideSet, Unsettled, Inside
<1>3. IsFiniteSet(InsideSet) /\ Cardinality(InsideSet) \in Nat
  BY <1>2, FS_Subset, FS_CardinalityType, LimiterAssumption
<1>4. /\ IsFiniteSet(Since(k)) /\ Cardinality(Since(k)) \in Nat
      /\ Cardinality(Since(k)) <= Cardinality(zset[k]) /\ Cardinality(zset[k]) \in Nat
  BY <1>1, FS_Subset, FS_CardinalityType
<1>5. /\ IsFiniteSet(Unsettled(k)) /\ Cardinality(Unsettled(k)) \in Nat
      /\ Cardinality(Unsettled(k)) <= Cardinality(InsideSet)
  BY <1>2, <1>3, FS_Subset, FS_CardinalityType
<1> QED
  BY <1>3, <1>4, <1>5, LimiterAssumption DEF LimiterInv, SlotsKept

\* What only shrinks stays bounded.
LEMMA TightShrinking ==
    ASSUME LimiterInv, NEW k \in Key, TightBound(k),
           Since(k)' \subseteq Since(k), Unsettled(k)' \subseteq Unsettled(k)
    PROVE  TightBound(k)'
<1>1. /\ Cardinality(Since(k)') \in Nat /\ Cardinality(Since(k)') <= Cardinality(Since(k))
      /\ Cardinality(Since(k)) \in Nat
  BY TightSets, FS_Subset, FS_CardinalityType
<1>2. /\ Cardinality(Unsettled(k)') \in Nat
      /\ Cardinality(Unsettled(k)') <= Cardinality(Unsettled(k))
      /\ Cardinality(Unsettled(k)) \in Nat
  BY TightSets, FS_Subset, FS_CardinalityType
<1>3. TightRate' = TightRate /\ TightRate \in Nat
  BY RateOK DEF TightRate
<1> QED
  BY <1>1, <1>2, <1>3, LimiterAssumption DEF TightBound

\* A key that is tightened now has an empty account, and at most every slot
\* holds a request that does not know.
LEMMA TightFresh ==
    ASSUME SlotsKept', NEW k \in Key, Since(k)' = {}
    PROVE  TightBound(k)'
<1>1. Cardinality(Since(k)') = 0
  BY FS_EmptySet
<1>2. InsideSet' \in SUBSET Request /\ Unsettled(k)' \in SUBSET InsideSet'
  BY DEF InsideSet, Unsettled, Inside
<1>3. IsFiniteSet(InsideSet') /\ Cardinality(InsideSet') \in Nat
  BY <1>2, FS_Subset, FS_CardinalityType, LimiterAssumption
<1>4. /\ Cardinality(Unsettled(k)') \in Nat
      /\ Cardinality(Unsettled(k)') <= Cardinality(InsideSet')
  BY <1>2, <1>3, FS_Subset, FS_CardinalityType
<1>5. TightRate \in Nat /\ TightRate >= 1
  BY LimiterAssumption DEF TightRate
<1> QED
  BY <1>1, <1>3, <1>4, <1>5, LimiterAssumption DEF TightBound, SlotsKept

\* A request that is counted in while its key is tightened finds fewer than the
\* tightened rate, or was unsettled before.
LEMMA TightCounting ==
    ASSUME LimiterInv, SlotsKept', NEW r \in Request, Count(r), NEW k \in Key,
           TightBound(k)
    PROVE  TightBound(k)'
<1> USE DEF LimiterInv, TypeOK
<1>1. /\ UNCHANGED <<now, zset, tightened, cur, limit>> /\ pc[r] = "count"
      /\ \A q \in Request: q # r => pc'[q] = pc[q]
  BY DEF Count, Go
<1>2. Since(k)' = Since(k)
  BY <1>1 DEF Since
<1>3. CASE Unsettled(k)' \subseteq Unsettled(k)
  BY <1>2, <1>3, TightShrinking
<1>4. CASE ~(Unsettled(k)' \subseteq Unsettled(k))
  <2>1. pc'[r] = "add" /\ cur[r] = k /\ ~(limit[r] > TightRate)
    BY <1>1, <1>4 DEF Unsettled, Count, Go
  <2>2. ~(Cardinality(zset[k]) >= limit[r])
    BY <2>1 DEF Count, Go
  <2>3. limit[r] \in Nat /\ TightRate \in Nat
    BY RateOK
  <2>4. /\ Cardinality(Since(k)) \in Nat /\ Cardinality(zset[k]) \in Nat
        /\ Cardinality(Since(k)) <= Cardinality(zset[k])
    BY TightSets
  <2>5. Cardinality(Since(k)) <= TightRate - 1
    BY <2>1, <2>2, <2>3, <2>4
  <2>6. InsideSet' \in SUBSET Request /\ Unsettled(k)' \in SUBSET InsideSet'
    BY DEF InsideSet, Unsettled, Inside
  <2>7. IsFiniteSet(InsideSet') /\ Cardinality(InsideSet') \in Nat
    BY <2>6, FS_Subset, FS_CardinalityType, LimiterAssumption
  <2>8. /\ Cardinality(Unsettled(k)') \in Nat
        /\ Cardinality(Unsettled(k)') <= Cardinality(InsideSet')
    BY <2>6, <2>7, FS_Subset, FS_CardinalityType
  <2> QED
    BY <1>2, <2>3, <2>4, <2>5, <2>7, <2>8, LimiterAssumption DEF TightBound, SlotsKept
<1> QED
  BY <1>3, <1>4

\* A request that is added moves from one account to the other.
LEMMA TightMoving ==
    ASSUME LimiterInv, NEW r \in Request, NEW e, pc[r] = "add",
           zset' = [zset EXCEPT ![cur[r]] = @ \cup {e}],
           UNCHANGED <<tightened, cur, limit>>,
           NEW to \in Points \ {"add", "trim", "count"}, pc' = [pc EXCEPT ![r] = to],
           NEW k \in Key, TightBound(k)
    PROVE  TightBound(k)'
<1>1. /\ IsFiniteSet(Since(k)) /\ Cardinality(Since(k)) \in Nat
      /\ IsFiniteSet(Unsettled(k)) /\ Cardinality(Unsettled(k)) \in Nat
  BY TightSets
<1>2. CASE k = cur[r]
  <2>1. Since(k)' = Since(k) \/ Since(k)' = Since(k) \cup {e}
    BY <1>2 DEF LimiterInv, TypeOK, Since
  <2>2. Cardinality(Since(k)') \in {Cardinality(Since(k)), Cardinality(Since(k)) + 1}
    BY <1>1, <2>1, FS_AddElement
  <2>3. r \in Unsettled(k) /\ Unsettled(k)' = Unsettled(k) \ {r}
    BY <1>2 DEF LimiterInv, TypeOK, Unsettled
  <2>4. Cardinality(Unsettled(k)') = Cardinality(Unsettled(k)) - 1
    BY <1>1, <2>3, FS_RemoveElement
  <2>5. TightRate \in Nat
    BY RateOK
  <2> QED
    BY <1>1, <2>2, <2>4, <2>5, LimiterAssumption DEF TightBound
<1>3. CASE k # cur[r]
  <2>1. Since(k)' = Since(k) /\ Unsettled(k)' = Unsettled(k)
    BY <1>3 DEF LimiterInv, TypeOK, Since, Unsettled
  <2> QED
    BY <2>1 DEF TightBound
<1> QED
  BY <1>2, <1>3

\* The clock stands still except in Tick.
LEMMA ClockStep ==
    ASSUME [Next]_vars
    PROVE  now' \in {now, now + 1}
<1>1. ASSUME NEW r \in Request, Arrive(r) \/ Dimension(r) \/ Trim(r) \/ Count(r)
      PROVE  now' = now
  BY <1>1 DEF Arrive, Dimension, Trim, Count
<1>2. ASSUME NEW r \in Request, Add(r) \/ Fallback(r) \/ RecordBlock(r) \/ Tighten(r)
      PROVE  now' = now
  BY <1>2 DEF Add, Fallback, RecordBlock, Tighten
<1>3. ASSUME NEW k \in Key, Purge(k) \/ Relax(k) \/ Delete(k)
      PROVE  now' = now
  BY <1>3 DEF Purge, Relax, Delete
<1>4. CASE Cleanup \/ UNCHANGED vars
  BY <1>4 DEF Cleanup, vars
<1>5. CASE Tick
  BY <1>5 DEF Tick
<1> QED
  BY <1>1, <1>2, <1>3, <1>4, <1>5 DEF Next

LEMMA TimelyStep == LimiterInv /\ Timely /\ [Next]_vars => Timely'
<1> SUFFICES ASSUME LimiterInv, Timely, [Next]_vars
             PROVE  Timely'
  OBVIOUS
<1> USE DEF LimiterInv, TypeOK, Timely
<1>1. now' >= now /\ now' \in Nat /\ now \in Nat
  <2>1. now' \in {now, now + 1}
    BY ClockStep
  <2> QED
    BY <2>1
<1>2. ASSUME at' = at, \A k \in Key: zset'[k] \subseteq zset[k]
      PROVE  Timely'
  BY <1>1, <1>2
<1>3. ASSUME NEW r \in Request, Arrive(r) \/ Dimension(r) \/ Count(r) \/ RecordBlock(r)
                               \/ Tighten(r)
      PROVE  Timely'
  BY <1>2, <1>3 DEF Arrive, Dimension, Count, RecordBlock, Tighten
<1>4. ASSUME NEW r \in Request, Trim(r)
      PROVE  Timely'
  BY <1>4 DEF Trim, Recent
<1>5. ASSUME NEW r \in Request, at' = at, now' = now,
             zset' = [zset EXCEPT ![cur[r]] = @ \cup {<<r, at[r]>>}]
      PROVE  Timely'
  BY <1>5
<1>6. ASSUME NEW r \in Request, Add(r) \/ Fallback(r)
      PROVE  Timely'
  BY <1>2, <1>5, <1>6 DEF Add, Fallback
<1>7. ASSUME NEW k \in Key, Purge(k) \/ Relax(k) \/ Delete(k)
      PROVE  Timely'
  BY <1>2, <1>7 DEF Purge, Relax, Delete, Forget, request
<1>8. CASE Cleanup \/ Tick \/ UNCHANGED vars
  BY <1>2, <1>8 DEF Cleanup, Tick, request, vars
<1> QED
  BY <1>3, <1>4, <1>6, <1>7, <1>8 DEF Next

LEMMA TightStep ==
    ASSUME LimiterInv, SlotsKept', Timely, Tight, [Next]_vars
    PROVE  Tight'
<1> USE DEF LimiterInv, TypeOK
<1>1. ASSUME NEW k \in Key, IsTightened(k)', tightened'[k] = tightened[k], now' >= now,
             now' \in Nat
      PROVE  IsTightened(k) /\ TightBound(k)
  BY <1>1 DEF IsTightened, Tight
<1>2. ASSUME UNCHANGED <<now, tightened>>,
             \A k \in Key: zset'[k] \subseteq zset[k] /\
                 (IsTightened(k) => Unsettled(k)' \subseteq Unsettled(k))
      PROVE  Tight'
  <2> SUFFICES ASSUME NEW k \in Key, IsTightened(k)'
               PROVE  TightBound(k)'
    BY DEF Tight
  <2>1. IsTightened(k) /\ TightBound(k)
    BY <1>1, <1>2
  <2>2. Since(k)' \subseteq Since(k)
    BY <1>2 DEF Since
  <2> QED
    BY <1>2, <2>1, <2>2, TightShrinking
<1>3. ASSUME NEW r \in Request, Arrive(r) \/ RecordBlock(r)
      PROVE  Tight'
  BY <1>2, <1>3 DEF Arrive, RecordBlock, Go, Unsettled
<1>4. ASSUME NEW r \in Request, Dimension(r)
      PROVE  Tight'
  <2>1. PICK j \in Key: /\ cur' = [cur EXCEPT ![r] = j]
                        /\ limit' = [limit EXCEPT ![r] = EffectiveRate(j)]
    BY <1>4 DEF Dimension
  <2>2. pc[r] = "next" /\ pc' = [pc EXCEPT ![r] = "trim"]
        /\ UNCHANGED <<now, zset, tightened>>
    BY <1>4 DEF Dimension, Go
  <2>3. ASSUME NEW k \in Key, IsTightened(k)
        PROVE  Unsettled(k)' \subseteq Unsettled(k)
    <3>1. r \notin Unsettled(k)'
      <4>1. cur'[r] = j /\ limit'[r] = EffectiveRate(j) /\ pc'[r] = "trim"
        BY <2>1, <2>2
      <4>2. j = k => ~(limit'[r] > TightRate)
        BY <2>3, <4>1, RateOK DEF EffectiveRate
      <4> QED
        BY <4>1, <4>2 DEF Unsettled, TightRate
    <3>2. \A q \in Request: q # r =>
              cur'[q] = cur[q] /\ limit'[q] = limit[q] /\ pc'[q] = pc[q]
      BY <2>1, <2>2
    <3> QED
      BY <3>1, <3>2 DEF Unsettled, TightRate
  <2> QED
    BY <1>2, <2>2, <2>3
<1>5. ASSUME NEW r \in Request, Trim(r)
      PROVE  Tight'
  <2>1. \A k \in Key: zset'[k] \subseteq zset[k]
    BY <1>5 DEF Trim, Recent
  <2>2. \A k \in Key: Unsettled(k)' \subseteq Unsettled(k)
    BY <1>5 DEF Trim, Go, Unsettled, TightRate
  <2>3. UNCHANGED <<now, tightened>>
    BY <1>5 DEF Trim
  <2> QED
    BY <1>2, <2>1, <2>2, <2>3
<1>6. ASSUME NEW r \in Request, Count(r)
      PROVE  Tight'
  <2> SUFFICES ASSUME NEW k \in Key, IsTightened(k)'
               PROVE  TightBound(k)'
    BY DEF Tight
  <2>1. UNCHANGED <<now, tightened>>
    BY <1>6 DEF Count
  <2>2. TightBound(k)
    BY <1>1, <2>1
  <2> QED
    BY <1>6, <2>2, TightCounting
<1>7. ASSUME NEW r \in Request, NEW to \in Points \ {"add", "trim", "count"}, Go(r, "add", to),
             zset' = [zset EXCEPT ![cur[r]] = @ \cup {<<r, at[r]>>}],
             UNCHANGED <<now, tightened, cur, limit>>
      PROVE  Tight'
  <2> SUFFICES ASSUME NEW k \in Key, IsTightened(k)'
               PROVE  TightBound(k)'
    BY DEF Tight
  <2>1. TightBound(k)
    BY <1>1, <1>7
  <2>2. pc[r] = "add" /\ pc' = [pc EXCEPT ![r] = to]
    BY <1>7 DEF Go
  <2> QED
    BY <1>7, <2>1, <2>2, TightMoving
<1>8. ASSUME NEW r \in Request, Add(r)
      PROVE  Tight'
  <2>1. PassTo(r) \in Points \ {"add", "trim", "count"}
    BY DEF PassTo, Points, Inside
  <2> QED
    BY <1>7, <1>8, <2>1 DEF Add
<1>9. ASSUME NEW r \in Request, Fallback(r)
      PROVE  Tight'
  <2>1. PICK to \in {"denied", PassTo(r)}:
          \/ \E from \in {"trim", "count", "add"}: Go(r, from, to) /\ UNCHANGED zset
          \/ /\ Go(r, "add", to)
             /\ zset' = [zset EXCEPT ![cur[r]] = @ \cup {<<r, at[r]>>}]
    BY <1>9 DEF Fallback
  <2>2. to \in Points \ {"add", "trim", "count"} /\ UNCHANGED <<now, tightened, cur, limit>>
    BY <1>9 DEF Fallback, PassTo, Points, Inside
  <2>3. CASE \E from \in {"trim", "count", "add"}: Go(r, from, to) /\ UNCHANGED zset
    <3>1. \A k \in Key: Unsettled(k)' \subseteq Unsettled(k)
      BY <2>2, <2>3 DEF Go, Unsettled, TightRate
    <3> QED
      BY <1>2, <2>2, <2>3, <3>1
  <2>4. CASE /\ Go(r, "add", to)
             /\ zset' = [zset EXCEPT ![cur[r]] = @ \cup {<<r, at[r]>>}]
    BY <1>7, <2>2, <2>4
  <2> QED
    BY <2>1, <2>3, <2>4
<1>10. ASSUME NEW r \in Request, Tighten(r)
       PROVE  Tight'
  <2>1. PICK j \in Key: tightened' = [tightened EXCEPT ![j] = now + Duration[j]]
    BY <1>10 DEF Tighten
  <2>2. UNCHANGED <<now, zset, pc, cur, limit>>
    BY <1>10 DEF Tighten
  <2> SUFFICES ASSUME NEW k \in Key, IsTightened(k)'
               PROVE  TightBound(k)'
    BY DEF Tight
  <2>3. CASE k = j
    <3>1. tightened'[k] - Duration[k] = now
      <4>1. tightened'[k] = now + Duration[k]
        BY <2>1, <2>3
      <4>2. now \in Nat
        OBVIOUS
      <4>3. Duration[k] \in Nat
        BY LimiterAssumption
      <4> HIDE DEF LimiterInv, TypeOK
      <4> QED
        BY <4>1, <4>2, <4>3
    <3>2. \A e \in zset'[k]: ~(e[2] > now)
      <4>1. \A e \in zset[k]: e[2] <= now /\ e[2] \in Nat
        BY DEF Timely
      <4> QED
        BY <2>2, <4>1
    <3>3. Since(k)' = {}
      BY <3>1, <3>2 DEF Since
    <3> QED
      BY <3>3, TightFresh
  <2>4. CASE k # j
    <3>1. tightened'[k] = tightened[k]
      BY <2>1, <2>4
    <3>2. IsTightened(k) /\ TightBound(k)
      BY <1>1, <2>2, <3>1
    <3>3. Since(k)' \subseteq Since(k) /\ Unsettled(k)' \subseteq Unsettled(k)
      BY <2>2, <3>1 DEF Since, Unsettled, TightRate
    <3> QED
      BY <3>2, <3>3, TightShrinking
  <2> QED
    BY <2>3, <2>4
<1>11. ASSUME NEW j \in Key, Purge(j) \/ Delete(j)
       PROVE  Tight'
  <2>1. /\ \A k \in Key: zset'[k] \subseteq zset[k]
        /\ UNCHANGED <<now, tightened, request>>
    BY <1>11 DEF Purge, Delete, Forget
  <2>2. \A k \in Key: Unsettled(k)' \subseteq Unsettled(k)
    BY <2>1 DEF Unsettled, request, TightRate
  <2> QED
    BY <1>2, <2>1, <2>2
<1>12. ASSUME UNCHANGED <<zset, request>>, now' \in {now, now + 1},
              \A k \in Key: tightened'[k] = tightened[k] \/ tightened'[k] = 0
       PROVE  Tight'
  <2> SUFFICES ASSUME NEW k \in Key, IsTightened(k)'
               PROVE  TightBound(k)'
    BY DEF Tight
  <2>1. now' \in Nat /\ now' >= now
    BY <1>12
  <2>2. tightened'[k] = tightened[k]
    BY <1>12, <2>1 DEF IsTightened
  <2>3. TightBound(k)
    BY <1>1, <2>1, <2>2
  <2>4. Since(k)' \subseteq Since(k) /\ Unsettled(k)' \subseteq Unsettled(k)
    BY <1>12, <2>2 DEF Since, Unsettled, request, TightRate
  <2> QED
    BY <2>3, <2>4, TightShrinking
<1>13. ASSUME NEW k \in Key, Relax(k)
       PROVE  Tight'
  BY <1>12, <1>13 DEF Relax
<1>14. CASE Cleanup \/ Tick \/ UNCHANGED vars
  BY <1>12, <1>14 DEF Cleanup, Tick, vars
<1> QED
  BY <1>3, <1>4, <1>5, <1>6, <1>8, <1>9, <1>10, <1>11, <1>13, <1>14 DEF Next

\* While a key is tightened, what was added since exceeds base_rate / 4 by less
\* than the number of requests inside at once (adaptive.go:63-68, 80-113).
THEOREM TightenedIsBounded == Spec => []TightenedBounded
<1>1. Init => Timely /\ Tight
  BY LimiterAssumption DEF Init, Timely, Tight, IsTightened
<1>3. LimiterInv /\ Tight => TightenedBounded
  <2> SUFFICES ASSUME LimiterInv, Tight, NEW k \in Key, IsTightened(k)
               PROVE  Cardinality(Since(k)) <= TightRate + Slots - 1
    BY DEF TightenedBounded, Since
  <2>1. TightBound(k)
    BY DEF Tight
  <2>2. Cardinality(Since(k)) \in Nat /\ Cardinality(Unsettled(k)) \in Nat
    BY TightSets
  <2>3. TightRate \in Nat
    BY RateOK
  <2> QED
    BY <2>1, <2>2, <2>3, LimiterAssumption DEF TightBound
<1>4. Init /\ TypeOK /\ LimitOK => LimiterInv
  BY LimiterStarts DEF LimiterInv
<1>5. LimiterInv /\ (TypeOK /\ LimitOK)' /\ Timely /\ Tight /\ [Next]_vars
        => (LimiterInv /\ Timely /\ Tight)'
  <2> SUFFICES ASSUME LimiterInv, (TypeOK /\ LimitOK)', Timely, Tight, [Next]_vars
               PROVE  (LimiterInv /\ Timely /\ Tight)'
    OBVIOUS
  <2>1. SlotsKept'
    BY SlotsInductive
  <2>2. WindowsFinite' /\ OvershootBounded'
    BY OvershootInductive
  <2> QED
    BY <2>1, <2>2, TimelyStep, TightStep DEF LimiterInv
<1> QED
  BY <1>1, <1>3, <1>4, <1>5, LimiterTypes, PTL DEF Spec

-----------------------------------------------------------------------------
(* The end of a tightening *)

\* No key is tightened for longer than its duration from now on.
Due == \A k \in Key: tightened[k] <= now + Duration[k]

\* One step of the table: left alone, set from now on, forgotten when its time
\* is over, or relaxed by an administrator.
TableStep(k) ==
    \/ tightened'[k] = tightened[k]
    \/ tightened'[k] = now + Duration[k]
    \/ tightened'[k] = 0 /\ ~IsTightened(k)
    \/ tightened'[k] = 0 /\ unblock[k] = "purged" /\ unblock'[k] = "relaxed"

LEMMA TableSteps ==
    ASSUME TypeOK, [Next]_vars
    PROVE  \A k \in Key: TableStep(k)
<1> USE DEF TypeOK, TableStep
<1>1. ASSUME UNCHANGED tightened
      PROVE  \A k \in Key: TableStep(k)
  BY <1>1
<1>2. ASSUME NEW r \in Request,
             Arrive(r) \/ Dimension(r) \/ Trim(r) \/ Count(r) \/ Add(r) \/ Fallback(r)
                \/ RecordBlock(r)
      PROVE  UNCHANGED tightened
  BY <1>2 DEF Arrive, Dimension, Trim, Count, Add, Fallback, RecordBlock
<1>3. ASSUME NEW r \in Request, Tighten(r)
      PROVE  \A k \in Key: TableStep(k)
  BY <1>3 DEF Tighten
<1>4. ASSUME NEW j \in Key, Purge(j) \/ Delete(j)
      PROVE  UNCHANGED tightened
  BY <1>4 DEF Purge, Delete
<1>5. ASSUME NEW j \in Key, Relax(j)
      PROVE  \A k \in Key: TableStep(k)
  BY <1>5 DEF Relax, UnblockStep
<1>6. CASE Cleanup
  <2> SUFFICES ASSUME NEW k \in Key
               PROVE  TableStep(k)
    OBVIOUS
  <2>1. tightened'[k] = IF Lapsed(k) THEN 0 ELSE tightened[k]
    BY <1>6 DEF Cleanup
  <2>2. Lapsed(k) => ~IsTightened(k)
    BY DEF Lapsed, IsTightened
  <2> QED
    BY <2>1, <2>2
<1>7. CASE Tick \/ UNCHANGED vars
  BY <1>1, <1>7 DEF Tick, vars
<1> QED
  BY <1>1, <1>2, <1>3, <1>4, <1>5, <1>6, <1>7 DEF Next

\* Neither blocks nor the janitor cut a tightening short, however they
\* interleave (adaptive.go:36-42, 115-120, 137-150).
THEOREM TighteningIsKept == Spec => TighteningKept
<1> DEFINE Kept == Cleanup \/ (\E r \in Request: Tighten(r)) =>
                     \A k \in Key: IsTightened(k) => tightened'[k] >= tightened[k]
<1>1. Init => Due
  BY LimiterAssumption DEF Init, Due
<1>2. TypeOK /\ LimitOK /\ TypeOK' /\ Due /\ [Next]_vars => Due' /\ Kept
  <2> SUFFICES ASSUME TypeOK, LimitOK, TypeOK', Due, [Next]_vars
               PROVE  Due' /\ Kept
    OBVIOUS
  <2>1. now' \in {now, now + 1}
    BY ClockStep
  <2>2. ASSUME Cleanup \/ (\E r \in Request: Tighten(r))
        PROVE  UNCHANGED unblock
    BY <2>2 DEF Cleanup, Tighten, admin
  <2> SUFFICES ASSUME NEW k \in Key
               PROVE  /\ tightened'[k] <= now' + Duration[k]
                      /\ IsTightened(k) /\ UNCHANGED unblock => tightened'[k] >= tightened[k]
    BY <2>2 DEF Due
  <2>3. /\ now \in Nat /\ Duration[k] \in Nat
        /\ tightened[k] \in Nat /\ tightened'[k] \in Nat
        /\ tightened[k] <= now + Duration[k]
    BY LimiterAssumption DEF TypeOK, Due
  <2>4. TableStep(k)
    BY TableSteps
  <2> HIDE DEF Kept
  <2> QED
    BY <2>1, <2>3, <2>4 DEF TableStep
<1>3. Spec => [][Kept]_vars
  <2> HIDE DEF Kept
  <2> QED
    BY <1>1, <1>2, LimiterTypes, PTL DEF Spec
<1> QED
  BY <1>3 DEF TighteningKept

=============================================================================
