-------------------------- MODULE RuleStoreProofs ----------------------------
(***************************************************************************)
(* For any number of rules, administrators and evaluations: the rules in   *)
(* memory never get older, an edit that was acknowledged is live, and an   *)
(* evaluation decides what the severest of the rules asks for whose names  *)
(* hit and that are still there.                                           *)
(*                                                                         *)
(* The first two rest on the mutex: between a loader's query and its swap  *)
(* no other loader swaps, so what it has read is never older than what is  *)
(* in force.  The third is about a loop over the names that hit, of which  *)
(* no two rules have one; the induction over the places that it takes      *)
(* follows from the order of the naturals being well-founded.              *)
(***************************************************************************)
EXTENDS RuleStore, WellFoundedInduction, TLAPS

Row == [rows: [Rule -> Body], version: Nat, whole: BOOLEAN]

\* The part of the type invariant that loading works on.
LoadTypes ==
    /\ db \in [Rule -> Body] /\ rules \in [Rule -> Body]
    /\ version \in 0..MaxWrites /\ loaded \in 0..version
    /\ mutex \in Loader \cup {"free"}
    /\ pc \in [Loader -> {"idle", "reload", "query", "store", "respond", "ended"}]
    /\ wrote \in [Admin -> 0..version]
    /\ DOMAIN failed = Admin
    /\ fetched \in [Loader -> Row]
    /\ \A p \in Loader: fetched[p].version <= version

\* Between its query and its swap a loader holds the mutex.
Exclusive == \A p \in Loader: pc[p] \in {"query", "store"} => mutex = p

\* What a loader is about to swap in is no older than what is in force, and
\* it is the table unless the table changed since.
Fresh ==
    \A p \in Loader: pc[p] = "store" =>
        /\ loaded <= fetched[p].version
        /\ fetched[p].whole /\ fetched[p].version = version => fetched[p].rows = db

\* What an administrator's own load has read contains the edit.
Own ==
    \A p \in Admin: ~failed[p] =>
        /\ pc[p] = "store" => wrote[p] <= fetched[p].version
        /\ pc[p] = "respond" => wrote[p] <= loaded

\* A complete load of the latest version is the table.
Real == whole /\ loaded = version => rules = db

IInv == LoadTypes /\ Exclusive /\ Fresh /\ Own /\ Real

LEMMA InitInv == Init => IInv
<1> SUFFICES ASSUME Init PROVE IInv
  OBVIOUS
<1> USE RuleAssumption, TableAssumption DEF Init
<1>1. NoRules \in [Rule -> Body]
  BY DEF NoRules, Body
<1>2. Nothing \in Row
  BY <1>1 DEF Nothing, Row
<1>3. db \in [Rule -> Body] /\ version = 0 /\ loaded = 0
  OBVIOUS
<1>4. \A n: \A rows \in Broken(n): rows \in [Rule -> Body]
  BY <1>3 DEF Broken, Body
<1>5. rules \in [Rule -> Body]
  BY <1>1, <1>3, <1>4
<1>6. LoadTypes
  BY <1>2, <1>3, <1>5 DEF LoadTypes, Nothing, Loader
<1>7. whole => rules = db
  OBVIOUS
<1>8. QED
  BY <1>6, <1>7 DEF IInv, Exclusive, Fresh, Own, Real, Loader

\* A committed edit makes every earlier reading out of date.
LEMMA CommitInv ==
    ASSUME IInv, NEW p \in Admin, NEW rows \in [Rule -> Body], Commit(p, rows)
    PROVE  IInv'
<1> USE RuleAssumption DEF Commit, Loader, memory
<1>1. /\ version' = version + 1 /\ version < MaxWrites /\ version \in Nat
      /\ loaded' = loaded /\ loaded \in 0..version
  BY DEF IInv, LoadTypes
<1>2. wrote' \in [Admin -> 0..version']
  BY <1>1 DEF IInv, LoadTypes
<1>3. pc' \in [Loader -> {"idle", "reload", "query", "store", "respond", "ended"}]
  BY DEF IInv, LoadTypes
<1>4. LoadTypes'
  <2>1. db' \in [Rule -> Body] /\ rules' \in [Rule -> Body]
    BY DEF IInv, LoadTypes
  <2>2. /\ mutex' \in Loader \cup {"free"} /\ DOMAIN failed' = Admin
        /\ fetched' \in [Loader -> Row]
    BY DEF IInv, LoadTypes
  <2>3. \A q \in Loader: fetched'[q].version <= version'
    BY <1>1 DEF IInv, LoadTypes, Row
  <2>4. version' \in 0..MaxWrites /\ loaded' \in 0..version'
    BY <1>1
  <2>5. QED
    BY <1>2, <1>3, <2>1, <2>2, <2>3, <2>4 DEF LoadTypes
<1>5. (Exclusive /\ Real)'
  BY <1>1 DEF IInv, LoadTypes, Exclusive, Real
<1>6. Fresh'
  BY <1>1 DEF IInv, LoadTypes, Fresh
<1>7. Own'
  BY <1>1 DEF IInv, LoadTypes, Own
<1>8. QED
  BY <1>4, <1>5, <1>6, <1>7 DEF IInv

\* The load that p has locked, from its query to its swap.
LEMMA LoadInv ==
    ASSUME IInv, NEW p \in Loader, LoadRules(p)
    PROVE  IInv' /\ loaded' >= loaded
<1> USE RuleAssumption DEF Go, Loader, table, memory
<1>1. Done(p) \in {"idle", "respond"} /\ DOMAIN Failed(p) = Admin
  BY DEF Done, Failed, IInv, LoadTypes
<1>2. \A q \in Admin: ~Failed(p)[q] => ~failed[q] /\ q # p
  BY DEF Failed, IInv, LoadTypes
<1>3. CASE Lock(p)
  <2>1. LoadTypes'
    BY <1>3 DEF IInv, LoadTypes, Lock
  <2>2. Exclusive'
    BY <1>3 DEF IInv, LoadTypes, Lock, Exclusive
  <2>3. (Fresh /\ Real)'
    BY <1>3 DEF IInv, LoadTypes, Lock, Fresh, Real
  <2>4. Own'
    BY <1>3 DEF IInv, LoadTypes, Lock, Own
  <2>5. QED
    BY <1>3, <2>1, <2>2, <2>3, <2>4 DEF IInv, LoadTypes, Lock
<1>4. CASE QueryFails(p)
  <2>1. LoadTypes'
    BY <1>1, <1>4 DEF IInv, LoadTypes, QueryFails
  <2>2. (Exclusive /\ Fresh /\ Real)'
    BY <1>1, <1>4 DEF IInv, LoadTypes, QueryFails, Exclusive, Fresh, Real
  <2>3. Own'
    BY <1>1, <1>2, <1>4 DEF IInv, LoadTypes, QueryFails, Own
  <2>4. QED
    BY <1>4, <2>1, <2>2, <2>3 DEF IInv, LoadTypes, QueryFails
<1>5. ASSUME NEW row \in Row, row.version = version, row.whole => row.rows = db,
             Go(p, "query", "store"), fetched' = [fetched EXCEPT ![p] = row],
             failed' = failed \/ failed' = Failed(p),
             UNCHANGED <<table, memory, stopped, mutex, wrote>>
      PROVE  IInv' /\ loaded' >= loaded
  <2>1. LoadTypes'
    BY <1>1, <1>5 DEF IInv, LoadTypes
  <2>2. (Exclusive /\ Real)'
    BY <1>5 DEF IInv, LoadTypes, Exclusive, Real
  <2>3. Fresh'
    BY <1>5 DEF IInv, LoadTypes, Fresh
  <2>4. \A q \in Admin: ~failed'[q] => ~failed[q]
    BY <1>2, <1>5
  <2>5. Own'
    BY <1>5, <2>4 DEF IInv, LoadTypes, Own
  <2>6. QED
    BY <1>5, <2>1, <2>2, <2>3, <2>5 DEF IInv, LoadTypes
<1>6. CASE ReadRows(p)
  <2>1. [rows |-> db, version |-> version, whole |-> TRUE] \in Row
    BY DEF Row, IInv, LoadTypes
  <2>2. QED
    BY <1>5, <1>6, <2>1 DEF ReadRows
<1>7. CASE ReadSome(p)
  <2>1. PICK n \in 0..RuleCount: \E rows \in Broken(n):
          fetched' = [fetched EXCEPT ![p] =
                        [rows |-> rows, version |-> version, whole |-> FALSE]]
    BY <1>7 DEF ReadSome
  <2>2. PICK part \in Broken(n):
          fetched' = [fetched EXCEPT ![p] =
                        [rows |-> part, version |-> version, whole |-> FALSE]]
    BY <2>1
  <2>3. part \in [Rule -> Body]
    BY <2>2 DEF Broken, Body, IInv, LoadTypes
  <2>4. [rows |-> part, version |-> version, whole |-> FALSE] \in Row
    BY <2>3 DEF Row, IInv, LoadTypes
  <2>5. QED
    BY <1>5, <1>7, <2>2, <2>4 DEF ReadSome
<1>8. CASE StoreRules(p)
  <2>1. /\ fetched[p] \in Row /\ fetched[p].version \in 0..version
        /\ loaded <= fetched[p].version /\ loaded' = fetched[p].version
    BY <1>8 DEF IInv, LoadTypes, Fresh, StoreRules, Row
  <2>2. Nothing \in Row /\ Nothing.version = 0
    BY DEF Nothing, NoRules, Row, Body
  <2>3. LoadTypes'
    BY <1>1, <1>8, <2>1, <2>2 DEF IInv, LoadTypes, StoreRules, Row
  <2>4. \A q \in Loader: pc'[q] \notin {"query", "store"}
    BY <1>1, <1>8 DEF IInv, LoadTypes, Exclusive, StoreRules
  <2>5. (Exclusive /\ Fresh)'
    BY <2>4 DEF Exclusive, Fresh
  <2>6. Real'
    BY <1>8 DEF IInv, Fresh, Real, StoreRules
  <2>7. Own'
    BY <1>1, <1>8, <2>1, <2>4 DEF IInv, LoadTypes, Own, StoreRules
  <2>8. QED
    BY <2>1, <2>3, <2>5, <2>6, <2>7 DEF IInv, LoadTypes
<1>9. QED
  BY <1>3, <1>4, <1>6, <1>7, <1>8 DEF LoadRules

\* Every other step leaves the rules and what was read alone.
LEMMA StepInv == ASSUME IInv, [Next]_vars PROVE IInv' /\ loaded' >= loaded
<1> USE RuleAssumption DEF Go, Loader, table, memory, loading
<1>1. ASSUME NEW p \in Admin, CreateRule(p) \/ UpdateRule(p) \/ DeleteRule(p)
      PROVE  IInv' /\ loaded' >= loaded
  <2>1. PICK rows \in [Rule -> Body]: Commit(p, rows)
    BY <1>1 DEF CreateRule, UpdateRule, DeleteRule, Body, IInv, LoadTypes
  <2>2. loaded' = loaded
    BY <2>1 DEF Commit
  <2>3. QED
    BY <2>1, <2>2, CommitInv DEF IInv, LoadTypes
<1>2. ASSUME NEW p \in Loader, LoadRules(p) PROVE IInv' /\ loaded' >= loaded
  BY <1>2, LoadInv
<1>3. ASSUME NEW p \in Admin, ReloadRules(p) \/ Respond(p)
      PROVE  IInv' /\ loaded' >= loaded
  <2>1. LoadTypes'
    BY <1>3 DEF IInv, LoadTypes, ReloadRules, Respond
  <2>2. (Exclusive /\ Fresh /\ Real)'
    BY <1>3 DEF IInv, LoadTypes, ReloadRules, Respond, Exclusive, Fresh, Real
  <2>3. Own'
    BY <1>3 DEF IInv, LoadTypes, ReloadRules, Respond, Own
  <2>4. QED
    BY <1>3, <2>1, <2>2, <2>3 DEF IInv, LoadTypes, ReloadRules, Respond
<1>4. CASE Poll \/ PollEnds
  <2>1. LoadTypes'
    BY <1>4 DEF IInv, LoadTypes, Poll, PollEnds
  <2>2. (Exclusive /\ Fresh /\ Real /\ Own)'
    BY <1>4 DEF IInv, LoadTypes, Poll, PollEnds, Exclusive, Fresh, Real, Own
  <2>3. QED
    BY <1>4, <2>1, <2>2 DEF IInv, LoadTypes, Poll, PollEnds
<1>5. CASE UNCHANGED <<table, memory, loading>>
  BY <1>5 DEF IInv, LoadTypes, Exclusive, Fresh, Own, Real
<1>6. ASSUME NEW e \in Evaluation, Hit(e) \/ Decide(e) \/ Finish(e)
      PROVE  UNCHANGED <<table, memory, loading>>
  BY <1>6 DEF Hit, Decide, Finish
<1>7. Stop \/ UNCHANGED vars => UNCHANGED <<table, memory, loading>>
  BY DEF Stop, vars
<1>8. QED
  BY <1>1, <1>2, <1>3, <1>4, <1>5, <1>6, <1>7 DEF Next

\* The strengthened invariant holds, whatever fails and whoever loads.
LEMMA InvariantHolds == Spec => []IInv
<1>1. Init => IInv
  BY InitInv
<1>2. IInv /\ [Next]_vars => IInv'
  BY StepInv
<1>3. QED
  BY <1>1, <1>2, PTL DEF Spec

\* The rules in memory are never replaced by ones read earlier
\* (rules.go:204-237).
THEOREM RulesNeverOlder == Spec => NeverOlder
<1>1. IInv /\ [Next]_vars => [loaded' >= loaded]_vars
  BY StepInv
<1>2. QED
  BY <1>1, InvariantHolds, PTL DEF Spec, NeverOlder

\* An acknowledged edit is in force, unless its own reload failed
\* (admin.go:333-411).
THEOREM AcknowledgedLive == Spec => []AcknowledgedIsLive
<1>1. IInv => AcknowledgedIsLive
  BY DEF IInv, LoadTypes, Own, Real, AcknowledgedIsLive
<1>2. QED
  BY <1>1, InvariantHolds, PTL

-----------------------------------------------------------------------------
(* Induction, from the fact that < is well founded on the natural numbers  *)

\* What holds of zero and of every successor up to N holds up to N.
LEMMA Induction ==
    ASSUME NEW N \in Nat, NEW T, 0 \in T, \A n \in 1..N: n - 1 \in T => n \in T
    PROVE  0..N \subseteq T
<1> DEFINE Rest == (0..N) \ T
           R == OpToRel(<, Nat)
<1> SUFFICES ASSUME Rest # {} PROVE FALSE
  OBVIOUS
<1>1. Rest \subseteq Nat
  OBVIOUS
<1>2. \A x, y \in Nat: y < x => <<y, x>> \in R
  BY DEF OpToRel
<1>3. \E x \in Rest: \A y \in Rest: ~(<<y, x>> \in R)
  <2> HIDE DEF Rest
  <2> QED
    BY <1>1, NatLessThanWellFounded, WFMin, Zenon
<1> HIDE DEF R
<1>4. PICK x \in Rest: \A y \in Rest: ~(y < x)
  <2> HIDE DEF Rest
  <2> QED
    BY <1>1, <1>2, <1>3
<1>5. x \in 1..N /\ x - 1 \notin Rest
  BY <1>4
<1> QED
  BY <1>5

\* A definition by recursion over 0..N defines a function.
Recursive(f, S, d, N, G) ==
    f \in [0..N -> S] /\ f[0] = d /\ \A n \in 1..N: f[n] = G[n][f[n - 1]]

LEMMA Recursion ==
    ASSUME NEW S, NEW d \in S, NEW N \in Nat, NEW G \in [1..N -> [S -> S]]
    PROVE  \E f: Recursive(f, S, d, N, G)
<1> DEFINE Upto(k, f) == /\ f \in [0..k -> S]
                         /\ \A n \in 0..k: f[n] = IF n = 0 THEN d ELSE G[n][f[n - 1]]
           T == {k \in 0..N: \E f: Upto(k, f)}
<1>1. 0 \in T
  <2>1. Upto(0, [n \in 0..0 |-> d])
    OBVIOUS
  <2>2. 0 \in 0..N
    OBVIOUS
  <2> HIDE DEF Upto
  <2> QED
    BY <2>1, <2>2
<1>2. ASSUME NEW k \in 1..N, NEW f, Upto(k - 1, f)
      PROVE  \E g: Upto(k, g)
  <2> DEFINE g == [n \in 0..k |-> IF n < k THEN f[n] ELSE G[k][f[k - 1]]]
  <2>1. G[k][f[k - 1]] \in S
    BY <1>2
  <2>2. g \in [0..k -> S]
    BY <1>2, <2>1
  <2>3. ASSUME NEW n \in 0..k
        PROVE  g[n] = IF n = 0 THEN d ELSE G[n][g[n - 1]]
    <3>1. CASE n = k
      BY <1>2, <3>1
    <3>2. CASE n = 0
      BY <1>2, <3>2
    <3>3. CASE n \in 1..(k - 1)
      BY <1>2, <3>3
    <3> QED
      BY <3>1, <3>2, <3>3
  <2> QED
    BY <2>2, <2>3
<1>3. \A k \in 1..N: k - 1 \in T => k \in T
  <2> HIDE DEF Upto
  <2> QED
    BY <1>2
<1>4. N \in T
  <2> HIDE DEF T
  <2>1. 0..N \subseteq T
    BY <1>1, <1>3, Induction
  <2> QED
    BY <2>1
<1>5. PICK f: Upto(N, f)
  <2> HIDE DEF Upto
  <2> QED
    BY <1>4
<1>6. Recursive(f, S, d, N, G)
  BY <1>5 DEF Recursive
<1> QED
  BY <1>6

-----------------------------------------------------------------------------
(* What the hits ask for *)

Severity == {"none", "block", "escalate", "review"}

LEMMA PreferType == \A s \in Severity: \A action: Prefer(s, action) \in Severity
  BY DEF Prefer, Severity

\* The loop over the hits, one rule at a time.
LEMMA OverrideLoop ==
    ASSUME NEW names, NEW rs
    PROVE  \E f \in [0..RuleCount -> Severity]:
              /\ f[0] = "none" /\ Override(names, rs) = f[RuleCount]
              /\ \A n \in Rule:
                    f[n] = IF names[n] # NoName THEN Prefer(f[n - 1], ActionOf(names[n], rs))
                           ELSE f[n - 1]
<1> USE RuleAssumption DEF Rule
<1> DEFINE G == [n \in 1..RuleCount |-> [s \in Severity |->
                   IF names[n] # NoName THEN Prefer(s, ActionOf(names[n], rs)) ELSE s]]
           upto == CHOOSE f: f = [n \in 0..RuleCount |->
                                    IF n = 0 THEN "none"
                                    ELSE IF names[n] # NoName THEN Prefer(f[n - 1], ActionOf(names[n], rs))
                                    ELSE f[n - 1]]
<1>1. G \in [1..RuleCount -> [Severity -> Severity]]
  BY PreferType
<1>2. PICK f: Recursive(f, Severity, "none", RuleCount, G)
  <2> HIDE DEF G
  <2>1. "none" \in Severity
    BY DEF Severity
  <2> QED
    BY <1>1, <2>1, Recursion, Zenon
<1>3. f \in [0..RuleCount -> Severity]
  BY <1>2 DEF Recursive
<1>4. f = [n \in 0..RuleCount |-> IF n = 0 THEN "none"
                                 ELSE IF names[n] # NoName THEN Prefer(f[n - 1], ActionOf(names[n], rs))
                                 ELSE f[n - 1]]
  <2>1. \A n \in 1..RuleCount: f[n - 1] \in Severity
    BY <1>3
  <2>2. \A n \in 0..RuleCount:
            f[n] = IF n = 0 THEN "none"
                   ELSE IF names[n] # NoName THEN Prefer(f[n - 1], ActionOf(names[n], rs))
                   ELSE f[n - 1]
    <3>1. \A n \in 1..RuleCount: G[n][f[n - 1]]
              = IF names[n] # NoName THEN Prefer(f[n - 1], ActionOf(names[n], rs)) ELSE f[n - 1]
      BY <2>1
    <3> HIDE DEF G
    <3> QED
      BY <1>2, <3>1 DEF Recursive
  <2>3. f = [n \in 0..RuleCount |-> f[n]]
    BY <1>3
  <2> QED
    BY <2>2, <2>3, Zenon
<1>5. /\ upto = [n \in 0..RuleCount |-> upto[n]]
      /\ \A n \in 0..RuleCount:
            upto[n] = IF n = 0 THEN "none"
                      ELSE IF names[n] # NoName THEN Prefer(upto[n - 1], ActionOf(names[n], rs))
                      ELSE upto[n - 1]
  <2>1. upto = [n \in 0..RuleCount |-> IF n = 0 THEN "none"
                                      ELSE IF names[n] # NoName THEN Prefer(upto[n - 1], ActionOf(names[n], rs))
                                      ELSE upto[n - 1]]
    BY <1>4, Zenon
  <2> QED
    BY <2>1, Zenon
<1>6. Override(names, rs) = upto[RuleCount]
  BY DEF Override
<1> HIDE DEF upto
<1>7. /\ upto[0] = "none"
      /\ \A n \in Rule:
            upto[n] = IF names[n] # NoName THEN Prefer(upto[n - 1], ActionOf(names[n], rs)) ELSE upto[n - 1]
  <2> SUFFICES ASSUME NEW n \in 0..RuleCount
               PROVE  upto[n] = IF n = 0 THEN "none"
                                ELSE IF names[n] # NoName THEN Prefer(upto[n - 1], ActionOf(names[n], rs))
                                ELSE upto[n - 1]
    OBVIOUS
  <2> QED
    BY <1>5
<1>8. \A n \in 0..RuleCount: upto[n] \in Severity
  <2> DEFINE T == {n \in 0..RuleCount: upto[n] \in Severity}
  <2>1. 0 \in T
    BY <1>7 DEF Severity
  <2>2. \A n \in 1..RuleCount: n - 1 \in T => n \in T
    BY <1>7, PreferType
  <2>3. 0..RuleCount \subseteq T
    <3> HIDE DEF T
    <3> QED
      BY <2>1, <2>2, Induction
  <2> QED
    BY <2>3
<1>9. upto \in [0..RuleCount -> Severity]
  BY <1>5, <1>8
<1> QED
  BY <1>6, <1>7, <1>9

\* The places, among the first n, where a rule hit, and what these names ask for.
Places(names, n) == {r \in 1..n: names[r] # NoName}
Asked(names, rs, n) ==
    {ActionOf(names[r], rs): r \in Places(names, n)} \cap {"block", "escalate", "review"}

\* s is the severest that asked has.
Severest(s, asked) ==
    /\ s = "none" => asked = {}
    /\ s = "block" => "block" \in asked
    /\ s = "escalate" => "block" \notin asked /\ "escalate" \in asked
    /\ s = "review" => asked = {"review"}

\* The loop finds the severest of what the hits ask for.
LEMMA OverrideIsSeverest ==
    ASSUME NEW names, NEW rs
    PROVE  /\ Override(names, rs) \in Severity
           /\ Severest(Override(names, rs), Asked(names, rs, RuleCount))
<1>1. PICK f \in [0..RuleCount -> Severity]:
         /\ f[0] = "none" /\ Override(names, rs) = f[RuleCount]
         /\ \A n \in Rule:
               f[n] = IF names[n] # NoName THEN Prefer(f[n - 1], ActionOf(names[n], rs))
                      ELSE f[n - 1]
  BY OverrideLoop
<1> DEFINE T == {n \in 0..RuleCount: Severest(f[n], Asked(names, rs, n))}
<1>2. 0 \in T
  <2>1. Asked(names, rs, 0) = {}
    BY DEF Asked, Places
  <2> QED
    BY <1>1, <2>1, RuleAssumption DEF Severest
<1>3. ASSUME NEW n \in 1..RuleCount, n - 1 \in T PROVE n \in T
  <2>1. f[n - 1] \in Severity /\ n \in Rule
    <3> HIDE DEF T
    <3> QED
      BY RuleAssumption DEF Rule
  <2>2. CASE names[n] # NoName
    <3>1. Places(names, n) = Places(names, n - 1) \cup {n}
      BY <2>2 DEF Places
    <3>2. Asked(names, rs, n) = Asked(names, rs, n - 1)
                                 \cup ({ActionOf(names[n], rs)} \cap {"block", "escalate", "review"})
      BY <3>1 DEF Asked
    <3>3. f[n] = Prefer(f[n - 1], ActionOf(names[n], rs))
      BY <1>1, <2>1, <2>2
    <3>4. \A s \in Severity: \A asked, action:
            Severest(s, asked) /\ asked \subseteq {"block", "escalate", "review"}
              => Severest(Prefer(s, action),
                          asked \cup ({action} \cap {"block", "escalate", "review"}))
      <4> SUFFICES ASSUME NEW s \in Severity, NEW asked, NEW action, Severest(s, asked),
                          asked \subseteq {"block", "escalate", "review"}
                   PROVE  Severest(Prefer(s, action),
                            asked \cup ({action} \cap {"block", "escalate", "review"}))
        OBVIOUS
      <4>1. CASE action = "block"
        <5>1. Prefer(s, action) = "block"
          BY <4>1 DEF Prefer
        <5> QED
          BY <4>1, <5>1 DEF Severest
      <4>2. CASE action = "escalate"
        <5>1. CASE s = "block"
          BY <4>2, <5>1 DEF Prefer, Severest
        <5>2. CASE s # "block"
          BY <4>2, <5>2 DEF Prefer, Severity, Severest
        <5> QED
          BY <5>1, <5>2
      <4>3. CASE action = "review"
        BY <4>3 DEF Severity, Severest, Prefer
      <4>4. CASE action \notin {"block", "escalate", "review"}
        <5>1. Prefer(s, action) = s
          BY <4>4 DEF Prefer
        <5>2. {action} \cap {"block", "escalate", "review"} = {}
          BY <4>4
        <5> QED
          BY <5>1, <5>2 DEF Severest
      <4> QED
        BY <4>1, <4>2, <4>3, <4>4
    <3>5. Asked(names, rs, n - 1) \subseteq {"block", "escalate", "review"}
      BY DEF Asked
    <3>6. Severest(f[n], Asked(names, rs, n))
      BY <1>3, <2>1, <3>2, <3>3, <3>4, <3>5
    <3> QED
      BY <3>6
  <2>3. CASE names[n] = NoName
    <3>1. Places(names, n) = Places(names, n - 1)
      BY <2>3 DEF Places
    <3>2. Asked(names, rs, n) = Asked(names, rs, n - 1)
      BY <3>1 DEF Asked
    <3> QED
      BY <1>1, <1>3, <2>1, <2>3, <3>2
  <2> QED
    BY <2>2, <2>3
<1>4. RuleCount \in T
  <2> HIDE DEF T
  <2>1. 0..RuleCount \subseteq T
    BY <1>2, <1>3, Induction, RuleAssumption
  <2> QED
    BY <2>1, RuleAssumption
<1> QED
  BY <1>1, <1>4, RuleAssumption

-----------------------------------------------------------------------------
(* Names *)

\* No two rules have one name, in the table, in memory or on the way between.
Named ==
    /\ Distinct(db) /\ Distinct(rules)
    /\ \A p \in Loader: Distinct(fetched[p].rows)

LEMMA PartsAreDistinct ==
    Distinct(db) => Distinct(NoRules) /\ \A n: \A rows \in Broken(n): Distinct(rows)
<1> SUFFICES ASSUME Distinct(db)
             PROVE  Distinct(NoRules) /\ \A n: \A rows \in Broken(n): Distinct(rows)
  OBVIOUS
<1>1. \A rows: (\A r \in Rule: rows[r] = db[r] \/ rows[r].name = NoName) => Distinct(rows)
  BY DEF Distinct
<1>2. \A r \in Rule: NoRules[r].name = NoName
  BY DEF NoRules, Off
<1>3. \A n: \A rows \in Broken(n):
         \A r \in Rule: rows[r] = db[r] \/ rows[r].name = NoName
  BY DEF Broken, Off
<1> QED
  BY <1>1, <1>2, <1>3

LEMMA NamedInit == Init => Named
<1> SUFFICES ASSUME Init
             PROVE  Named
  OBVIOUS
<1>1. Distinct(db)
  BY TableAssumption DEF Init
<1>2. Distinct(rules) /\ Distinct(NoRules)
  BY <1>1, PartsAreDistinct DEF Init
<1> QED
  BY <1>1, <1>2 DEF Init, Named, Nothing

LEMMA NamedStep == IInv /\ Named /\ [Next]_vars => Named'
<1> SUFFICES ASSUME IInv, Named, [Next]_vars
             PROVE  Named'
  OBVIOUS
<1>1. ASSUME NEW p \in Admin, CreateRule(p) \/ UpdateRule(p) \/ DeleteRule(p)
      PROVE  Named'
  <2>1. PICK rows \in [Rule -> Body]: Commit(p, rows)
    BY <1>1 DEF CreateRule, UpdateRule, DeleteRule, Body, IInv, LoadTypes
  <2>2. Distinct(rows) /\ db' = rows /\ UNCHANGED <<rules, fetched>>
    BY <2>1 DEF Commit, memory
  <2> QED
    BY <2>2 DEF Named, Distinct
<1>2. ASSUME NEW p \in Loader, NEW rows, Distinct(rows), NEW v, NEW w,
             fetched' = [fetched EXCEPT ![p] = [rows |-> rows, version |-> v, whole |-> w]],
             UNCHANGED <<db, rules>>
      PROVE  Named'
  <2>1. \A q \in Loader: fetched'[q].rows = rows \/ fetched'[q] = fetched[q]
    BY <1>2 DEF IInv, LoadTypes
  <2> QED
    BY <1>2, <2>1 DEF Named, Distinct
<1>3. ASSUME NEW p \in Loader, LoadRules(p)
      PROVE  Named'
  <2>1. CASE Lock(p) \/ QueryFails(p)
    BY <2>1 DEF Lock, QueryFails, table, memory, Named, Distinct
  <2>2. CASE ReadRows(p)
    BY <1>2, <2>2 DEF ReadRows, table, memory, Named
  <2>3. CASE ReadSome(p)
    BY <1>2, <2>3, PartsAreDistinct DEF ReadSome, table, memory, Named
  <2>4. CASE StoreRules(p)
    <3>1. /\ rules' = fetched[p].rows /\ db' = db
          /\ fetched' = [fetched EXCEPT ![p] = Nothing]
      BY <2>4 DEF StoreRules, table
    <3>2. Distinct(NoRules) /\ Distinct(fetched[p].rows)
      BY PartsAreDistinct DEF Named
    <3>3. \A q \in Loader: fetched'[q].rows = NoRules \/ fetched'[q] = fetched[q]
      BY <3>1 DEF Nothing, IInv, LoadTypes
    <3> QED
      BY <3>1, <3>2, <3>3 DEF Named, Distinct
  <2> QED
    BY <1>3, <2>1, <2>2, <2>3, <2>4 DEF LoadRules
<1>4. UNCHANGED <<db, rules, fetched>> => Named'
  BY DEF Named, Distinct
<1>5. ASSUME NEW p \in Admin, ReloadRules(p) \/ Respond(p)
      PROVE  UNCHANGED <<db, rules, fetched>>
  BY <1>5 DEF ReloadRules, Respond, table, memory
<1>6. Poll \/ PollEnds \/ Stop \/ UNCHANGED vars => UNCHANGED <<db, rules, fetched>>
  BY DEF Poll, PollEnds, Stop, vars, table, memory, loading
<1>7. ASSUME NEW e \in Evaluation, Hit(e) \/ Decide(e) \/ Finish(e)
      PROVE  UNCHANGED <<db, rules, fetched>>
  BY <1>7 DEF Hit, Decide, Finish, table, memory, loading
<1> QED
  BY <1>1, <1>3, <1>4, <1>5, <1>6, <1>7 DEF Next

LEMMA NamesHold == Spec => []Named
  BY NamedInit, NamedStep, InvariantHolds, PTL DEF Spec

\* A name finds its rule: what the names that hit ask for is what the rules ask
\* for that have these names.
LEMMA AskedByName ==
    ASSUME NEW names, NEW rs, Distinct(rs)
    PROVE  Asked(names, rs, RuleCount)
             = {rs[r].action: r \in {i \in Rule:
                   rs[i].name \in {names[n]: n \in Rule} \ {NoName}}}
               \cap {"block", "escalate", "review"}
<1> DEFINE theirs == {i \in Rule: rs[i].name \in {names[n]: n \in Rule} \ {NoName}}
<1>1. ASSUME NEW n \in Rule, names[n] # NoName, NEW r \in Rule, rs[r].name = names[n]
      PROVE  ActionOf(names[n], rs) = rs[r].action
  <2>1. (CHOOSE i \in Rule: rs[i].name = names[n]) = r
    BY <1>1 DEF Distinct
  <2> QED
    BY <1>1, <2>1 DEF ActionOf
<1>2. ASSUME NEW a \in Asked(names, rs, RuleCount)
      PROVE  \E r \in theirs: rs[r].action = a
  <2>1. PICK n \in Rule: names[n] # NoName /\ ActionOf(names[n], rs) = a
    BY DEF Asked, Places, Rule
  <2>2. a # "none"
    BY DEF Asked
  <2>3. PICK r \in Rule: rs[r].name = names[n]
    BY <2>1, <2>2 DEF ActionOf
  <2> QED
    BY <1>1, <2>1, <2>3
<1>3. ASSUME NEW r \in theirs, rs[r].action \in {"block", "escalate", "review"}
      PROVE  rs[r].action \in Asked(names, rs, RuleCount)
  <2>1. PICK n \in Rule: names[n] = rs[r].name /\ names[n] # NoName
    OBVIOUS
  <2>2. ActionOf(names[n], rs) = rs[r].action /\ n \in Places(names, RuleCount)
    BY <1>1, <2>1 DEF Places, Rule
  <2> QED
    BY <1>3, <2>2 DEF Asked
<1>4. Asked(names, rs, RuleCount) \subseteq {"block", "escalate", "review"}
  BY DEF Asked
<1> HIDE DEF theirs
<1>5. Asked(names, rs, RuleCount)
        = {rs[r].action: r \in theirs} \cap {"block", "escalate", "review"}
  BY <1>2, <1>3, <1>4
<1> QED
  BY <1>5 DEF theirs

-----------------------------------------------------------------------------
(* Evaluations *)

\* The part of the type invariant that is not about loading.
OtherTypes ==
    /\ whole \in BOOLEAN /\ stopped \in BOOLEAN
    /\ failed \in [Admin -> BOOLEAN]
    /\ at \in [Evaluation -> {"idle", "hit", "decided"}]
    /\ hits \in [Evaluation -> [Rule -> Name \cup {NoName}]]
    /\ verdict \in [Evaluation -> AllActions \cup {"pass"}]

LEMMA InitOther == Init => OtherTypes
<1> SUFFICES ASSUME Init PROVE OtherTypes
  OBVIOUS
<1>1. Nobody \in [Rule -> Name \cup {NoName}]
  BY DEF Nobody
<1>2. whole \in BOOLEAN /\ stopped \in BOOLEAN /\ failed \in [Admin -> BOOLEAN]
  BY DEF Init
<1>3. /\ at \in [Evaluation -> {"idle", "hit", "decided"}]
      /\ hits \in [Evaluation -> [Rule -> Name \cup {NoName}]]
      /\ verdict \in [Evaluation -> AllActions \cup {"pass"}]
  BY <1>1 DEF Init
<1> QED
  BY <1>2, <1>3 DEF OtherTypes

\* An evaluation's verdict is what the score or a rule asks for.
LEMMA EvaluationTypes ==
    ASSUME IInv, OtherTypes, NEW e \in Evaluation, Hit(e) \/ Decide(e) \/ Finish(e)
    PROVE  OtherTypes'
<1>1. UNCHANGED <<whole, stopped, failed>>
  BY DEF Hit, Decide, Finish, memory, loading
<1>2. at' \in [Evaluation -> {"idle", "hit", "decided"}]
  BY DEF Hit, Decide, Finish, OtherTypes
<1>3. Nobody \in [Rule -> Name \cup {NoName}] /\ Hits(rules) \in [Rule -> Name \cup {NoName}]
  <2>1. \A r \in Rule: rules[r].name \in Name \cup {NoName}
    BY RuleAssumption DEF IInv, LoadTypes, Body, Off, AllRows
  <2> QED
    BY <2>1 DEF Nobody, Hits
<1>4. hits' \in [Evaluation -> [Rule -> Name \cup {NoName}]]
  BY <1>3 DEF Hit, Decide, Finish, OtherTypes
<1>5. Override(hits[e], rules) \in Severity
  BY OverrideIsSeverest
<1>6. verdict' \in [Evaluation -> AllActions \cup {"pass"}]
  BY <1>5, RuleAssumption DEF Hit, Decide, Finish, OtherTypes, Severity, AllActions
<1> QED
  BY <1>1, <1>2, <1>4, <1>6 DEF OtherTypes

LEMMA StepOther == ASSUME IInv, OtherTypes, [Next]_vars PROVE OtherTypes'
<1>1. ASSUME NEW p \in Admin, CreateRule(p) \/ UpdateRule(p) \/ DeleteRule(p)
      PROVE  UNCHANGED <<whole, stopped, failed, at, hits, verdict>>
  BY <1>1 DEF CreateRule, UpdateRule, DeleteRule, Commit, memory, evaluating
<1>2. ASSUME NEW p \in Admin, ReloadRules(p) \/ Respond(p)
      PROVE  /\ UNCHANGED <<whole, stopped, at, hits, verdict>>
             /\ failed' \in [Admin -> BOOLEAN]
  BY <1>2 DEF OtherTypes, ReloadRules, Respond, memory, evaluating
<1>3. ASSUME NEW p \in Loader, LoadRules(p)
      PROVE  /\ UNCHANGED <<stopped, at, hits, verdict>>
             /\ whole' \in BOOLEAN /\ failed' \in [Admin -> BOOLEAN]
  <2>1. Failed(p) \in [Admin -> BOOLEAN]
    BY DEF Failed, OtherTypes
  <2>2. UNCHANGED <<stopped, at, hits, verdict>>
    BY <1>3 DEF LoadRules, Lock, QueryFails, ReadRows, ReadSome, StoreRules, evaluating
  <2>3. failed' = failed \/ failed' = Failed(p)
    BY <1>3 DEF LoadRules, Lock, QueryFails, ReadRows, ReadSome, StoreRules
  <2>4. whole' = whole \/ whole' = fetched[p].whole
    BY <1>3 DEF LoadRules, Lock, QueryFails, ReadRows, ReadSome, StoreRules, memory
  <2>5. fetched[p].whole \in BOOLEAN
    BY DEF IInv, LoadTypes, Row
  <2> QED
    BY <2>1, <2>2, <2>3, <2>4, <2>5 DEF OtherTypes
<1>4. Poll \/ PollEnds \/ Stop \/ UNCHANGED vars
        => UNCHANGED <<whole, failed, at, hits, verdict>> /\ stopped' \in {stopped, TRUE}
  BY DEF Poll, PollEnds, Stop, vars, memory, loading, evaluating
<1> QED
  BY <1>1, <1>2, <1>3, <1>4, EvaluationTypes DEF OtherTypes, Next

LEMMA OtherTypesHold == Spec => []OtherTypes
<1>1. Init => OtherTypes
  BY InitOther
<1>2. IInv /\ OtherTypes /\ [Next]_vars => OtherTypes'
  BY StepOther
<1> QED
  BY <1>1, <1>2, InvariantHolds, PTL DEF Spec

\* Every variable keeps its type: no version, loaded, written or fetched, is
\* ahead of the table's, and no verdict is outside the known actions.
THEOREM RuleTypes == Spec => []TypeOK
<1>1. IInv /\ OtherTypes => TypeOK
  <2> SUFFICES ASSUME IInv, OtherTypes PROVE TypeOK
    OBVIOUS
  <2>1. fetched \in [Loader -> [rows: [Rule -> Body], version: 0..version, whole: BOOLEAN]]
    BY DEF IInv, LoadTypes, Row
  <2> QED
    BY <2>1 DEF IInv, LoadTypes, OtherTypes, TypeOK
<1> QED
  BY <1>1, InvariantHolds, OtherTypesHold, PTL

\* Only Decide takes an evaluation from its first load to its verdict.
LEMMA OnlyDecide ==
    ASSUME OtherTypes, [Next]_vars, NEW e \in Evaluation, at[e] = "hit", at'[e] = "decided"
    PROVE  Decide(e)
<1>1. at' # at
  OBVIOUS
<1>2. at' = at \/ \E i \in Evaluation: Hit(i) \/ Decide(i) \/ Finish(i)
  BY DEF Next, CreateRule, UpdateRule, DeleteRule, Commit, ReloadRules, Respond, Poll,
     PollEnds, Stop, LoadRules, Lock, QueryFails, ReadRows, ReadSome, StoreRules,
     vars, evaluating
<1>3. PICK i \in Evaluation: Hit(i) \/ Decide(i) \/ Finish(i)
  BY <1>1, <1>2
<1>4. i = e
  BY <1>3 DEF Hit, Decide, Finish, OtherTypes
<1> QED
  BY <1>3, <1>4 DEF Hit, Finish

\* An evaluation decides by the rules that hit and are still there, the
\* severest first, and by the score when there are none (rules.go:71-121).
THEOREM VerdictGrounded == Spec => VerdictIsGrounded
<1> DEFINE names(e) == {hits[e][r]: r \in Rule} \ {NoName}
           asked(e) == {rules[r].action: r \in {i \in Rule: rules[i].name \in names(e)}}
                         \cap {"block", "escalate", "review"}
<1>1. ASSUME OtherTypes, Named, NEW e \in Evaluation, Decide(e)
      PROVE  /\ asked(e) = {} => verdict'[e] = verdict[e]
             /\ "block" \in asked(e) => verdict'[e] = "block"
             /\ "block" \notin asked(e) /\ "escalate" \in asked(e)
                  => verdict'[e] = "escalate"
             /\ asked(e) = {"review"} => verdict'[e] = "review"
  <2> DEFINE s == Override(hits[e], rules)
  <2>1. Asked(hits[e], rules, RuleCount) = asked(e)
    BY <1>1, AskedByName DEF Named
  <2>2. s \in Severity /\ Severest(s, asked(e))
    <3> HIDE DEF asked
    <3> QED
      BY <2>1, OverrideIsSeverest
  <2>3. verdict'[e] = IF s = "none" THEN verdict[e] ELSE s
    BY <1>1 DEF Decide, OtherTypes
  <2> HIDE DEF asked, s
  <2> QED
    BY <2>2, <2>3 DEF Severity, Severest
<1>2. OtherTypes /\ Named /\ [Next]_vars
      => [\A e \in Evaluation: at[e] = "hit" /\ at'[e] = "decided" =>
            /\ asked(e) = {} => verdict'[e] = verdict[e]
            /\ "block" \in asked(e) => verdict'[e] = "block"
            /\ "block" \notin asked(e) /\ "escalate" \in asked(e)
                 => verdict'[e] = "escalate"
            /\ asked(e) = {"review"} => verdict'[e] = "review"]_vars
  <2> HIDE DEF asked
  <2> QED
    BY <1>1, OnlyDecide
<1> QED
  BY <1>2, OtherTypesHold, NamesHold, PTL DEF Spec, VerdictIsGrounded

=============================================================================
