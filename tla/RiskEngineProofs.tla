-------------------------- MODULE RiskEngineProofs ---------------------------
(***************************************************************************)
(* For any number of evaluations, clients and trajectories, whatever their *)
(* signatures, counters and habits are, and with every Redis command       *)
(* failing at will: nobody is escalated or blocked by the score without a  *)
(* trajectory that was met before, the replay of what is remembered is     *)
(* reviewed, and a counter lives for ever only by a failed command or a    *)
(* crash.                                                                  *)
(*                                                                         *)
(* In the second half, of signatures of any length: the distance by which  *)
(* the replay scorer compares them is the edit distance.  The prover has   *)
(* no induction over data; the one over 0..N that the proofs need follows  *)
(* from the order of the naturals being well-founded.                      *)
(***************************************************************************)
EXTENDS RiskEngine, WellFoundedInduction, SequenceTheorems, FiniteSetTheorems, TLAPS

-----------------------------------------------------------------------------
(* The scores *)

LEMMA Capped ==
    ASSUME NEW x \in Nat
    PROVE  Min({20, x}) \in 0..20
<1>1. \E m \in {20, x}: \A y \in {20, x}: m <= y
  <2>1. CASE x <= 20
    BY <2>1
  <2>2. CASE ~(x <= 20)
    BY <2>2
  <2> QED
    BY <2>1, <2>2
<1>2. Min({20, x}) \in {20, x} /\ Min({20, x}) <= 20
  BY <1>1 DEF Min
<1> QED
  BY <1>2

LEMMA BehaviorRange == \A signs: BehaviorScore(signs) \in 0..20
<1> SUFFICES ASSUME NEW signs
             PROVE  BehaviorScore(signs) \in 0..20
  OBVIOUS
<1> DEFINE p(s) == IF s \in signs THEN Penalty[s] ELSE 0
           sum == p("constant") + p("straight") + p("pauseless") + p("turnless")
                    + p("smooth") + p("flat") + p("fast") + p("dense")
<1>1. /\ p("constant") \in Nat /\ p("straight") \in Nat /\ p("pauseless") \in Nat
      /\ p("turnless") \in Nat /\ p("smooth") \in Nat /\ p("flat") \in Nat
      /\ p("fast") \in Nat /\ p("dense") \in Nat
  BY DEF Penalty
<1>2. sum \in Nat
  <2> HIDE DEF p
  <2> QED
    BY <1>1
<1>3. Min({20, sum}) \in 0..20
  <2> HIDE DEF sum
  <2> QED
    BY <1>2, Capped
<1>4. Penalty["nodata"] \in 0..20
  BY DEF Penalty
<1> QED
  BY <1>3, <1>4 DEF BehaviorScore

LEMMA ReputationRange == \A n \in Counts: ReputationScore(n) \in 0..20
<1> SUFFICES ASSUME NEW n \in Counts
             PROVE  ReputationScore(n) \in 0..20
  OBVIOUS
<1> DEFINE a == IF n["ip_fail"] > 10 THEN 6 ELSE IF n["ip_fail"] > 5 THEN 3 ELSE 0
           b == IF n["ip_fps"] > 20 THEN 6 ELSE IF n["ip_fps"] > 10 THEN 3 ELSE 0
           c == IF n["fp_ips"] > 15 THEN 5 ELSE IF n["fp_ips"] > 8 THEN 2 ELSE 0
           d == IF n["fp_fail"] > 10 THEN 4 ELSE 0
<1>1. a \in Nat /\ b \in Nat /\ c \in Nat /\ d \in Nat
  OBVIOUS
<1>2. a + b + c + d \in Nat
  <2> HIDE DEF a, b, c, d
  <2> QED
    BY <1>1
<1>3. Min({20, a + b + c + d}) \in 0..20
  <2> HIDE DEF a, b, c, d
  <2> QED
    BY <1>2, Capped
<1> QED
  BY <1>3 DEF ReputationScore

\* Without a replay or a resemblance the score stays below the threshold of an
\* escalation, with a replay it is not below that of a review.
LEMMA ScoresDecide ==
    ASSUME NEW b \in 0..20, NEW r \in {0, 10, 19}, NEW p \in 0..20, Configured,
           NEW s, s = WeightedScore(b, r, p),
           NEW action \in {Asks(s[1], s[2]), Asks(s[1] - 1, s[2])}
    PROVE  /\ r = 0 => action \notin {"escalate", "block"}
           /\ r = 19 => action # "pass"
<1>1. s[1] = 3 * b + 4 * r + 2 * p /\ s[2] = 180
  BY DEF WeightedScore
<1>2. PICK n \in {s[1], s[1] - 1}: action = Asks(n, 180)
  BY <1>1
<1>3. n \in Int
  BY <1>1, <1>2
<1>4. CASE r = 0
  <2>1. 10 * n < 6 * 180
    BY <1>1, <1>2, <1>4
  <2>2. ~(10 * n >= 8 * 180) /\ ~(10 * n >= 6 * 180)
    BY <1>3, <2>1
  <2>3. Asks(n, 180) \in {"review", "pass"}
    BY <2>2 DEF Asks
  <2> QED
    BY <1>2, <1>4, <2>3
<1>5. CASE r = 19
  <2>1. 10 * n >= 4 * 180
    BY <1>1, <1>2, <1>5
  <2>2. Asks(n, 180) \in {"block", "escalate", "review"}
    BY <1>3, <2>1 DEF Asks
  <2> QED
    BY <1>2, <1>5, <2>2
<1> QED
  BY <1>4, <1>5

LEMMA AsksAction == \A n, d: Asks(n, d) \in Action
  BY DEF Asks, Action

-----------------------------------------------------------------------------
(* Types *)

RequestOK ==
    /\ request \in [Evaluation -> [ip: Ip \cup {"none"}, fp: Fp \cup {"none"},
                                   trajectory: Trajectory \cup {Short}, signs: SUBSET Sign]]
    /\ \A e \in Evaluation: at[e] # "idle" => request[e].ip \in Ip /\ request[e].fp \in Fp

\* What is left of RecordResult: an expiry follows its increment.
TodoOK ==
    /\ todo \in [Evaluation -> Seq(Key)]
    /\ \A e \in Evaluation: at[e] = "expiring" => todo[e] # <<>>

\* The replay scorer works only while its evaluation waits for it.
StagesOK ==
    \A e \in Evaluation:
        /\ replay[e].at \in {"get", "set"} => at[e] = "scoring"
        /\ ~Configured => replay[e].at \in {"idle", "done"}

Types == TypeOK /\ RequestOK /\ TodoOK /\ StagesOK

LEMMA IncrementsOK ==
    ASSUME NEW q, q.ip \in Ip, q.fp \in Fp, NEW passed
    PROVE  Increments(q, passed) \in Seq(Key) /\ Len(Increments(q, passed)) \in 0..4
<1>1. /\ <<"ip_fps", q.ip>> \in Key /\ <<"fp_ips", q.fp>> \in Key
      /\ <<"ip_fail", q.ip>> \in Key /\ <<"fp_fail", q.fp>> \in Key
  BY DEF Key
<1>2. \A a, b \in Key: <<a, b>> \in Seq(Key) /\ Len(<<a, b>>) = 2
  OBVIOUS
<1>3. \A u, v \in Seq(Key): u \o v \in Seq(Key) /\ Len(u \o v) = Len(u) + Len(v)
  OBVIOUS
<1>4. <<>> \in Seq(Key) /\ Len(<<>>) = 0
  OBVIOUS
<1> DEFINE s == << <<"ip_fps", q.ip>>, <<"fp_ips", q.fp>> >>
           t == IF passed THEN <<>> ELSE << <<"ip_fail", q.ip>>, <<"fp_fail", q.fp>> >>
<1>5. s \in Seq(Key) /\ Len(s) = 2
  BY <1>1, <1>2
<1>6. t \in Seq(Key) /\ Len(t) \in {0, 2}
  BY <1>1, <1>2, <1>4
<1>7. Increments(q, passed) = s \o t
  BY DEF Increments
<1> HIDE DEF s, t
<1>8. s \o t \in Seq(Key) /\ Len(s \o t) = Len(s) + Len(t)
  BY <1>3, <1>5, <1>6
<1>9. Len(s) + Len(t) \in 0..4
  <2>1. Len(s) + Len(t) = 2 + 0 \/ Len(s) + Len(t) = 2 + 2
    BY <1>5, <1>6
  <2>2. 2 + 0 \in 0..4 /\ 2 + 2 \in 0..4
    OBVIOUS
  <2> QED
    BY <2>1, <2>2
<1>10. Increments(q, passed) \in Seq(Key)
  BY <1>7, <1>8
<1>11. Len(Increments(q, passed)) \in 0..4
  BY <1>7, <1>8, <1>9
<1> QED
  BY <1>10, <1>11

LEMMA Update ==
    ASSUME NEW S, NEW T, NEW f \in [S -> T], NEW x, NEW v \in T
    PROVE  [f EXCEPT ![x] = v] \in [S -> T]
  OBVIOUS

LEMMA TypesInit == Init => Types
  BY DEF Init, Types, TypeOK, RequestOK, TodoOK, StagesOK, Nobody, NoRequest, Source

Scorer == [at: {"idle", "get", "set", "done"}, score: {0, 10, 19}, by: Source]

LEMMA TypesReplay ==
    ASSUME Types, NEW e \in Evaluation, at[e] = "scoring", NEW v \in Scorer,
           replay' = [replay EXCEPT ![e] = v], v.at \in {"set", "done"},
           ~Configured => v.at = "done",
           UNCHANGED <<keys, at, request, standing, decision, todo>>,
           known' \subseteq Evaluation,
           stored' \in [Fp -> [trajectory: Trajectory \cup {Short}, by: Source]]
    PROVE  Types'
<1>1. replay \in [Evaluation -> Scorer]
  BY DEF Types, TypeOK, Scorer
<1>2. replay' \in [Evaluation -> Scorer]
  BY <1>1, Update
<1>3. TypeOK' /\ RequestOK' /\ TodoOK'
  BY <1>2 DEF Types, TypeOK, RequestOK, TodoOK, Scorer
<1>4. StagesOK'
  BY <1>1 DEF Types, StagesOK, Scorer
<1> QED
  BY <1>3, <1>4 DEF Types

LEMMA TypesScore ==
    ASSUME Types, NEW e \in Evaluation, Score(e)
    PROVE  Types'
<1> DEFINE Memory == [trajectory: Trajectory \cup {Short}, by: Source]
<1>1. replay \in [Evaluation -> Scorer] /\ stored \in [Fp -> Memory]
  BY DEF Types, TypeOK, Scorer
<1>2. replay[e].at \in {"get", "set"} => at[e] = "scoring" /\ Configured
  BY DEF Types, StagesOK
<1>3. at[e] = "scoring" => request[e].fp \in Fp /\ request[e].trajectory \in Trajectory \cup {Short}
  BY DEF Types, RequestOK
<1>4. CASE ReplaySkip(e)
  <2>1. [replay[e] EXCEPT !.at = "done"] \in Scorer
    BY <1>1 DEF Scorer
  <2>2. /\ replay' = [replay EXCEPT ![e] = [replay[e] EXCEPT !.at = "done"]]
        /\ UNCHANGED <<stored, keys, at, request, standing, decision, todo>>
        /\ replay[e].at = "get" /\ known' \subseteq Evaluation
    BY <1>4 DEF ReplaySkip, Types, TypeOK
  <2> QED
    BY <1>1, <1>2, <2>1, <2>2, TypesReplay DEF Scorer
<1>5. CASE ReplayGet(e) \/ ReplayGetFails(e)
  <2>1. /\ UNCHANGED <<stored, keys, at, request, standing, decision, todo>>
        /\ replay[e].at = "get" /\ known' \subseteq Evaluation
        /\ \/ \E n \in {19, 10}:
                replay' = [replay EXCEPT ![e] =
                             [at |-> "done", score |-> n, by |-> stored[request[e].fp].by]]
           \/ replay' = [replay EXCEPT ![e] = [replay[e] EXCEPT !.at = "set"]]
    BY <1>5 DEF ReplayGet, ReplayGetFails, Types, TypeOK
  <2>2. stored[request[e].fp].by \in Source
    BY <1>1, <1>2, <1>3, <2>1
  <2>3. ASSUME NEW n \in {19, 10}
        PROVE  /\ [at |-> "done", score |-> n, by |-> stored[request[e].fp].by] \in Scorer
               /\ [at |-> "done", score |-> n, by |-> stored[request[e].fp].by].at = "done"
    BY <2>2 DEF Scorer
  <2>4. /\ [replay[e] EXCEPT !.at = "set"] \in Scorer
        /\ [replay[e] EXCEPT !.at = "set"].at = "set"
    BY <1>1 DEF Scorer
  <2>5. CASE replay' = [replay EXCEPT ![e] = [replay[e] EXCEPT !.at = "set"]]
    BY <1>1, <1>2, <2>1, <2>4, <2>5, TypesReplay
  <2>6. ASSUME NEW n \in {19, 10},
               replay' = [replay EXCEPT ![e] =
                            [at |-> "done", score |-> n, by |-> stored[request[e].fp].by]]
        PROVE  Types'
    BY <1>1, <1>2, <2>1, <2>3, <2>6, TypesReplay
  <2> QED
    BY <2>1, <2>5, <2>6
<1>6. CASE ReplaySet(e)
  <2> DEFINE v == [replay[e] EXCEPT !.at = "done"]
             mine == [trajectory |-> request[e].trajectory, by |-> e]
  <2>1. v \in Scorer /\ v.at = "done"
    BY <1>1 DEF Scorer
  <2>2. /\ replay' = [replay EXCEPT ![e] = v] /\ replay[e].at = "set"
        /\ UNCHANGED <<keys, at, request, standing, decision, todo>>
        /\ stored' = [stored EXCEPT ![request[e].fp] = mine] \/ stored' = stored
        /\ known' \subseteq Evaluation
    BY <1>6 DEF ReplaySet, StillKnown, Types, TypeOK
  <2>3. mine \in Memory
    BY <1>2, <1>3, <2>2 DEF Source
  <2>4. stored' \in [Fp -> Memory]
    <3> HIDE DEF mine, Memory
    <3> QED
      BY <1>1, <2>2, <2>3, Update
  <2> HIDE DEF v
  <2> QED
    BY <1>2, <2>1, <2>2, <2>4, TypesReplay
<1>7. CASE ReputationRead(e)
  <2>1. PICK n \in Counts:
          standing' = [standing EXCEPT ![e] = [at |-> "done", score |-> ReputationScore(n)]]
    BY <1>7 DEF ReputationRead
  <2>2. [at |-> "done", score |-> ReputationScore(n)]
            \in [at: {"idle", "get", "done"}, score: 0..20]
    BY ReputationRange
  <2>3. standing' \in [Evaluation -> [at: {"idle", "get", "done"}, score: 0..20]]
    BY <2>1, <2>2, Update DEF Types, TypeOK
  <2>4. UNCHANGED <<stored, keys, at, request, replay, decision, todo, known>>
    BY <1>7 DEF ReputationRead
  <2> QED
    BY <2>3, <2>4 DEF Types, TypeOK, RequestOK, TodoOK, StagesOK
<1> QED
  BY <1>4, <1>5, <1>6, <1>7 DEF Score

LEMMA TypesStart ==
    ASSUME Types, NEW e \in Evaluation, Start(e)
    PROVE  Types'
<1>1. PICK i \in Ip, f \in Fp, t \in Trajectory \cup {Short}, s \in Habits:
        /\ request' = [request EXCEPT ![e] =
                          [ip |-> i, fp |-> f, trajectory |-> t, signs |-> s]]
        /\ replay' = [replay EXCEPT ![e].at = IF Configured THEN "get" ELSE "done"]
        /\ standing' = [standing EXCEPT ![e].at = IF Configured THEN "get" ELSE "done"]
        /\ known' = IF Configured /\ Remembers(stored, request'[e])
                    THEN known \cup {e} ELSE known
  BY DEF Start
<1>2. /\ at[e] = "idle" /\ at' = [at EXCEPT ![e] = "scoring"]
      /\ UNCHANGED <<stored, keys, decision, todo>>
  BY DEF Start
<1>3. s \in SUBSET Sign
  BY EngineAssumption
<1>4. RequestOK'
  BY <1>1, <1>2, <1>3 DEF Types, TypeOK, RequestOK
<1>5. at' \in [Evaluation -> {"idle", "scoring", "recording", "expiring", "done"}]
  BY <1>2 DEF Types, TypeOK
<1>6. replay' \in [Evaluation -> Scorer] /\ StagesOK'
  <2> DEFINE v == [replay[e] EXCEPT !.at = IF Configured THEN "get" ELSE "done"]
  <2>1. replay \in [Evaluation -> Scorer] /\ replay' = [replay EXCEPT ![e] = v]
    BY <1>1 DEF Types, TypeOK, Scorer
  <2>2. v \in Scorer /\ v.at = IF Configured THEN "get" ELSE "done"
    BY <2>1 DEF Scorer
  <2> HIDE DEF v
  <2>3. replay' \in [Evaluation -> Scorer]
    BY <2>1, <2>2, Update
  <2>4. replay'[e] = v /\ \A d \in Evaluation: d # e => replay'[d] = replay[d]
    BY <2>1
  <2>5. at'[e] = "scoring" /\ \A d \in Evaluation: d # e => at'[d] = at[d]
    BY <1>2 DEF Types, TypeOK
  <2>6. ~Configured => v.at \in {"idle", "done"}
    BY <2>2
  <2>7. StagesOK'
    BY <2>4, <2>5, <2>6 DEF Types, StagesOK
  <2> QED
    BY <2>3, <2>7
<1>7. standing' \in [Evaluation -> [at: {"idle", "get", "done"}, score: 0..20]]
  <2> DEFINE Reading == [at: {"idle", "get", "done"}, score: 0..20]
             v == [standing[e] EXCEPT !.at = IF Configured THEN "get" ELSE "done"]
  <2>1. standing \in [Evaluation -> Reading] /\ standing' = [standing EXCEPT ![e] = v]
    BY <1>1 DEF Types, TypeOK
  <2>2. v \in Reading
    BY <2>1
  <2> HIDE DEF v, Reading
  <2>3. standing' \in [Evaluation -> Reading]
    BY ONLY <2>1, <2>2, Update
  <2> QED
    BY <2>3 DEF Reading
<1>8. known' \subseteq Evaluation
  <2>1. known' = known \/ known' = known \cup {e}
    BY DEF Start
  <2> QED
    BY <2>1 DEF Types, TypeOK
<1>9. TypeOK' /\ TodoOK'
  BY <1>2, <1>5, <1>6, <1>7, <1>8 DEF Types, TypeOK, TodoOK, Scorer
<1> QED
  BY <1>4, <1>6, <1>9 DEF Types

LEMMA TypesDecide ==
    ASSUME Types, NEW e \in Evaluation, Decide(e)
    PROVE  Types'
<1>1. /\ at[e] = "scoring" /\ replay[e].at = "done"
      /\ request' = [request EXCEPT ![e].signs = {}]
      /\ standing' = [standing EXCEPT ![e].score = 0]
      /\ known' = known \ {e}
      /\ UNCHANGED <<stored, keys, replay>>
  BY DEF Decide, AllScored
<1>2. PICK action \in Action, passed \in BOOLEAN:
        /\ decision' = [decision EXCEPT ![e] = action]
        /\ \/ /\ at' = [at EXCEPT ![e] = "recording"]
              /\ todo' = [todo EXCEPT ![e] = IF Configured THEN Increments(request[e], passed)
                                                           ELSE <<>>]
           \/ at' = [at EXCEPT ![e] = "done"] /\ UNCHANGED todo
  <2> DEFINE s == WeightedScore(BehaviorScore(request[e].signs), replay[e].score,
                                standing[e].score)
  <2>1. PICK action \in {Asks(s[1], s[2]), Asks(s[1] - 1, s[2])}, o \in Overrides:
          /\ decision' = [decision EXCEPT ![e] = action]
          /\ LET passed == (IF o = "none" THEN action ELSE o) # "block" IN
             \/ /\ at' = [at EXCEPT ![e] = "recording"]
                /\ todo' = [todo EXCEPT ![e] =
                              IF Configured THEN Increments(request[e], passed)
                                            ELSE <<>>]
             \/ passed /\ at' = [at EXCEPT ![e] = "done"] /\ UNCHANGED todo
    BY DEF Decide
  <2>2. action \in Action
    BY AsksAction
  <2> HIDE DEF s
  <2> QED
    BY <2>1, <2>2
<1>3. request[e].ip \in Ip /\ request[e].fp \in Fp
  BY <1>1 DEF Types, RequestOK
<1>4. Increments(request[e], passed) \in Seq(Key) /\ Len(Increments(request[e], passed)) \in 0..4
  BY <1>3, IncrementsOK
<1>5. todo' \in [Evaluation -> Seq(Key)] /\ \A d \in Evaluation: Len(todo'[d]) \in 0..4
  <2> DEFINE inc == Increments(request[e], passed)
  <2>1. CASE todo' = todo
    BY <2>1 DEF Types, TypeOK, TodoOK
  <2>2. CASE todo' = [todo EXCEPT ![e] = inc]
    <3> HIDE DEF inc
    <3> QED
      BY <1>4, <2>2 DEF Types, TypeOK, TodoOK, inc
  <2>3. CASE todo' = [todo EXCEPT ![e] = <<>>]
    BY <2>3 DEF Types, TypeOK, TodoOK
  <2> QED
    BY <1>2, <2>1, <2>2, <2>3
<1>6. at' \in [Evaluation -> {"idle", "scoring", "recording", "expiring", "done"}]
  BY <1>2 DEF Types, TypeOK
<1>7. decision' \in [Evaluation -> Action \cup {"none"}]
  BY <1>2 DEF Types, TypeOK
<1>8. standing' \in [Evaluation -> [at: {"idle", "get", "done"}, score: 0..20]]
  <2> DEFINE S == [at: {"idle", "get", "done"}, score: 0..20]
  <2>1. standing \in [Evaluation -> S]
    BY DEF Types, TypeOK
  <2>2. [standing[e] EXCEPT !.score = 0] \in S
    BY <2>1
  <2> HIDE DEF S
  <2>3. [standing EXCEPT ![e].score = 0] \in [Evaluation -> S]
    BY <2>1, <2>2
  <2> QED
    BY <1>1, <2>3 DEF S
<1>9. RequestOK'
  <2> DEFINE Q == [ip: Ip \cup {"none"}, fp: Fp \cup {"none"},
                   trajectory: Trajectory \cup {Short}, signs: SUBSET Sign]
             v == [request[e] EXCEPT !.signs = {}]
  <2>1. request \in [Evaluation -> Q] /\ request' = [request EXCEPT ![e] = v]
    BY <1>1 DEF Types, RequestOK
  <2>2. v \in Q /\ v.ip = request[e].ip /\ v.fp = request[e].fp
    BY <2>1
  <2>3. \A d \in Evaluation: request'[d].ip = request[d].ip /\ request'[d].fp = request[d].fp
    BY <2>1, <2>2
  <2>4. request' \in [Evaluation -> Q]
    <3> HIDE DEF v, Q
    <3> QED
      BY <2>1, <2>2, Update
  <2>5. \A d \in Evaluation: at'[d] # "idle" => at[d] # "idle"
    BY <1>1, <1>2 DEF Types, TypeOK
  <2> QED
    BY <2>3, <2>4, <2>5 DEF Types, RequestOK
<1>10. TodoOK' /\ StagesOK'
  <2> DEFINE rest == IF Configured THEN Increments(request[e], passed) ELSE <<>>
  <2>1. /\ \E v \in {"recording", "done"}: at' = [at EXCEPT ![e] = v]
        /\ todo' = [todo EXCEPT ![e] = rest] \/ todo' = todo
    BY <1>2
  <2> HIDE DEF rest
  <2>2. \A d \in Evaluation:
          /\ at'[d] \in {"scoring", "expiring"} => d # e /\ at'[d] = at[d]
          /\ d # e => at'[d] = at[d] /\ todo'[d] = todo[d]
    BY <2>1 DEF Types, TypeOK, TodoOK
  <2>3. TodoOK'
    BY <1>5, <2>2 DEF Types, TodoOK
  <2>4. StagesOK'
    BY <1>1, <2>2 DEF Types, StagesOK
  <2> QED
    BY <2>3, <2>4
<1>11. TypeOK'
  BY <1>1, <1>5, <1>6, <1>7, <1>8 DEF Types, TypeOK
<1> QED
  BY <1>9, <1>10, <1>11 DEF Types

LEMMA TypesRecord ==
    ASSUME Types, NEW e \in Evaluation, Add(e) \/ Expire(e) \/ Recorded(e)
    PROVE  Types'
<1>1. /\ UNCHANGED <<stored, request, replay, standing, decision, known>>
      /\ \/ at[e] = "recording" /\ todo[e] # <<>> /\ at' = [at EXCEPT ![e] = "expiring"] /\ todo' = todo
         \/ /\ at[e] = "expiring" /\ at' = [at EXCEPT ![e] = "recording"]
            /\ todo' = [todo EXCEPT ![e] = Tail(todo[e])]
         \/ /\ at[e] = "recording" /\ at' = [at EXCEPT ![e] = "done"]
            /\ todo' = [todo EXCEPT ![e] = <<>>]
  BY DEF Add, Expire, Recorded
<1>2. keys' \in [Key -> {"absent", "waiting", "mortal", "leaked"}]
  <2>1. keys' = keys \/ \E k, v: /\ v \in {"absent", "waiting", "mortal", "leaked", keys[k]}
                                 /\ keys' = [keys EXCEPT ![k] = v]
    <3>1. CASE Add(e)
      BY <3>1 DEF Add
    <3>2. CASE Expire(e)
      BY <3>2 DEF Expire
    <3>3. CASE Recorded(e)
      BY <3>3 DEF Recorded
    <3> QED
      BY <3>1, <3>2, <3>3
  <2> QED
    BY <2>1 DEF Types, TypeOK
<1>3. todo[e] # <<>> => Tail(todo[e]) \in Seq(Key) /\ Len(Tail(todo[e])) \in 0..4
  BY DEF Types, TypeOK, TodoOK
<1>4. /\ todo' \in [Evaluation -> Seq(Key)]
      /\ \A d \in Evaluation: Len(todo'[d]) \in 0..4 /\ (at'[d] = "expiring" => todo'[d] # <<>>)
  <2> DEFINE tail == Tail(todo[e])
  <2>1. CASE /\ at[e] = "expiring" /\ at' = [at EXCEPT ![e] = "recording"]
             /\ todo' = [todo EXCEPT ![e] = tail]
    <3>1. tail \in Seq(Key) /\ Len(tail) \in 0..4
      BY <1>3, <2>1 DEF Types, TodoOK
    <3> HIDE DEF tail
    <3> QED
      BY <2>1, <3>1 DEF Types, TypeOK, TodoOK
  <2>2. CASE at[e] = "recording" /\ todo[e] # <<>> /\ at' = [at EXCEPT ![e] = "expiring"] /\ todo' = todo
    BY <2>2 DEF Types, TypeOK, TodoOK
  <2>3. CASE at' = [at EXCEPT ![e] = "done"] /\ todo' = [todo EXCEPT ![e] = <<>>]
    BY <2>3 DEF Types, TypeOK, TodoOK
  <2> QED
    BY <1>1, <2>1, <2>2, <2>3
<1>5. at[e] \in {"recording", "expiring"}
      /\ \E v \in {"recording", "expiring", "done"}: at' = [at EXCEPT ![e] = v]
  BY <1>1
<1>6. at' \in [Evaluation -> {"idle", "scoring", "recording", "expiring", "done"}]
  BY <1>5 DEF Types, TypeOK
<1>7. RequestOK' /\ StagesOK'
  BY <1>1, <1>5 DEF Types, TypeOK, RequestOK, StagesOK
<1> QED
  BY <1>1, <1>2, <1>4, <1>6, <1>7 DEF Types, TypeOK, TodoOK

LEMMA TypesOthers ==
    ASSUME Types,
           (\E f \in Fp: Forget(f)) \/ (\E k \in Key: Lapse(k)) \/ UNCHANGED vars
    PROVE  Types'
<1>1. UNCHANGED <<at, request, replay, standing, decision, todo>> /\ known' \subseteq Evaluation
  BY DEF Forget, Lapse, vars, StillKnown, Types, TypeOK
<1>2. stored' \in [Fp -> [trajectory: Trajectory \cup {Short}, by: Source]]
  BY DEF Types, TypeOK, Forget, Lapse, vars, Nobody, Source
<1>3. keys' \in [Key -> {"absent", "waiting", "mortal", "leaked"}]
  BY DEF Types, TypeOK, Forget, Lapse, vars
<1> QED
  BY <1>1, <1>2, <1>3 DEF Types, TypeOK, RequestOK, TodoOK, StagesOK

LEMMA TypesCrash ==
    ASSUME Types, Crash
    PROVE  Types'
<1> DEFINE Q == [ip: Ip \cup {"none"}, fp: Fp \cup {"none"},
                 trajectory: Trajectory \cup {Short}, signs: SUBSET Sign]
<1>1. request \in [Evaluation -> Q] /\ replay \in [Evaluation -> Scorer]
  BY DEF Types, TypeOK, RequestOK, Scorer
<1>2. request' \in [Evaluation -> Q]
  BY <1>1 DEF Crash
<1>3. replay' \in [Evaluation -> Scorer]
  BY <1>1 DEF Crash, Scorer
<1>4. \A e \in Evaluation:
        /\ request'[e].ip = request[e].ip /\ request'[e].fp = request[e].fp
        /\ at'[e] = IF at[e] = "idle" THEN "idle" ELSE "done"
        /\ replay'[e].at \in {"done", replay[e].at}
        /\ at[e] # "idle" => replay'[e].at = "done"
  <2>1. \A e \in Evaluation: request'[e].ip = request[e].ip /\ request'[e].fp = request[e].fp
    BY <1>1 DEF Crash
  <2>2. \A e \in Evaluation:
          replay'[e] = IF at[e] = "idle" THEN replay[e] ELSE [replay[e] EXCEPT !.at = "done"]
    BY DEF Crash
  <2>3. \A e \in Evaluation: [replay[e] EXCEPT !.at = "done"].at = "done"
    BY <1>1 DEF Scorer
  <2>4. \A e \in Evaluation: at'[e] = IF at[e] = "idle" THEN "idle" ELSE "done"
    BY DEF Crash
  <2> QED
    BY <2>1, <2>2, <2>3, <2>4
<1>5. RequestOK'
  BY <1>2, <1>4 DEF Types, RequestOK
<1>6. StagesOK'
  <2>1. \A e \in Evaluation:
          /\ replay[e].at \in {"get", "set"} => at[e] = "scoring"
          /\ ~Configured => replay[e].at \in {"idle", "done"}
    BY DEF Types, StagesOK
  <2> QED
    BY <1>4, <2>1 DEF StagesOK
<1>7. /\ todo' = [e \in Evaluation |-> <<>>]
      /\ at' = [e \in Evaluation |-> IF at[e] = "idle" THEN "idle" ELSE "done"]
  BY DEF Crash
<1>8. TodoOK' /\ \A e \in Evaluation: Len(todo'[e]) \in 0..4
  BY <1>7 DEF TodoOK
<1>9. /\ stored' = stored /\ decision' = decision /\ known' = {}
      /\ keys' = [k \in Key |-> IF keys[k] = "waiting" THEN "leaked" ELSE keys[k]]
      /\ standing' = [e \in Evaluation |->
                    [at |-> IF at[e] = "idle" THEN "idle" ELSE "done", score |-> 0]]
  BY DEF Crash
<1>10. TypeOK'
  BY <1>3, <1>7, <1>8, <1>9 DEF Types, TypeOK, Scorer
<1> QED
  BY <1>5, <1>6, <1>8, <1>10 DEF Types

LEMMA TypesStep == Types /\ [Next]_vars => Types'
  BY TypesScore, TypesStart, TypesDecide, TypesRecord, TypesOthers, TypesCrash DEF Next

LEMMA Typed == Spec => []Types
  BY TypesInit, TypesStep, PTL DEF Spec

\* The engine keeps its types, the scores their ranges and RecordResult its
\* order, whatever fails (engine.go, replay.go, reputation.go).
THEOREM EngineTypes == Spec => []TypeOK
<1>1. Types => TypeOK
  BY DEF Types
<1> QED
  BY <1>1, Typed, PTL

-----------------------------------------------------------------------------
(* The reputation keys *)

\* A step that touches no key, and no evaluation between an increment and its
\* expiry, leaves every waiting key its evaluation.
LEMMA MortalKept ==
    ASSUME Types, ForeverOnlyByFault, keys' = keys,
           \A d \in Evaluation: at[d] = "expiring" => at'[d] = at[d] /\ todo'[d] = todo[d]
    PROVE  ForeverOnlyByFault'
  BY DEF ForeverOnlyByFault

LEMMA MortalStep ==
    ASSUME Types, ForeverOnlyByFault, [Next]_vars
    PROVE  ForeverOnlyByFault'
<1> USE DEF Types, TypeOK
<1>1. ASSUME NEW e \in Evaluation, Start(e) \/ Decide(e) \/ Recorded(e)
      PROVE  ForeverOnlyByFault'
  <2>1. keys' = keys /\ at[e] # "expiring"
    BY <1>1 DEF Start, Decide, Recorded
  <2>2. ASSUME NEW d \in Evaluation, d # e
        PROVE  at'[d] = at[d] /\ todo'[d] = todo[d]
    <3>1. CASE Start(e)
      BY <2>2, <3>1 DEF Start
    <3>2. CASE Decide(e)
      <4>1. \/ \E x: todo' = [todo EXCEPT ![e] = x]
            \/ todo' = todo
        BY <3>2 DEF Decide
      <4>2. \E x: at' = [at EXCEPT ![e] = x]
        BY <3>2 DEF Decide
      <4>3. todo'[d] = todo[d]
        BY <2>2, <4>1 DEF TodoOK
      <4>4. at'[d] = at[d]
        BY <2>2, <4>2
      <4> QED
        BY <4>3, <4>4
    <3>3. CASE Recorded(e)
      BY <2>2, <3>3 DEF Recorded, TodoOK
    <3> QED
      BY <1>1, <3>1, <3>2, <3>3
  <2> QED
    BY <2>1, <2>2, MortalKept
<1>2. ASSUME NEW e \in Evaluation, Score(e)
      PROVE  ForeverOnlyByFault'
  <2>1. UNCHANGED <<keys, at, todo>>
    BY <1>2 DEF Score, ReplaySkip, ReplayGet, ReplayGetFails, ReplaySet, ReputationRead
  <2> QED
    BY <2>1, MortalKept
<1>3. ASSUME NEW e \in Evaluation, Add(e)
      PROVE  ForeverOnlyByFault'
  <2>1. /\ at[e] = "recording" /\ at' = [at EXCEPT ![e] = "expiring"] /\ todo' = todo
        /\ \A k \in Key: keys'[k] = "waiting" => keys[k] = "waiting" \/ k = Head(todo[e])
    BY <1>3 DEF Add
  <2>2. ASSUME NEW k \in Key, keys'[k] = "waiting"
        PROVE  \E d \in Evaluation: at'[d] = "expiring" /\ k = Head(todo'[d])
    <3>1. CASE k = Head(todo[e])
      BY <2>1, <3>1
    <3>2. CASE keys[k] = "waiting"
      <4>1. PICK d \in Evaluation: at[d] = "expiring" /\ k = Head(todo[d])
        BY <3>2 DEF ForeverOnlyByFault
      <4>2. at'[d] = "expiring" /\ todo'[d] = todo[d]
        BY <2>1, <4>1
      <4> QED
        BY <4>1, <4>2
    <3> QED
      BY <2>1, <2>2, <3>1, <3>2
  <2> QED
    BY <2>2 DEF ForeverOnlyByFault
<1>4. ASSUME NEW e \in Evaluation, Expire(e)
      PROVE  ForeverOnlyByFault'
  <2> DEFINE own == Head(todo[e])
  <2>1. /\ at' = [at EXCEPT ![e] = "recording"]
        /\ todo' = [todo EXCEPT ![e] = Tail(todo[e])]
    BY <1>4 DEF Expire
  <2>2. \A k \in Key: keys'[k] = "waiting" => keys[k] = "waiting" /\ k # own
    BY <1>4 DEF Expire
  <2>3. ASSUME NEW k \in Key, keys'[k] = "waiting"
        PROVE  \E d \in Evaluation: at'[d] = "expiring" /\ k = Head(todo'[d])
    <3>1. PICK d \in Evaluation: at[d] = "expiring" /\ k = Head(todo[d])
      BY <2>2, <2>3 DEF ForeverOnlyByFault
    <3>2. d # e
      BY <2>2, <2>3, <3>1
    <3>3. at'[d] = "expiring"
      BY <2>1, <3>1, <3>2
    <3>4. todo'[d] = todo[d]
      BY <2>1, <3>2 DEF TodoOK
    <3> QED
      BY <3>1, <3>3, <3>4
  <2> QED
    BY <2>3 DEF ForeverOnlyByFault
<1>5. CASE \E k \in Key: Lapse(k)
  <2>1. /\ UNCHANGED <<at, todo>>
        /\ \A k \in Key: keys'[k] = "waiting" => keys[k] = "waiting"
    BY <1>5 DEF Lapse
  <2> QED
    BY <2>1 DEF ForeverOnlyByFault
<1>6. CASE (\E f \in Fp: Forget(f)) \/ UNCHANGED vars
  <2>1. UNCHANGED <<keys, at, todo>>
    BY <1>6 DEF Forget, vars
  <2> QED
    BY <2>1, MortalKept
<1>7. CASE Crash
  <2>1. \A k \in Key: keys'[k] # "waiting"
    BY <1>7 DEF Crash
  <2> QED
    BY <2>1 DEF ForeverOnlyByFault
<1> QED
  BY <1>1, <1>2, <1>3, <1>4, <1>5, <1>6, <1>7 DEF Next

\* No counter is left without an expiry but by a command that failed or by the
\* death of the process, however many evaluations of a client count at once
\* (reputation.go:94-118).
THEOREM MortalCounters == Spec => []ForeverOnlyByFault
<1>1. Init => ForeverOnlyByFault
  BY DEF Init, ForeverOnlyByFault
<1>2. Types /\ ForeverOnlyByFault /\ [Next]_vars => ForeverOnlyByFault'
  BY MortalStep
<1> QED
  BY <1>1, <1>2, Typed, PTL DEF Spec

-----------------------------------------------------------------------------
(* Whose trajectory was met *)

\* An evaluation b that has begun, of fingerprint f, with enough points.
Owned(b, f) ==
    /\ b \in Evaluation /\ at[b] # "idle"
    /\ request[b].fp = f /\ request[b].trajectory # Short

\* What is remembered was brought by an evaluation whose scorer is done.
MetStored ==
    \A f \in Fp: stored[f].trajectory # Short =>
        Owned(stored[f].by, f) /\ replay[stored[f].by].at = "done"

\* A score was earned by the trajectory of another one.
MetReplay ==
    \A e \in Evaluation:
        /\ replay[e].at = "set" => request[e].trajectory # Short
        /\ replay[e].score # 0 =>
             /\ at[e] # "idle" /\ Configured
             /\ replay[e].at = "done" /\ replay[e].by # e
             /\ Owned(replay[e].by, request[e].fp)

\* The decision is of a score that no longer changes.
Judged ==
    \A e \in Evaluation: decision[e] # "none" =>
        /\ at[e] \notin {"idle", "scoring"}
        /\ Configured /\ decision[e] \in {"escalate", "block"} => replay[e].score # 0

\* Of an evaluation that has begun the request stays, and the result of its
\* replay scorer.
Kept ==
    \A e \in Evaluation: at[e] # "idle" =>
        /\ at'[e] # "idle"
        /\ request'[e].fp = request[e].fp
        /\ request'[e].trajectory = request[e].trajectory
        /\ replay[e].at = "done" => replay'[e] = replay[e]

LEMMA DoneStays == \A r \in Scorer: r.at = "done" => [r EXCEPT !.at = "done"] = r
<1> SUFFICES ASSUME NEW r \in Scorer, r.at = "done"
             PROVE  [r EXCEPT !.at = "done"] = r
  OBVIOUS
<1>1. r = [at |-> r.at, score |-> r.score, by |-> r.by]
  BY DEF Scorer
<1>2. PICK x \in {0, 10, 19}, y \in Source: r = [at |-> "done", score |-> x, by |-> y]
  BY <1>1 DEF Scorer
<1>3. [[at |-> "done", score |-> x, by |-> y] EXCEPT !.at = "done"]
        = [at |-> "done", score |-> x, by |-> y]
  OBVIOUS
<1> QED
  BY <1>2, <1>3

LEMMA KeptStep ==
    ASSUME Types, [Next]_vars
    PROVE  Kept
<1> USE DEF Types, TypeOK
<1>1. ASSUME NEW e \in Evaluation, Start(e)
      PROVE  Kept
  <2>1. /\ at[e] = "idle" /\ at' = [at EXCEPT ![e] = "scoring"]
        /\ \E x: request' = [request EXCEPT ![e] = x]
        /\ \E y: replay' = [replay EXCEPT ![e] = y]
    BY <1>1 DEF Start
  <2> QED
    BY <2>1 DEF Kept, RequestOK
<1>2. ASSUME NEW e \in Evaluation, Score(e)
      PROVE  Kept
  <2>1. UNCHANGED <<at, request>>
    BY <1>2 DEF Score, ReplaySkip, ReplayGet, ReplayGetFails, ReplaySet, ReputationRead
  <2>2. \/ replay' = replay
        \/ replay[e].at \in {"get", "set"} /\ \E y: replay' = [replay EXCEPT ![e] = y]
    BY <1>2 DEF Score, ReplaySkip, ReplayGet, ReplayGetFails, ReplaySet, ReputationRead
  <2>3. \A d \in Evaluation: replay[d].at = "done" => replay'[d] = replay[d]
    BY <2>2
  <2> QED
    BY <2>1, <2>3 DEF Kept
<1>3. ASSUME NEW e \in Evaluation, Decide(e)
      PROVE  Kept
  <2>1. \E x \in {"recording", "done"}: at' = [at EXCEPT ![e] = x]
    BY <1>3 DEF Decide
  <2> DEFINE q == [request[e] EXCEPT !.signs = {}]
  <2>2. request' = [request EXCEPT ![e] = q] /\ replay' = replay
    BY <1>3 DEF Decide
  <2>3. q.fp = request[e].fp /\ q.trajectory = request[e].trajectory
    BY DEF RequestOK
  <2> HIDE DEF q
  <2>4. \A d \in Evaluation: /\ request'[d].fp = request[d].fp
                             /\ request'[d].trajectory = request[d].trajectory
    BY <2>2, <2>3 DEF RequestOK
  <2>5. \A d \in Evaluation: at[d] # "idle" => at'[d] # "idle"
    BY <2>1
  <2> QED
    BY <2>2, <2>4, <2>5 DEF Kept
<1>4. ASSUME NEW e \in Evaluation, Add(e) \/ Expire(e) \/ Recorded(e)
      PROVE  Kept
  <2>1. /\ UNCHANGED <<request, replay>>
        /\ \E x \in {"recording", "expiring", "done"}: at' = [at EXCEPT ![e] = x]
    BY <1>4 DEF Add, Expire, Recorded
  <2> QED
    BY <2>1 DEF Kept
<1>5. CASE (\E f \in Fp: Forget(f)) \/ (\E k \in Key: Lapse(k)) \/ UNCHANGED vars
  <2>1. UNCHANGED <<at, request, replay>>
    BY <1>5 DEF Forget, Lapse, vars
  <2> QED
    BY <2>1 DEF Kept
<1>6. CASE Crash
  <2>1. \A e \in Evaluation:
          /\ at[e] # "idle" => at'[e] = "done"
          /\ request'[e] = [request[e] EXCEPT !.signs = {}]
          /\ replay'[e] = IF at[e] = "idle" THEN replay[e]
                          ELSE [replay[e] EXCEPT !.at = "done"]
    BY <1>6 DEF Crash
  <2>2. \A e \in Evaluation: /\ request'[e].fp = request[e].fp
                             /\ request'[e].trajectory = request[e].trajectory
    <3> DEFINE Q == [ip: Ip \cup {"none"}, fp: Fp \cup {"none"},
                     trajectory: Trajectory \cup {Short}, signs: SUBSET Sign]
    <3>1. \A q \in Q: /\ [q EXCEPT !.signs = {}].fp = q.fp
                      /\ [q EXCEPT !.signs = {}].trajectory = q.trajectory
      OBVIOUS
    <3>2. \A e \in Evaluation: request[e] \in Q
      BY DEF RequestOK
    <3> HIDE DEF Q
    <3> QED
      BY <2>1, <3>1, <3>2
  <2>3. ASSUME NEW e \in Evaluation, replay[e].at = "done"
        PROVE  [replay[e] EXCEPT !.at = "done"] = replay[e]
    <3>1. replay[e] \in Scorer
      BY DEF Scorer
    <3> QED
      BY <2>3, <3>1, DoneStays
  <2> QED
    BY <2>1, <2>2, <2>3 DEF Kept
<1> QED
  BY <1>1, <1>2, <1>3, <1>4, <1>5, <1>6 DEF Next

LEMMA OwnedKept ==
    ASSUME Kept, NEW b, NEW f, Owned(b, f)
    PROVE  Owned(b, f)'
  BY DEF Kept, Owned

\* A step that remembers nothing new keeps MetStored.
LEMMA StoredKept ==
    ASSUME Kept, MetStored,
           \A f \in Fp: stored'[f].trajectory # Short => stored'[f] = stored[f]
    PROVE  MetStored'
<1> SUFFICES ASSUME NEW f \in Fp, stored'[f].trajectory # Short
             PROVE  /\ Owned(stored[f].by, f)'
                    /\ replay'[stored[f].by].at = "done"
                    /\ stored'[f] = stored[f]
  BY DEF MetStored, Owned
<1>1. stored'[f] = stored[f] /\ Owned(stored[f].by, f) /\ replay[stored[f].by].at = "done"
  BY DEF MetStored
<1>2. replay'[stored[f].by].at = "done"
  BY <1>1 DEF Kept, Owned
<1>3. ASSUME NEW b, b = stored[f].by
      PROVE  /\ b \in Evaluation /\ at'[b] # "idle"
             /\ request'[b].fp = f /\ request'[b].trajectory # Short
  BY <1>1, <1>3 DEF Kept, Owned
<1> QED
  BY <1>1, <1>2, <1>3 DEF Owned

\* A step that gives no score and sends no scorer to store keeps MetReplay.
LEMMA ReplayKept ==
    ASSUME Types, Kept, MetReplay,
           \A d \in Evaluation:
               /\ replay'[d].score # 0 => replay[d].score # 0
               /\ replay'[d].at = "set" => replay[d].at = "set"
    PROVE  MetReplay'
<1> SUFFICES ASSUME NEW d \in Evaluation
             PROVE  /\ replay'[d].at = "set" => request'[d].trajectory # Short
                    /\ replay'[d].score # 0 =>
                         /\ at'[d] # "idle" /\ Configured
                         /\ replay'[d].at = "done" /\ replay'[d].by # d
                         /\ Owned(replay[d].by, request[d].fp)'
                         /\ request'[d].fp = request[d].fp
                         /\ replay'[d] = replay[d]
  BY DEF MetReplay, Owned
<1>1. ASSUME replay'[d].at = "set"
      PROVE  request'[d].trajectory # Short
  <2>1. replay[d].at = "set" /\ request[d].trajectory # Short
    BY <1>1 DEF MetReplay
  <2>2. at[d] # "idle"
    BY <2>1 DEF Types, StagesOK
  <2> QED
    BY <2>1, <2>2 DEF Kept
<1>2. ASSUME replay'[d].score # 0
      PROVE  /\ at'[d] # "idle" /\ Configured
             /\ replay'[d].at = "done" /\ replay'[d].by # d
             /\ Owned(replay[d].by, request[d].fp)'
             /\ request'[d].fp = request[d].fp
             /\ replay'[d] = replay[d]
  <2>1. /\ at[d] # "idle" /\ Configured /\ replay[d].at = "done" /\ replay[d].by # d
        /\ Owned(replay[d].by, request[d].fp)
    BY <1>2 DEF MetReplay
  <2>2. at'[d] # "idle" /\ replay'[d] = replay[d] /\ request'[d].fp = request[d].fp
    BY <2>1 DEF Kept
  <2>3. ASSUME NEW b, NEW f, Owned(b, f), b = replay[d].by, f = request[d].fp
        PROVE  /\ b \in Evaluation /\ at'[b] # "idle"
               /\ request'[b].fp = f /\ request'[b].trajectory # Short
    BY <2>3 DEF Kept, Owned
  <2>4. Owned(replay[d].by, request[d].fp)'
    BY <2>1, <2>2, <2>3 DEF Owned
  <2> QED
    BY <2>1, <2>2, <2>4
<1> QED
  BY <1>1, <1>2

\* Whoever matches what was remembered met the trajectory of another one.
LEMMA MetGet ==
    ASSUME Types, Kept, MetStored, MetReplay, NEW e \in Evaluation,
           ReplayGet(e) \/ ReplayGetFails(e)
    PROVE  MetReplay'
<1> DEFINE s == stored[request[e].fp]
<1>1. /\ replay[e].at = "get" /\ request[e].trajectory # Short
      /\ UNCHANGED <<stored, keys, at, request, standing, decision, todo>>
  BY DEF ReplayGet, ReplayGetFails
<1>2. at[e] = "scoring" /\ Configured /\ request[e].fp \in Fp
  BY <1>1 DEF Types, StagesOK, RequestOK
<1>3. replay \in [Evaluation -> Scorer]
  BY DEF Types, TypeOK, Scorer
<1>4. CASE \E n \in {10, 19}: /\ s.trajectory \in Trajectory
                              /\ replay' = [replay EXCEPT ![e] =
                                              [at |-> "done", score |-> n, by |-> s.by]]
  <2>1. PICK n \in {10, 19}:
          /\ s.trajectory \in Trajectory
          /\ replay' = [replay EXCEPT ![e] = [at |-> "done", score |-> n, by |-> s.by]]
    BY <1>4
  <2>2. Owned(s.by, request[e].fp) /\ replay[s.by].at = "done"
    BY <1>2, <2>1, EngineAssumption DEF MetStored
  <2>3. s.by # e
    BY <1>1, <2>2
  <2>4. replay'[e].at = "done" /\ replay'[e].by = s.by
    BY <1>3, <2>1
  <2>5. \A d \in Evaluation: d # e => replay'[d] = replay[d]
    BY <1>3, <2>1
  <2>6. \A d \in Evaluation: Owned(replay[d].by, request[d].fp) /\ d # e
                               => Owned(replay[d].by, request[d].fp)'
    BY <1>1, <2>5 DEF Owned
  <2>7. Owned(s.by, request[e].fp)' /\ s.by' = s.by
    BY <1>1, <2>2 DEF Owned
  <2>8. ASSUME NEW d \in Evaluation, d # e
        PROVE  /\ replay'[d].at = "set" => request'[d].trajectory # Short
               /\ replay'[d].score # 0 =>
                    /\ at'[d] # "idle" /\ Configured
                    /\ replay'[d].at = "done" /\ replay'[d].by # d
                    /\ Owned(replay[d].by, request[d].fp)'
    BY <1>1, <2>5, <2>6, <2>8 DEF MetReplay
  <2> HIDE DEF s
  <2>9. Owned(replay[e].by, request[e].fp)'
    BY <1>1, <2>4, <2>7 DEF Owned
  <2> QED
    BY <1>1, <1>2, <2>3, <2>4, <2>8, <2>9 DEF MetReplay
<1>5. CASE replay' = [replay EXCEPT ![e].at = "set"]
  <2> DEFINE v == [replay[e] EXCEPT !.at = "set"]
  <2>1. replay' = [replay EXCEPT ![e] = v] /\ v.score = replay[e].score
    BY <1>3, <1>5 DEF Scorer
  <2> HIDE DEF v
  <2>2. \A d \in Evaluation: d # e => replay'[d] = replay[d]
    BY <1>3, <2>1
  <2>3. replay'[e].score = 0
    BY <1>1, <1>3, <2>1 DEF MetReplay
  <2>4. ASSUME NEW d \in Evaluation, d # e
        PROVE  /\ replay'[d].at = "set" => request'[d].trajectory # Short
               /\ replay'[d].score # 0 =>
                    /\ at'[d] # "idle" /\ Configured
                    /\ replay'[d].at = "done" /\ replay'[d].by # d
                    /\ Owned(replay[d].by, request[d].fp)'
    BY <1>1, <2>2, <2>4 DEF MetReplay, Owned
  <2> QED
    BY <1>1, <2>3, <2>4 DEF MetReplay
<1> QED
  BY <1>4, <1>5 DEF ReplayGet, ReplayGetFails

\* What a scorer stores is the trajectory of its own evaluation.
LEMMA MetSet ==
    ASSUME Types, Kept, MetStored, MetReplay, NEW e \in Evaluation, ReplaySet(e)
    PROVE  MetStored'
<1> DEFINE v == [replay[e] EXCEPT !.at = "done"]
           mine == [trajectory |-> request[e].trajectory, by |-> e]
<1>1. /\ replay[e].at = "set" /\ request[e].trajectory # Short
      /\ UNCHANGED <<keys, at, request, standing, decision, todo>>
      /\ replay' = [replay EXCEPT ![e] = v]
      /\ stored' = [stored EXCEPT ![request[e].fp] = mine] \/ stored' = stored
  <2>1. /\ replay[e].at = "set"
        /\ UNCHANGED <<keys, at, request, standing, decision, todo>>
        /\ replay' = [replay EXCEPT ![e] = v]
        /\ stored' = [stored EXCEPT ![request[e].fp] = mine] \/ stored' = stored
    BY DEF ReplaySet
  <2>2. request[e].trajectory # Short
    BY <2>1 DEF MetReplay
  <2> QED
    BY <2>1, <2>2
<1>2. at[e] = "scoring" /\ request[e].fp \in Fp
  BY <1>1 DEF Types, StagesOK, RequestOK
<1>3. replay' \in [Evaluation -> Scorer] /\ replay'[e].at = "done"
  <2>1. replay \in [Evaluation -> Scorer] /\ v \in Scorer /\ v.at = "done"
    BY DEF Types, TypeOK, Scorer
  <2>2. replay' = [replay EXCEPT ![e] = v]
    BY <1>1
  <2> HIDE DEF v
  <2>3. replay' \in [Evaluation -> Scorer]
    BY ONLY <2>1, <2>2, Update
  <2> QED
    BY ONLY <2>1, <2>2, <2>3
<1>4. mine.by = e
  OBVIOUS
<1> HIDE DEF v, mine
<1>5. CASE stored' = stored
  BY <1>5, StoredKept
<1>6. CASE stored' = [stored EXCEPT ![request[e].fp] = mine]
  <2>1. ASSUME NEW f \in Fp, f # request[e].fp, stored'[f].trajectory # Short
        PROVE  Owned(stored[f].by, f)' /\ replay'[stored[f].by].at = "done"
               /\ stored'[f] = stored[f]
    <3>1. stored'[f] = stored[f]
      BY <1>6, <2>1 DEF Types, TypeOK
    <3>2. Owned(stored[f].by, f) /\ replay[stored[f].by].at = "done"
      BY <2>1, <3>1 DEF MetStored
    <3>3. replay'[stored[f].by] = replay[stored[f].by]
      BY <3>2 DEF Kept, Owned
    <3>4. Owned(stored[f].by, f)'
      BY <1>1, <3>1, <3>2 DEF Owned
    <3> QED
      BY <3>1, <3>2, <3>3, <3>4
  <2>2. stored'[request[e].fp] = mine
    BY <1>2, <1>6 DEF Types, TypeOK
  <2>3. e \in Evaluation /\ at'[e] # "idle" /\ request'[e].trajectory # Short /\ request' = request
    BY <1>1, <1>2
  <2>4. ASSUME NEW f \in Fp, stored'[f].trajectory # Short
        PROVE  Owned(stored[f].by, f)' /\ replay'[stored'[f].by].at = "done"
    <3>1. CASE f # request[e].fp
      BY <2>1, <2>4, <3>1
    <3>2. CASE f = request[e].fp
      <4>1. stored'[f].by = e
        BY <1>4, <2>2, <3>2
      <4> QED
        BY <1>3, <2>3, <3>2, <4>1 DEF Owned
    <3> QED
      BY <3>1, <3>2
  <2> QED
    BY <2>4 DEF MetStored
<1> QED
  BY <1>1, <1>5, <1>6

\* The other steps of the scorers.
LEMMA MetStep ==
    ASSUME Types, MetStored, MetReplay, [Next]_vars
    PROVE  MetStored' /\ MetReplay'
<1>1. Kept
  BY KeptStep
<1>2. replay \in [Evaluation -> Scorer]
  BY DEF Types, TypeOK, Scorer
<1>3. CASE UNCHANGED <<stored, replay>>
  BY <1>1, <1>3, StoredKept, ReplayKept
<1>4. ASSUME NEW e \in Evaluation, Start(e)
      PROVE  MetStored' /\ MetReplay'
  <2> DEFINE a == IF Configured THEN "get" ELSE "done"
             v == [replay[e] EXCEPT !.at = a]
  <2>1. stored' = stored /\ replay' = [replay EXCEPT ![e] = v]
    BY <1>4 DEF Start
  <2>2. v.at # "set" /\ v.score = replay[e].score
    BY <1>2 DEF Scorer
  <2> HIDE DEF v
  <2>3. \A d \in Evaluation: /\ replay'[d].score # 0 => replay[d].score # 0
                             /\ replay'[d].at = "set" => replay[d].at = "set"
    BY <1>2, <2>1, <2>2
  <2> QED
    BY <1>1, <2>1, <2>3, StoredKept, ReplayKept
<1>5. ASSUME NEW e \in Evaluation, ReplaySkip(e) \/ ReplaySet(e)
      PROVE  MetReplay' /\ (ReplaySkip(e) => MetStored')
  <2> DEFINE v == [replay[e] EXCEPT !.at = "done"]
  <2>1. replay' = [replay EXCEPT ![e] = v] /\ (ReplaySkip(e) => stored' = stored)
    BY <1>5 DEF ReplaySkip, ReplaySet
  <2>2. v.at = "done" /\ v.score = replay[e].score
    BY <1>2 DEF Scorer
  <2> HIDE DEF v
  <2>3. \A d \in Evaluation: /\ replay'[d].score # 0 => replay[d].score # 0
                             /\ replay'[d].at = "set" => replay[d].at = "set"
    BY <1>2, <2>1, <2>2
  <2> QED
    BY <1>1, <2>1, <2>3, StoredKept, ReplayKept
<1>6. ASSUME NEW e \in Evaluation, Score(e)
      PROVE  MetStored' /\ MetReplay'
  <2>1. CASE ReplaySkip(e)
    BY <1>5, <2>1
  <2>2. CASE ReplayGet(e) \/ ReplayGetFails(e)
    <3>1. stored' = stored
      BY <2>2 DEF ReplayGet, ReplayGetFails
    <3> QED
      BY <1>1, <2>2, <3>1, StoredKept, MetGet
  <2>3. CASE ReplaySet(e)
    BY <1>1, <1>5, <2>3, MetSet
  <2>4. CASE ReputationRead(e)
    BY <1>3, <2>4 DEF ReputationRead
  <2> QED
    BY <1>6, <2>1, <2>2, <2>3, <2>4 DEF Score
<1>7. ASSUME NEW e \in Evaluation, Decide(e) \/ Add(e) \/ Expire(e) \/ Recorded(e)
      PROVE  MetStored' /\ MetReplay'
  BY <1>3, <1>7 DEF Decide, Add, Expire, Recorded
<1>8. CASE \E f \in Fp: Forget(f)
  <2>1. /\ replay' = replay
        /\ \A f \in Fp: stored'[f].trajectory # Short => stored'[f] = stored[f]
    BY <1>8 DEF Forget, Nobody, Types, TypeOK
  <2> QED
    BY <1>1, <2>1, StoredKept, ReplayKept
<1>9. CASE (\E k \in Key: Lapse(k)) \/ UNCHANGED vars
  BY <1>3, <1>9 DEF Lapse, vars
<1>10. CASE Crash
  <2>1. stored' = stored
    BY <1>10 DEF Crash
  <2>2. \A d \in Evaluation:
          replay'[d] \in {replay[d], [replay[d] EXCEPT !.at = "done"]}
    BY <1>10 DEF Crash
  <2>3. \A d \in Evaluation: /\ [replay[d] EXCEPT !.at = "done"].score = replay[d].score
                             /\ [replay[d] EXCEPT !.at = "done"].at = "done"
    BY <1>2 DEF Scorer
  <2>4. \A d \in Evaluation: /\ replay'[d].score # 0 => replay[d].score # 0
                             /\ replay'[d].at = "set" => replay[d].at = "set"
    BY <2>2, <2>3
  <2> QED
    BY <1>1, <2>1, <2>4, StoredKept, ReplayKept
<1> QED
  BY <1>4, <1>6, <1>7, <1>8, <1>9, <1>10 DEF Next

LEMMA JudgedStep ==
    ASSUME Types, MetReplay, Judged, [Next]_vars
    PROVE  Judged'
<1>1. Kept
  BY KeptStep
<1>2. ASSUME NEW e \in Evaluation, Decide(e)
      PROVE  Judged'
  <2> DEFINE b == BehaviorScore(request[e].signs)
             s == WeightedScore(b, replay[e].score, standing[e].score)
  <2>1. PICK action \in {Asks(s[1], s[2]), Asks(s[1] - 1, s[2])}:
          decision' = [decision EXCEPT ![e] = action]
    BY <1>2 DEF Decide
  <2>2. at[e] = "scoring" /\ \E x \in {"recording", "done"}: at' = [at EXCEPT ![e] = x]
    BY <1>2 DEF Decide
  <2>3. replay' = replay
    BY <1>2 DEF Decide
  <2>4. b \in 0..20 /\ replay[e].score \in {0, 10, 19} /\ standing[e].score \in 0..20
    BY BehaviorRange DEF Types, TypeOK
  <2>5. ~Configured => replay[e].score = 0
    BY DEF MetReplay
  <2>6. Configured /\ replay[e].score = 0 => action \notin {"escalate", "block"}
    <3> HIDE DEF b
    <3> QED
      BY <2>4, ScoresDecide
  <2> HIDE DEF s
  <2>7. decision'[e] = action /\ at'[e] \notin {"idle", "scoring"}
    BY <2>1, <2>2 DEF Types, TypeOK
  <2>8. \A d \in Evaluation: d # e => decision'[d] = decision[d] /\ at'[d] = at[d]
    BY <2>1, <2>2 DEF Types, TypeOK
  <2> QED
    BY <2>3, <2>5, <2>6, <2>7, <2>8 DEF Judged
<1>3. ASSUME decision' = decision,
             \A d \in Evaluation: at[d] \notin {"idle", "scoring"} =>
                 at'[d] \notin {"idle", "scoring"} /\ replay'[d].score = replay[d].score
      PROVE  Judged'
  BY <1>3 DEF Judged
<1>4. ASSUME NEW e \in Evaluation, Start(e)
      PROVE  Judged'
  <2>1. /\ decision' = decision /\ at[e] = "idle"
        /\ at' = [at EXCEPT ![e] = "scoring"]
        /\ \E y: replay' = [replay EXCEPT ![e] = y]
    BY <1>4 DEF Start
  <2> QED
    BY <1>3, <2>1 DEF Types, TypeOK
<1>5. ASSUME NEW e \in Evaluation, Score(e)
      PROVE  Judged'
  <2>1. UNCHANGED <<at, decision>>
    BY <1>5 DEF Score, ReplaySkip, ReplayGet, ReplayGetFails, ReplaySet, ReputationRead
  <2>2. \/ replay' = replay
        \/ replay[e].at \in {"get", "set"} /\ \E y: replay' = [replay EXCEPT ![e] = y]
    BY <1>5 DEF Score, ReplaySkip, ReplayGet, ReplayGetFails, ReplaySet, ReputationRead
  <2>3. \A d \in Evaluation: at[d] # "scoring" => replay'[d] = replay[d]
    BY <2>2 DEF Types, TypeOK, StagesOK
  <2> QED
    BY <1>3, <2>1, <2>3
<1>6. ASSUME NEW e \in Evaluation, Add(e) \/ Expire(e) \/ Recorded(e)
      PROVE  Judged'
  <2>1. /\ UNCHANGED <<decision, replay>>
        /\ \E x \in {"recording", "expiring", "done"}: at' = [at EXCEPT ![e] = x]
    BY <1>6 DEF Add, Expire, Recorded
  <2> QED
    BY <1>3, <2>1 DEF Types, TypeOK
<1>7. CASE (\E f \in Fp: Forget(f)) \/ (\E k \in Key: Lapse(k)) \/ UNCHANGED vars
  <2>1. UNCHANGED <<at, decision, replay>>
    BY <1>7 DEF Forget, Lapse, vars
  <2> QED
    BY <1>3, <2>1
<1>8. CASE Crash
  <2>1. /\ decision' = decision
        /\ \A d \in Evaluation:
             /\ at[d] # "idle" => at'[d] = "done"
             /\ replay'[d] \in {replay[d], [replay[d] EXCEPT !.at = "done"]}
    BY <1>8 DEF Crash
  <2>2. \A d \in Evaluation: [replay[d] EXCEPT !.at = "done"].score = replay[d].score
    BY DEF Types, TypeOK
  <2> QED
    BY <1>3, <2>1, <2>2
<1> QED
  BY <1>2, <1>4, <1>5, <1>6, <1>7, <1>8 DEF Next

Met == MetStored /\ MetReplay /\ Judged

LEMMA Judging == Spec => []Met
<1>1. Init => Met
  BY DEF Init, Met, MetStored, MetReplay, Judged, Nobody
<1>2. Types /\ Met /\ [Next]_vars => Met'
  BY MetStep, JudgedStep DEF Met
<1> QED
  BY <1>1, <1>2, Typed, PTL DEF Spec

\* The score alone escalates or blocks nobody whose trajectory was not met
\* before, in an earlier evaluation of the same fingerprint (engine.go:66-108,
\* replay.go:38-63).
THEOREM HarshIsReplay == Spec => []HarshMeansReplay
<1>1. Met => HarshMeansReplay
  BY EngineAssumption DEF Met, MetReplay, Judged, Owned, HarshMeansReplay
<1> QED
  BY <1>1, Judging, PTL

-----------------------------------------------------------------------------
(* Who must be noticed *)

\* The scorer of an evaluation that is known will read its replay, or did.
Knowing ==
    \A e \in known:
        /\ at[e] = "scoring" /\ Configured /\ replay[e].at \in {"get", "done"}
        /\ replay[e].at = "get" => Remembers(stored, request[e])
        /\ replay[e].at = "done" => replay[e].score = 19

\* A step that leaves those alone who stay known, and what they will read.
LEMMA KnowingKept ==
    ASSUME Knowing, known' \subseteq known, known' \subseteq StillKnown(stored'),
           \A d \in known':
               /\ at'[d] = at[d] /\ replay'[d] = replay[d]
               /\ request'[d].fp = request[d].fp
               /\ request'[d].trajectory = request[d].trajectory
    PROVE  Knowing'
  BY DEF Knowing, StillKnown, Remembers

LEMMA KnowingStep ==
    ASSUME Types, Knowing, [Next]_vars
    PROVE  Knowing'
<1> USE DEF Types, TypeOK
<1>1. known \subseteq StillKnown(stored)
  BY DEF Knowing, StillKnown
<1>2. ASSUME NEW e \in Evaluation, Start(e)
      PROVE  Knowing'
  <2>1. /\ at[e] = "idle" /\ at' = [at EXCEPT ![e] = "scoring"] /\ stored' = stored
        /\ \E x: request' = [request EXCEPT ![e] = x]
        /\ replay' = [replay EXCEPT ![e].at = IF Configured THEN "get" ELSE "done"]
        /\ known' = IF Configured /\ Remembers(stored, request'[e])
                    THEN known \cup {e} ELSE known
    BY <1>2 DEF Start
  <2>2. e \notin known
    BY <2>1 DEF Knowing
  <2>3. ASSUME NEW d \in known'
        PROVE  /\ at'[d] = "scoring" /\ Configured /\ replay'[d].at \in {"get", "done"}
               /\ replay'[d].at = "get" => Remembers(stored', request'[d])
               /\ replay'[d].at = "done" => replay'[d].score = 19
    <3>1. CASE d = e
      <4>1. Configured /\ Remembers(stored, request'[e])
        BY <2>1, <2>2, <2>3, <3>1
      <4>2. replay'[e].at = "get" /\ at'[e] = "scoring"
        BY <2>1, <4>1
      <4> QED
        BY <2>1, <3>1, <4>1, <4>2
    <3>2. CASE d # e
      <4>1. d \in known /\ at'[d] = at[d] /\ replay'[d] = replay[d] /\ request'[d] = request[d]
        BY <2>1, <2>3, <3>2 DEF RequestOK
      <4> QED
        BY <2>1, <4>1 DEF Knowing
    <3> QED
      BY <3>1, <3>2
  <2> QED
    BY <2>3 DEF Knowing
<1>3. ASSUME NEW e \in Evaluation, Score(e)
      PROVE  Knowing'
  <2>1. UNCHANGED <<at, request>>
    BY <1>3 DEF Score, ReplaySkip, ReplayGet, ReplayGetFails, ReplaySet, ReputationRead
  <2>2. CASE ReplaySkip(e) \/ ReplayGetFails(e)
    <3>1. /\ stored' = stored /\ known' = known \ {e}
          /\ \E y: replay' = [replay EXCEPT ![e] = y]
      BY <2>2 DEF ReplaySkip, ReplayGetFails
    <3> QED
      BY <1>1, <2>1, <3>1, KnowingKept
  <2>3. CASE ReplayGet(e)
    <3> DEFINE t == request[e].trajectory
               s == stored[request[e].fp]
    <3>1. /\ stored' = stored /\ known' = known /\ replay[e].at = "get"
          /\ \E y: replay' = [replay EXCEPT ![e] = y]
      BY <2>3 DEF ReplayGet
    <3>2. CASE e \notin known
      BY <1>1, <2>1, <3>1, <3>2, KnowingKept
    <3>3. CASE e \in known
      <4>1. /\ Remembers(stored, request[e]) /\ at[e] = "scoring" /\ Configured
        BY <3>1, <3>3 DEF Knowing
      <4>2. s.trajectory \in Trajectory /\ ReplayScore[t][s.trajectory] = 19
        BY <4>1 DEF Remembers, ReplayScore
      <4>3. replay' = [replay EXCEPT ![e] = [at |-> "done", score |-> 19, by |-> s.by]]
        BY <2>3, <4>2 DEF ReplayGet
      <4>4. replay'[e].at = "done" /\ replay'[e].score = 19
        BY <4>3
      <4>5. \A d \in known: d # e => replay'[d] = replay[d]
        BY <4>3
      <4> HIDE DEF s, t
      <4> QED
        BY <2>1, <3>1, <4>1, <4>4, <4>5 DEF Knowing
    <3> QED
      BY <3>2, <3>3
  <2>4. CASE ReplaySet(e)
    <3>1. /\ known' = StillKnown(stored') /\ replay[e].at = "set"
          /\ \E y: replay' = [replay EXCEPT ![e] = y]
      BY <2>4 DEF ReplaySet
    <3>2. known' \subseteq known /\ e \notin known
      BY <3>1 DEF StillKnown, Knowing
    <3> QED
      BY <2>1, <3>1, <3>2, KnowingKept
  <2>5. CASE ReputationRead(e)
    <3>1. stored' = stored /\ known' = known /\ replay' = replay
      BY <2>5 DEF ReputationRead
    <3> QED
      BY <1>1, <2>1, <3>1, KnowingKept
  <2> QED
    BY <1>3, <2>2, <2>3, <2>4, <2>5 DEF Score
<1>4. ASSUME NEW e \in Evaluation, Decide(e)
      PROVE  Knowing'
  <2>1. /\ stored' = stored /\ replay' = replay /\ known' = known \ {e}
        /\ request' = [request EXCEPT ![e].signs = {}]
        /\ \E x: at' = [at EXCEPT ![e] = x]
    BY <1>4 DEF Decide
  <2>2. \A d \in known': at'[d] = at[d] /\ request'[d] = request[d]
    BY <2>1 DEF RequestOK
  <2> QED
    BY <1>1, <2>1, <2>2, KnowingKept
<1>5. ASSUME NEW e \in Evaluation, Add(e) \/ Expire(e) \/ Recorded(e)
      PROVE  Knowing'
  <2>1. /\ UNCHANGED <<stored, request, replay, known>>
        /\ at[e] # "scoring" /\ \E x: at' = [at EXCEPT ![e] = x]
    BY <1>5 DEF Add, Expire, Recorded
  <2>2. \A d \in known: d # e
    BY <2>1 DEF Knowing
  <2>3. \A d \in known': at'[d] = at[d]
    BY <2>1, <2>2
  <2> QED
    BY <1>1, <2>1, <2>3, KnowingKept
<1>6. CASE \E f \in Fp: Forget(f)
  <2>1. known' = StillKnown(stored') /\ UNCHANGED <<at, request, replay>>
    BY <1>6 DEF Forget
  <2>2. known' \subseteq known
    BY <2>1 DEF StillKnown
  <2> QED
    BY <2>1, <2>2, KnowingKept
<1>7. CASE (\E k \in Key: Lapse(k)) \/ UNCHANGED vars
  <2>1. UNCHANGED <<stored, at, request, replay, known>>
    BY <1>7 DEF Lapse, vars
  <2> QED
    BY <1>1, <2>1, KnowingKept
<1>8. CASE Crash
  BY <1>8 DEF Crash, Knowing
<1> QED
  BY <1>2, <1>3, <1>4, <1>5, <1>6, <1>7, <1>8 DEF Next

\* Only Decide decides, and of those who are known it passes nobody.
LEMMA ReviewStep ==
    ASSUME Types, Knowing, Next
    PROVE  \A e \in known: decision'[e] # decision[e] => decision'[e] # "pass"
<1> USE DEF Types, TypeOK
<1>1. SUFFICES ASSUME NEW e \in known, decision'[e] # decision[e]
               PROVE  decision'[e] # "pass"
  OBVIOUS
<1>2. e \in Evaluation
  OBVIOUS
<1>3. Decide(e)
  <2>1. ASSUME NEW d \in Evaluation, Decide(d) PROVE d = e
    <3>1. \E x: decision' = [decision EXCEPT ![d] = x]
      BY <2>1 DEF Decide
    <3> QED
      BY <1>1, <1>2, <3>1
  <2>2. ASSUME NEW d \in Evaluation,
               Start(d) \/ Score(d) \/ Add(d) \/ Expire(d) \/ Recorded(d)
        PROVE  decision' = decision
    <3>1. Start(d) => decision' = decision
      BY DEF Start
    <3>2. Score(d) => decision' = decision
      BY DEF Score, ReplaySkip, ReplayGet, ReplayGetFails, ReplaySet, ReputationRead
    <3>3. Add(d) \/ Expire(d) \/ Recorded(d) => decision' = decision
      BY DEF Add, Expire, Recorded
    <3> QED
      BY <2>2, <3>1, <3>2, <3>3
  <2>3. ASSUME (\E f \in Fp: Forget(f)) \/ (\E k \in Key: Lapse(k)) \/ Crash
        PROVE  decision' = decision
    BY <2>3 DEF Forget, Lapse, Crash
  <2> QED
    BY <1>1, <2>1, <2>2, <2>3 DEF Next
<1> DEFINE b == BehaviorScore(request[e].signs)
           s == WeightedScore(b, replay[e].score, standing[e].score)
<1>4. PICK action \in {Asks(s[1], s[2]), Asks(s[1] - 1, s[2])}:
        decision' = [decision EXCEPT ![e] = action]
  BY <1>3 DEF Decide
<1>5. replay[e].at = "done" /\ Configured /\ replay[e].score = 19
  BY <1>1, <1>3 DEF Decide, AllScored, Knowing
<1>6. b \in 0..20 /\ replay[e].score \in {0, 10, 19} /\ standing[e].score \in 0..20
  BY <1>2, BehaviorRange
<1>7. action # "pass"
  <2>1. replay[e].score = 19 => action # "pass"
    <3> HIDE DEF b, Types, TypeOK
    <3> QED
      BY <1>5, <1>6, ScoresDecide
  <2> QED
    BY <1>5, <2>1
<1> HIDE DEF s
<1> QED
  BY <1>2, <1>4, <1>7

\* The score passes nobody who replays what is remembered of the fingerprint from
\* the beginning of the evaluation until it is read (engine.go:38-108,
\* replay.go:31-64).
THEOREM RememberedReviewed == Spec => RememberedIsReviewed
<1>1. Init => Knowing
  BY DEF Init, Knowing
<1>2. Types /\ Knowing /\ [Next]_vars => Knowing'
  BY KnowingStep
<1>3. Types /\ Knowing /\ [Next]_vars
        => [\A e \in known: decision'[e] # decision[e] => decision'[e] # "pass"]_vars
  BY ReviewStep
<1> QED
  BY <1>1, <1>2, <1>3, Typed, PTL DEF Spec, RememberedIsReviewed

-----------------------------------------------------------------------------
(* Induction: what follows from the order of the naturals *)

\* What holds of zero and of every successor up to N holds up to N.
LEMMA Induction ==
    ASSUME NEW N \in Nat, NEW T, 0 \in T, \A n \in 1..N: n - 1 \in T => n \in T
    PROVE  0..N \subseteq T
<1> DEFINE Rest == (0..N) \ T
           R == OpToRel(<, Nat)
<1> SUFFICES ASSUME Rest # {} PROVE FALSE
  OBVIOUS
<1>1. Rest \subseteq Nat
  OBVIOUS
<1>2. \A x, y \in Nat: y < x => <<y, x>> \in R
  BY DEF OpToRel
<1>3. \E x \in Rest: \A y \in Rest: ~(<<y, x>> \in R)
  <2> HIDE DEF Rest
  <2> QED
    BY <1>1, NatLessThanWellFounded, WFMin, Zenon
<1> HIDE DEF R
<1>4. PICK x \in Rest: \A y \in Rest: ~(y < x)
  <2> HIDE DEF Rest
  <2> QED
    BY <1>1, <1>2, <1>3
<1>5. x \in 1..N /\ x - 1 \notin Rest
  BY <1>4
<1> QED
  BY <1>5

\* A definition by recursion over 0..N defines a function.
Recursive(f, S, d, N, G) ==
    f \in [0..N -> S] /\ f[0] = d /\ \A n \in 1..N: f[n] = G[n][f[n - 1]]

LEMMA Recursion ==
    ASSUME NEW S, NEW d \in S, NEW N \in Nat, NEW G \in [1..N -> [S -> S]]
    PROVE  \E f: Recursive(f, S, d, N, G)
<1> DEFINE Upto(k, f) == /\ f \in [0..k -> S]
                         /\ \A n \in 0..k: f[n] = IF n = 0 THEN d ELSE G[n][f[n - 1]]
           T == {k \in 0..N: \E f: Upto(k, f)}
<1>1. 0 \in T
  <2>1. Upto(0, [n \in 0..0 |-> d])
    OBVIOUS
  <2>2. 0 \in 0..N
    OBVIOUS
  <2> HIDE DEF Upto
  <2> QED
    BY <2>1, <2>2
<1>2. ASSUME NEW k \in 1..N, NEW f, Upto(k - 1, f)
      PROVE  \E g: Upto(k, g)
  <2> DEFINE g == [n \in 0..k |-> IF n < k THEN f[n] ELSE G[k][f[k - 1]]]
  <2>1. G[k][f[k - 1]] \in S
    BY <1>2
  <2>2. g \in [0..k -> S]
    BY <1>2, <2>1
  <2>3. ASSUME NEW n \in 0..k
        PROVE  g[n] = IF n = 0 THEN d ELSE G[n][g[n - 1]]
    <3>1. CASE n = k
      BY <1>2, <3>1
    <3>2. CASE n = 0
      BY <1>2, <3>2
    <3>3. CASE n \in 1..(k - 1)
      BY <1>2, <3>3
    <3> QED
      BY <3>1, <3>2, <3>3
  <2> QED
    BY <2>2, <2>3
<1>3. \A k \in 1..N: k - 1 \in T => k \in T
  <2> HIDE DEF Upto
  <2> QED
    BY <1>2
<1>4. N \in T
  <2> HIDE DEF T
  <2>1. 0..N \subseteq T
    BY <1>1, <1>3, Induction
  <2> QED
    BY <2>1
<1>5. PICK f: Upto(N, f)
  <2> HIDE DEF Upto
  <2> QED
    BY <1>4
<1>6. Recursive(f, S, d, N, G)
  BY <1>5 DEF Recursive
<1> QED
  BY <1>6

\* What follows for each cell of a table from its neighbours above and to the
\* left holds of the whole table.  T[i] are the columns of row i of which it holds.
LEMMA GridInduction ==
    ASSUME NEW n \in Nat, NEW m \in Nat, NEW T,
           \A i \in 0..n, j \in 0..m:
              /\ i > 0 => j \in T[i - 1]
              /\ j > 0 => j - 1 \in T[i]
              /\ i > 0 /\ j > 0 => j - 1 \in T[i - 1]
              => j \in T[i]
    PROVE  \A i \in 0..n, j \in 0..m: j \in T[i]
<1> DEFINE Rows == {i \in 0..n: \A j \in 0..m: j \in T[i]}
<1>1. ASSUME NEW i \in 0..n, i > 0 => \A j \in 0..m: j \in T[i - 1]
      PROVE  \A j \in 0..m: j \in T[i]
  <2>1. 0 \in T[i]
    BY <1>1
  <2>2. \A j \in 1..m: j - 1 \in T[i] => j \in T[i]
    BY <1>1
  <2>3. 0..m \subseteq T[i]
    BY <2>1, <2>2, Induction
  <2> QED
    BY <2>3
<1>2. 0 \in Rows
  BY <1>1
<1>3. ASSUME NEW i \in 1..n, i - 1 \in Rows PROVE i \in Rows
  <2>1. \A j \in 0..m: j \in T[i - 1]
    BY <1>3
  <2>2. i \in 0..n
    OBVIOUS
  <2>3. \A j \in 0..m: j \in T[i]
    BY <1>1, <2>1, <2>2, Zenon
  <2> QED
    BY <2>2, <2>3
<1>4. 0..n \subseteq Rows
  <2> HIDE DEF Rows
  <2> QED
    BY <1>2, <1>3, Induction
<1> QED
  BY <1>4

-----------------------------------------------------------------------------
(* The table of distances (levenshtein) *)

\* min3 gives one of the three, and none is less.
LEMMA MinOfThree ==
    ASSUME NEW x \in Nat, NEW y \in Nat, NEW z \in Nat
    PROVE  LET least == Min({x, y, z})
           IN  /\ least \in {x, y, z} /\ least \in Nat
               /\ least <= x /\ least <= y /\ least <= z
<1>1. \E w \in {x, y, z}: \A v \in {x, y, z}: w <= v
  <2>1. CASE x <= y /\ x <= z
    BY <2>1
  <2>2. CASE y <= x /\ y <= z
    BY <2>2
  <2>3. CASE z <= x /\ z <= y
    BY <2>3
  <2> QED
    BY <2>1, <2>2, <2>3
<1>2. Min({x, y, z}) \in {x, y, z} /\ \A v \in {x, y, z}: Min({x, y, z}) <= v
  BY <1>1, Zenon DEF Min
<1> QED
  BY <1>2

\* row follows prev in the table of distances.
Follows(row, prev, i, x, b) ==
    /\ row \in [0..Len(b) -> Nat] /\ row[0] = i
    /\ \A j \in 1..Len(b):
         row[j] = Min({row[j - 1] + 1, prev[j] + 1, prev[j - 1] + Cost(x, b[j])})

\* What the inner loop leaves in curr.
LEMMA RowIsFilled ==
    ASSUME NEW Char, NEW b \in Seq(Char), NEW prev \in [0..Len(b) -> Nat], NEW i \in Nat, NEW x
    PROVE  Follows(NextRow(prev, i, x, b), prev, i, x, b)
<1> DEFINE m == Len(b)
           first == [prev EXCEPT ![0] = i]
           Row == [0..m -> Nat]
           Turn(c, j) == [c EXCEPT ![j] = Min({c[j - 1] + 1, prev[j] + 1,
                                               prev[j - 1] + Cost(x, b[j])})]
           G == [j \in 1..m |-> [c \in Row |-> Turn(c, j)]]
           curr == CHOOSE f: f = [j \in DOMAIN prev |->
                                    IF j = 0 THEN first
                                    ELSE Turn(f[j - 1], j)]
<1>1. m \in Nat /\ DOMAIN prev = 0..m
  OBVIOUS
<1>2. \A y: Cost(x, y) \in Nat
  BY DEF Cost
<1>3. ASSUME NEW c \in Row, NEW j \in 1..m
      PROVE  /\ Turn(c, j) \in Row
             /\ \A k \in 0..m: k # j => Turn(c, j)[k] = c[k]
             /\ Turn(c, j)[j] = Min({c[j - 1] + 1, prev[j] + 1, prev[j - 1] + Cost(x, b[j])})
  <2>1. j \in 0..m /\ j - 1 \in 0..m
    BY <1>1
  <2>2. c[j - 1] \in Nat /\ prev[j] \in Nat /\ prev[j - 1] \in Nat
    BY <2>1
  <2> DEFINE v == c[j - 1] + 1
             w == prev[j] + 1
             u == prev[j - 1] + Cost(x, b[j])
  <2>3. v \in Nat /\ w \in Nat /\ u \in Nat
    BY <1>2, <2>2
  <2>4. Min({v, w, u}) \in Nat
    <3> HIDE DEF v, w, u
    <3> QED
      BY <2>3, MinOfThree
  <2> HIDE DEF m, v, w, u
  <2> QED
    BY <2>1, <2>4 DEF v, w, u
<1>4. G \in [1..m -> [Row -> Row]]
  <2> HIDE DEF Turn, Row
  <2> QED
    BY <1>3
<1>5. first \in Row /\ first[0] = i
  OBVIOUS
<1> HIDE DEF first
<1>6. PICK f: Recursive(f, Row, first, m, G)
  <2> HIDE DEF G, Row, m
  <2>1. first \in Row
    BY <1>5
  <2> QED
    BY <1>1, <1>4, <2>1, Recursion, Zenon
<1>7. \A j \in 0..m: f[j] = IF j = 0 THEN first ELSE Turn(f[j - 1], j)
  <2>1. \A j \in 1..m: G[j][f[j - 1]] = Turn(f[j - 1], j)
    <3>1. \A j \in 1..m: f[j - 1] \in Row
      <4> HIDE DEF Row, m
      <4> QED
        BY <1>1, <1>6 DEF Recursive
    <3> HIDE DEF Turn, Row, m
    <3> QED
      BY <3>1
  <2> HIDE DEF G, Turn, Row, m
  <2> QED
    BY <1>1, <1>6, <2>1 DEF Recursive
<1>8. f = [j \in DOMAIN prev |-> f[j]]
  <2> HIDE DEF Row, m
  <2>1. f = [j \in 0..m |-> f[j]]
    BY <1>6 DEF Recursive
  <2> QED
    BY <1>1, <2>1, Zenon
<1>9. f = [j \in DOMAIN prev |-> IF j = 0 THEN first ELSE Turn(f[j - 1], j)]
  <2> HIDE DEF Turn, m
  <2>1. \A j \in DOMAIN prev: f[j] = IF j = 0 THEN first ELSE Turn(f[j - 1], j)
    BY <1>1, <1>7, Zenon
  <2> QED
    BY <1>8, <2>1, Zenon
<1>10. curr = [j \in DOMAIN prev |-> IF j = 0 THEN first ELSE Turn(curr[j - 1], j)]
  <2> HIDE DEF Turn, m
  <2> QED
    BY <1>9, Zenon
<1> DEFINE row == NextRow(prev, i, x, b)
<1>11. row = curr[m]
  BY Zenon DEF NextRow, first
<1> HIDE DEF curr, Turn, G, row
<1>12. \A j \in 0..m: curr[j] = IF j = 0 THEN first ELSE Turn(curr[j - 1], j)
  BY <1>1, <1>10, Zenon
<1>13. \A j \in 0..m: curr[j] \in Row
  <2> DEFINE T == {j \in 0..m: curr[j] \in Row}
  <2>1. 0 \in T
    BY <1>1, <1>5, <1>12
  <2>2. ASSUME NEW j \in 1..m, j - 1 \in T PROVE j \in T
    <3> HIDE DEF Row, m
    <3>1. curr[j - 1] \in Row
      BY <2>2
    <3>2. curr[j] = Turn(curr[j - 1], j) /\ j \in 0..m
      BY <1>1, <1>12
    <3>3. Turn(curr[j - 1], j) \in Row
      BY <1>3, <3>1
    <3> QED
      BY <3>2, <3>3
  <2>3. 0..m \subseteq T
    <3> HIDE DEF T, m
    <3> QED
      BY <1>1, <2>1, <2>2, Induction
  <2> HIDE DEF m
  <2> QED
    BY <2>3
\* A turn leaves what earlier turns have filled.
<1>14. \A k \in 0..m: \A j \in k..m: curr[j][k] = curr[k][k]
  <2> SUFFICES ASSUME NEW k \in 0..m
               PROVE  \A j \in k..m: curr[j][k] = curr[k][k]
    OBVIOUS
  <2> DEFINE T == {j \in 0..m: j >= k => curr[j][k] = curr[k][k]}
  <2>1. 0 \in T
    BY <1>1
  <2>2. ASSUME NEW j \in 1..m, j - 1 \in T PROVE j \in T
    <3> HIDE DEF m
    <3>1. j \in 0..m /\ j - 1 \in 0..m
      BY <1>1
    <3>2. CASE j < k
      BY <1>1, <3>1, <3>2
    <3>3. CASE j = k
      BY <3>1, <3>3
    <3>4. CASE j > k
      <4> HIDE DEF Row
      <4>1. curr[j] = Turn(curr[j - 1], j) /\ curr[j - 1] \in Row
        BY <1>1, <1>12, <1>13, <3>1
      <4>2. Turn(curr[j - 1], j)[k] = curr[j - 1][k]
        <5>1. k # j
          BY <3>4
        <5> HIDE DEF Turn
        <5> QED
          BY <1>3, <4>1, <5>1
      <4>3. curr[j - 1][k] = curr[k][k]
        BY <1>1, <2>2, <3>4
      <4> QED
        BY <3>1, <4>1, <4>2, <4>3
    <3> QED
      BY <1>1, <3>2, <3>3, <3>4
  <2>3. 0..m \subseteq T
    <3> HIDE DEF T, m
    <3> QED
      BY <1>1, <2>1, <2>2, Induction
  <2> HIDE DEF m
  <2> QED
    BY <1>1, <2>3
<1> HIDE DEF m
<1>15. row \in Row /\ row[0] = i
  <2>1. 0 \in 0..m /\ m \in 0..m /\ m \in 0..m
    BY <1>1
  <2>2. curr[0] = first /\ curr[m][0] = curr[0][0] /\ curr[m] \in Row
    <3> HIDE DEF Row
    <3> QED
      BY <1>12, <1>13, <1>14, <2>1
  <2> QED
    BY <1>5, <1>11, <2>2
<1>16. ASSUME NEW j \in 1..m
       PROVE  row[j] = Min({row[j - 1] + 1, prev[j] + 1, prev[j - 1] + Cost(x, b[j])})
  <2>1. row[j] = curr[j][j] /\ row[j - 1] = curr[j - 1][j - 1]
    BY <1>1, <1>11, <1>14
  <2>2. curr[j - 1] \in Row /\ curr[j] = Turn(curr[j - 1], j)
    <3> HIDE DEF Row
    <3> QED
      BY <1>1, <1>12, <1>13
  <2> HIDE DEF Row
  <2> QED
    BY <1>3, <2>1, <2>2
<1> QED
  BY <1>15, <1>16 DEF m, row, Follows

\* The distances of the prefixes of a to the prefixes of b, as the recurrence
\* of the textbook has them.
Table(d, a, b) ==
    /\ d \in [0..Len(a) -> [0..Len(b) -> Nat]]
    /\ \A j \in 0..Len(b): d[0][j] = j
    /\ \A i \in 1..Len(a): Follows(d[i], d[i - 1], i, a[i], b)

\* The two rows that levenshtein swaps go through the rows of that table.
LEMMA LevenshteinTable ==
    ASSUME NEW Char, NEW a \in Seq(Char), NEW b \in Seq(Char)
    PROVE  \E d: Table(d, a, b) /\ Levenshtein(a, b) = d[Len(a)][Len(b)]
<1> DEFINE n == Len(a)
           Row == [0..Len(b) -> Nat]
           first == [j \in 0..Len(b) |-> j]
           Turn(r, i) == NextRow(r, i, a[i], b)
           G == [i \in 1..n |-> [r \in Row |-> Turn(r, i)]]
           row == CHOOSE f: f = [i \in 0..n |-> IF i = 0 THEN first ELSE Turn(f[i - 1], i)]
<1>1. n \in Nat
  OBVIOUS
<1>2. ASSUME NEW r \in Row, NEW i \in 1..n
      PROVE  Follows(Turn(r, i), r, i, a[i], b) /\ Turn(r, i) \in Row
  <2>1. i \in Nat
    BY <1>1
  <2>2. Follows(Turn(r, i), r, i, a[i], b)
    <3> HIDE DEF n
    <3> QED
      BY <2>1, RowIsFilled
  <2> HIDE DEF Turn
  <2> QED
    BY <2>2 DEF Follows
<1>3. first \in Row /\ \A j \in 0..Len(b): first[j] = j
  OBVIOUS
<1> HIDE DEF first
<1>4. G \in [1..n -> [Row -> Row]]
  <2> HIDE DEF Turn, Row, n
  <2> QED
    BY <1>2
<1>5. PICK f: Recursive(f, Row, first, n, G)
  <2> HIDE DEF G, Row, n
  <2>1. first \in Row
    BY <1>3
  <2> QED
    BY <1>1, <1>4, <2>1, Recursion, Zenon
<1> HIDE DEF Row, n
<1>6. \A i \in 0..n: f[i] = IF i = 0 THEN first ELSE Turn(f[i - 1], i)
  <2>1. \A i \in 1..n: f[i - 1] \in Row
    BY <1>1, <1>5 DEF Recursive
  <2>2. \A i \in 1..n: G[i][f[i - 1]] = Turn(f[i - 1], i)
    <3> HIDE DEF Turn
    <3> QED
      BY <2>1
  <2> HIDE DEF G, Turn
  <2> QED
    BY <1>1, <1>5, <2>2 DEF Recursive
<1>7. f = [i \in 0..n |-> f[i]]
  BY <1>5 DEF Recursive
<1> HIDE DEF Turn
<1>8. f = [i \in 0..n |-> IF i = 0 THEN first ELSE Turn(f[i - 1], i)]
  BY <1>6, <1>7, Zenon
<1>9. row = [i \in 0..n |-> IF i = 0 THEN first ELSE Turn(row[i - 1], i)]
  BY <1>8, Zenon
<1>10. Levenshtein(a, b) = row[n][Len(b)]
  BY Zenon DEF Levenshtein, first, Turn, n
<1> HIDE DEF row, G
<1>11. \A i \in 0..n: row[i] = IF i = 0 THEN first ELSE Turn(row[i - 1], i)
  BY <1>9, Zenon
<1>12. row = [i \in 0..n |-> row[i]]
  BY <1>9, Zenon
<1>13. \A i \in 0..n: row[i] \in Row
  <2> DEFINE T == {i \in 0..n: row[i] \in Row}
  <2>1. 0 \in T
    BY <1>1, <1>3, <1>11
  <2>2. ASSUME NEW i \in 1..n, i - 1 \in T PROVE i \in T
    <3>1. row[i - 1] \in Row /\ i \in 0..n
      BY <1>1, <2>2
    <3>2. row[i] = Turn(row[i - 1], i)
      BY <1>11, <3>1
    <3>3. Turn(row[i - 1], i) \in Row
      BY <1>2, <3>1
    <3> QED
      BY <3>1, <3>2, <3>3
  <2>3. 0..n \subseteq T
    <3> HIDE DEF T
    <3> QED
      BY <1>1, <2>1, <2>2, Induction
  <2> QED
    BY <2>3
<1>14. row \in [0..n -> Row] /\ row[0] = first
  <2>1. 0 \in 0..n
    BY <1>1
  <2>2. row[0] = first
    BY <1>11, <2>1
  <2> QED
    BY <1>12, <1>13, <2>2
<1>15. ASSUME NEW i \in 1..n
       PROVE  Follows(row[i], row[i - 1], i, a[i], b)
  <2>1. i \in 0..n /\ i - 1 \in 0..n /\ i # 0
    BY <1>1
  <2>2. row[i] = Turn(row[i - 1], i) /\ row[i - 1] \in Row
    BY <1>11, <1>13, <2>1
  <2> QED
    BY <1>2, <2>2
<1>16. Table(row, a, b)
  BY <1>3, <1>14, <1>15 DEF Table, Row, n
<1> QED
  BY <1>10, <1>16 DEF n

\* What a cell of the table is, by its neighbours above and to the left.
LEMMA Cell ==
    ASSUME NEW Char, NEW a \in Seq(Char), NEW b \in Seq(Char), NEW d, Table(d, a, b),
           NEW i \in 0..Len(a), NEW j \in 0..Len(b)
    PROVE  /\ d[i][j] \in Nat
           /\ i > 0 => d[i - 1][j] \in Nat /\ d[i][j] <= d[i - 1][j] + 1
           /\ j > 0 => d[i][j - 1] \in Nat /\ d[i][j] <= d[i][j - 1] + 1
           /\ i > 0 /\ j > 0 =>
                /\ d[i - 1][j - 1] \in Nat
                /\ d[i][j] <= d[i - 1][j - 1] + Cost(a[i], b[j])
           /\ \/ i = 0 /\ j = 0 /\ d[i][j] = 0
              \/ i > 0 /\ d[i][j] = d[i - 1][j] + 1
              \/ j > 0 /\ d[i][j] = d[i][j - 1] + 1
              \/ i > 0 /\ j > 0 /\ d[i][j] = d[i - 1][j - 1] + Cost(a[i], b[j])
<1>1. d \in [0..Len(a) -> [0..Len(b) -> Nat]] /\ Len(a) \in Nat /\ Len(b) \in Nat
  BY DEF Table
<1>2. \A k \in 0..Len(a), l \in 0..Len(b): d[k][l] \in Nat
  BY <1>1
<1>3. CASE i = 0
  <2>1. d[0][j] = j /\ (j > 0 => d[0][j - 1] = j - 1)
    BY <1>1 DEF Table
  <2> QED
    BY <1>1, <1>3, <2>1
<1>4. CASE i > 0 /\ j = 0
  <2>1. d[i][0] = i /\ d[i - 1][0] = i - 1
    <3>1. d[0][0] = 0 /\ \A k \in 1..Len(a): d[k][0] = k
      BY <1>1 DEF Table, Follows
    <3> QED
      BY <1>1, <1>4, <3>1
  <2> QED
    BY <1>1, <1>4, <2>1
<1>5. CASE i > 0 /\ j > 0
  <2> DEFINE x == d[i][j - 1] + 1
             y == d[i - 1][j] + 1
             z == d[i - 1][j - 1] + Cost(a[i], b[j])
  <2>1. /\ i \in 1..Len(a) /\ i - 1 \in 0..Len(a)
        /\ j \in 1..Len(b) /\ j - 1 \in 0..Len(b)
    BY <1>1, <1>5
  <2>2. /\ d[i][j - 1] \in Nat /\ d[i - 1][j] \in Nat
        /\ d[i - 1][j - 1] \in Nat /\ d[i][j] \in Nat
    BY <1>2, <2>1
  <2>3. Cost(a[i], b[j]) \in Nat
    BY DEF Cost
  <2>4. x \in Nat /\ y \in Nat /\ z \in Nat
    <3> DEFINE p == d[i][j - 1]
               q == d[i - 1][j]
               r == d[i - 1][j - 1]
               s == Cost(a[i], b[j])
    <3>1. p \in Nat /\ q \in Nat /\ r \in Nat /\ s \in Nat
      BY <2>2, <2>3
    <3> HIDE DEF p, q, r, s
    <3>2. p + 1 \in Nat /\ q + 1 \in Nat /\ r + s \in Nat
      BY <3>1
    <3> QED
      BY <3>2 DEF p, q, r, s
  <2>5. d[i][j] = Min({x, y, z})
    BY <2>1 DEF Table, Follows
  <2>6. d[i][j] \in {x, y, z} /\ d[i][j] <= x /\ d[i][j] <= y /\ d[i][j] <= z
    <3> HIDE DEF x, y, z
    <3>1. LET least == Min({x, y, z})
          IN  /\ least \in {x, y, z} /\ least <= x /\ least <= y /\ least <= z
      BY <2>4, MinOfThree
    <3> QED
      BY <2>5, <3>1, Zenon
  <2> QED
    BY <1>5, <2>2, <2>3, <2>6
<1> QED
  BY <1>1, <1>3, <1>4, <1>5

\* A character more of b, or one less, changes the distance by one at most.
LEMMA Neighbours ==
    ASSUME NEW Char, NEW a \in Seq(Char), NEW b \in Seq(Char), NEW d, Table(d, a, b)
    PROVE  \A i \in 0..Len(a), j \in 1..Len(b): d[i][j - 1] <= d[i][j] + 1
<1> DEFINE n == Len(a)
           m == Len(b)
           T == [i \in 0..n |-> {j \in 0..m: j > 0 => d[i][j - 1] <= d[i][j] + 1}]
<1>1. n \in Nat /\ m \in Nat
  OBVIOUS
<1>2. ASSUME NEW i \in 0..n, NEW j \in 0..m, j > 0,
             i > 0 => d[i - 1][j - 1] <= d[i - 1][j] + 1
      PROVE  d[i][j - 1] <= d[i][j] + 1
  <2>1. j - 1 \in 0..m /\ (i > 0 => i - 1 \in 0..n)
    BY <1>1, <1>2
  <2>2. d[i][j] \in Nat /\ d[i][j - 1] \in Nat
    BY <2>1, Cell
  <2>3. CASE i = 0
    <3>1. d[0][j] = j /\ d[0][j - 1] = j - 1
      BY <2>1 DEF Table
    <3> QED
      BY <1>1, <1>2, <2>3, <3>1
  <2>4. CASE i > 0
    <3>1. d[i - 1][j] \in Nat /\ d[i - 1][j - 1] \in Nat
      BY <2>1, <2>4, Cell
    <3>2. d[i][j - 1] <= d[i - 1][j - 1] + 1
      BY <2>1, <2>4, Cell
    <3>3. \/ d[i][j] = d[i - 1][j] + 1
          \/ d[i][j] = d[i][j - 1] + 1
          \/ d[i][j] = d[i - 1][j - 1] + Cost(a[i], b[j])
      BY <2>4, Cell
    <3>4. Cost(a[i], b[j]) \in Nat
      BY DEF Cost
    <3>5. d[i - 1][j - 1] <= d[i - 1][j] + 1
      BY <1>2, <2>4
    <3> DEFINE x == d[i][j]
               y == d[i][j - 1]
               u == d[i - 1][j]
               v == d[i - 1][j - 1]
               c == Cost(a[i], b[j])
    <3> HIDE DEF x, y, u, v, c
    <3>6. y <= x + 1
      <4>1. x \in Nat /\ y \in Nat /\ u \in Nat /\ v \in Nat /\ c \in Nat
        BY <2>2, <3>1, <3>4 DEF x, y, u, v, c
      <4>2. y <= v + 1 /\ v <= u + 1
        BY <3>2, <3>5 DEF y, v, u
      <4>3. x = u + 1 \/ x = y + 1 \/ x = v + c
        BY <3>3 DEF x, y, u, v, c
      <4> QED
        BY <4>1, <4>2, <4>3
    <3> QED
      BY <3>6 DEF x, y
  <2> QED
    BY <1>1, <2>3, <2>4
<1>3. \A i \in 0..n, j \in 0..m: j \in T[i]
  <2>1. ASSUME NEW i \in 0..n, NEW j \in 0..m, i > 0 => j \in T[i - 1]
        PROVE  j \in T[i]
    <3>1. i > 0 => i - 1 \in 0..n
      BY <1>1
    <3> QED
      BY <1>2, <2>1, <3>1
  <2> HIDE DEF T, n, m
  <2> QED
    BY <1>1, <2>1, GridInduction
<1> QED
  BY <1>1, <1>3

\* A trajectory is at distance zero of itself.
LEMMA Diagonal ==
    ASSUME NEW Char, NEW a \in Seq(Char), NEW d, Table(d, a, a)
    PROVE  d[Len(a)][Len(a)] = 0
<1> DEFINE n == Len(a)
           T == {i \in 0..n: d[i][i] = 0}
<1>1. n \in Nat
  OBVIOUS
<1>2. 0 \in T
  BY <1>1 DEF Table
<1>3. ASSUME NEW i \in 1..n, i - 1 \in T PROVE i \in T
  <2>1. i \in 0..n /\ i - 1 \in 0..n /\ d[i - 1][i - 1] = 0
    BY <1>1, <1>3
  <2>2. d[i][i] \in Nat /\ d[i][i] <= d[i - 1][i - 1] + Cost(a[i], a[i])
    BY <2>1, Cell
  <2> QED
    BY <2>1, <2>2 DEF Cost
<1>4. 0..n \subseteq T
  <2> HIDE DEF T, n
  <2> QED
    BY <1>1, <1>2, <1>3, Induction
<1> QED
  BY <1>1, <1>4

\* From a column on, t and u have the same characters, u s places further: what
\* the distances to their prefixes differ by in that column bounds it beyond.
LEMMA Shifted ==
    ASSUME NEW Char, NEW a \in Seq(Char), NEW t \in Seq(Char), NEW u \in Seq(Char),
           NEW d, Table(d, a, t), NEW e, Table(e, a, u),
           NEW s \in Int, NEW c \in {0, 1}, NEW q \in 0..Len(t), NEW r \in q..Len(t),
           0 <= q + s, r + s <= Len(u),
           \A j \in (q + 1)..r: u[j + s] = t[j],
           \A i \in 0..Len(a): e[i][q + s] <= d[i][q] + c
    PROVE  \A i \in 0..Len(a), j \in q..r: e[i][j + s] <= d[i][j] + c
<1> DEFINE n == Len(a)
           m == Len(t)
           T == [i \in 0..n |-> {j \in 0..m: j \in q..r => e[i][j + s] <= d[i][j] + c}]
<1>1. n \in Nat /\ m \in Nat /\ Len(u) \in Nat
  OBVIOUS
<1>2. ASSUME NEW i \in 0..n, NEW j \in (q + 1)..r,
             e[i][j - 1 + s] <= d[i][j - 1] + c,
             i > 0 => /\ e[i - 1][j + s] <= d[i - 1][j] + c
                      /\ e[i - 1][j - 1 + s] <= d[i - 1][j - 1] + c
      PROVE  e[i][j + s] <= d[i][j] + c
  <2> DEFINE k == j + s
  <2>1. /\ j \in 0..m /\ j - 1 \in 0..m /\ j > 0 /\ (i > 0 => i - 1 \in 0..n)
        /\ k \in 0..Len(u) /\ k - 1 \in 0..Len(u) /\ k > 0 /\ k - 1 = j - 1 + s
    BY <1>1
  <2> HIDE DEF k
  <2>2. u[k] = t[j]
    BY DEF k
  <2>3. CASE i = 0
    <3>1. e[0][k] = k /\ d[0][j] = j /\ e[0][k - 1] = k - 1 /\ d[0][j - 1] = j - 1
      BY <2>1 DEF Table
    <3>2. k - 1 <= j - 1 + c
      BY <1>2, <2>1, <2>3, <3>1
    <3>3. k <= j + c
      <4>1. k \in Int /\ j \in Int /\ c \in Int
        BY <2>1
      <4> QED
        BY <3>2, <4>1
    <3> QED
      BY <2>3, <3>1, <3>3 DEF k
  <2>4. CASE i > 0
    <3> DEFINE x == d[i][j]
               xl == d[i][j - 1]
               xu == d[i - 1][j]
               xd == d[i - 1][j - 1]
               y == e[i][k]
               yl == e[i][k - 1]
               yu == e[i - 1][k]
               yd == e[i - 1][k - 1]
               w == Cost(a[i], t[j])
    <3>1. w \in Nat
      BY DEF Cost
    <3>2. /\ x \in Nat /\ xl \in Nat /\ xu \in Nat /\ xd \in Nat
          /\ x = xu + 1 \/ x = xl + 1 \/ x = xd + w
      <4> HIDE DEF n
      <4> QED
        BY <2>1, <2>4, Cell DEF n
    <3>3. /\ y \in Nat /\ yl \in Nat /\ yu \in Nat /\ yd \in Nat
          /\ y <= yl + 1 /\ y <= yu + 1 /\ y <= yd + w
      <4>1. i - 1 \in Nat /\ k - 1 \in Nat /\ i \in 0..Len(a) /\ k \in 0..Len(u)
        BY <1>1, <2>1, <2>4
      <4>2. /\ y \in Nat /\ yl \in Nat /\ yu \in Nat /\ yd \in Nat
            /\ y <= yl + 1 /\ y <= yu + 1 /\ y <= yd + Cost(a[i], u[k])
        BY <2>1, <2>4, <4>1, Cell
      <4> QED
        BY <2>2, <4>2
    <3>4. yl <= xl + c /\ yu <= xu + c /\ yd <= xd + c
      BY <1>2, <2>1, <2>4 DEF k
    <3> HIDE DEF x, xl, xu, xd, y, yl, yu, yd, w
    <3>5. y <= x + c
      BY <3>1, <3>2, <3>3, <3>4
    <3> QED
      BY <3>5 DEF x, y, k
  <2> QED
    BY <1>1, <2>3, <2>4
<1>3. \A i \in 0..n, j \in 0..m: j \in T[i]
  <2>1. ASSUME NEW i \in 0..n, NEW j \in 0..m,
               /\ i > 0 => j \in T[i - 1]
               /\ j > 0 => j - 1 \in T[i]
               /\ i > 0 /\ j > 0 => j - 1 \in T[i - 1]
        PROVE  j \in T[i]
    <3>1. i > 0 => i - 1 \in 0..n
      BY <1>1
    <3>2. CASE j = q
      BY <3>2
    <3>3. CASE j \in (q + 1)..r
      <4>1. j > 0 /\ j - 1 \in q..r /\ j \in q..r
        BY <3>3
      <4>2. e[i][j - 1 + s] <= d[i][j - 1] + c
        BY <2>1, <4>1
      <4>3. i > 0 => /\ e[i - 1][j + s] <= d[i - 1][j] + c
                     /\ e[i - 1][j - 1 + s] <= d[i - 1][j - 1] + c
        BY <2>1, <3>1, <4>1
      <4>4. e[i][j + s] <= d[i][j] + c
        BY <1>2, <3>3, <4>2, <4>3
      <4> QED
        BY <4>4
    <3>4. CASE j \notin q..r
      BY <3>4
    <3> QED
      BY <3>2, <3>3, <3>4
  <2> HIDE DEF T, n, m
  <2> QED
    BY <1>1, <2>1, GridInduction
<1> QED
  BY <1>1, <1>3

-----------------------------------------------------------------------------
(* One edit *)

\* What InsertAt gives, element by element.
LEMMA Inserted ==
    ASSUME NEW Char, NEW s \in Seq(Char), NEW x \in Char, NEW p \in 1..(Len(s) + 1)
    PROVE  /\ InsertAt(s, p, x) \in Seq(Char) /\ Len(InsertAt(s, p, x)) = Len(s) + 1
           /\ \A k \in 1..(p - 1): InsertAt(s, p, x)[k] = s[k]
           /\ InsertAt(s, p, x)[p] = x
           /\ \A k \in p..Len(s): InsertAt(s, p, x)[k + 1] = s[k]
<1> DEFINE m == Len(s)
           l == SubSeq(s, 1, p - 1)
           r == SubSeq(s, p, m)
           lx == l \o <<x>>
           u == lx \o r
<1>1. m \in Nat /\ p - 1 \in 0..m /\ p \in Int
  OBVIOUS
<1>2. \A i \in 1..m: s[i] \in Char
  BY ElementOfSeq
<1>3. l \in Seq(Char) /\ Len(l) = p - 1 /\ \A i \in 1..(p - 1): l[i] = s[i]
  <2>1. \A i \in 1..(p - 1): s[i] \in Char
    BY <1>1, <1>2
  <2>2. /\ l \in Seq(Char) /\ Len(l) = IF 1 <= p - 1 THEN (p - 1) - 1 + 1 ELSE 0
        /\ \A i \in 1..((p - 1) - 1 + 1): l[i] = s[1 + i - 1]
    BY <1>1, <2>1, SubSeqProperties
  <2> HIDE DEF l, m
  <2> QED
    BY <1>1, <2>2
<1>4. r \in Seq(Char) /\ Len(r) = m - p + 1 /\ \A i \in 1..(m - p + 1): r[i] = s[p + i - 1]
  <2>1. \A i \in p..m: s[i] \in Char
    BY <1>1, <1>2
  <2>2. /\ r \in Seq(Char) /\ Len(r) = IF p <= m THEN m - p + 1 ELSE 0
        /\ \A i \in 1..(m - p + 1): r[i] = s[p + i - 1]
    <3> HIDE DEF m
    <3> QED
      BY <1>1, <2>1, SubSeqProperties DEF r
  <2> HIDE DEF r, m
  <2> QED
    BY <1>1, <2>2
<1>5. <<x>> \in Seq(Char) /\ Len(<<x>>) = 1 /\ <<x>>[1] = x
  OBVIOUS
<1> DEFINE one == <<x>>
<1> HIDE DEF l, r, m, one
<1>6. /\ lx \in Seq(Char) /\ Len(lx) = p
      /\ \A i \in 1..(p - 1): lx[i] = l[i]
      /\ lx[p] = x
  <2>1. /\ l \o one \in Seq(Char) /\ Len(l \o one) = Len(l) + Len(one)
        /\ \A i \in 1..(Len(l) + Len(one)):
             (l \o one)[i] = IF i <= Len(l) THEN l[i] ELSE one[i - Len(l)]
    BY <1>3, <1>5, ConcatProperties DEF one
  <2>2. p \in 1..(Len(l) + Len(one)) /\ Len(l) = p - 1 /\ Len(one) = 1 /\ one[1] = x
    BY <1>1, <1>3, <1>5 DEF one
  <2>3. (l \o one)[p] = x /\ \A i \in 1..(p - 1): (l \o one)[i] = l[i]
    BY <1>1, <2>1, <2>2
  <2> QED
    BY <1>1, <2>1, <2>2, <2>3 DEF one
<1> HIDE DEF lx
<1>7. /\ u \in Seq(Char) /\ Len(u) = m + 1
      /\ \A i \in 1..p: u[i] = lx[i]
      /\ \A i \in (p + 1)..(m + 1): u[i] = r[i - p]
  <2>1. /\ lx \o r \in Seq(Char) /\ Len(lx \o r) = Len(lx) + Len(r)
        /\ \A i \in 1..(Len(lx) + Len(r)):
             (lx \o r)[i] = IF i <= Len(lx) THEN lx[i] ELSE r[i - Len(lx)]
    BY <1>4, <1>6, ConcatProperties
  <2>2. Len(lx) = p /\ Len(r) = m - p + 1 /\ p + (m - p + 1) = m + 1
    BY <1>1, <1>4, <1>6
  <2> HIDE DEF u
  <2>3. /\ u \in Seq(Char) /\ Len(u) = m + 1
        /\ \A i \in 1..(m + 1): u[i] = IF i <= p THEN lx[i] ELSE r[i - p]
    BY <2>1, <2>2 DEF u
  <2>4. \A i \in 1..p: i \in 1..(m + 1) /\ i <= p
    BY <1>1
  <2>5. \A i \in (p + 1)..(m + 1): i \in 1..(m + 1) /\ ~(i <= p)
    BY <1>1
  <2> QED
    BY <2>3, <2>4, <2>5
<1>8. u = InsertAt(s, p, x)
  BY DEF InsertAt, l, r, lx, m
<1> HIDE DEF u
<1>9. \A k \in 1..(p - 1): u[k] = s[k]
  BY <1>1, <1>3, <1>6, <1>7
<1>10. u[p] = x
  BY <1>1, <1>6, <1>7
<1>11. \A k \in p..m: u[k + 1] = s[k]
  <2> SUFFICES ASSUME NEW k \in p..m
               PROVE  u[k + 1] = s[k]
    OBVIOUS
  <2>1. k + 1 \in (p + 1)..(m + 1) /\ k + 1 - p \in 1..(m - p + 1) /\ p + (k + 1 - p) - 1 = k
    BY <1>1
  <2> QED
    BY <1>4, <1>7, <2>1
<1> QED
  BY <1>7, <1>8, <1>9, <1>10, <1>11 DEF m

\* What RemoveAt gives, element by element.
LEMMA Removed ==
    ASSUME NEW Char, NEW s \in Seq(Char), NEW p \in 1..Len(s)
    PROVE  /\ RemoveAt(s, p) \in Seq(Char) /\ Len(RemoveAt(s, p)) = Len(s) - 1
           /\ \A k \in 1..(p - 1): RemoveAt(s, p)[k] = s[k]
           /\ \A k \in (p + 1)..Len(s): RemoveAt(s, p)[k - 1] = s[k]
<1> DEFINE m == Len(s)
           l == SubSeq(s, 1, p - 1)
           r == SubSeq(s, p + 1, m)
           u == l \o r
<1>1. m \in Nat /\ p \in 1..m
  OBVIOUS
<1>2. \A i \in 1..m: s[i] \in Char
  BY ElementOfSeq
<1>3. l \in Seq(Char) /\ Len(l) = p - 1 /\ \A i \in 1..(p - 1): l[i] = s[i]
  <2>1. \A i \in 1..(p - 1): s[i] \in Char
    BY <1>1, <1>2
  <2>2. /\ l \in Seq(Char) /\ Len(l) = IF 1 <= p - 1 THEN (p - 1) - 1 + 1 ELSE 0
        /\ \A i \in 1..((p - 1) - 1 + 1): l[i] = s[1 + i - 1]
    BY <1>1, <2>1, SubSeqProperties
  <2> HIDE DEF l, m
  <2> QED
    BY <1>1, <2>2
<1>4. r \in Seq(Char) /\ Len(r) = m - p /\ \A i \in 1..(m - p): r[i] = s[p + i]
  <2>1. \A i \in (p + 1)..m: s[i] \in Char
    BY <1>1, <1>2
  <2>2. /\ r \in Seq(Char) /\ Len(r) = IF p + 1 <= m THEN m - (p + 1) + 1 ELSE 0
        /\ \A i \in 1..(m - (p + 1) + 1): r[i] = s[p + 1 + i - 1]
    <3> HIDE DEF m
    <3> QED
      BY <1>1, <2>1, SubSeqProperties DEF r
  <2> HIDE DEF r, m
  <2> QED
    BY <1>1, <2>2
<1> HIDE DEF l, r, m
<1>5. /\ u \in Seq(Char) /\ Len(u) = m - 1
      /\ \A i \in 1..(p - 1): u[i] = l[i]
      /\ \A i \in p..(m - 1): u[i] = r[i - (p - 1)]
  <2>1. /\ l \o r \in Seq(Char) /\ Len(l \o r) = Len(l) + Len(r)
        /\ \A i \in 1..(Len(l) + Len(r)):
             (l \o r)[i] = IF i <= Len(l) THEN l[i] ELSE r[i - Len(l)]
    BY <1>3, <1>4, ConcatProperties
  <2> QED
    BY <1>1, <1>3, <1>4, <2>1
<1>6. u = RemoveAt(s, p)
  BY DEF RemoveAt, l, r, m
<1> HIDE DEF u
<1>7. \A k \in 1..(p - 1): u[k] = s[k]
  BY <1>1, <1>3, <1>5
<1>8. \A k \in (p + 1)..m: u[k - 1] = s[k]
  <2> SUFFICES ASSUME NEW k \in (p + 1)..m
               PROVE  u[k - 1] = s[k]
    OBVIOUS
  <2>1. k - 1 \in p..(m - 1) /\ k - 1 - (p - 1) = k - p /\ k - p \in 1..(m - p) /\ p + (k - p) = k
    BY <1>1
  <2> QED
    BY <1>4, <1>5, <2>1
<1> QED
  BY <1>5, <1>6, <1>7, <1>8 DEF m

\* What ReplaceAt gives, element by element.
LEMMA Replaced ==
    ASSUME NEW Char, NEW s \in Seq(Char), NEW x \in Char, NEW p \in 1..Len(s)
    PROVE  /\ ReplaceAt(s, p, x) \in Seq(Char) /\ Len(ReplaceAt(s, p, x)) = Len(s)
           /\ \A k \in 1..Len(s): ReplaceAt(s, p, x)[k] = IF k = p THEN x ELSE s[k]
BY ExceptSeq DEF ReplaceAt

\* An edit gives a sequence of the same characters.
LEMMA EditedType ==
    ASSUME NEW Char, NEW s \in Seq(Char), NEW u \in Edits(s, Char)
    PROVE  u \in Seq(Char)
<1>1. DOMAIN s = 1..Len(s)
  BY LenProperties
<1>2. \/ \E p \in 1..(Len(s) + 1), x \in Char: u = InsertAt(s, p, x)
      \/ \E p \in 1..Len(s): u = RemoveAt(s, p)
      \/ \E p \in 1..Len(s), x \in Char: u = ReplaceAt(s, p, x)
  BY <1>1 DEF Edits
<1> QED
  BY <1>2, Inserted, Removed, Replaced

\* One edit of the other trajectory changes the distance by one at most.
LEMMA EditStep ==
    ASSUME NEW Char, NEW a \in Seq(Char), NEW t \in Seq(Char), NEW u \in Edits(t, Char),
           NEW d, Table(d, a, t), NEW e, Table(e, a, u)
    PROVE  e[Len(a)][Len(u)] <= d[Len(a)][Len(t)] + 1
<1> DEFINE n == Len(a)
           m == Len(t)
\* Before the place of the edit nothing changes.
<1>1. n \in Nat /\ m \in Nat /\ u \in Seq(Char) /\ Len(u) \in Nat /\ DOMAIN t = 1..m
  BY EditedType, LenProperties
<1>2. ASSUME NEW r \in 0..m, r <= Len(u), \A k \in 1..r: u[k] = t[k]
      PROVE  \A i \in 0..n, j \in 0..r: e[i][j] <= d[i][j]
  <2>1. \A i \in 0..n: e[i][0] \in Nat /\ d[i][0] \in Nat /\ e[i][0] = d[i][0]
    <3>1. \A i \in 0..n: e[i][0] = i /\ d[i][0] = i
      <4>1. e[0][0] = 0 /\ d[0][0] = 0
        BY <1>1 DEF Table
      <4>2. \A i \in 1..n: e[i][0] = i /\ d[i][0] = i
        BY DEF Table, Follows
      <4> QED
        BY <1>1, <4>1, <4>2
    <3> QED
      BY <3>1
  <2>2. \A i \in 0..n: e[i][0 + 0] <= d[i][0] + 0
    BY <2>1
  <2>3. 0 \in 0..m /\ r \in 0..m /\ 0 \in Int /\ 0 <= 0 + 0 /\ r + 0 <= Len(u)
    BY <1>1, <1>2
  <2>4. \A k \in (0 + 1)..r: u[k + 0] = t[k]
    BY <1>1, <1>2
  <2>5. \A i \in 0..n, j \in 0..r: e[i][j + 0] <= d[i][j] + 0
    BY <1>1, <2>2, <2>3, <2>4, Shifted
  <2>6. ASSUME NEW i \in 0..n, NEW j \in 0..r
        PROVE  e[i][j] <= d[i][j]
    <3>1. j \in 0..m /\ j + 0 = j /\ d[i][j] \in Nat
      BY <1>1, Cell
    <3>2. d[i][j] + 0 = d[i][j]
      BY <3>1
    <3> QED
      BY <2>5, <3>1, <3>2
  <2> QED
    BY <2>6
<1>3. ASSUME NEW p \in 1..(m + 1), NEW x \in Char, u = InsertAt(t, p, x)
      PROVE  e[n][Len(u)] <= d[n][m] + 1
  <2>1. /\ Len(u) = m + 1 /\ \A k \in 1..(p - 1): u[k] = t[k]
        /\ \A k \in p..m: u[k + 1] = t[k]
    BY <1>3, Inserted
  <2>2. /\ p - 1 \in 0..m /\ p - 1 <= Len(u) /\ p \in 1..Len(u) /\ p - 1 \in 0..Len(u)
        /\ p - 1 + 1 = p /\ p \in 0..Len(u) /\ p > 0
    BY <1>1, <2>1
  <2>3. \A i \in 0..n: e[i][p - 1 + 1] <= d[i][p - 1] + 1
    <3> SUFFICES ASSUME NEW i \in 0..n
                 PROVE  e[i][p] <= d[i][p - 1] + 1
      BY <2>2
    <3>1. e[i][p - 1] \in Nat /\ e[i][p] \in Nat /\ e[i][p] <= e[i][p - 1] + 1
      BY <1>1, <2>2, Cell
    <3>2. e[i][p - 1] <= d[i][p - 1]
      <4>1. p - 1 \in 0..(p - 1)
        BY <2>2
      <4> QED
        BY <1>2, <2>1, <2>2, <4>1
    <3>3. d[i][p - 1] \in Nat
      BY <2>2, Cell
    <3> DEFINE y == e[i][p]
               yl == e[i][p - 1]
               vl == d[i][p - 1]
    <3>4. /\ y \in Nat /\ yl \in Nat /\ vl \in Nat
          /\ y <= yl + 1 /\ yl <= vl
      BY <3>1, <3>2, <3>3
    <3> HIDE DEF y, yl, vl
    <3>5. y <= vl + 1
      BY <3>4
    <3> QED
      BY <3>5 DEF y, vl
  <2>4. \A k \in (p - 1 + 1)..m: u[k + 1] = t[k]
    BY <2>1, <2>2
  <2>5. m \in (p - 1)..m /\ 1 \in Int /\ 0 <= p - 1 + 1 /\ m + 1 <= Len(u)
    BY <1>1, <2>1, <2>2
  <2>6. \A i \in 0..n, j \in (p - 1)..m: e[i][j + 1] <= d[i][j] + 1
    BY <1>1, <2>2, <2>3, <2>4, <2>5, Shifted
  <2>7. n \in 0..n
    BY <1>1
  <2> QED
    BY <2>1, <2>5, <2>6, <2>7
<1>4. ASSUME NEW p \in 1..m, u = RemoveAt(t, p)
      PROVE  e[n][Len(u)] <= d[n][m] + 1
  <2>1. /\ Len(u) = m - 1 /\ \A k \in 1..(p - 1): u[k] = t[k]
        /\ \A k \in (p + 1)..m: u[k - 1] = t[k]
    BY <1>4, Removed
  <2>2. /\ p - 1 \in 0..m /\ p - 1 <= Len(u) /\ p - 1 \in 0..Len(u) /\ p \in 0..m
        /\ p + (-1) = p - 1
    BY <1>1, <2>1
  <2>3. \A i \in 0..n: e[i][p + (-1)] <= d[i][p] + 1
    <3> SUFFICES ASSUME NEW i \in 0..n
                 PROVE  e[i][p - 1] <= d[i][p] + 1
      BY <2>2
    <3>1. d[i][p - 1] <= d[i][p] + 1
      BY Neighbours
    <3>2. e[i][p - 1] <= d[i][p - 1]
      <4>1. p - 1 \in 0..(p - 1)
        BY <2>2
      <4> QED
        BY <1>2, <2>1, <2>2, <4>1
    <3>3. d[i][p] \in Nat /\ d[i][p - 1] \in Nat /\ e[i][p - 1] \in Nat
      BY <1>1, <2>2, Cell
    <3> QED
      BY <3>1, <3>2, <3>3
  <2>4. \A k \in (p + 1)..m: u[k + (-1)] = t[k]
    <3>1. \A k \in (p + 1)..m: k + (-1) = k - 1
      BY <2>2
    <3> QED
      BY <2>1, <3>1
  <2>5. m \in p..m /\ -1 \in Int /\ 0 <= p + (-1) /\ m + (-1) <= Len(u) /\ m + (-1) = Len(u)
    BY <1>1, <2>1, <2>2
  <2>6. \A i \in 0..n, j \in p..m: e[i][j + (-1)] <= d[i][j] + 1
    <3> DEFINE s == -1
    <3>1. /\ s \in Int /\ 0 <= p + s /\ m + s <= Len(u) /\ m \in p..m
          /\ \A k \in (p + 1)..m: u[k + s] = t[k]
          /\ \A i \in 0..n: e[i][p + s] <= d[i][p] + 1
      BY <2>3, <2>4, <2>5
    <3> HIDE DEF s
    <3>2. \A i \in 0..n, j \in p..m: e[i][j + s] <= d[i][j] + 1
      BY <1>1, <2>2, <3>1, Shifted
    <3> QED
      BY <3>2 DEF s
  <2>7. n \in 0..n
    BY <1>1
  <2> QED
    BY <2>5, <2>6, <2>7
<1>5. ASSUME NEW p \in 1..m, NEW x \in Char, u = ReplaceAt(t, p, x)
      PROVE  e[n][Len(u)] <= d[n][m] + 1
  <2>1. /\ Len(u) = m /\ \A k \in 1..m: k # p => u[k] = t[k]
    BY <1>5, Replaced
  <2>2. /\ p - 1 \in 0..m /\ p - 1 <= Len(u) /\ p - 1 \in 0..Len(u) /\ p \in 0..m
        /\ p \in 0..Len(u) /\ p + 0 = p /\ p > 0 /\ p \in Nat
    BY <1>1, <2>1
  <2>3. \A i \in 0..n, j \in 0..(p - 1): e[i][j] <= d[i][j]
    <3>1. \A k \in 1..(p - 1): u[k] = t[k]
      BY <2>1, <2>2
    <3> QED
      BY <1>2, <2>2, <3>1
  <2>4. \A i \in 0..n: e[i][p] <= d[i][p] + 1
    <3> DEFINE T == {i \in 0..n: e[i][p] <= d[i][p] + 1}
    <3>1. 0 \in T
      <4>1. e[0][p] = p /\ d[0][p] = p
        BY <1>1, <2>2 DEF Table
      <4> QED
        BY <1>1, <2>2, <4>1
    <3>2. ASSUME NEW i \in 1..n, i - 1 \in T PROVE i \in T
      <4> DEFINE w == Cost(a[i], u[p])
                 z == Cost(a[i], t[p])
                 y == e[i][p]
                 yl == e[i][p - 1]
                 yu == e[i - 1][p]
                 yd == e[i - 1][p - 1]
                 v == d[i][p]
                 vl == d[i][p - 1]
                 vu == d[i - 1][p]
                 vd == d[i - 1][p - 1]
      <4>1. i \in 0..n /\ i - 1 \in 0..n /\ i > 0 /\ p - 1 \in 0..(p - 1)
        BY <1>1, <2>2
      <4>2. w \in {0, 1} /\ z \in Nat
        BY DEF Cost
      <4>3. /\ v \in Nat /\ vl \in Nat /\ vu \in Nat /\ vd \in Nat
            /\ v = vu + 1 \/ v = vl + 1 \/ v = vd + z
        BY <2>2, <4>1, Cell
      <4>4. /\ y \in Nat /\ yl \in Nat /\ yu \in Nat /\ yd \in Nat
            /\ y <= yl + 1 /\ y <= yu + 1 /\ y <= yd + w
        BY <1>1, <2>2, <4>1, Cell
      <4>5. yl <= vl /\ yd <= vd
        BY <2>3, <4>1
      <4>6. yu <= vu + 1
        BY <3>2
      <4> HIDE DEF w, z, y, yl, yu, yd, v, vl, vu, vd
      <4>7. y <= v + 1
        BY <4>2, <4>3, <4>4, <4>5, <4>6
      <4> QED
        BY <4>1, <4>7 DEF y, v
    <3>3. 0..n \subseteq T
      <4> HIDE DEF T, n
      <4> QED
        BY <1>1, <3>1, <3>2, Induction
    <3> QED
      BY <3>3
  <2>5. \A i \in 0..n: e[i][p + 0] <= d[i][p] + 1
    BY <2>2, <2>4
  <2>6. \A k \in (p + 1)..m: u[k + 0] = t[k]
    <3>1. \A k \in (p + 1)..m: k + 0 = k /\ k # p /\ k \in 1..m
      BY <2>2
    <3> QED
      BY <2>1, <3>1
  <2>7. m \in p..m /\ 0 \in Int /\ 0 <= p + 0 /\ m + 0 <= Len(u) /\ m + 0 = Len(u)
    BY <1>1, <2>1, <2>2
  <2>8. \A i \in 0..n, j \in p..m: e[i][j + 0] <= d[i][j] + 1
    BY <1>1, <2>2, <2>5, <2>6, <2>7, Shifted
  <2>9. n \in 0..n
    BY <1>1
  <2> QED
    BY <2>7, <2>8, <2>9
<1>6. \/ \E p \in 1..(m + 1), x \in Char: u = InsertAt(t, p, x)
      \/ \E p \in 1..m: u = RemoveAt(t, p)
      \/ \E p \in 1..m, x \in Char: u = ReplaceAt(t, p, x)
  BY <1>1 DEF Edits
<1> QED
  BY <1>3, <1>4, <1>5, <1>6

-----------------------------------------------------------------------------
(* The sequences within so many edits *)

Wider(ball, Char) == ball \cup UNION {Edits(t, Char): t \in ball}

Balls(f, s, Char, N) ==
    /\ f \in [0..N -> SUBSET Seq(Char)] /\ f[0] = {s}
    /\ \A n \in 1..N: f[n] = Wider(f[n - 1], Char)

\* The recursion of EditBall defines the ball and those within it.
LEMMA BallsExist ==
    ASSUME NEW Char, NEW s \in Seq(Char), NEW N \in Nat
    PROVE  \E f: Balls(f, s, Char, N) /\ EditBall(s, Char, N) = f[N]
<1> DEFINE S == SUBSET Seq(Char)
           W(x) == Wider(x, Char)
           first == {s}
           G == [n \in 1..N |-> [x \in S |-> W(x)]]
           ball == CHOOSE f: f = [n \in 0..N |-> IF n = 0 THEN first ELSE W(f[n - 1])]
<1>1. \A x \in S: W(x) \in S
  BY EditedType DEF Wider
<1>2. first \in S
  OBVIOUS
<1>3. EditBall(s, Char, N) = ball[N]
  BY Zenon DEF EditBall, Wider
<1> HIDE DEF S, W, first
<1>4. G \in [1..N -> [S -> S]]
  BY <1>1
<1>5. PICK f: Recursive(f, S, first, N, G)
  <2> HIDE DEF G
  <2> QED
    BY <1>2, <1>4, Recursion, Zenon
<1>6. \A n \in 0..N: f[n] = IF n = 0 THEN first ELSE W(f[n - 1])
  <2>1. \A n \in 1..N: f[n - 1] \in S
    BY <1>5 DEF Recursive
  <2>2. \A n \in 1..N: G[n][f[n - 1]] = W(f[n - 1])
    BY <2>1
  <2> HIDE DEF G
  <2> QED
    BY <1>5, <2>2 DEF Recursive
<1>7. f = [n \in 0..N |-> f[n]]
  BY <1>5 DEF Recursive
<1>8. f = [n \in 0..N |-> IF n = 0 THEN first ELSE W(f[n - 1])]
  BY <1>6, <1>7, Zenon
<1>9. ball = [n \in 0..N |-> IF n = 0 THEN first ELSE W(ball[n - 1])]
  BY <1>8, Zenon
<1> HIDE DEF ball, G
<1>10. /\ ball = [n \in 0..N |-> ball[n]]
       /\ \A n \in 0..N: ball[n] = IF n = 0 THEN first ELSE W(ball[n - 1])
  BY <1>9, Zenon
<1>11. \A n \in 0..N: ball[n] \in S
  <2> DEFINE T == {n \in 0..N: ball[n] \in S}
  <2>1. 0 \in T
    BY <1>2, <1>10
  <2>2. ASSUME NEW n \in 1..N, n - 1 \in T PROVE n \in T
    <3>1. n \in 0..N /\ n # 0 /\ ball[n - 1] \in S
      BY <2>2
    <3>2. ball[n] = W(ball[n - 1])
      BY <1>10, <3>1
    <3> QED
      BY <1>1, <3>1, <3>2
  <2>3. 0..N \subseteq T
    <3> HIDE DEF T
    <3> QED
      BY <2>1, <2>2, Induction
  <2> QED
    BY <2>3
<1>12. ball \in [0..N -> S]
  BY <1>10, <1>11
<1>13. ball[0] = first /\ \A n \in 1..N: ball[n] = W(ball[n - 1])
  <2>1. 0 \in 0..N /\ \A n \in 1..N: n \in 0..N /\ n # 0
    OBVIOUS
  <2> QED
    BY <1>10, <2>1
<1> QED
  BY <1>3, <1>12, <1>13 DEF Balls, S, W, first

\* A ball does not depend on how many greater ones are built with it.
LEMMA BallsAgree ==
    ASSUME NEW Char, NEW s, NEW N \in Nat, NEW M \in Nat, N <= M,
           NEW f, Balls(f, s, Char, N), NEW g, Balls(g, s, Char, M)
    PROVE  \A n \in 0..N: f[n] = g[n]
<1> DEFINE T == {n \in 0..N: f[n] = g[n]}
<1>1. 0 \in T
  BY DEF Balls
<1>2. ASSUME NEW n \in 1..N, n - 1 \in T PROVE n \in T
  <2>1. n \in 0..N /\ n \in 1..M /\ f[n - 1] = g[n - 1]
    BY <1>2
  <2>2. f[n] = Wider(f[n - 1], Char) /\ g[n] = Wider(g[n - 1], Char)
    BY <2>1 DEF Balls
  <2> QED
    BY <2>1, <2>2
<1>3. 0..N \subseteq T
  <2> HIDE DEF T
  <2> QED
    BY <1>1, <1>2, Induction
<1> QED
  BY <1>3

\* EditBall, one edit at a time.
LEMMA EditBalls ==
    ASSUME NEW Char, NEW s \in Seq(Char), NEW k \in Nat
    PROVE  /\ EditBall(s, Char, 0) = {s}
           /\ EditBall(s, Char, k) \subseteq Seq(Char)
           /\ EditBall(s, Char, k + 1) = Wider(EditBall(s, Char, k), Char)
<1>1. PICK z: Balls(z, s, Char, 0) /\ EditBall(s, Char, 0) = z[0]
  BY BallsExist
<1>2. PICK f: Balls(f, s, Char, k) /\ EditBall(s, Char, k) = f[k]
  BY BallsExist
<1>3. PICK g: Balls(g, s, Char, k + 1) /\ EditBall(s, Char, k + 1) = g[k + 1]
  <2>1. k + 1 \in Nat
    OBVIOUS
  <2> QED
    BY <2>1, BallsExist
<1>4. EditBall(s, Char, 0) = {s}
  BY <1>1 DEF Balls
<1>5. EditBall(s, Char, k) \subseteq Seq(Char)
  <2>1. k \in 0..k
    OBVIOUS
  <2> QED
    BY <1>2, <2>1 DEF Balls
<1>6. f[k] = g[k]
  <2>1. k + 1 \in Nat /\ k <= k + 1 /\ k \in 0..k
    OBVIOUS
  <2> QED
    BY <1>2, <1>3, <2>1, BallsAgree
<1>7. g[k + 1] = Wider(g[k], Char)
  <2>1. k + 1 \in 1..(k + 1) /\ k + 1 - 1 = k
    OBVIOUS
  <2> QED
    BY <1>3, <2>1 DEF Balls
<1> QED
  BY <1>2, <1>3, <1>4, <1>5, <1>6, <1>7

-----------------------------------------------------------------------------
(* The edit distance *)

\* A copy is at distance zero.
LEMMA SelfDistance ==
    ASSUME NEW Char, NEW a \in Seq(Char)
    PROVE  Levenshtein(a, a) = 0
BY LevenshteinTable, Diagonal

\* A distance is a natural number.
LEMMA DistanceType ==
    ASSUME NEW Char, NEW a \in Seq(Char), NEW b \in Seq(Char)
    PROVE  Levenshtein(a, b) \in Nat
<1>1. PICK d: Table(d, a, b) /\ Levenshtein(a, b) = d[Len(a)][Len(b)]
  BY LevenshteinTable
<1>2. Len(a) \in 0..Len(a) /\ Len(b) \in 0..Len(b)
  OBVIOUS
<1> QED
  BY <1>1, <1>2, Cell

\* So many edits cannot make a distance greater than that.
LEMMA DistanceIsLower ==
    ASSUME NEW Char, NEW a \in Seq(Char), NEW k \in Nat
    PROVE  \A b \in EditBall(a, Char, k): Levenshtein(a, b) <= k
<1> DEFINE Near(n) == \A b \in EditBall(a, Char, n): Levenshtein(a, b) <= n
           T == {n \in 0..k: Near(n)}
<1>1. 0 \in T
  <2>1. EditBall(a, Char, 0) = {a} /\ Levenshtein(a, a) = 0
    BY EditBalls, SelfDistance
  <2> QED
    BY <2>1
<1>2. ASSUME NEW n \in 1..k, n - 1 \in T PROVE n \in T
  <2>1. n - 1 \in Nat /\ n - 1 + 1 = n /\ n \in 0..k /\ n \in Nat
    OBVIOUS
  <2> DEFINE inner == EditBall(a, Char, n - 1)
  <2>2. inner \subseteq Seq(Char) /\ EditBall(a, Char, n) = Wider(inner, Char)
    <3>1. EditBall(a, Char, n - 1 + 1) = Wider(inner, Char)
      BY <2>1, EditBalls
    <3> QED
      BY <2>1, <3>1, EditBalls
  <2>3. \A t \in inner: Levenshtein(a, t) <= n - 1
    BY <1>2
  <2> HIDE DEF inner
  <2>4. ASSUME NEW b \in EditBall(a, Char, n) PROVE Levenshtein(a, b) <= n
    <3>1. CASE b \in inner
      <4>1. Levenshtein(a, b) \in Nat /\ Levenshtein(a, b) <= n - 1
        BY <2>2, <2>3, <3>1, DistanceType
      <4> QED
        BY <2>1, <4>1
    <3>2. ASSUME NEW t \in inner, b \in Edits(t, Char) PROVE Levenshtein(a, b) <= n
      <4>1. t \in Seq(Char) /\ b \in Seq(Char) /\ Levenshtein(a, t) <= n - 1
        BY <2>2, <2>3, <3>2, EditedType
      <4>2. PICK d: Table(d, a, t) /\ Levenshtein(a, t) = d[Len(a)][Len(t)]
        BY <4>1, LevenshteinTable
      <4>3. PICK e: Table(e, a, b) /\ Levenshtein(a, b) = e[Len(a)][Len(b)]
        BY <4>1, LevenshteinTable
      <4>4. Levenshtein(a, b) <= Levenshtein(a, t) + 1
        BY <3>2, <4>1, <4>2, <4>3, EditStep
      <4>5. Levenshtein(a, b) \in Nat /\ Levenshtein(a, t) \in Nat
        BY <4>1, DistanceType
      <4> QED
        BY <2>1, <4>1, <4>4, <4>5
    <3> QED
      BY <2>2, <3>1, <3>2 DEF Wider
  <2> QED
    BY <2>1, <2>4
<1>3. 0..k \subseteq T
  <2> HIDE DEF T
  <2> QED
    BY <1>1, <1>2, Induction
<1> QED
  BY <1>3

\* The first j characters of b and what follows the first i of a: the edits
\* that the table counts turn a into it.
Mixed(a, b, i, j) == SubSeq(b, 1, j) \o SubSeq(a, i + 1, Len(a))

Mixes(s, Char, a, b, i, j) ==
    /\ s \in Seq(Char) /\ Len(s) = j + (Len(a) - i)
    /\ \A k \in 1..j: s[k] = b[k]
    /\ \A k \in (j + 1)..(j + (Len(a) - i)): s[k] = a[k - j + i]

\* What Mixed is, element by element.
LEMMA MixedIs ==
    ASSUME NEW Char, NEW a \in Seq(Char), NEW b \in Seq(Char),
           NEW i \in 0..Len(a), NEW j \in 0..Len(b)
    PROVE  Mixes(Mixed(a, b, i, j), Char, a, b, i, j)
<1> DEFINE n == Len(a)
           m == Len(b)
           l == SubSeq(b, 1, j)
           r == SubSeq(a, i + 1, n)
           u == l \o r
<1>1. n \in Nat /\ m \in Nat /\ i \in 0..n /\ j \in 0..m
  OBVIOUS
<1>2. (\A k \in 1..n: a[k] \in Char) /\ (\A k \in 1..m: b[k] \in Char)
  BY ElementOfSeq
<1>3. l \in Seq(Char) /\ Len(l) = j /\ \A k \in 1..j: l[k] = b[k]
  <2>1. \A k \in 1..j: b[k] \in Char
    BY <1>1, <1>2
  <2>2. /\ l \in Seq(Char) /\ Len(l) = IF 1 <= j THEN j - 1 + 1 ELSE 0
        /\ \A k \in 1..(j - 1 + 1): l[k] = b[1 + k - 1]
    BY <1>1, <2>1, SubSeqProperties
  <2> HIDE DEF l, m
  <2> QED
    BY <1>1, <2>2
<1>4. r \in Seq(Char) /\ Len(r) = n - i /\ \A k \in 1..(n - i): r[k] = a[k + i]
  <2>1. \A k \in (i + 1)..n: a[k] \in Char
    BY <1>1, <1>2
  <2>2. /\ r \in Seq(Char) /\ Len(r) = IF i + 1 <= n THEN n - (i + 1) + 1 ELSE 0
        /\ \A k \in 1..(n - (i + 1) + 1): r[k] = a[i + 1 + k - 1]
    <3>1. i + 1 \in Int /\ n \in Int
      BY <1>1
    <3> HIDE DEF n
    <3> QED
      BY <2>1, <3>1, SubSeqProperties DEF r
  <2> HIDE DEF r, n
  <2>3. \A k \in 1..(n - i): k \in 1..(n - (i + 1) + 1) /\ i + 1 + k - 1 = k + i
    BY <1>1
  <2>4. Len(r) = n - i
    BY <1>1, <2>2
  <2> QED
    BY <2>2, <2>3, <2>4
<1>5. u = Mixed(a, b, i, j)
  BY DEF Mixed
<1> HIDE DEF l, r, n, m
<1>6. /\ u \in Seq(Char) /\ Len(u) = j + (n - i)
      /\ \A k \in 1..(j + (n - i)): u[k] = IF k <= j THEN l[k] ELSE r[k - j]
  <2>1. /\ l \o r \in Seq(Char) /\ Len(l \o r) = Len(l) + Len(r)
        /\ \A k \in 1..(Len(l) + Len(r)):
             (l \o r)[k] = IF k <= Len(l) THEN l[k] ELSE r[k - Len(l)]
    BY <1>3, <1>4, ConcatProperties
  <2> QED
    BY <1>3, <1>4, <2>1
<1> HIDE DEF u
<1>7. \A k \in 1..j: u[k] = b[k]
  <2>1. \A k \in 1..j: k \in 1..(j + (n - i)) /\ k <= j
    BY <1>1 DEF n
  <2> QED
    BY <1>3, <1>6, <2>1
<1>8. \A k \in (j + 1)..(j + (n - i)): u[k] = a[k - j + i]
  <2>1. \A k \in (j + 1)..(j + (n - i)):
          k \in 1..(j + (n - i)) /\ ~(k <= j) /\ k - j \in 1..(n - i)
    BY <1>1
  <2> QED
    BY <1>4, <1>6, <2>1
<1> QED
  BY <1>5, <1>6, <1>7, <1>8 DEF n, Mixes

\* A step in the table is one edit of the mixed sequence, or none.
LEMMA MixedEdits ==
    ASSUME NEW Char, NEW a \in Seq(Char), NEW b \in Seq(Char),
           NEW i \in 0..Len(a), NEW j \in 0..Len(b)
    PROVE  /\ j > 0 => Mixed(a, b, i, j) \in Edits(Mixed(a, b, i, j - 1), Char)
           /\ i > 0 => Mixed(a, b, i, j) \in Edits(Mixed(a, b, i - 1, j), Char)
           /\ i > 0 /\ j > 0 =>
                \/ Mixed(a, b, i, j) \in Edits(Mixed(a, b, i - 1, j - 1), Char)
                   /\ Cost(a[i], b[j]) = 1
                \/ Mixed(a, b, i, j) = Mixed(a, b, i - 1, j - 1) /\ Cost(a[i], b[j]) = 0
<1> DEFINE n == Len(a)
           m == Len(b)
           u == Mixed(a, b, i, j)
<1>1. n \in Nat /\ m \in Nat /\ i \in 0..n /\ j \in 0..m
  OBVIOUS
<1>2. /\ u \in Seq(Char) /\ Len(u) = j + (n - i)
      /\ \A k \in 1..j: u[k] = b[k]
      /\ \A k \in (j + 1)..(j + (n - i)): u[k] = a[k - j + i]
  <2> HIDE DEF u
  <2>1. Mixes(u, Char, a, b, i, j)
    BY MixedIs DEF u
  <2> QED
    BY <2>1 DEF Mixes
<1> HIDE DEF u
<1>3. ASSUME j > 0 PROVE u \in Edits(Mixed(a, b, i, j - 1), Char)
  <2> DEFINE s == Mixed(a, b, i, j - 1)
             v == InsertAt(s, j, b[j])
  <2>1. j - 1 \in 0..m /\ j \in 1..m /\ j - 1 + 1 = j
    BY <1>1, <1>3
  <2>2. /\ s \in Seq(Char) /\ Len(s) = j - 1 + (n - i)
        /\ \A k \in 1..(j - 1): s[k] = b[k]
        /\ \A k \in (j - 1 + 1)..(j - 1 + (n - i)): s[k] = a[k - (j - 1) + i]
    <3> HIDE DEF s
    <3>1. Mixes(s, Char, a, b, i, j - 1)
      BY <2>1, MixedIs DEF s
    <3> QED
      BY <3>1 DEF Mixes
  <2> HIDE DEF s
  <2>3. b[j] \in Char /\ j \in 1..(Len(s) + 1)
    BY <1>1, <2>1, <2>2, ElementOfSeq
  <2>4. /\ v \in Seq(Char) /\ Len(v) = Len(s) + 1
        /\ \A k \in 1..(j - 1): v[k] = s[k]
        /\ v[j] = b[j]
        /\ \A k \in j..Len(s): v[k + 1] = s[k]
    <3> DEFINE x == b[j]
    <3>1. x \in Char
      BY <2>3
    <3> HIDE DEF x
    <3>2. LET w == InsertAt(s, j, x)
          IN  /\ w \in Seq(Char) /\ Len(w) = Len(s) + 1
              /\ \A k \in 1..(j - 1): w[k] = s[k]
              /\ w[j] = x
              /\ \A k \in j..Len(s): w[k + 1] = s[k]
      <4>1. s \in Seq(Char)
        BY <2>2
      <4> QED
        BY <2>3, <3>1, <4>1, Inserted
    <3> QED
      BY <3>2, Zenon DEF x
  <2>5. v \in Edits(s, Char)
    BY <2>3 DEF Edits
  <2> HIDE DEF v, n, m
  <2>6. ASSUME NEW k \in 1..Len(u) PROVE u[k] = v[k]
    <3>1. CASE k < j
      BY <1>2, <2>2, <2>4, <3>1
    <3>2. CASE k = j
      BY <1>2, <2>1, <2>4, <3>2
    <3>3. CASE k > j
      <4>1. /\ k - 1 \in j..Len(s) /\ k - 1 + 1 = k /\ k \in (j + 1)..(j + (n - i))
            /\ k - 1 \in (j - 1 + 1)..(j - 1 + (n - i)) /\ k - 1 - (j - 1) + i = k - j + i
        <5>1. Len(u) = j + (n - i) /\ Len(s) = j - 1 + (n - i)
          BY <1>2, <2>2
        <5> QED
          BY <1>1, <2>1, <3>3, <5>1
      <4>2. v[k] = s[k - 1] /\ s[k - 1] = a[k - j + i] /\ u[k] = a[k - j + i]
        BY <1>2, <2>2, <2>4, <4>1
      <4> QED
        BY <4>2
    <3> QED
      BY <1>2, <3>1, <3>2, <3>3
  <2>7. Len(u) = Len(v)
    <3>1. j - 1 + (n - i) + 1 = j + (n - i)
      BY <1>1, <2>1
    <3>2. Len(u) = j + (n - i) /\ Len(s) = j - 1 + (n - i) /\ Len(v) = Len(s) + 1
      BY <1>2, <2>2, <2>4
    <3> QED
      BY <3>1, <3>2
  <2>8. u = v
    BY <1>2, <2>4, <2>6, <2>7, SeqEqual
  <2> QED
    BY <2>5, <2>8 DEF s
<1>4. ASSUME i > 0 PROVE u \in Edits(Mixed(a, b, i - 1, j), Char)
  <2> DEFINE s == Mixed(a, b, i - 1, j)
             p == j + 1
             v == RemoveAt(s, p)
  <2>1. i - 1 \in 0..n /\ p \in Nat /\ n - (i - 1) \in 1..n
    BY <1>1, <1>4
  <2>2. /\ s \in Seq(Char) /\ Len(s) = j + (n - (i - 1))
        /\ \A k \in 1..j: s[k] = b[k]
        /\ \A k \in (j + 1)..(j + (n - (i - 1))): s[k] = a[k - j + (i - 1)]
    <3> HIDE DEF s
    <3>1. Mixes(s, Char, a, b, i - 1, j)
      BY <2>1, MixedIs DEF s
    <3> QED
      BY <3>1 DEF Mixes
  <2> HIDE DEF s
  <2>3. p \in 1..Len(s)
    BY <1>1, <2>1, <2>2
  <2>4. /\ v \in Seq(Char) /\ Len(v) = Len(s) - 1
        /\ \A k \in 1..(p - 1): v[k] = s[k]
        /\ \A k \in (p + 1)..Len(s): v[k - 1] = s[k]
    <3> HIDE DEF p
    <3> QED
      BY <2>2, <2>3, Removed
  <2>5. v \in Edits(s, Char)
    <3>1. DOMAIN s = 1..Len(s)
      BY <2>2, LenProperties
    <3> HIDE DEF p
    <3> QED
      BY <2>3, <3>1 DEF Edits
  <2> HIDE DEF v, n, m
  <2>6. ASSUME NEW k \in 1..Len(u) PROVE u[k] = v[k]
    <3>1. CASE k <= j
      <4>1. k \in 1..j /\ k \in 1..(p - 1)
        BY <1>2, <3>1
      <4> QED
        BY <1>2, <2>2, <2>4, <4>1
    <3>2. CASE k > j
      <4>1. /\ k + 1 \in (p + 1)..Len(s) /\ k + 1 - 1 = k /\ k \in (j + 1)..(j + (n - i))
            /\ k + 1 \in (j + 1)..(j + (n - (i - 1))) /\ k + 1 - j + (i - 1) = k - j + i
        BY <1>1, <1>2, <2>1, <2>2, <3>2
      <4>2. v[k] = s[k + 1] /\ s[k + 1] = a[k - j + i] /\ u[k] = a[k - j + i]
        <5> HIDE DEF p
        <5> QED
          BY <1>2, <2>2, <2>4, <4>1
      <4> QED
        BY <4>2
    <3> QED
      BY <1>2, <3>1, <3>2
  <2>7. Len(u) = Len(v)
    <3>1. j + (n - i) = j + (n - (i - 1)) - 1
      BY <1>1, <2>1
    <3>2. Len(u) = j + (n - i) /\ Len(s) = j + (n - (i - 1)) /\ Len(v) = Len(s) - 1
      BY <1>2, <2>2, <2>4
    <3> QED
      BY <1>1, <3>1, <3>2
  <2>8. u = v
    BY <1>2, <2>4, <2>6, <2>7, SeqEqual
  <2> QED
    BY <2>5, <2>8 DEF s
<1>5. ASSUME i > 0, j > 0
      PROVE  \/ u \in Edits(Mixed(a, b, i - 1, j - 1), Char) /\ Cost(a[i], b[j]) = 1
             \/ u = Mixed(a, b, i - 1, j - 1) /\ Cost(a[i], b[j]) = 0
  <2> DEFINE s == Mixed(a, b, i - 1, j - 1)
             v == ReplaceAt(s, j, b[j])
  <2>1. /\ i - 1 \in 0..n /\ j - 1 \in 0..m /\ j \in 1..m /\ j - 1 + 1 = j
        /\ j - 1 + (n - (i - 1)) = j + (n - i) /\ n - i \in Nat
    BY <1>1, <1>5
  <2>2. /\ s \in Seq(Char) /\ Len(s) = j + (n - i)
        /\ \A k \in 1..(j - 1): s[k] = b[k]
        /\ \A k \in j..(j + (n - i)): s[k] = a[k - (j - 1) + (i - 1)]
    <3> HIDE DEF s
    <3>1. Mixes(s, Char, a, b, i - 1, j - 1)
      BY <2>1, MixedIs DEF s
    <3>2. /\ s \in Seq(Char) /\ Len(s) = j - 1 + (n - (i - 1))
          /\ \A k \in 1..(j - 1): s[k] = b[k]
          /\ \A k \in (j - 1 + 1)..(j - 1 + (n - (i - 1))): s[k] = a[k - (j - 1) + (i - 1)]
      BY <3>1 DEF Mixes
    <3> QED
      BY <2>1, <3>2
  <2> HIDE DEF s
  <2>3. b[j] \in Char /\ j \in 1..Len(s)
    BY <1>1, <2>1, <2>2, ElementOfSeq
  <2>4. /\ v \in Seq(Char) /\ Len(v) = Len(s)
        /\ \A k \in 1..Len(s): v[k] = IF k = j THEN b[j] ELSE s[k]
    <3> DEFINE x == b[j]
    <3>1. x \in Char
      BY <2>3
    <3> HIDE DEF x
    <3>2. LET w == ReplaceAt(s, j, x)
          IN  /\ w \in Seq(Char) /\ Len(w) = Len(s)
              /\ \A k \in 1..Len(s): w[k] = IF k = j THEN x ELSE s[k]
      <4>1. s \in Seq(Char)
        BY <2>2
      <4> QED
        BY <2>3, <3>1, <4>1, Replaced
    <3> QED
      BY <3>2, Zenon DEF x
  <2>5. v \in Edits(s, Char)
    <3>1. DOMAIN s = 1..Len(s)
      BY <2>2, LenProperties
    <3> QED
      BY <2>3, <3>1 DEF Edits
  <2> HIDE DEF v, n, m
  <2>6. \A k \in 1..Len(u): k # j => u[k] = s[k]
    <3> SUFFICES ASSUME NEW k \in 1..Len(u), k # j
                 PROVE  u[k] = s[k]
      OBVIOUS
    <3>1. CASE k < j
      BY <1>2, <2>2, <3>1
    <3>2. CASE k > j
      <4>1. /\ k \in (j + 1)..(j + (n - i)) /\ k \in j..(j + (n - i))
            /\ k - (j - 1) + (i - 1) = k - j + i
        BY <1>1, <1>2, <2>1, <3>2
      <4> QED
        BY <1>2, <2>2, <4>1
    <3> QED
      BY <1>2, <3>1, <3>2
  <2>7. u[j] = b[j] /\ s[j] = a[i]
    <3>1. j \in 1..j /\ j \in j..(j + (n - i)) /\ j - (j - 1) + (i - 1) = i
      BY <1>1, <2>1
    <3> QED
      BY <1>2, <2>2, <3>1
  <2>8. CASE a[i] = b[j]
    <3>1. u = s
      BY <1>2, <2>2, <2>6, <2>7, <2>8, SeqEqual
    <3> QED
      BY <2>8, <3>1 DEF Cost, s
  <2>9. CASE a[i] # b[j]
    <3>1. u = v
      BY <1>2, <2>2, <2>4, <2>6, <2>7, SeqEqual
    <3> QED
      BY <2>5, <2>9, <3>1 DEF Cost, s
  <2> QED
    BY <2>8, <2>9
<1> QED
  BY <1>3, <1>4, <1>5 DEF u

\* What the table counts are the edits that lead from a to b.
LEMMA DistanceIsUpper ==
    ASSUME NEW Char, NEW a \in Seq(Char), NEW b \in Seq(Char)
    PROVE  b \in EditBall(a, Char, Levenshtein(a, b))
<1> DEFINE n == Len(a)
           m == Len(b)
           mix(i, j) == Mixed(a, b, i, j)
           ball(k) == EditBall(a, Char, k)
<1>1. n \in Nat /\ m \in Nat /\ n \in 0..n /\ m \in 0..m
  OBVIOUS
<1>2. PICK d: Table(d, a, b) /\ Levenshtein(a, b) = d[n][m]
  BY LevenshteinTable
<1>3. \A k \in Nat: ball(k + 1) = Wider(ball(k), Char)
  BY EditBalls
<1>4. ASSUME NEW k \in Nat, NEW s \in ball(k), NEW t
      PROVE  t \in Edits(s, Char) => t \in ball(k + 1)
  BY <1>3 DEF Wider
<1> DEFINE T == [i \in 0..n |-> {j \in 0..m: mix(i, j) \in ball(d[i][j])}]
<1>5. ASSUME NEW i \in 0..n, NEW j \in 0..m,
             /\ i > 0 => j \in T[i - 1]
             /\ j > 0 => j - 1 \in T[i]
             /\ i > 0 /\ j > 0 => j - 1 \in T[i - 1]
      PROVE  j \in T[i]
  <2>1. i > 0 => i - 1 \in 0..n
    BY <1>1
  <2>2. /\ i > 0 => mix(i - 1, j) \in ball(d[i - 1][j])
        /\ j > 0 => mix(i, j - 1) \in ball(d[i][j - 1])
        /\ i > 0 /\ j > 0 => mix(i - 1, j - 1) \in ball(d[i - 1][j - 1])
    BY <1>5, <2>1
  <2>3. /\ j > 0 => mix(i, j) \in Edits(mix(i, j - 1), Char)
        /\ i > 0 => mix(i, j) \in Edits(mix(i - 1, j), Char)
        /\ i > 0 /\ j > 0 =>
             \/ mix(i, j) \in Edits(mix(i - 1, j - 1), Char) /\ Cost(a[i], b[j]) = 1
             \/ mix(i, j) = mix(i - 1, j - 1) /\ Cost(a[i], b[j]) = 0
    BY MixedEdits
  <2>4. mix(i, j) \in ball(d[i][j])
    <3>1. CASE i = 0 /\ j = 0 /\ d[i][j] = 0
      <4>1. mix(0, 0) = a
        <5>1. SubSeq(b, 1, 0) = <<>>
          BY SubSeqEmpty
        <5>2. SubSeq(a, 1, n) = a
          BY SubSeqFull
        <5> QED
          BY <5>1, <5>2, ConcatEmptySeq DEF Mixed
      <4>2. ball(0) = {a}
        BY EditBalls
      <4> QED
        BY <3>1, <4>1, <4>2
    <3>2. CASE i > 0 /\ d[i][j] = d[i - 1][j] + 1
      <4>1. d[i - 1][j] \in Nat
        BY <1>2, <3>2, Cell
      <4> HIDE DEF mix, ball
      <4> QED
        BY <1>4, <2>2, <2>3, <3>2, <4>1
    <3>3. CASE j > 0 /\ d[i][j] = d[i][j - 1] + 1
      <4>1. d[i][j - 1] \in Nat
        BY <1>2, <3>3, Cell
      <4> HIDE DEF mix, ball
      <4> QED
        BY <1>4, <2>2, <2>3, <3>3, <4>1
    <3>4. CASE i > 0 /\ j > 0 /\ d[i][j] = d[i - 1][j - 1] + Cost(a[i], b[j])
      <4>1. d[i - 1][j - 1] \in Nat
        BY <1>2, <3>4, Cell
      <4> DEFINE x == d[i][j]
                 y == d[i - 1][j - 1]
                 c == Cost(a[i], b[j])
      <4>2. y \in Nat /\ x = y + c /\ mix(i - 1, j - 1) \in ball(y)
        BY <2>2, <3>4, <4>1
      <4> HIDE DEF mix, ball, x, y, c
      <4>3. CASE mix(i, j) \in Edits(mix(i - 1, j - 1), Char) /\ c = 1
        <5>1. mix(i, j) \in ball(x)
          BY <1>4, <4>2, <4>3
        <5> QED
          BY <5>1 DEF x
      <4>4. CASE mix(i, j) = mix(i - 1, j - 1) /\ c = 0
        <5>1. x = y
          BY <4>2, <4>4
        <5> QED
          BY <4>2, <4>4, <5>1 DEF x
      <4> QED
        BY <2>3, <3>4, <4>3, <4>4 DEF c
    <3> QED
      BY <1>2, <3>1, <3>2, <3>3, <3>4, Cell
  <2> HIDE DEF mix, ball
  <2> QED
    BY <2>4
<1>6. \A i \in 0..n, j \in 0..m: j \in T[i]
  <2> HIDE DEF T, n, m
  <2> QED
    BY <1>1, <1>5, GridInduction
<1>7. mix(n, m) \in ball(d[n][m])
  <2> HIDE DEF mix, ball
  <2> QED
    BY <1>1, <1>6
<1>8. mix(n, m) = b
  <2>1. SubSeq(b, 1, m) = b
    BY SubSeqFull
  <2>2. SubSeq(a, n + 1, n) = <<>>
    BY SubSeqEmpty
  <2> QED
    BY <2>1, <2>2, ConcatEmptySeq DEF Mixed
<1> QED
  BY <1>2, <1>7, <1>8

\* For signatures of any length over any characters, the two rows that
\* levenshtein swaps end in the least number of insertions, deletions and
\* replacements of one character that turn one signature into the other.
THEOREM DistanceIsLeast ==
    \A Char: \A a, b \in Seq(Char): IsLevenshtein(a, b, Char)
<1> SUFFICES ASSUME NEW Char, NEW a \in Seq(Char), NEW b \in Seq(Char)
             PROVE  IsLevenshtein(a, b, Char)
  OBVIOUS
<1> DEFINE d == Levenshtein(a, b)
<1>1. d \in Nat
  BY DistanceType
<1>2. b \in EditBall(a, Char, d)
  BY DistanceIsUpper
<1>3. ASSUME d > 0, b \in EditBall(a, Char, d - 1) PROVE FALSE
  <2>1. d - 1 \in Nat
    BY <1>1, <1>3
  <2>2. d <= d - 1
    BY <1>3, <2>1, DistanceIsLower
  <2> QED
    BY <1>1, <2>2
<1> QED
  BY <1>2, <1>3 DEF IsLevenshtein

\* The table of b and a is the one of a and b, columns for rows.
LEMMA Transposed ==
    ASSUME NEW Char, NEW a \in Seq(Char), NEW b \in Seq(Char),
           NEW d, Table(d, a, b), NEW e, Table(e, b, a)
    PROVE  \A i \in 0..Len(a), j \in 0..Len(b): e[j][i] <= d[i][j]
<1> DEFINE n == Len(a)
           m == Len(b)
           T == [i \in 0..n |-> {j \in 0..m: e[j][i] <= d[i][j]}]
<1>1. n \in Nat /\ m \in Nat
  OBVIOUS
<1>2. ASSUME NEW i \in 0..n, NEW j \in 0..m,
             i > 0 => e[j][i - 1] <= d[i - 1][j],
             j > 0 => e[j - 1][i] <= d[i][j - 1],
             i > 0 /\ j > 0 => e[j - 1][i - 1] <= d[i - 1][j - 1]
      PROVE  e[j][i] <= d[i][j]
  <2> DEFINE x == d[i][j]
             xl == d[i][j - 1]
             xu == d[i - 1][j]
             xd == d[i - 1][j - 1]
             y == e[j][i]
             yl == e[j - 1][i]
             yu == e[j][i - 1]
             yd == e[j - 1][i - 1]
             w == Cost(a[i], b[j])
  <2>1. w \in Nat /\ Cost(b[j], a[i]) = w
    BY DEF Cost
  <2>2. /\ x \in Nat
        /\ i > 0 => xu \in Nat
        /\ j > 0 => xl \in Nat
        /\ i > 0 /\ j > 0 => xd \in Nat
        /\ \/ i = 0 /\ j = 0 /\ x = 0
           \/ i > 0 /\ x = xu + 1
           \/ j > 0 /\ x = xl + 1
           \/ i > 0 /\ j > 0 /\ x = xd + w
    BY Cell
  <2>3. /\ y \in Nat
        /\ i > 0 => yu \in Nat /\ y <= yu + 1
        /\ j > 0 => yl \in Nat /\ y <= yl + 1
        /\ i > 0 /\ j > 0 => yd \in Nat /\ y <= yd + w
    <3>1. /\ y \in Nat
          /\ i > 0 => yu \in Nat /\ y <= yu + 1
          /\ j > 0 => yl \in Nat /\ y <= yl + 1
          /\ i > 0 /\ j > 0 => yd \in Nat /\ y <= yd + Cost(b[j], a[i])
      BY Cell
    <3> HIDE DEF y, yl, yu, yd, w
    <3> QED
      BY <2>1, <3>1
  <2>4. i = 0 /\ j = 0 => y = 0
    BY <1>1 DEF Table
  <2>5. /\ i > 0 => yu <= xu
        /\ j > 0 => yl <= xl
        /\ i > 0 /\ j > 0 => yd <= xd
    BY <1>2
  <2> HIDE DEF x, xl, xu, xd, y, yl, yu, yd, w
  <2>6. CASE i = 0 /\ j = 0 /\ x = 0
    BY <2>4, <2>6 DEF x, y
  <2>7. CASE i > 0 /\ x = xu + 1
    <3>1. y <= x
      BY <2>2, <2>3, <2>5, <2>7
    <3> QED
      BY <3>1 DEF x, y
  <2>8. CASE j > 0 /\ x = xl + 1
    <3>1. y <= x
      BY <2>2, <2>3, <2>5, <2>8
    <3> QED
      BY <3>1 DEF x, y
  <2>9. CASE i > 0 /\ j > 0 /\ x = xd + w
    <3>1. yd \in Nat /\ y <= yd + w /\ yd <= xd
      BY ONLY <2>3, <2>5, <2>9
    <3>2. x \in Nat /\ xd \in Nat /\ y \in Nat /\ x = xd + w
      BY ONLY <2>2, <2>3, <2>9
    <3>3. y <= x
      BY ONLY <2>1, <3>1, <3>2
    <3> QED
      BY <3>3 DEF x, y
  <2>10. \/ i = 0 /\ j = 0 /\ x = 0
         \/ i > 0 /\ x = xu + 1
         \/ j > 0 /\ x = xl + 1
         \/ i > 0 /\ j > 0 /\ x = xd + w
    BY ONLY <2>2
  <2> QED
    BY ONLY <2>6, <2>7, <2>8, <2>9, <2>10
<1>3. \A i \in 0..n, j \in 0..m: j \in T[i]
  <2>1. ASSUME NEW i \in 0..n, NEW j \in 0..m,
               /\ i > 0 => j \in T[i - 1]
               /\ j > 0 => j - 1 \in T[i]
               /\ i > 0 /\ j > 0 => j - 1 \in T[i - 1]
        PROVE  j \in T[i]
    <3>1. i > 0 => i - 1 \in 0..n
      BY <1>1
    <3>2. /\ i > 0 => e[j][i - 1] <= d[i - 1][j]
          /\ j > 0 => e[j - 1][i] <= d[i][j - 1]
          /\ i > 0 /\ j > 0 => e[j - 1][i - 1] <= d[i - 1][j - 1]
      BY <2>1, <3>1
    <3>3. e[j][i] <= d[i][j]
      BY <1>2, <3>2
    <3> QED
      BY <3>3
  <2> HIDE DEF T, n, m
  <2> QED
    BY <1>1, <2>1, GridInduction
<1> QED
  BY <1>1, <1>3

\* The distance is the same in both directions.
LEMMA DistanceSymmetric ==
    ASSUME NEW Char, NEW a \in Seq(Char), NEW b \in Seq(Char)
    PROVE  Levenshtein(a, b) = Levenshtein(b, a)
<1>1. PICK d: Table(d, a, b) /\ Levenshtein(a, b) = d[Len(a)][Len(b)]
  BY LevenshteinTable
<1>2. PICK e: Table(e, b, a) /\ Levenshtein(b, a) = e[Len(b)][Len(a)]
  BY LevenshteinTable
<1>3. Len(a) \in 0..Len(a) /\ Len(b) \in 0..Len(b)
  OBVIOUS
<1>4. Levenshtein(b, a) <= Levenshtein(a, b)
  BY <1>1, <1>2, <1>3, Transposed
<1>5. Levenshtein(a, b) <= Levenshtein(b, a)
  BY <1>1, <1>2, <1>3, Transposed
<1>6. Levenshtein(a, b) \in Nat /\ Levenshtein(b, a) \in Nat
  BY DistanceType
<1> QED
  BY <1>4, <1>5, <1>6

\* The greater of two numbers.
LEMMA MaxOfTwo ==
    ASSUME NEW x \in Nat, NEW y \in Nat
    PROVE  Max({x, y}) = IF x < y THEN y ELSE x
<1>1. \E w \in {x, y}: \A v \in {x, y}: w >= v
  <2>1. CASE x < y
    BY <2>1
  <2>2. CASE ~(x < y)
    BY <2>2
  <2> QED
    BY <2>1, <2>2
<1>2. Max({x, y}) \in {x, y} /\ \A v \in {x, y}: Max({x, y}) >= v
  BY <1>1, Zenon DEF Max
<1> QED
  BY <1>2

\* compareSignatures exceeds a threshold exactly if some number of edits, small
\* enough for the longer signature, turns one signature into the other.
THEOREM SimilarIsFewEdits ==
    \A Char: \A a, b \in Seq(Char) \ {<<>>}, percent \in Nat:
      Within(a, b, percent)
        <=> \E k \in Nat: /\ 100 * k < percent * Max({Len(a), Len(b)})
                          /\ b \in EditBall(a, Char, k)
<1> SUFFICES ASSUME NEW Char, NEW a \in Seq(Char) \ {<<>>}, NEW b \in Seq(Char) \ {<<>>},
                    NEW percent \in Nat
             PROVE  Within(a, b, percent)
                      <=> \E k \in Nat: /\ 100 * k < percent * Max({Len(a), Len(b)})
                                        /\ b \in EditBall(a, Char, k)
  OBVIOUS
<1> DEFINE d == Levenshtein(a, b)
           room == percent * Max({Len(a), Len(b)})
<1>1. d \in Nat /\ b \in EditBall(a, Char, d)
  BY DistanceType, DistanceIsUpper
<1>2. \A k \in Nat: b \in EditBall(a, Char, k) => d <= k
  BY DistanceIsLower
<1>3. room \in Nat
  <2>1. Len(a) \in Nat /\ Len(b) \in Nat
    OBVIOUS
  <2>2. Max({Len(a), Len(b)}) \in Nat
    BY <2>1, MaxOfTwo
  <2> QED
    BY <2>2
<1>4. Within(a, b, percent) <=> 100 * d < room
  BY DEF Within
<1> HIDE DEF d, room
<1>5. 100 * d < room => \E k \in Nat: 100 * k < room /\ b \in EditBall(a, Char, k)
  BY <1>1
<1>6. (\E k \in Nat: 100 * k < room /\ b \in EditBall(a, Char, k)) => 100 * d < room
  BY <1>1, <1>2, <1>3
<1> QED
  BY <1>4, <1>5, <1>6 DEF room

\* compareSignatures does not mind which trajectory was met first, what is above
\* 0.92 is above 0.8, and a copy of a signature that is not empty is a replay.
THEOREM SimilaritySymmetric ==
    \A Char: \A a, b \in Seq(Char):
      /\ Replays(a, b) <=> Replays(b, a)
      /\ Resembles(a, b) <=> Resembles(b, a)
      /\ Replays(a, b) => Resembles(a, b)
      /\ a # <<>> => Replays(a, a)
<1> SUFFICES ASSUME NEW Char, NEW a \in Seq(Char), NEW b \in Seq(Char)
             PROVE  /\ Replays(a, b) <=> Replays(b, a)
                    /\ Resembles(a, b) <=> Resembles(b, a)
                    /\ Replays(a, b) => Resembles(a, b)
                    /\ a # <<>> => Replays(a, a)
  OBVIOUS
<1>1. \A p: Within(a, b, p) <=> Within(b, a, p)
  <2>1. Levenshtein(a, b) = Levenshtein(b, a)
    BY DistanceSymmetric
  <2>2. {Len(a), Len(b)} = {Len(b), Len(a)}
    OBVIOUS
  <2> QED
    BY <2>1, <2>2, Zenon DEF Within
<1>2. Within(a, b, 8) => Within(a, b, 20)
  <2> DEFINE longest == Max({Len(a), Len(b)})
  <2>1. longest \in Nat
    BY MaxOfTwo, LenProperties
  <2>2. Levenshtein(a, b) \in Nat
    BY DistanceType
  <2> HIDE DEF longest
  <2> QED
    BY <2>1, <2>2 DEF Within, longest
<1>3. a # <<>> => Within(a, a, 8)
  <2> SUFFICES ASSUME a # <<>> PROVE Within(a, a, 8)
    OBVIOUS
  <2>1. Levenshtein(a, a) = 0
    BY SelfDistance
  <2>2. Len(a) \in Nat \ {0}
    BY EmptySeq
  <2>3. Max({Len(a), Len(a)}) = Len(a)
    BY <2>2, MaxOfTwo
  <2> QED
    BY <2>1, <2>2, <2>3 DEF Within
<1> QED
  BY <1>1, <1>2, <1>3 DEF Replays, Resembles

\* However long a trajectory is, computeTrajectorySignature samples twenty of
\* its points, or all of them if there are no more.
THEOREM SampledPoints ==
    \A len \in Nat: Cardinality(Sampled(len)) = IF len < 20 THEN len ELSE 20
<1> SUFFICES ASSUME NEW len \in Nat
             PROVE  Cardinality(Sampled(len)) = IF len < 20 THEN len ELSE 20
  OBVIOUS
<1> DEFINE step == Max({len \div 20, 1})
           n == IF len < 20 THEN len ELSE 20
           f == [k \in 0..(n - 1) |-> k * step]
<1>1. step \in Nat /\ step >= 1 /\ (len < 40 => step = 1) /\ (len >= 20 => 20 * step <= len)
  <2> DEFINE q == len \div 20
  <2>1. q \in Nat /\ (len < 40 => q <= 1) /\ (len >= 20 => q >= 1) /\ 20 * q <= len
    OBVIOUS
  <2>2. Max({q, 1}) = IF q < 1 THEN 1 ELSE q
    <3> HIDE DEF q
    <3> QED
      BY <2>1, MaxOfTwo
  <2> HIDE DEF q
  <2> QED
    BY <2>1, <2>2 DEF q
<1>2. n \in Nat
  OBVIOUS
<1> HIDE DEF step
<1>3. ASSUME NEW k \in 0..(n - 1)
      PROVE  /\ k * step \in 0..(len - 1)
             /\ (k * step) % step = 0 /\ (k * step) \div step = k
  <2>1. k \in Nat /\ k < 20
    BY <1>2
  <2>2. (k * step) % step = 0 /\ (k * step) \div step = k /\ k * step \in Nat
    BY <1>1, <2>1, SMT
  <2>3. CASE len < 20
    BY <1>1, <2>3
  <2>4. CASE len >= 20
    <3>1. k * step <= 19 * step
      BY <1>1, <2>1, SMT
    <3> QED
      BY <1>1, <2>2, <2>4, <3>1
  <2> QED
    BY <2>2, <2>3, <2>4
<1>4. ASSUME NEW i \in Sampled(len)
      PROVE  i \div step \in 0..(n - 1) /\ (i \div step) * step = i
  <2>1. i \in 0..(len - 1) /\ i % step = 0 /\ i \div step < 20
    BY DEF Sampled, step
  <2>2. i \div step \in Nat /\ i = (i \div step) * step
    BY <1>1, <2>1, SMT
  <2>3. CASE len < 20
    <3>1. i \div step = i
      BY <1>1, <2>1, <2>2, <2>3
    <3> QED
      BY <2>1, <2>2, <2>3, <3>1
  <2>4. CASE len >= 20
    BY <2>1, <2>2, <2>4
  <2> QED
    BY <2>2, <2>3, <2>4
<1>5. f \in Bijection(0..(n - 1), Sampled(len))
  <2>1. \A k \in 0..(n - 1): f[k] \in Sampled(len)
    <3>1. \A k \in 0..(n - 1): (k * step) \div step < 20
      BY <1>3
    <3> HIDE DEF n
    <3> QED
      BY <1>3, <3>1 DEF Sampled, step
  <2>2. ASSUME NEW k \in 0..(n - 1), NEW l \in 0..(n - 1), f[k] = f[l]
        PROVE  k = l
    BY <1>3, <2>2
  <2>3. \A i \in Sampled(len): \E k \in 0..(n - 1): f[k] = i
    BY <1>4
  <2> HIDE DEF n
  <2>4. f \in [0..(n - 1) -> Sampled(len)]
    BY <2>1
  <2> HIDE DEF f
  <2> QED
    BY <2>2, <2>3, <2>4, Zenon DEF Bijection, Injection, Surjection, IsInjective
<1>6. IsFiniteSet(0..(n - 1)) /\ Cardinality(0..(n - 1)) = n
  <2> HIDE DEF n
  <2>1. /\ IsFiniteSet(0..(n - 1))
        /\ Cardinality(0..(n - 1)) = IF 0 > n - 1 THEN 0 ELSE n - 1 - 0 + 1
    BY <1>2, FS_Interval
  <2> QED
    BY <1>2, <2>1
<1>7. ExistsBijection(0..(n - 1), Sampled(len))
  BY <1>5, Zenon DEF ExistsBijection
<1> HIDE DEF n
<1>8. Cardinality(Sampled(len)) = n
  BY <1>6, <1>7, FS_Bijection
<1> QED
  BY <1>8 DEF n

\* The scorer gives the copy of a trajectory that has a signature the score of a
\* replay, and the same score whichever of two trajectories came first.
THEOREM CopyScoresAsReplay ==
    \A Char: Signature \in [Trajectory -> Seq(Char) \ {<<>>}]
      => \A s, t \in Trajectory: /\ ReplayScore[t][t] = 19
                                 /\ ReplayScore[t][s] = ReplayScore[s][t]
<1> SUFFICES ASSUME NEW Char, Signature \in [Trajectory -> Seq(Char) \ {<<>>}],
                    NEW s \in Trajectory, NEW t \in Trajectory
             PROVE  ReplayScore[t][t] = 19 /\ ReplayScore[t][s] = ReplayScore[s][t]
  BY Zenon
<1> DEFINE a == Signature[s]
           b == Signature[t]
<1>1. a \in Seq(Char) /\ b \in Seq(Char) /\ b # <<>>
  OBVIOUS
<1> HIDE DEF a, b
<1>2. /\ Replays(b, b)
      /\ Replays(a, b) <=> Replays(b, a)
      /\ Resembles(a, b) <=> Resembles(b, a)
  BY <1>1, SimilaritySymmetric
<1> QED
  BY <1>2 DEF ReplayScore, a, b

==============================================================================
