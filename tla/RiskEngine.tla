----------------------------- MODULE RiskEngine ------------------------------
(***************************************************************************)
(* The risk engine (engine.go) with its three scorers, and what the verify *)
(* handler reports back to the reputation: concurrent evaluations whose    *)
(* scorers run side by side, each Redis command a step of its own that may *)
(* fail, over the trajectories (replay.go) and counters (reputation.go)    *)
(* they share; the process may die between any two of them.                *)
(*                                                                         *)
(* Scores are counted in twentieths, the unit of all penalties.  A scorer  *)
(* never returns an error: what Redis cannot tell it counts for nothing.   *)
(***************************************************************************)
EXTENDS TrajectorySignature, FiniteSets

CONSTANTS
    Evaluation,   \* verify requests that reach the risk engine
    Ip, Fp,       \* addresses and fingerprints
    Trajectory,   \* trajectories of ten points and more
    Signature,    \* what computeTrajectorySignature makes of each
    Short,        \* a trajectory of fewer points, or none
    Habits,       \* what may be noticed of a request: sets of signs
    Overrides,    \* what the rules may ask for; "none" if nothing
    Counts,       \* what reading the reputation keys of a client may give
    Configured    \* whether the process was started with Redis

\* behavior.go: the penalty of each sign, in the order of the checks.
Penalty == [constant |-> 5, straight |-> 4, pauseless |-> 3, turnless |-> 3,
            smooth |-> 3, flat |-> 2, fast |-> 4, dense |-> 3, nodata |-> 6]

Sign == DOMAIN Penalty
Kinds == {"ip_fail", "ip_fps", "fp_ips", "fp_fail"}
Action == {"pass", "review", "escalate", "block"}

ASSUME EngineAssumption ==
    /\ Short \notin Trajectory
    /\ "nobody" \notin Evaluation
    /\ DOMAIN Signature = Trajectory
    /\ Habits \subseteq SUBSET Sign
    /\ Overrides \subseteq Action \cup {"none"}
    /\ Counts \subseteq [Kinds -> Nat]
    /\ Configured \in BOOLEAN

VARIABLES
    stored,   \* replay:<fp>: the trajectory kept, and whose it is
    keys,     \* each reputation key: absent, with an expiry ("mortal"), waiting
              \* for one, or left without one ("leaked") by an Expire that
              \* failed or that the process did not live to send
    at,       \* where each evaluation is
    request,  \* what each evaluation is about
    replay,   \* the replay scorer of each
    standing, \* the reputation scorer of each
    decision, \* the action that its score asks for
    todo,     \* the commands of RecordResult that are left
    known     \* history: undecided, and so far nothing kept their replay from
              \* being noticed

vars == <<stored, keys, at, request, replay, standing, decision, todo, known>>

Key == ({"ip_fail", "ip_fps"} \X Ip) \cup ({"fp_ips", "fp_fail"} \X Fp)

Nobody == [trajectory |-> Short, by |-> "nobody"]
NoRequest == [ip |-> "none", fp |-> "none", trajectory |-> Short, signs |-> {}]

Init ==
    /\ stored = [f \in Fp |-> Nobody]
    /\ keys = [k \in Key |-> "absent"]
    /\ at = [e \in Evaluation |-> "idle"]
    /\ request = [e \in Evaluation |-> NoRequest]
    /\ replay = [e \in Evaluation |-> [at |-> "idle", score |-> 0, by |-> "nobody"]]
    /\ standing = [e \in Evaluation |-> [at |-> "idle", score |-> 0]]
    /\ decision = [e \in Evaluation |-> "none"]
    /\ todo = [e \in Evaluation |-> <<>>]
    /\ known = {}

-----------------------------------------------------------------------------
(* The scorers *)

\* BehaviorScorer.Score
BehaviorScore(signs) ==
    IF "nodata" \in signs THEN Penalty["nodata"]
    ELSE LET p(s) == IF s \in signs THEN Penalty[s] ELSE 0
         IN  Min({20, p("constant") + p("straight") + p("pauseless") + p("turnless")
                      + p("smooth") + p("flat") + p("fast") + p("dense")})

\* ReputationScorer.Score
ReputationScore_Uncapped(n) ==
    (IF n["ip_fail"] > 10 THEN 6 ELSE IF n["ip_fail"] > 5 THEN 3 ELSE 0)
    + (IF n["ip_fps"] > 20 THEN 6 ELSE IF n["ip_fps"] > 10 THEN 3 ELSE 0)
    + (IF n["fp_ips"] > 15 THEN 5 ELSE IF n["fp_ips"] > 8 THEN 2 ELSE 0)
    + (IF n["fp_fail"] > 10 THEN 4 ELSE 0)

ReputationScore(n) ==
    Min({20, (IF n["ip_fail"] > 10 THEN 6 ELSE IF n["ip_fail"] > 5 THEN 3 ELSE 0)
           + (IF n["ip_fps"] > 20 THEN 6 ELSE IF n["ip_fps"] > 10 THEN 3 ELSE 0)
           + (IF n["fp_ips"] > 15 THEN 5 ELSE IF n["fp_ips"] > 8 THEN 2 ELSE 0)
           + (IF n["fp_fail"] > 10 THEN 4 ELSE 0)})

\* What s remembers of the fingerprint is a trajectory that q replays.
Remembers(s, q) ==
    /\ q.trajectory \in Trajectory /\ s[q.fp].trajectory \in Trajectory
    /\ Replays(Signature[q.trajectory], Signature[s[q.fp].trajectory])

\* Those whose scorer is still to read, and will meet their replay in s.
StillKnown(s) ==
    {e \in known: replay[e].at = "get" => Remembers(s, request[e])}

\* Evaluate starts a goroutine for each registered scorer.
Start(e) ==
    /\ at[e] = "idle"
    /\ at' = [at EXCEPT ![e] = "scoring"]
    /\ \E i \in Ip, f \in Fp, t \in Trajectory \cup {Short}, s \in Habits:
        /\ request' = [request EXCEPT ![e] =
                          [ip |-> i, fp |-> f, trajectory |-> t, signs |-> s]]
        /\ replay' = [replay EXCEPT ![e].at = IF Configured THEN "get" ELSE "done"]
        /\ standing' = [standing EXCEPT ![e].at = IF Configured THEN "get" ELSE "done"]
        /\ known' = IF Configured /\ Remembers(stored, request'[e])
                    THEN known \cup {e} ELSE known
    /\ UNCHANGED <<stored, keys, decision, todo>>

\* Too few points, or the circuit is open.
ReplaySkip(e) ==
    /\ replay[e].at = "get"
    /\ replay' = [replay EXCEPT ![e].at = "done"]
    /\ known' = known \ {e}
    /\ UNCHANGED <<stored, keys, at, request, standing, decision, todo>>

\* compareSignatures: the score of each trajectory when another one is stored.
ReplayScore ==
    [t \in Trajectory |-> [s \in Trajectory |->
        IF Replays(Signature[t], Signature[s]) THEN 19
        ELSE IF Resembles(Signature[t], Signature[s]) THEN 10 ELSE 0]]

ReplayGet_StoresFirst(e) ==
    /\ replay[e].at = "get" /\ request[e].trajectory # Short
    /\ stored' = [stored EXCEPT ![request[e].fp] =
                    [trajectory |-> request[e].trajectory, by |-> e]]
    /\ replay' = [replay EXCEPT ![e] = [at |-> "done", score |-> 19, by |-> e]]
    /\ UNCHANGED <<keys, at, request, standing, decision, todo, known>>

\* The stored trajectory of the fingerprint is read and compared; if there is
\* none, or a different one, this one is to be stored.
ReplayGet(e) ==
    LET t == request[e].trajectory
        s == stored[request[e].fp]
    IN  /\ replay[e].at = "get" /\ t # Short
        /\ \/ \E n \in {10, 19}:
                /\ s.trajectory \in Trajectory /\ ReplayScore[t][s.trajectory] = n
                /\ replay' = [replay EXCEPT ![e] =
                                [at |-> "done", score |-> n, by |-> s.by]]
           \/ /\ s.trajectory \in Trajectory => ReplayScore[t][s.trajectory] = 0
              /\ replay' = [replay EXCEPT ![e].at = "set"]
        /\ UNCHANGED <<stored, keys, at, request, standing, decision, todo, known>>

\* It cannot be read: this one replaces it unseen.
ReplayGetFails(e) ==
    /\ replay[e].at = "get" /\ request[e].trajectory # Short
    /\ replay' = [replay EXCEPT ![e].at = "set"]
    /\ known' = known \ {e}
    /\ UNCHANGED <<stored, keys, at, request, standing, decision, todo>>

\* Set, whose error is ignored.
ReplaySet(e) ==
    /\ replay[e].at = "set"
    /\ \/ stored' = [stored EXCEPT ![request[e].fp] =
                       [trajectory |-> request[e].trajectory, by |-> e]]
       \/ UNCHANGED stored
    /\ replay' = [replay EXCEPT ![e].at = "done"]
    /\ known' = StillKnown(stored')
    /\ UNCHANGED <<keys, at, request, standing, decision, todo>>

\* Four reads, in between which other requests may change what is read; one
\* that fails counts for nothing, like a key that is not there.
ReputationRead(e) ==
    /\ standing[e].at = "get"
    /\ \E n \in Counts:
        standing' = [standing EXCEPT ![e] = [at |-> "done", score |-> ReputationScore(n)]]
    /\ UNCHANGED <<stored, keys, at, request, replay, decision, todo, known>>

-----------------------------------------------------------------------------
(* The decision *)

\* wg.Wait
AllScored_First(e) == replay[e].at = "done" \/ standing[e].at = "done"

AllScored(e) == replay[e].at = "done" /\ standing[e].at = "done"

\* The weights 1.5, 2 and 1 of the registered scorers, doubled.
WeightedScore(b, r, p) ==
    IF Configured THEN <<3 * b + 4 * r + 2 * p, 180>> ELSE <<3 * b, 60>>

\* The thresholds 0.8, 0.6 and 0.4.
Asks(n, d) == CASE 10 * n >= 8 * d -> "block"
                [] 10 * n >= 6 * d /\ 10 * n < 8 * d -> "escalate"
                [] 10 * n >= 4 * d /\ 10 * n < 6 * d -> "review"
                [] OTHER -> "pass"

\* The commands of RecordResult.
Increments(q, passed) ==
    << <<"ip_fps", q.ip>>, <<"fp_ips", q.fp>> >>
    \o IF passed THEN <<>> ELSE << <<"ip_fail", q.ip>>, <<"fp_fail", q.fp>> >>

\* wg.Wait, the weighted mean, the thresholds (a sum of floats on a threshold
\* may fall on either side) and the rules; then the handler blocks, or spends
\* the nonce, which may be refused.
Decide(e) ==
    /\ at[e] = "scoring" /\ AllScored(e)
    /\ LET s == WeightedScore(BehaviorScore(request[e].signs), replay[e].score,
                              standing[e].score)
       IN  \E action \in {Asks(s[1], s[2]), Asks(s[1] - 1, s[2])}, o \in Overrides:
            /\ 10 * s[1] \notin {4 * s[2], 6 * s[2], 8 * s[2]}
                 => action = Asks(s[1], s[2])
            /\ decision' = [decision EXCEPT ![e] = action]
            /\ LET passed == (IF o = "none" THEN action ELSE o) # "block" IN
               \/ /\ at' = [at EXCEPT ![e] = "recording"]
                  /\ todo' = [todo EXCEPT ![e] =
                                IF Configured THEN Increments(request[e], passed)
                                              ELSE <<>>]
               \/ passed /\ at' = [at EXCEPT ![e] = "done"] /\ UNCHANGED todo
    /\ request' = [request EXCEPT ![e].signs = {}]
    /\ standing' = [standing EXCEPT ![e].score = 0]
    /\ known' = known \ {e}
    /\ UNCHANGED <<stored, keys, replay>>

-----------------------------------------------------------------------------
(* RecordResult *)

\* ZADD or INCR, and then the hour's expiry; errors are ignored.
Add(e) ==
    /\ at[e] = "recording" /\ todo[e] # <<>>
    /\ LET k == Head(todo[e])
       IN  \/ keys' = [keys EXCEPT ![k] = IF @ = "absent" THEN "waiting" ELSE @]
           \/ UNCHANGED keys
    /\ at' = [at EXCEPT ![e] = "expiring"]
    /\ UNCHANGED <<stored, request, replay, standing, decision, todo, known>>

Expire_OnceOnly(e) ==
    /\ at[e] = "expiring"
    /\ at' = [at EXCEPT ![e] = "recording"]
    /\ todo' = [todo EXCEPT ![e] = Tail(@)]
    /\ LET k == Head(todo[e])
       IN  IF Len(todo[e]) > 1 THEN UNCHANGED keys
           ELSE keys' = [keys EXCEPT ![k] = "mortal"]
    /\ UNCHANGED <<stored, request, replay, standing, decision, known>>

Expire(e) ==
    /\ at[e] = "expiring"
    /\ at' = [at EXCEPT ![e] = "recording"]
    /\ todo' = [todo EXCEPT ![e] = Tail(@)]
    /\ LET k == Head(todo[e])
       IN  \/ keys' = [keys EXCEPT ![k] = IF @ = "absent" THEN @ ELSE "mortal"]
           \/ keys' = [keys EXCEPT ![k] = IF @ = "waiting" THEN "leaked" ELSE @]
    /\ UNCHANGED <<stored, request, replay, standing, decision, known>>

\* The last command is done, or the circuit was open before the first.
Recorded(e) ==
    /\ at[e] = "recording"
    /\ todo[e] # <<>> => Head(todo[e])[1] = "ip_fps"
    /\ at' = [at EXCEPT ![e] = "done"]
    /\ todo' = [todo EXCEPT ![e] = <<>>]
    /\ UNCHANGED <<stored, keys, request, replay, standing, decision, known>>

\* Redis forgets a trajectory after an hour, and a key whose hour is over.
Forget(f) ==
    /\ stored[f] # Nobody
    /\ stored' = [stored EXCEPT ![f] = Nobody]
    /\ known' = StillKnown(stored')
    /\ UNCHANGED <<keys, at, request, replay, standing, decision, todo>>

Lapse(k) ==
    /\ keys[k] = "mortal"
    /\ keys' = [keys EXCEPT ![k] = "absent"]
    /\ UNCHANGED <<stored, at, request, replay, standing, decision, todo, known>>

\* The process dies with whatever it was evaluating or recording.
Crash ==
    /\ \E e \in Evaluation: at[e] \notin {"idle", "done"}
    /\ at' = [e \in Evaluation |-> IF at[e] = "idle" THEN "idle" ELSE "done"]
    /\ replay' = [e \in Evaluation |->
                    IF at[e] = "idle" THEN replay[e] ELSE [replay[e] EXCEPT !.at = "done"]]
    /\ standing' = [e \in Evaluation |->
                    [at |-> IF at[e] = "idle" THEN "idle" ELSE "done", score |-> 0]]
    /\ request' = [e \in Evaluation |-> [request[e] EXCEPT !.signs = {}]]
    /\ todo' = [e \in Evaluation |-> <<>>]
    /\ keys' = [k \in Key |-> IF keys[k] = "waiting" THEN "leaked" ELSE keys[k]]
    /\ known' = {}
    /\ UNCHANGED <<stored, decision>>

Score(e) ==
    \/ ReplaySkip(e) \/ ReplayGet(e) \/ ReplayGetFails(e) \/ ReplaySet(e)
    \/ ReputationRead(e)

Next ==
    \/ \E e \in Evaluation:
        Start(e) \/ Score(e) \/ Decide(e) \/ Add(e) \/ Expire(e) \/ Recorded(e)
    \/ \E f \in Fp: Forget(f)
    \/ \E k \in Key: Lapse(k)
    \/ Crash

Spec == Init /\ [][Next]_vars

-----------------------------------------------------------------------------
(* What is claimed *)

Source == Evaluation \cup {"nobody"}

TypeOK ==
    /\ stored \in [Fp -> [trajectory: Trajectory \cup {Short}, by: Source]]
    /\ keys \in [Key -> {"absent", "waiting", "mortal", "leaked"}]
    /\ at \in [Evaluation -> {"idle", "scoring", "recording", "expiring",
                              "done"}]
    /\ replay \in [Evaluation -> [at: {"idle", "get", "set", "done"},
                                  score: {0, 10, 19}, by: Source]]
    /\ standing \in [Evaluation -> [at: {"idle", "get", "done"}, score: 0..20]]
    /\ decision \in [Evaluation -> Action \cup {"none"}]
    /\ \A e \in Evaluation: Len(todo[e]) \in 0..4
    /\ known \subseteq Evaluation

\* With Redis configured the score escalates or blocks nobody whose trajectory
\* was not met before, in an earlier evaluation of the same fingerprint: a bad
\* reputation, which every block makes worse, locks nobody out by itself, an
\* outage of Redis blocks nobody, and no evaluation takes its own trajectory
\* for a replay (engine.go:66-108, replay.go:38-63).
HarshMeansReplay ==
    \A e \in Evaluation:
        Configured /\ decision[e] \in {"escalate", "block"} =>
            /\ replay[e].by \notin {e, "nobody"}
            /\ request[replay[e].by].fp = request[e].fp
            /\ request[replay[e].by].trajectory # Short

\* Who replays what is remembered of the fingerprint when the evaluation begins,
\* and when the scorer reads it, is not passed by the score: neither the order
\* of the scorers nor a clean look of the rest lets it through.  It may be if
\* the circuit is open or Get fails, if what was remembered expired or was
\* replaced in between, and if a rule says so (engine.go:38-108,
\* replay.go:31-64).
RememberedIsReviewed ==
    [][\A e \in known: decision'[e] # decision[e] => decision'[e] # "pass"]_vars

\* A reputation key lives for ever only if the Expire that should have ended
\* it failed, or was never sent because the process died
\* (reputation.go:94-118).  Such a key stays until a later result of the same
\* client gives it an expiry.
ForeverOnlyByFault ==
    \A k \in Key: keys[k] = "waiting" =>
        \E e \in Evaluation: at[e] = "expiring" /\ k = Head(todo[e])

=============================================================================
