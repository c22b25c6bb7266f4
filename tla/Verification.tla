---------------------------- MODULE Verification -----------------------------
(***************************************************************************)
(* The life of a challenge on the server: it is issued and signed          *)
(* (challenge.go), presented by concurrent POST /api/verify requests       *)
(* (handler.go) and its nonce is spent in the nonce store (nonce.go,       *)
(* nonce_redis.go).  Requests interleave at every call that reads or       *)
(* writes something shared; the server may crash and restart in between.   *)
(*                                                                         *)
(* Time is counted in ticks, Second of them to a second: signatures expire *)
(* on whole seconds, nonces at an instant.                                 *)
(***************************************************************************)
EXTENDS Integers, FiniteSets

CONSTANTS
    Challenge,       \* the challenges that may be generated
    Request,         \* the server's concurrent verify requests
    Second,          \* ticks in a second
    TTL,             \* Config.ChallengeTTL, in ticks
    Expiry,          \* Config.NonceExpiry, in ticks
    MaxStall,        \* longest delay between a request's expiry check and
                     \* its nonce reaching the store, in ticks
    Stores,          \* the nonce stores main() may select: a subset of
                     \* {"memory", "redis"}
    Wirings,         \* the collaborators main() may give the handler: sets
                     \* of subsets of {"limiter", "reputation"}
    SecretSurvives,  \* CAPTCHA_HMAC_SECRET is set: restarts keep the key
    RedisFaults,     \* what a failing SETNX may have done: a subset of
                     \* {"applied", "unapplied"}
    Decisions,       \* the risk engine's verdicts; "none" when it is off
    LastIssue,       \* bound: no challenge is generated after this tick
    MaxTime,         \* bound: the clock stops here
    MaxRestarts,     \* bound: number of restarts
    MaxFaults        \* bound: faults that may accept one challenge

AllDecisions == {"none", "allow", "review", "escalate", "block"}

\* What is wrong with a request, the first in the order of the checks.
Flaws == {"none", "body", "signature", "solution", "interaction"}

Answers == {"none", "rejected", "limited", "invalid", "unsolved", "blocked",
            "replay", "success"}

Effects == {"log-fail", "log-block", "log-pass", "log-review",
            "log-escalate", "blame", "tighten", "credit"}

ASSUME ClockAssumption ==
    /\ Second \in Nat \ {0}
    /\ TTL \in Nat /\ Expiry \in Nat /\ MaxStall \in Nat
    /\ LastIssue \in Nat /\ MaxTime \in Nat /\ MaxRestarts \in Nat
    /\ MaxFaults \in Nat

ASSUME ChoiceAssumption ==
    /\ Challenge # {}
    /\ Stores \subseteq {"memory", "redis"} /\ Stores # {}
    /\ Wirings \subseteq SUBSET {"limiter", "reputation"}
    /\ SecretSurvives \in BOOLEAN
    /\ RedisFaults \subseteq {"applied", "unapplied"}
    /\ Decisions \subseteq AllDecisions /\ Decisions # {}

VARIABLES
    now,        \* the clock
    secret,     \* which HMAC key the process signs with
    store,      \* the nonce store the process selected at start
    wired,      \* the collaborators the handler was given at start
    issued,     \* the challenges generated
    bornAt,     \* when each was generated
    key,        \* the key each was signed with
    memory,     \* NonceStore.nonces: expiry instant per nonce, 0 if absent
    redis,      \* the same for the nonce keys kept by Redis
    pc,         \* where each request is
    chal,       \* the challenge each request presents
    flaw,       \* what is wrong with each request
    checkedAt,  \* when each request passed challenge.Verify
    risk,       \* the risk decision each request holds
    answer,     \* the answer of each request
    effects,    \* the calls each request made to its collaborators
    accepted,   \* history: how often the store let each challenge through
    faults,     \* history: how often it was let through without the store
    restarts    \* number of restarts so far

server == <<now, secret, store, wired, restarts>>
challenges == <<issued, bornAt, key>>
nonces == <<memory, redis>>
request == <<chal, flaw, checkedAt>>
history == <<accepted, faults>>
vars == <<server, challenges, nonces, request, pc, risk, answer, effects,
          history>>

\* The points of VerifyChallenge a request may be at.
Handling == {"received", "parsed", "checked", "solved", "flagged",
             "tightened", "blamed", "scored", "accepted", "credited"}
Stalling == {"checked", "solved", "scored"}

NoRequest == [chal |-> CHOOSE c \in Challenge: TRUE, flaw |-> "none"]

\* The adaptive limiter and the Redis store need a client that answered, the
\* reputation only a client (main.go:79-137).
Select(s, w) ==
    /\ s \in Stores /\ w \in Wirings
    /\ s = "redis" \/ "limiter" \in w => "reputation" \in w

Init ==
    /\ now = 0 /\ secret = 0 /\ restarts = 0
    /\ store \in Stores /\ wired \in Wirings /\ Select(store, wired)
    /\ issued = {}
    /\ bornAt = [c \in Challenge |-> 0]
    /\ key = [c \in Challenge |-> 0]
    /\ memory = [c \in Challenge |-> 0]
    /\ redis = [c \in Challenge |-> 0]
    /\ pc = [r \in Request |-> "idle"]
    /\ chal = [r \in Request |-> NoRequest.chal]
    /\ flaw = [r \in Request |-> NoRequest.flaw]
    /\ checkedAt = [r \in Request |-> 0]
    /\ risk = [r \in Request |-> "none"]
    /\ answer = [r \in Request |-> "none"]
    /\ effects = [r \in Request |-> {}]
    /\ accepted = [c \in Challenge |-> 0]
    /\ faults = [c \in Challenge |-> 0]

-----------------------------------------------------------------------------
(* Time and the challenge service *)

\* time.Time.Unix: whole seconds, rounded down.
Unix(t) == t \div Second

ExpiresAt_RoundedUp(c) == Unix(bornAt[c] + TTL) + 1

ExpiresAt(c) == Unix(bornAt[c] + TTL)

Expired(c) == Unix(now) > ExpiresAt(c)

\* The clock, which no request outruns by more than MaxStall while it holds
\* a checked challenge.
Tick ==
    /\ now < MaxTime
    /\ \A r \in Request: pc[r] \in Stalling => now - checkedAt[r] < MaxStall
    /\ now' = now + 1
    /\ UNCHANGED <<secret, store, wired, restarts, challenges, nonces, request, pc,
                   risk, answer, effects, history>>

\* GetChallenge and Generate: a fresh nonce, signed with the current key.
GetChallenge(c) ==
    /\ c \notin issued
    /\ now <= LastIssue
    /\ issued' = issued \cup {c}
    /\ bornAt' = [bornAt EXCEPT ![c] = now]
    /\ key' = [key EXCEPT ![c] = secret]
    /\ UNCHANGED <<server, nonces, request, pc, risk, answer, effects,
                   history>>

-----------------------------------------------------------------------------
(* POST /api/verify *)

\* A request arrives.  Only a forged one can present a challenge that was
\* never issued.
Receive(r) ==
    /\ pc[r] = "idle"
    /\ \E c \in Challenge, f \in Flaws:
        /\ f \in {"none", "solution", "interaction"} => c \in issued
        /\ chal' = [chal EXCEPT ![r] = c]
        /\ flaw' = [flaw EXCEPT ![r] = f]
    /\ pc' = [pc EXCEPT ![r] = "received"]
    /\ UNCHANGED <<server, challenges, nonces, checkedAt, risk, answer,
                   effects, history>>

\* Every return of the handler leaves one log entry and one answer.
Conclude(r, ans, entry) ==
    /\ pc' = [pc EXCEPT ![r] = "answered"]
    /\ answer' = [answer EXCEPT ![r] = ans]
    /\ effects' = [effects EXCEPT ![r] = @ \cup {entry}]

Advance(r, to) ==
    /\ pc' = [pc EXCEPT ![r] = to]
    /\ UNCHANGED <<answer, effects>>

\* Body, missing fields and fingerprint.
CheckBody(r) ==
    /\ pc[r] = "received"
    /\ IF flaw[r] = "body" THEN Conclude(r, "rejected", "log-fail")
                           ELSE Advance(r, "parsed")
    /\ UNCHANGED <<server, challenges, nonces, request, risk, history>>

\* The adaptive limiter, where there is one, may stop the request.
RateLimit(r) ==
    /\ pc[r] = "parsed" /\ "limiter" \in wired
    /\ Conclude(r, "limited", "log-block")
    /\ UNCHANGED <<server, challenges, nonces, request, risk, history>>

\* challenge.Verify: the signature, then the expiry; the clock is read here.
Genuine(r) == flaw[r] # "signature" /\ key[chal[r]] = secret

CheckChallenge(r) ==
    /\ pc[r] = "parsed"
    /\ IF Genuine(r) /\ ~Expired(chal[r])
         THEN /\ Advance(r, "checked")
              /\ checkedAt' = [checkedAt EXCEPT ![r] = now]
         ELSE /\ Conclude(r, "invalid", "log-fail")
              /\ UNCHANGED checkedAt
    /\ UNCHANGED <<server, challenges, nonces, chal, flaw, risk, history>>

CheckSolution_SpendsFirst(r) ==
    /\ pc[r] = "checked"
    /\ memory' = [memory EXCEPT ![chal[r]] = now + Expiry]
    /\ IF flaw[r] \in {"solution", "interaction"}
         THEN Conclude(r, "unsolved", "log-fail")
         ELSE Advance(r, "solved")
    /\ UNCHANGED <<server, challenges, redis, request, risk, history>>

\* VerifyPoW and validateInteraction.
CheckSolution(r) ==
    /\ pc[r] = "checked"
    /\ IF flaw[r] \in {"solution", "interaction"}
         THEN Conclude(r, "unsolved", "log-fail")
         ELSE Advance(r, "solved")
    /\ UNCHANGED <<server, challenges, nonces, request, risk, history>>

\* The risk engine, within its five seconds; "none" when it is off.
Evaluate(r) ==
    /\ pc[r] = "solved"
    /\ \E d \in Decisions:
        /\ risk' = [risk EXCEPT ![r] = d]
        /\ Advance(r, IF d = "block" THEN "flagged" ELSE "scored")
    /\ UNCHANGED <<server, challenges, nonces, request, history>>

\* One call to a collaborator, which is left out where there is none.
Tell(r, who, what) ==
    effects' = [effects EXCEPT ![r] = IF who \in wired THEN @ \cup {what} ELSE @]

TightenLimiter_KeepsLock(r) ==
    /\ pc[r] = "flagged"
    /\ \A q \in Request \ {r}: "tighten" \notin effects[q]
    /\ pc' = [pc EXCEPT ![r] = "tightened"]
    /\ Tell(r, "limiter", "tighten")
    /\ UNCHANGED <<server, challenges, nonces, request, risk, answer, history>>

\* A blocked request tightens the limiter: RecordBlock ...
TightenLimiter(r) ==
    /\ pc[r] = "flagged"
    /\ pc' = [pc EXCEPT ![r] = "tightened"]
    /\ Tell(r, "limiter", "tighten")
    /\ UNCHANGED <<server, challenges, nonces, request, risk, answer, history>>

Blame_Otherwise(r) ==
    /\ pc[r] = "tightened"
    /\ pc' = [pc EXCEPT ![r] = "blamed"]
    /\ IF "limiter" \in wired THEN UNCHANGED effects
                              ELSE Tell(r, "reputation", "blame")
    /\ UNCHANGED <<server, challenges, nonces, request, risk, answer, history>>

\* ... and the reputation: RecordResult(false); ...
Blame(r) ==
    /\ pc[r] = "tightened"
    /\ pc' = [pc EXCEPT ![r] = "blamed"]
    /\ Tell(r, "reputation", "blame")
    /\ UNCHANGED <<server, challenges, nonces, request, risk, answer, history>>

\* ... then it is logged and answered.
Block(r) ==
    /\ pc[r] = "blamed"
    /\ Conclude(r, "blocked", "log-block")
    /\ UNCHANGED <<server, challenges, nonces, request, risk, history>>

\* What the handler does with the store's verdict.
Accept(r) ==
    /\ Advance(r, "accepted")
    /\ accepted' = [accepted EXCEPT ![chal[r]] = @ + 1]
    /\ UNCHANGED faults

Replay(r) ==
    /\ Conclude(r, "replay", "log-fail")
    /\ UNCHANGED history

MarkUsedMemory_Past(r) ==
    /\ pc[r] = "scored" /\ store = "memory"
    /\ IF memory[chal[r]] # 0
         THEN Replay(r) /\ UNCHANGED memory
         ELSE /\ memory' = [memory EXCEPT ![chal[r]] = now - Expiry]
              /\ Accept(r)
    /\ UNCHANGED <<server, challenges, redis, request, risk>>

\* NonceStore.MarkUsed, under its mutex: an entry counts until it is deleted.
MarkUsedMemory(r) ==
    /\ pc[r] = "scored" /\ store = "memory"
    /\ IF memory[chal[r]] # 0
         THEN Replay(r) /\ UNCHANGED memory
         ELSE /\ memory' = [memory EXCEPT ![chal[r]] = now + Expiry]
              /\ Accept(r)
    /\ UNCHANGED <<server, challenges, redis, request, risk>>

MarkUsedRedis_SetWithoutNX(r) ==
    /\ pc[r] = "scored" /\ store = "redis"
    /\ redis' = [redis EXCEPT ![chal[r]] = now + Expiry]
    /\ Accept(r)
    /\ UNCHANGED <<server, challenges, memory, request, risk>>

MarkUsedRedis_ForTTL(r) ==
    /\ pc[r] = "scored" /\ store = "redis"
    /\ IF now < redis[chal[r]]
         THEN Replay(r) /\ UNCHANGED redis
         ELSE /\ redis' = [redis EXCEPT ![chal[r]] = now + TTL]
              /\ Accept(r)
    /\ UNCHANGED <<server, challenges, memory, request, risk>>

\* RedisNonceStore.MarkUsed: one SETNX, on a key that Redis forgets at its
\* expiry.
MarkUsedRedis(r) ==
    /\ pc[r] = "scored" /\ store = "redis"
    /\ IF now < redis[chal[r]]
         THEN Replay(r) /\ UNCHANGED redis
         ELSE /\ redis' = [redis EXCEPT ![chal[r]] = now + Expiry]
              /\ Accept(r)
    /\ UNCHANGED <<server, challenges, memory, request, risk>>

\* An error of SETNX, or an open circuit, counts as a first use; the command
\* may or may not have reached Redis.
MarkUsedFault(r) ==
    /\ pc[r] = "scored" /\ store = "redis"
    /\ \/ /\ "applied" \in RedisFaults
          /\ now >= redis[chal[r]]
          /\ redis' = [redis EXCEPT ![chal[r]] = now + Expiry]
       \/ /\ RedisFaults # {}
          /\ UNCHANGED redis
    /\ faults[chal[r]] < MaxFaults
    /\ faults' = [faults EXCEPT ![chal[r]] = @ + 1]
    /\ Advance(r, "accepted")
    /\ UNCHANGED <<server, challenges, memory, request, risk, accepted>>

\* RecordResult(true).
Credit(r) ==
    /\ pc[r] = "accepted"
    /\ pc' = [pc EXCEPT ![r] = "credited"]
    /\ Tell(r, "reputation", "credit")
    /\ UNCHANGED <<server, challenges, nonces, request, risk, answer,
                   history>>

\* asyncLog with the differentiated result, then the token.
LogResult(d) ==
    CASE d = "escalate" -> "log-escalate"
      [] d = "review"   -> "log-review"
      [] OTHER          -> "log-pass"

Succeed(r) ==
    /\ pc[r] = "credited"
    /\ Conclude(r, "success", LogResult(risk[r]))
    /\ UNCHANGED <<server, challenges, nonces, request, risk, history>>

\* The client has its answer; the connection may carry another request.
Finish(r) ==
    /\ pc[r] = "answered"
    /\ pc' = [pc EXCEPT ![r] = "idle"]
    /\ chal' = [chal EXCEPT ![r] = NoRequest.chal]
    /\ flaw' = [flaw EXCEPT ![r] = NoRequest.flaw]
    /\ checkedAt' = [checkedAt EXCEPT ![r] = 0]
    /\ risk' = [risk EXCEPT ![r] = "none"]
    /\ answer' = [answer EXCEPT ![r] = "none"]
    /\ effects' = [effects EXCEPT ![r] = {}]
    /\ UNCHANGED <<server, challenges, nonces, history>>

-----------------------------------------------------------------------------
(* The store's janitor and the process *)

\* One round of NonceStore.cleanup: now.After(exp), for every entry.
Stale_Exactly(c) == memory[c] # 0 /\ now = memory[c]

Stale(c) == memory[c] # 0 /\ now > memory[c]

Cleanup ==
    /\ store = "memory"
    /\ \E c \in Challenge: Stale(c)
    /\ memory' = [c \in Challenge |-> IF Stale(c) THEN 0 ELSE memory[c]]
    /\ UNCHANGED <<server, challenges, redis, request, pc, risk, answer,
                   effects, history>>

\* A crash and a restart: running requests get no answer, memory is gone,
\* an ephemeral key is drawn anew, and main() selects and wires again.
Restart ==
    /\ restarts < MaxRestarts
    /\ restarts' = restarts + 1
    /\ store' \in Stores /\ wired' \in Wirings /\ Select(store', wired')
    /\ secret' = IF SecretSurvives THEN secret ELSE secret + 1
    /\ memory' = [c \in Challenge |-> 0]
    /\ pc' = [r \in Request |-> "idle"]
    /\ chal' = [r \in Request |-> NoRequest.chal]
    /\ flaw' = [r \in Request |-> NoRequest.flaw]
    /\ checkedAt' = [r \in Request |-> 0]
    /\ risk' = [r \in Request |-> "none"]
    /\ answer' = [r \in Request |-> "none"]
    /\ effects' = [r \in Request |-> {}]
    /\ UNCHANGED <<now, challenges, redis, history>>

Handle(r) ==
    \/ CheckBody(r) \/ RateLimit(r) \/ CheckChallenge(r) \/ CheckSolution(r)
    \/ Evaluate(r) \/ TightenLimiter(r) \/ Blame(r) \/ Block(r)
    \/ MarkUsedMemory(r) \/ MarkUsedRedis(r) \/ MarkUsedFault(r)
    \/ Credit(r) \/ Succeed(r)

Next ==
    \/ Tick
    \/ \E c \in Challenge: GetChallenge(c)
    \/ \E r \in Request: Receive(r) \/ Handle(r) \/ Finish(r)
    \/ Cleanup
    \/ Restart

Spec == Init /\ [][Next]_vars

\* net/http runs every handler to its end, the calls in it have deadlines,
\* time passes and the janitor's ticker keeps firing.
Fairness ==
    /\ WF_vars(Tick)
    /\ \A r \in Request: WF_vars(Handle(r))
    /\ WF_vars(Cleanup)

FairSpec == Spec /\ Fairness

-----------------------------------------------------------------------------
(* What is claimed *)

TypeOK ==
    /\ now \in Nat /\ secret \in Nat /\ restarts \in Nat
    /\ store \in Stores /\ wired \in Wirings
    /\ issued \subseteq Challenge
    /\ bornAt \in [Challenge -> Nat] /\ key \in [Challenge -> Nat]
    /\ memory \in [Challenge -> Nat] /\ redis \in [Challenge -> Nat]
    /\ pc \in [Request -> Handling \cup {"idle", "answered"}]
    /\ chal \in [Request -> Challenge] /\ flaw \in [Request -> Flaws]
    /\ checkedAt \in [Request -> Nat]
    /\ risk \in [Request -> AllDecisions]
    /\ answer \in [Request -> Answers]
    /\ effects \in [Request -> SUBSET Effects]
    /\ accepted \in [Challenge -> Nat] /\ faults \in [Challenge -> Nat]

\* The deployments in which a nonce outlives its challenge: the store keeps
\* it longer than a checked challenge can stay in flight, and what a restart
\* forgets no surviving key can vouch for.  Redis is taken to keep a key until
\* it expires; deploy/docker-compose.yml lets it evict any key when its memory
\* is full.
SoundDeployment ==
    /\ Expiry >= TTL + Second + MaxStall
    /\ SecretSurvives => Stores = {"redis"}

\* No request can be redeeming c any more: its signature fails, or the last
\* request that found it in date has reached the store.
Closed(c) ==
    \/ key[c] # secret
    \/ now >= bornAt[c] + TTL + Second + MaxStall

\* The selected store would refuse c.
Remembered(c) == IF store = "memory" THEN memory[c] # 0 ELSE now < redis[c]

\* The request has won its challenge.
Winner(r) ==
    \/ pc[r] \in {"accepted", "credited"}
    \/ pc[r] = "answered" /\ answer[r] = "success"

Won(c) == accepted[c] + faults[c] > 0

\* The stores let a challenge through at most once over all requests and
\* restarts, and no two requests hold or are told its success, unless Redis
\* failed one of them (handler.go:359-372, "only consumed on full success").
AtMostOnce ==
    /\ \A c \in Challenge: accepted[c] <= 1
    /\ \A r, q \in Request:
         Winner(r) /\ Winner(q) /\ chal[r] = chal[q] => r = q \/ faults[chal[r]] > 0

\* As long as a challenge could still be redeemed, the selected store
\* remembers that it was: neither the janitor (nonce.go:53-70), nor the
\* expiry of the Redis key, nor a restart forgets it too early.
SpentIsRemembered ==
    \A c \in issued: accepted[c] > 0 /\ ~Closed(c) => Remembered(c)

\* A request is told "challenge already used" only if some request really
\* won that challenge: a request that fails any other check leaves the
\* challenge to be tried again (handler.go:359-372).
ReplayIsHonest ==
    \A r \in Request: answer[r] = "replay" => Won(chal[r])

\* What other components are told agrees with what the client is told: a
\* request is credited only if it is the winner of a challenge issued under
\* the key in force and solved; the limiter and the reputation hear of a block
\* only from such a solved request that the risk engine stopped; and once it is
\* answered, each collaborator there is has heard of it, and the log too
\* (handler.go:326-355, 374-416).
RecordsAgree ==
    \A r \in Request:
        /\ effects[r] \cap {"credit", "tighten", "blame"} # {} =>
             flaw[r] = "none" /\ key[chal[r]] = secret
        /\ "credit" \in effects[r] => Winner(r) /\ Won(chal[r])
        /\ effects[r] \cap {"tighten", "blame"} # {} =>
             risk[r] = "block" /\ ~Winner(r)
        /\ answer[r] = "success" <=>
             effects[r] \cap {"log-pass", "log-review", "log-escalate"} # {}
        /\ answer[r] = "success" =>
             ("credit" \in effects[r] <=> "reputation" \in wired)
        /\ answer[r] = "blocked" =>
             /\ "log-block" \in effects[r]
             /\ "tighten" \in effects[r] <=> "limiter" \in wired
             /\ "blame" \in effects[r] <=> "reputation" \in wired

\* Every request that reaches the handler leaves it (answered, or lost with
\* the process).
EveryRequestAnswered ==
    \A r \in Request: pc[r] \in Handling ~> pc[r] \notin Handling

\* The in-memory store does not keep a nonce for ever (nonce.go:53-70).
NoncesAreForgotten == \A c \in Challenge: memory[c] # 0 ~> memory[c] = 0

\* The service implements the abstract single-use challenge: to be let through
\* by the store is the redemption, and a challenge closes when its key or its
\* time is over.
Abstract == INSTANCE SingleUse WITH
    uses <- accepted,
    closed <- {c \in issued: Closed(c)}

ImplementsSingleUse == Abstract!Spec

=============================================================================
