------------------------- MODULE VerificationProofs --------------------------
(***************************************************************************)
(* What TLAPS proves about Verification, for any numbers of challenges and *)
(* requests and any durations: its types, and, in a sound deployment, that *)
(* a challenge is accepted at most once.                                   *)
(***************************************************************************)
EXTENDS Verification, TLAPS

\* Unix is a time in whole seconds (time.Time.Unix); what is no later in
\* seconds is at most Second - 1 ticks later.
LEMMA UnixDelay ==
    ASSUME NEW a \in Nat, NEW b \in Nat, Unix(a) <= Unix(b)
    PROVE  a <= b + Second - 1
<1> USE ClockAssumption
<1>1. a \div Second \in Int /\ b \div Second \in Int
  OBVIOUS
<1>2. a = Second * (a \div Second) + (a % Second) /\ a % Second \in 0..(Second - 1)
  OBVIOUS
<1>3. b = Second * (b \div Second) + (b % Second) /\ b % Second \in 0..(Second - 1)
  OBVIOUS
<1>4. a \div Second <= b \div Second
  BY DEF Unix
<1>5. Second * (a \div Second) <= Second * (b \div Second)
  BY <1>1, <1>4
<1>6. QED
  BY <1>2, <1>3, <1>5

-----------------------------------------------------------------------------
(* Types *)

\* Every variable keeps its type, whatever the deployment.
THEOREM TypeCorrect == Spec => []TypeOK
<1> USE ClockAssumption, ChoiceAssumption
        DEF TypeOK, Handling, Flaws, Answers, Effects, AllDecisions, vars,
            server, challenges, nonces, request, history, NoRequest
<1>1. Init => TypeOK
  BY DEF Init
<1>2. TypeOK /\ [Next]_vars => TypeOK'
  <2> SUFFICES ASSUME TypeOK, [Next]_vars PROVE TypeOK'
    OBVIOUS
  <2>1. CASE Tick
    BY <2>1 DEF Tick
  <2>2. ASSUME NEW c \in Challenge, GetChallenge(c) PROVE TypeOK'
    BY <2>2 DEF GetChallenge
  <2>3. ASSUME NEW r \in Request, Receive(r) PROVE TypeOK'
    BY <2>3 DEF Receive
  <2>4. ASSUME NEW r \in Request, Handle(r) PROVE TypeOK'
    <3> USE DEF Advance, Conclude, Accept, Replay
    <3>1. CASE CheckBody(r)
      BY <3>1 DEF CheckBody
    <3>2. CASE RateLimit(r)
      BY <3>2 DEF RateLimit
    <3>3. CASE CheckChallenge(r)
      BY <3>3 DEF CheckChallenge
    <3>4. CASE CheckSolution(r)
      BY <3>4 DEF CheckSolution
    <3>5. CASE Evaluate(r)
      BY <3>5 DEF Evaluate
    <3>6. CASE TightenLimiter(r) \/ Blame(r) \/ Block(r)
      BY <3>6 DEF TightenLimiter, Blame, Block, Tell
    <3>7. CASE MarkUsedMemory(r)
      BY <3>7 DEF MarkUsedMemory
    <3>8. CASE MarkUsedRedis(r)
      BY <3>8 DEF MarkUsedRedis
    <3>9. CASE MarkUsedFault(r)
      BY <3>9 DEF MarkUsedFault
    <3>10. CASE Credit(r)
      BY <3>10 DEF Credit, Tell
    <3>11. CASE Succeed(r)
      BY <3>11 DEF Succeed, LogResult
    <3>12. QED
      BY <2>4, <3>1, <3>2, <3>3, <3>4, <3>5, <3>6, <3>7, <3>8, <3>9, <3>10,
         <3>11 DEF Handle
  <2>5. ASSUME NEW r \in Request, Finish(r) PROVE TypeOK'
    BY <2>5 DEF Finish
  <2>6. CASE Cleanup
    BY <2>6 DEF Cleanup
  <2>7. CASE Restart
    BY <2>7 DEF Restart
  <2>8. CASE UNCHANGED vars
    BY <2>8
  <2>9. QED
    BY <2>1, <2>2, <2>3, <2>4, <2>5, <2>6, <2>7, <2>8 DEF Next
<1>3. QED
  BY <1>1, <1>2, PTL DEF Spec

-----------------------------------------------------------------------------
(* The inductive invariant *)

\* A request past the body check presents an issued challenge unless it is
\* forged.
Presented ==
    \A r \in Request:
        /\ pc[r] = "parsed" => flaw[r] # "body"
        /\ pc[r] \in {"received", "parsed"} /\ flaw[r] \notin {"body", "signature"}
             => chal[r] \in issued

\* A request that holds a checked challenge found it in date, under the key
\* in force, not longer than MaxStall ago.
InFlight ==
    \A r \in Request: pc[r] \in Stalling =>
        /\ chal[r] \in issued /\ key[chal[r]] = secret
        /\ checkedAt[r] <= bornAt[chal[r]] + TTL + Second - 1
        /\ now <= checkedAt[r] + MaxStall

\* The entry the selected store holds for c.
Entry(c) == IF store = "memory" THEN memory[c] ELSE redis[c]

\* An accepted challenge that is not closed has an entry that outlives it.
Covered ==
    \A c \in issued: accepted[c] > 0 /\ ~Closed(c) => Entry(c) >= bornAt[c] + Expiry

\* Challenges were born in the past, keys are drawn in order, and nobody
\* accepts what was never issued.
Past == \A c \in Challenge: bornAt[c] <= now
Keys == \A c \in Challenge: key[c] <= secret
Unissued == \A c \in Challenge \ issued: accepted[c] = 0

\* Winners hold an accepted challenge, each one of their own.
Winning == \A r \in Request: Winner(r) => Won(chal[r])

IInv ==
    /\ Presented /\ InFlight /\ Covered /\ Past /\ Keys /\ Unissued
    /\ Winning /\ AtMostOnce

\* A challenge about to be spent is not closed.
LEMMA ScoredIsOpen ==
    ASSUME TypeOK, IInv, NEW r \in Request, pc[r] = "scored"
    PROVE  /\ chal[r] \in issued
           /\ ~Closed(chal[r])
  BY ClockAssumption DEF TypeOK, IInv, InFlight, Closed, Stalling

\* If it was accepted before, the selected store still holds its entry.
LEMMA SpentHasEntry ==
    ASSUME SoundDeployment, TypeOK, IInv, NEW r \in Request, pc[r] = "scored",
           accepted[chal[r]] # 0
    PROVE  now < Entry(chal[r])
<1>1. chal[r] \in issued /\ ~Closed(chal[r])
  BY ScoredIsOpen
<1>2. accepted[chal[r]] > 0
  BY DEF TypeOK
<1>3. Entry(chal[r]) >= bornAt[chal[r]] + Expiry
  BY <1>1, <1>2 DEF IInv, Covered
<1>4. chal[r] \in Challenge /\ now < bornAt[chal[r]] + TTL + Second + MaxStall
  BY <1>1, ClockAssumption DEF TypeOK, Closed
<1>5. Entry(chal[r]) \in Nat /\ bornAt[chal[r]] \in Nat /\ now \in Nat
  BY <1>4 DEF TypeOK, Entry
<1>6. QED
  BY <1>3, <1>4, <1>5, ClockAssumption DEF SoundDeployment

\* The invariant survives every step of a sound deployment.
LEMMA Inductive ==
    ASSUME SoundDeployment, TypeOK, TypeOK', IInv, [Next]_vars
    PROVE  IInv'
<1> USE ClockAssumption, ChoiceAssumption
<1> USE DEF TypeOK, IInv, Presented, InFlight, Covered, Past, Keys, Unissued,
        Winning, Won, AtMostOnce, Winner, Closed, Entry, Stalling,
        vars, server, challenges, nonces, request, history
<1>1. CASE Tick
  BY <1>1 DEF Tick
<1>2. ASSUME NEW c \in Challenge, GetChallenge(c) PROVE IInv'
  BY <1>2 DEF GetChallenge
<1>3. ASSUME NEW r \in Request, Receive(r) PROVE IInv'
  BY <1>3 DEF Receive, Flaws
<1>4. ASSUME NEW r \in Request, Handle(r) PROVE IInv'
  <2> USE DEF Advance, Conclude
  <2>1. CASE CheckBody(r)
    BY <2>1 DEF CheckBody
  <2>2. CASE RateLimit(r)
    BY <2>2 DEF RateLimit
  <2>3. CASE CheckChallenge(r)
    <3>1. CASE Genuine(r) /\ ~Expired(chal[r])
      <4>1. chal[r] \in issued /\ key[chal[r]] = secret
        BY <2>3, <3>1 DEF CheckChallenge, Genuine
      <4>2. bornAt[chal[r]] + TTL \in Nat
        OBVIOUS
      <4>3. Unix(now) <= Unix(bornAt[chal[r]] + TTL)
        BY <3>1, <4>2 DEF Expired, ExpiresAt, Unix
      <4>4. now <= bornAt[chal[r]] + TTL + Second - 1
        BY <4>2, <4>3, UnixDelay
      <4>5. InFlight'
        BY <2>3, <3>1, <4>1, <4>4 DEF CheckChallenge
      <4>6. (Presented /\ Past /\ Keys /\ Unissued)'
        BY <2>3, <3>1 DEF CheckChallenge
      <4>7. (Covered /\ Winning /\ AtMostOnce)'
        BY <2>3, <3>1 DEF CheckChallenge
      <4>8. QED
        BY <4>5, <4>6, <4>7
    <3>2. CASE ~(Genuine(r) /\ ~Expired(chal[r]))
      <4>1. (Presented /\ InFlight /\ Past /\ Keys /\ Unissued)'
        BY <2>3, <3>2 DEF CheckChallenge
      <4>2. (Covered /\ Winning /\ AtMostOnce)'
        BY <2>3, <3>2 DEF CheckChallenge
      <4>3. QED
        BY <4>1, <4>2
    <3>3. QED
      BY <3>1, <3>2
  <2>4. CASE CheckSolution(r)
    <3>1. /\ UNCHANGED <<server, challenges, nonces, request, history>>
          /\ \A q \in Request:
               /\ pc'[q] \in Stalling => pc[q] \in Stalling
               /\ pc'[q] \in {"received", "parsed"} => pc'[q] = pc[q]
               /\ Winner(q)' => Winner(q)
      BY <2>4 DEF CheckSolution
    <3>2. (Presented /\ Past /\ Keys /\ Unissued)'
      BY <3>1
    <3>3. (InFlight /\ Covered)'
      BY <3>1
    <3>4. (Winning /\ AtMostOnce)'
      BY <3>1
    <3>5. QED
      BY <3>2, <3>3, <3>4
  <2>5. CASE Evaluate(r)
    BY <2>5 DEF Evaluate
  <2>6. CASE TightenLimiter(r) \/ Blame(r) \/ Block(r)
    <3>1. CASE TightenLimiter(r)
      BY <3>1 DEF TightenLimiter
    <3>2. CASE Blame(r)
      BY <3>2 DEF Blame
    <3>3. CASE Block(r)
      BY <3>3 DEF Block
    <3>4. QED
      BY <2>6, <3>1, <3>2, <3>3
  <2>7. CASE MarkUsedMemory(r)
    <3>1. chal[r] \in issued /\ ~Closed(chal[r])
      BY <2>7, ScoredIsOpen DEF MarkUsedMemory
    <3>2. CASE memory[chal[r]] # 0
      <4>1. (Presented /\ InFlight /\ Past /\ Keys /\ Unissued)'
        BY <2>7, <3>2 DEF MarkUsedMemory, Replay
      <4>2. (Covered /\ Winning /\ AtMostOnce)'
        BY <2>7, <3>2 DEF MarkUsedMemory, Replay
      <4>3. QED
        BY <4>1, <4>2
    <3>3. CASE ~(memory[chal[r]] # 0)
      <4>1. accepted[chal[r]] = 0
        BY <2>7, <3>3, SpentHasEntry DEF MarkUsedMemory
      <4>2. /\ accepted' = [accepted EXCEPT ![chal[r]] = 1]
            /\ memory' = [memory EXCEPT ![chal[r]] = now + Expiry]
            /\ pc' = [pc EXCEPT ![r] = "accepted"]
            /\ store = "memory"
        BY <2>7, <3>3, <4>1 DEF MarkUsedMemory, Accept
      <4>3. Covered'
        BY <2>7, <3>1, <4>2 DEF MarkUsedMemory
      <4>4. (Presented /\ InFlight /\ Past /\ Keys /\ Unissued)'
        <5>1. (Presented /\ Past /\ Keys)'
          BY <2>7, <4>2 DEF MarkUsedMemory
        <5>2. InFlight'
          BY <2>7, <4>2 DEF MarkUsedMemory
        <5>3. Unissued'
          BY <2>7, <3>1, <4>2 DEF MarkUsedMemory, Accept
        <5>4. QED
          BY <5>1, <5>2, <5>3
      <4>5. (Winning /\ AtMostOnce)'
        <5>1. \A q \in Request: Winner(q)' => q = r \/ Winner(q)
          BY <2>7, <3>3, <4>2 DEF MarkUsedMemory, Accept
        <5>2. \A q \in Request: Winner(q) /\ chal[q] = chal[r] => faults[chal[r]] > 0
          BY <4>1
        <5>3. chal' = chal /\ faults' = faults
          BY <2>7, <3>3 DEF MarkUsedMemory, Accept
        <5>4. QED
          BY <4>1, <4>2, <5>1, <5>2, <5>3
      <4>6. QED
        BY <4>3, <4>4, <4>5
    <3>4. QED
      BY <3>2, <3>3
  <2>8. CASE MarkUsedRedis(r)
    <3>1. chal[r] \in issued /\ ~Closed(chal[r])
      BY <2>8, ScoredIsOpen DEF MarkUsedRedis
    <3>2. CASE now < redis[chal[r]]
      <4>1. (Presented /\ InFlight /\ Past /\ Keys /\ Unissued)'
        BY <2>8, <3>2 DEF MarkUsedRedis, Replay
      <4>2. (Covered /\ Winning /\ AtMostOnce)'
        BY <2>8, <3>2 DEF MarkUsedRedis, Replay
      <4>3. QED
        BY <4>1, <4>2
    <3>3. CASE ~(now < redis[chal[r]])
      <4>1. accepted[chal[r]] = 0
        BY <2>8, <3>3, SpentHasEntry DEF MarkUsedRedis
      <4>2. /\ accepted' = [accepted EXCEPT ![chal[r]] = 1]
            /\ redis' = [redis EXCEPT ![chal[r]] = now + Expiry]
            /\ pc' = [pc EXCEPT ![r] = "accepted"]
            /\ store = "redis"
        BY <2>8, <3>3, <4>1 DEF MarkUsedRedis, Accept
      <4>3. Covered'
        BY <2>8, <3>1, <4>2 DEF MarkUsedRedis
      <4>4. (Presented /\ InFlight /\ Past /\ Keys /\ Unissued)'
        <5>1. (Presented /\ Past /\ Keys)'
          BY <2>8, <4>2 DEF MarkUsedRedis
        <5>2. InFlight'
          BY <2>8, <4>2 DEF MarkUsedRedis
        <5>3. Unissued'
          BY <2>8, <3>1, <4>2 DEF MarkUsedRedis, Accept
        <5>4. QED
          BY <5>1, <5>2, <5>3
      <4>5. (Winning /\ AtMostOnce)'
        <5>1. \A q \in Request: Winner(q)' => q = r \/ Winner(q)
          BY <2>8, <3>3, <4>2 DEF MarkUsedRedis, Accept
        <5>2. \A q \in Request: Winner(q) /\ chal[q] = chal[r] => faults[chal[r]] > 0
          BY <4>1
        <5>3. chal' = chal /\ faults' = faults
          BY <2>8, <3>3 DEF MarkUsedRedis, Accept
        <5>4. QED
          BY <4>1, <4>2, <5>1, <5>2, <5>3
      <4>6. QED
        BY <4>3, <4>4, <4>5
    <3>4. QED
      BY <3>2, <3>3
  <2>9. CASE MarkUsedFault(r)
    BY <2>9 DEF MarkUsedFault, SoundDeployment
  <2>10. CASE Credit(r)
    BY <2>10 DEF Credit
  <2>11. CASE Succeed(r)
    BY <2>11 DEF Succeed
  <2>12. QED
    BY <1>4, <2>1, <2>2, <2>3, <2>4, <2>5, <2>6, <2>7, <2>8, <2>9, <2>10,
       <2>11 DEF Handle
<1>5. ASSUME NEW r \in Request, Finish(r) PROVE IInv'
  BY <1>5 DEF Finish
<1>6. CASE Cleanup
  BY <1>6 DEF Cleanup, Stale, SoundDeployment
<1>7. CASE Restart
  BY <1>7 DEF Restart, SoundDeployment
<1>8. CASE UNCHANGED vars
  BY <1>8
<1>9. QED
  BY <1>1, <1>2, <1>3, <1>4, <1>5, <1>6, <1>7, <1>8 DEF Next

\* In a sound deployment the inductive invariant always holds.
THEOREM InvariantHolds == ASSUME SoundDeployment PROVE Spec => []IInv
<1>1. Init => IInv
  BY ClockAssumption, ChoiceAssumption
     DEF Init, IInv, Presented, InFlight, Covered, Past, Keys, Unissued, Winning,
         AtMostOnce, Winner, Closed, Entry, Stalling, NoRequest
<1>2. TypeOK /\ TypeOK' /\ IInv /\ [Next]_vars => IInv'
  BY Inductive
<1>3. QED
  BY <1>1, <1>2, TypeCorrect, PTL DEF Spec

\* However requests interleave with each other, with the clock, with the
\* janitor and with restarts, no challenge is accepted twice
\* (handler.go:359-372).
THEOREM SingleAcceptance == ASSUME SoundDeployment PROVE Spec => []AtMostOnce
  BY InvariantHolds, PTL DEF IInv

\* A spent challenge is remembered by the store for as long as it could be
\* presented again (nonce.go:25-70, nonce_redis.go:25-36).
THEOREM SpentRemembered == ASSUME SoundDeployment PROVE Spec => []SpentIsRemembered
<1>1. TypeOK /\ IInv => SpentIsRemembered
  BY ClockAssumption, ChoiceAssumption
     DEF TypeOK, IInv, Covered, SpentIsRemembered, Remembered, Entry, Closed,
         SoundDeployment
<1>2. QED
  BY <1>1, InvariantHolds, TypeCorrect, PTL

-----------------------------------------------------------------------------
(* What the client and the other components are told *)

Blocking == {"flagged", "tightened", "blamed"}
Held == {"checked", "solved", "scored", "accepted", "credited"} \cup Blocking
Passes == {"log-pass", "log-review", "log-escalate"}

\* What a collaborator has been told, where there is one.
Told(who, what) == IF who \in wired THEN {what} ELSE {}

\* Request r was checked as far as it has come, has told nobody anything
\* before its end, and has won whatever it says that it won.
Truthful(r) ==
    /\ pc[r] = "parsed" => flaw[r] # "body"
    /\ pc[r] \in {"received", "parsed"} /\ flaw[r] \notin {"body", "signature"}
         => chal[r] \in issued
    /\ pc[r] \in Held \/ answer[r] \in {"success", "blocked"} =>
         chal[r] \in issued /\ key[chal[r]] = secret
    /\ pc[r] \in Held \ {"checked"} \/ answer[r] = "success" => flaw[r] = "none"
    /\ pc[r] = "checked" => flaw[r] \in {"none", "solution", "interaction"}
    /\ pc[r] # "answered" => answer[r] = "none"
    /\ pc[r] \notin {"tightened", "blamed", "credited", "answered"} => effects[r] = {}
    /\ pc[r] \in Blocking \/ answer[r] = "blocked" =>
         risk[r] = "block" /\ flaw[r] = "none"
    /\ pc[r] = "tightened" => effects[r] = Told("limiter", "tighten")
    /\ pc[r] = "blamed" =>
         effects[r] = Told("limiter", "tighten") \cup Told("reputation", "blame")
    /\ pc[r] = "credited" => effects[r] = Told("reputation", "credit")
    /\ answer[r] = "blocked" =>
         effects[r] = Told("limiter", "tighten") \cup Told("reputation", "blame")
                        \cup {"log-block"}
    /\ answer[r] = "success" =>
         \E entry \in Passes: effects[r] = Told("reputation", "credit") \cup {entry}
    /\ pc[r] = "answered" /\ answer[r] \notin {"success", "blocked"} =>
         effects[r] \in {{"log-fail"}, {"log-block"}}
    /\ Winner(r) \/ answer[r] = "replay" => Won(chal[r])

\* The stores hold only nonces of challenges that somebody won.
Earned == \A c \in Challenge: memory[c] # 0 \/ redis[c] # 0 => Won(c)

\* What a step leaves alone stays truthful.
LEMMA StillTruthful ==
    ASSUME TypeOK, NEW q \in Request, Truthful(q), secret' = secret,
           wired' = wired, risk'[q] = risk[q],
           pc'[q] = pc[q], chal'[q] = chal[q], flaw'[q] = flaw[q],
           answer'[q] = answer[q], effects'[q] = effects[q],
           issued \subseteq issued', \A c \in issued: key'[c] = key[c],
           \A c \in Challenge: Won(c) => Won(c)'
    PROVE  Truthful(q)'
  BY DEF TypeOK, Truthful, Winner, Told, Held, Blocking

\* One step of the handler, for the request that takes it.
LEMMA HandleTruthful ==
    ASSUME TypeOK, NEW r \in Request, Truthful(r), Earned, Handle(r)
    PROVE  Truthful(r)' /\ Earned'
<1> USE DEF Held, Blocking, Passes, Truthful, Winner, Earned, Won, Told, Tell,
            Advance, Conclude, server, challenges, nonces, request, history
<1>1. /\ pc \in [Request -> Handling \cup {"idle", "answered"}]
      /\ answer \in [Request -> Answers] /\ effects \in [Request -> SUBSET Effects]
      /\ risk \in [Request -> AllDecisions] /\ chal[r] \in Challenge
      /\ accepted \in [Challenge -> Nat] /\ faults \in [Challenge -> Nat]
      /\ memory \in [Challenge -> Nat] /\ redis \in [Challenge -> Nat] /\ now \in Nat
      /\ checkedAt \in [Request -> Nat]
  BY DEF TypeOK
<1>2. CASE CheckBody(r)
  BY <1>1, <1>2 DEF CheckBody
<1>3. CASE RateLimit(r)
  BY <1>1, <1>3 DEF RateLimit
<1>4. CASE CheckChallenge(r)
  <2>1. flaw[r] \in Flaws
    BY DEF TypeOK
  <2>2. CASE Genuine(r) /\ ~Expired(chal[r])
    BY <1>1, <1>4, <2>1, <2>2 DEF CheckChallenge, Genuine, Flaws
  <2>3. CASE ~(Genuine(r) /\ ~Expired(chal[r]))
    BY <1>1, <1>4, <2>1, <2>3 DEF CheckChallenge
  <2> QED
    BY <2>2, <2>3
<1>5. CASE CheckSolution(r)
  BY <1>1, <1>5 DEF CheckSolution
<1>6. CASE Evaluate(r)
  BY <1>1, <1>6 DEF Evaluate
<1>7. CASE TightenLimiter(r) \/ Blame(r) \/ Block(r)
  <2>1. CASE TightenLimiter(r)
    BY <1>1, <2>1 DEF TightenLimiter
  <2>2. CASE Blame(r)
    BY <1>1, <2>2 DEF Blame
  <2>3. CASE Block(r)
    BY <1>1, <2>3 DEF Block
  <2>4. QED
    BY <1>7, <2>1, <2>2, <2>3
<1>8. CASE Credit(r)
  BY <1>1, <1>8 DEF Credit
<1>9. CASE Succeed(r)
  BY <1>1, <1>9 DEF Succeed, LogResult
<1>10. CASE MarkUsedMemory(r)
  BY <1>1, <1>10, ClockAssumption DEF MarkUsedMemory, Accept, Replay
<1>11. CASE MarkUsedRedis(r)
  BY <1>1, <1>11, ClockAssumption DEF MarkUsedRedis, Accept, Replay
<1>12. CASE MarkUsedFault(r)
  BY <1>1, <1>12, ClockAssumption DEF MarkUsedFault
<1> QED
  BY <1>2, <1>3, <1>4, <1>5, <1>6, <1>7, <1>8, <1>9, <1>10, <1>11, <1>12
  DEF Handle

\* And for the others it changes nothing of theirs.
LEMMA HandleOthers ==
    ASSUME TypeOK, NEW r \in Request, Handle(r)
    PROVE  /\ UNCHANGED <<secret, wired, challenges>>
           /\ \A q \in Request \ {r}:
                /\ pc'[q] = pc[q] /\ chal'[q] = chal[q] /\ flaw'[q] = flaw[q]
                /\ answer'[q] = answer[q] /\ effects'[q] = effects[q]
                /\ risk'[q] = risk[q]
           /\ \A c \in Challenge: Won(c) => Won(c)'
<1> USE DEF TypeOK, Won, Tell, Advance, Conclude, server, challenges, nonces,
            request, history
<1>1. CASE CheckBody(r) \/ RateLimit(r) \/ CheckChallenge(r) \/ CheckSolution(r)
  BY <1>1 DEF CheckBody, RateLimit, CheckChallenge, CheckSolution
<1>2. CASE \/ Evaluate(r) \/ Credit(r) \/ Succeed(r)
           \/ TightenLimiter(r) \/ Blame(r) \/ Block(r)
  BY <1>2 DEF Evaluate, Credit, Succeed, TightenLimiter, Blame, Block
<1>3. CASE MarkUsedMemory(r)
  BY <1>3 DEF MarkUsedMemory, Accept, Replay
<1>4. CASE MarkUsedRedis(r)
  BY <1>4 DEF MarkUsedRedis, Accept, Replay
<1>5. CASE MarkUsedFault(r)
  BY <1>5 DEF MarkUsedFault
<1> QED
  BY <1>1, <1>2, <1>3, <1>4, <1>5 DEF Handle

LEMMA TruthfulStep ==
    ASSUME TypeOK, TypeOK', \A r \in Request: Truthful(r), Earned, [Next]_vars
    PROVE  (\A r \in Request: Truthful(r))' /\ Earned'
<1> USE ClockAssumption, ChoiceAssumption
<1> USE DEF server, challenges, nonces, request, history
<1>1. CASE Tick \/ Cleanup \/ UNCHANGED vars
  BY <1>1, StillTruthful DEF Tick, Cleanup, vars, Earned, Won, TypeOK
<1>2. ASSUME NEW c \in Challenge, GetChallenge(c)
      PROVE  (\A r \in Request: Truthful(r))' /\ Earned'
  BY <1>2, StillTruthful DEF GetChallenge, Earned, Won, TypeOK
<1>3. ASSUME NEW r \in Request, Receive(r)
      PROVE  (\A q \in Request: Truthful(q))' /\ Earned'
  <2>1. Truthful(r)'
    <3>1. PICK c \in Challenge, f \in Flaws:
              /\ f \in {"none", "solution", "interaction"} => c \in issued
              /\ chal' = [chal EXCEPT ![r] = c] /\ flaw' = [flaw EXCEPT ![r] = f]
      BY <1>3 DEF Receive
    <3>2. chal'[r] = c /\ flaw'[r] = f /\ pc'[r] = "received"
      BY <1>3, <3>1 DEF Receive, TypeOK
    <3>3. pc[r] = "idle" /\ UNCHANGED <<issued, answer, effects>>
      BY <1>3 DEF Receive
    <3>4. answer[r] = "none" /\ effects[r] = {}
      BY <3>3 DEF Truthful
    <3> QED
      BY <3>1, <3>2, <3>3, <3>4 DEF Truthful, Held, Blocking, Winner, Flaws
  <2>2. ASSUME NEW q \in Request, q # r
        PROVE  Truthful(q)'
    BY <1>3, <2>2, StillTruthful DEF Receive, Won, TypeOK
  <2> QED
    BY <1>3, <2>1, <2>2 DEF Receive, Earned, Won
<1>4. ASSUME NEW r \in Request, Handle(r)
      PROVE  (\A q \in Request: Truthful(q))' /\ Earned'
  <2>1. Truthful(r)' /\ Earned'
    BY <1>4, HandleTruthful
  <2>2. ASSUME NEW q \in Request, q # r
        PROVE  Truthful(q)'
    BY <1>4, <2>2, HandleOthers, StillTruthful
  <2> QED
    BY <2>1, <2>2
<1>5. ASSUME NEW r \in Request, Finish(r)
      PROVE  (\A q \in Request: Truthful(q))' /\ Earned'
  <2>1. Truthful(r)'
    BY <1>5 DEF Finish, Truthful, Held, Blocking, Winner, TypeOK
  <2>2. ASSUME NEW q \in Request, q # r
        PROVE  Truthful(q)'
    BY <1>5, <2>2, StillTruthful DEF Finish, Won, TypeOK
  <2> QED
    BY <1>5, <2>1, <2>2 DEF Finish, Earned, Won
<1>6. CASE Restart
  BY <1>6 DEF Restart, Truthful, Held, Blocking, Winner, Earned, Won
<1> QED
  BY <1>1, <1>2, <1>3, <1>4, <1>5, <1>6 DEF Next

LEMMA AlwaysTruthful == Spec => []((\A r \in Request: Truthful(r)) /\ Earned)
<1>1. Init => (\A r \in Request: Truthful(r)) /\ Earned
  BY DEF Init, Truthful, Held, Blocking, Winner, Earned
<1> QED
  BY <1>1, TruthfulStep, TypeCorrect, PTL DEF Spec

\* In every deployment, whatever Redis does: who is told "already used" is told
\* the truth (handler.go:359-372).
THEOREM HonestReplay == Spec => []ReplayIsHonest
<1>1. (\A r \in Request: Truthful(r)) => ReplayIsHonest
  BY DEF Truthful, ReplayIsHonest
<1> QED
  BY <1>1, AlwaysTruthful, PTL

\* In every deployment, whichever collaborators there are: the credit, the
\* blame, the tightening and the log say of a request what its client is told,
\* and a blocked request has told every one of them (handler.go:326-355, 374-416).
THEOREM AgreeingRecords == Spec => []RecordsAgree
<1>1. TypeOK /\ (\A r \in Request: Truthful(r)) => RecordsAgree
  <2> SUFFICES ASSUME NEW r \in Request, Truthful(r), TypeOK
               PROVE  RecordsAgree!(r)
    BY DEF RecordsAgree
  <2> QED
    BY DEF TypeOK, Truthful, Winner, Held, Blocking, Passes, Told
<1> QED
  BY <1>1, AlwaysTruthful, TypeCorrect, PTL

-----------------------------------------------------------------------------
(* Refinement of SingleUse *)

\* Closing is for good: the clock and the key only move forward.
LEMMA ClosedForGood ==
    ASSUME SoundDeployment, TypeOK, TypeOK', IInv, [Next]_vars,
           NEW c \in issued, Closed(c)
    PROVE  Closed(c)'
<1> USE ClockAssumption DEF TypeOK, Closed, server, challenges, vars
<1>1. CASE \/ Tick \/ Cleanup \/ UNCHANGED vars
  BY <1>1 DEF Tick, Cleanup
<1>2. CASE Restart
  BY <1>2 DEF Restart, IInv, Keys
<1>3. ASSUME NEW d \in Challenge, GetChallenge(d) PROVE Closed(c)'
  BY <1>3 DEF GetChallenge
<1>4. ASSUME NEW r \in Request, Receive(r) \/ Handle(r) \/ Finish(r)
      PROVE  Closed(c)'
  BY <1>4 DEF Receive, Finish, Handle, CheckBody, RateLimit, CheckChallenge,
     CheckSolution, Evaluate, TightenLimiter, Blame, Block, MarkUsedMemory,
     MarkUsedRedis, MarkUsedFault, Credit, Succeed
<1>5. QED
  BY <1>1, <1>2, <1>3, <1>4 DEF Next

\* In a sound deployment the service, with its requests, clock, stores,
\* janitor and restarts, implements the abstract single-use challenge
\* (handler.go:200-438).
THEOREM Refinement == ASSUME SoundDeployment PROVE Spec => ImplementsSingleUse
<1> USE DEF Abstract!vars
<1>1. Init => Abstract!Init
  BY DEF Init, Abstract!Init
<1>2. TypeOK /\ TypeOK' /\ IInv /\ [Next]_vars => [Abstract!Next]_(Abstract!vars)
  <2> SUFFICES ASSUME TypeOK, TypeOK', IInv, [Next]_vars
               PROVE  [Abstract!Next]_(Abstract!vars)
    OBVIOUS
  <2> DEFINE Shut == {c \in issued: Closed(c)}
  <2>1. issued' = issued => Shut \subseteq Shut'
    BY ClosedForGood
  <2>2. issued' = issued /\ accepted' = accepted => [Abstract!Next]_(Abstract!vars)
    <3>1. ASSUME issued' = issued, accepted' = accepted
          PROVE  Abstract!Close(Shut')
      BY <2>1, <3>1 DEF Abstract!Close
    <3>2. issued' = issued => Shut' \in SUBSET issued
      OBVIOUS
    <3>3. QED
      BY <3>1, <3>2 DEF Abstract!Next
  <2>3. CASE Tick \/ Cleanup \/ Restart \/ UNCHANGED vars
    BY <2>3, <2>2 DEF Tick, Cleanup, Restart, vars, challenges, history
  <2>4. ASSUME NEW c \in Challenge, GetChallenge(c)
        PROVE  [Abstract!Next]_(Abstract!vars)
    <3> USE DEF GetChallenge, challenges, server, history, TypeOK
    <3>1. ~Closed(c)'
      BY <2>4, ClockAssumption DEF Closed
    <3>2. \A d \in issued: Closed(d)' = Closed(d)
      BY <2>4 DEF Closed
    <3>3. Shut' = Shut
      BY <2>4, <3>1, <3>2
    <3>4. Abstract!Issue(c)
      BY <2>4, <3>3 DEF Abstract!Issue
    <3>5. QED
      BY <3>4 DEF Abstract!Next
  <2>5. ASSUME NEW r \in Request, MarkUsedMemory(r) \/ MarkUsedRedis(r)
        PROVE  [Abstract!Next]_(Abstract!vars)
    <3>1. chal[r] \in issued /\ ~Closed(chal[r])
      BY <2>5, ScoredIsOpen DEF MarkUsedMemory, MarkUsedRedis
    <3>2. issued' = issued /\ Shut' = Shut
      BY <2>5 DEF MarkUsedMemory, MarkUsedRedis, server, challenges, Closed
    <3>3. CASE accepted' = accepted
      BY <2>2, <3>2, <3>3
    <3>4. CASE accepted' # accepted
      <4>1. accepted' = [accepted EXCEPT ![chal[r]] = @ + 1]
        BY <2>5, <3>4 DEF MarkUsedMemory, MarkUsedRedis, Accept, Replay, history
      <4>2. IInv'
        BY Inductive
      <4>3. chal[r] \in Challenge /\ accepted'[chal[r]] <= 1
        BY <4>2 DEF IInv, AtMostOnce, TypeOK
      <4>4. accepted[chal[r]] = 0
        BY <4>1, <4>3 DEF TypeOK
      <4>5. Abstract!Redeem(chal[r])
        BY <3>1, <3>2, <4>1, <4>4 DEF Abstract!Redeem
      <4>6. QED
        BY <4>3, <4>5 DEF Abstract!Next
    <3>5. QED
      BY <3>3, <3>4
  <2>6. ASSUME NEW r \in Request,
               Handle(r) \/ Receive(r) \/ Finish(r),
               ~(MarkUsedMemory(r) \/ MarkUsedRedis(r))
        PROVE  [Abstract!Next]_(Abstract!vars)
    <3>1. issued' = issued /\ accepted' = accepted
      BY <2>6 DEF Handle, Receive, Finish, CheckBody, RateLimit,
         CheckChallenge, CheckSolution, Evaluate, TightenLimiter, Blame, Block,
         MarkUsedFault, Credit, Succeed, challenges, history
    <3>2. QED
      BY <2>2, <3>1
  <2>7. QED
    BY <2>3, <2>4, <2>5, <2>6 DEF Next, Handle
<1>3. QED
  BY <1>1, <1>2, TypeCorrect, InvariantHolds, PTL
     DEF Spec, ImplementsSingleUse, Abstract!Spec

=============================================================================
