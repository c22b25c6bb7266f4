--------------------------- MODULE ChallengeService --------------------------
(***************************************************************************)
(* One round of a client: GET /api/challenge, the search of its worker and *)
(* POST /api/verify, each behind the in-memory rate limiter                *)
(* (ratelimit.go), while other clients load the service and an             *)
(* administrator changes the difficulty that every handler reads without a *)
(* lock (challenge.go:96-107, admin.go:468-487, handler.go:385-402).       *)
(*                                                                         *)
(* The signature, the nonce and the expiry are Verification's.  Digests    *)
(* stands for what SHA-256 may give; Lengths are those of "ID:Nonce:" with *)
(* the hexadecimal counters that the workers try.                          *)
(***************************************************************************)
EXTENDS ProofOfWork, FiniteSets

CONSTANTS
    Client,    \* clients, each with one round
    OriginsOf, \* where the requests of each client may seem to come from:
               \* X-Forwarded-For, X-Real-IP, and RemoteAddr with its port
    Absent,    \* a header that is not there
    Worker,    \* "web" or "sdk", for each client
    Burst,     \* tokens of a full bucket
    Setting,   \* difficulties that may be configured: base, min, max
    Digests,   \* digests, as sequences of bytes
    Lengths,   \* lengths of the messages that are hashed
    None       \* no bucket

\* extractIP: the key under which the limiter knows a request.
ExtractIP(o) ==
    IF o.forwarded # Absent THEN o.forwarded
    ELSE IF o.realIp # Absent THEN o.realIp ELSE o.remoteAddr

KeysOf == [c \in Client |-> {ExtractIP(o): o \in OriginsOf[c]}]
Key == UNION {KeysOf[c]: c \in Client}

\* A bucket is named for the request that made it.
Maker == Client \X {"challenge", "verify"}

AnySetting == [base: Int, min: Int, max: Int]

Sane(s) == s.min <= s.base /\ s.base <= s.max

ASSUME ServiceAssumption ==
    /\ IsFiniteSet(Client)
    /\ DOMAIN OriginsOf = Client
    /\ Worker \in [Client -> {"web", "sdk"}]
    /\ Burst \in Nat \ {0}
    /\ Setting \subseteq AnySetting
    /\ Lengths \subseteq Nat
    /\ \A n \in Lengths: Short32(n)
    /\ None \notin Maker

VARIABLES
    visitors,   \* the limiter's map: the bucket of each key
    tokens,     \* what each bucket holds
    config,     \* base, min and max difficulty
    writing,    \* what SetDifficulty has still to store, and to replace what
    load,       \* activeRequests
    at,         \* where each client is
    turn,       \* which of its two requests it makes
    key,        \* the key under which it comes
    bucket,     \* the bucket it was given
    difficulty, \* the difficulty that is computed for it, then its challenge's
    seen,       \* the digests the server may compute from its solution
    inForce     \* history: the settings in force since its handler began

vars == <<visitors, tokens, config, writing, load, at, turn, key, bucket,
          difficulty, seen, inForce>>
limiter == <<visitors, tokens, key, bucket>>
admin == <<config, writing>>

\* config.go:110 rejects a base that is out of range.
Init ==
    /\ visitors = [k \in Key |-> None]
    /\ tokens = [b \in Maker |-> Burst]
    /\ config \in {s \in Setting: Sane(s)}
    /\ writing = [left |-> 0, to |-> config, from |-> config]
    /\ load = 0
    /\ at = [c \in Client |-> "look"]
    /\ turn = [c \in Client |-> "challenge"]
    /\ key = [c \in Client |-> Absent]
    /\ bucket = [c \in Client |-> None]
    /\ difficulty = [c \in Client |-> 0]
    /\ seen = [c \in Client |-> {}]
    /\ inForce = [c \in Client |-> {}]

Goto(c, from, to) == at[c] = from /\ at' = [at EXCEPT ![c] = to]

-----------------------------------------------------------------------------
(* The rate limiter *)

Me(c) == <<c, turn[c]>>

Look_Trusting(c) ==
    /\ Goto(c, "look", "allow")
    /\ \E k \in KeysOf[c]:
        /\ key' = [key EXCEPT ![c] = k]
        /\ bucket' = [bucket EXCEPT ![c] = visitors[k]]
    /\ UNCHANGED <<visitors, tokens, admin, load, turn, difficulty, seen, inForce>>

\* The request comes, and GetLimiter looks under the read lock.
Look(c) ==
    /\ \E k \in KeysOf[c]:
        /\ Goto(c, "look", IF visitors[k] = None THEN "create" ELSE "allow")
        /\ key' = [key EXCEPT ![c] = k]
        /\ bucket' = [bucket EXCEPT ![c] = visitors[k]]
    /\ UNCHANGED <<visitors, tokens, admin, load, turn, difficulty, seen, inForce>>

Create_Unchecked(c) ==
    /\ Goto(c, "create", "allow")
    /\ visitors' = [visitors EXCEPT ![key[c]] = Me(c)]
    /\ tokens' = [tokens EXCEPT ![Me(c)] = Burst]
    /\ bucket' = [bucket EXCEPT ![c] = Me(c)]
    /\ UNCHANGED <<key, admin, load, turn, difficulty, seen, inForce>>

\* GetLimiter under the write lock, with its second look.
Create(c) ==
    /\ Goto(c, "create", "allow")
    /\ IF visitors[key[c]] # None
       THEN /\ bucket' = [bucket EXCEPT ![c] = visitors[key[c]]]
            /\ UNCHANGED <<visitors, tokens>>
       ELSE /\ visitors' = [visitors EXCEPT ![key[c]] = Me(c)]
            /\ tokens' = [tokens EXCEPT ![Me(c)] = Burst]
            /\ bucket' = [bucket EXCEPT ![c] = Me(c)]
    /\ UNCHANGED <<key, admin, load, turn, difficulty, seen, inForce>>

Allow(c) ==
    /\ Goto(c, "allow", IF turn[c] = "challenge" THEN "enter" ELSE "verify")
    /\ tokens[bucket[c]] > 0
    /\ tokens' = [tokens EXCEPT ![bucket[c]] = @ - 1]
    /\ UNCHANGED <<visitors, key, bucket, admin, load, turn, difficulty, seen, inForce>>

\* 429; the client gives up.
Limited(c) ==
    /\ Goto(c, "allow", "limited")
    /\ tokens[bucket[c]] = 0
    /\ UNCHANGED <<limiter, admin, load, turn, difficulty, seen, inForce>>

\* golang.org/x/time/rate: a token comes back with time.
Refill(k) ==
    /\ visitors[k] # None /\ tokens[visitors[k]] < Burst
    /\ tokens' = [tokens EXCEPT ![visitors[k]] = @ + 1]
    /\ UNCHANGED <<visitors, key, bucket, admin, load, at, turn, difficulty, seen, inForce>>

-----------------------------------------------------------------------------
(* The difficulty *)

\* Round(base + Log2(n)) - base: how many of the k - 1/2 are at most Log2(n).
Log2Rounded(n) == Cardinality({k \in 1..n: 2 ^ (2 * k - 1) <= n * n})

InForce == IF writing.left > 0 THEN {writing.from, writing.to} ELSE {config}

\* GetChallenge: IncrementLoad.
Enter(c) ==
    /\ Goto(c, "enter", "load")
    /\ load' = load + 1
    /\ inForce' = [inForce EXCEPT ![c] = InForce]
    /\ UNCHANGED <<limiter, admin, turn, difficulty, seen>>

Fail_KeepsLoad(c) ==
    /\ Goto(c, "load", "failed")
    /\ UNCHANGED <<load, limiter, admin, turn, difficulty, seen, inForce>>

\* rand.Read fails, which is the answer.
Fail(c) ==
    /\ Goto(c, "load", "abort")
    /\ UNCHANGED <<limiter, admin, load, turn, difficulty, seen, inForce>>

\* computeDifficulty, one read of the shared configuration after the other.
ReadLoad(c) ==
    /\ Goto(c, "load", "base")
    /\ difficulty' = [difficulty EXCEPT ![c] = Log2Rounded(load + 1)]
    /\ UNCHANGED <<limiter, admin, load, turn, seen, inForce>>

ReadBase(c) ==
    /\ Goto(c, "base", "min")
    /\ difficulty' = [difficulty EXCEPT ![c] = config.base + @]
    /\ UNCHANGED <<limiter, admin, load, turn, seen, inForce>>

ReadMin(c) ==
    /\ Goto(c, "min", IF difficulty[c] < config.min THEN "raise" ELSE "max")
    /\ UNCHANGED <<limiter, admin, load, turn, difficulty, seen, inForce>>

Raise(c) ==
    /\ Goto(c, "raise", "max")
    /\ difficulty' = [difficulty EXCEPT ![c] = config.min]
    /\ UNCHANGED <<limiter, admin, load, turn, seen, inForce>>

ReadMax(c) ==
    /\ Goto(c, "max", IF difficulty[c] > config.max THEN "lower" ELSE "settled")
    /\ UNCHANGED <<limiter, admin, load, turn, difficulty, seen, inForce>>

Lower(c) ==
    /\ Goto(c, "lower", "settled")
    /\ difficulty' = [difficulty EXCEPT ![c] = config.max]
    /\ UNCHANGED <<limiter, admin, load, turn, seen, inForce>>

\* The challenge is written.
Issue(c) ==
    /\ turn[c] = "challenge"
    /\ Goto(c, "settled", "leave")
    /\ UNCHANGED <<limiter, admin, load, turn, difficulty, seen, inForce>>

\* Deferred by GetChallenge; so short an answer is sent when it has returned.
DecrementLoad(c) ==
    /\ Goto(c, "leave", "search") \/ Goto(c, "abort", "failed")
    /\ load' = load - 1
    /\ inForce' = [inForce EXCEPT ![c] = {}]
    /\ UNCHANGED <<limiter, admin, turn, difficulty, seen>>

SetDifficulty_Unchecked(s) ==
    /\ writing.left = 0 /\ s # config
    /\ writing' = [left |-> 3, to |-> s, from |-> config]
    /\ inForce' = [c \in Client |->
                     IF inForce[c] = {} THEN {} ELSE inForce[c] \cup {s}]
    /\ UNCHANGED <<limiter, config, load, at, turn, difficulty, seen>>

\* SetDifficulty checks the request, stores three integers and answers.  One
\* administrator at a time: two at once may leave a mixture of their settings.
SetDifficulty(s) ==
    /\ writing.left = 0 /\ s # config
    /\ Sane(s)
    /\ writing' = [left |-> 3, to |-> s, from |-> config]
    /\ inForce' = [c \in Client |->
                     IF inForce[c] = {} THEN {} ELSE inForce[c] \cup {s}]
    /\ UNCHANGED <<limiter, config, load, at, turn, difficulty, seen>>

Store ==
    /\ writing.left > 0
    /\ config' = [base |-> IF writing.left = 3 THEN writing.to.base ELSE config.base,
                  min |-> IF writing.left = 2 THEN writing.to.min ELSE config.min,
                  max |-> IF writing.left = 1 THEN writing.to.max ELSE config.max]
    /\ writing' = IF writing.left > 1 THEN [writing EXCEPT !.left = @ - 1]
                  ELSE [left |-> 0, to |-> config', from |-> config']
    /\ UNCHANGED <<limiter, load, at, turn, difficulty, seen, inForce>>

-----------------------------------------------------------------------------
(* The proof of work *)

\* Whether a worker hashes the blocks that the server hashes.
SameBlocks ==
    [worker \in {"web", "sdk"} |->
        [n \in Lengths |->
            (IF worker = "web" THEN WebPad(n) ELSE SdkPad(n)) = Sha256Pad(n)]]

Meets(worker, digest, bits) ==
    IF worker = "web" THEN ZeroBytes(digest, bits) ELSE ZeroNibbles(digest, bits)

\* The worker counts until a digest meets the difficulty.
Search(c) ==
    /\ Goto(c, "search", "look")
    /\ turn' = [turn EXCEPT ![c] = "verify"]
    /\ \E n \in Lengths, h \in Digests:
        /\ Meets(Worker[c], h, difficulty[c])
        /\ seen' = [seen EXCEPT ![c] =
                      IF SameBlocks[Worker[c]][n] THEN {h} ELSE Digests]
    /\ UNCHANGED <<limiter, admin, load, difficulty, inForce>>

\* The SDK's worker stops after a hundred million attempts.
GiveUp(c) ==
    /\ Worker[c] = "sdk"
    /\ Goto(c, "search", "failed")
    /\ UNCHANGED <<limiter, admin, load, turn, difficulty, seen, inForce>>

VerifyPoW_Live(c) ==
    /\ \E h \in seen[c]:
        Goto(c, "verify", IF ZeroBytes(h, config.base) THEN "spend" ELSE "pow_fail")
    /\ seen' = [seen EXCEPT ![c] = {}]
    /\ UNCHANGED <<limiter, admin, load, turn, difficulty, inForce>>

\* VerifyPoW, against the difficulty that the challenge was signed with.
VerifyPoW(c) ==
    /\ \E h \in seen[c]:
        Goto(c, "verify", IF ZeroBytes(h, difficulty[c]) THEN "spend" ELSE "pow_fail")
    /\ seen' = [seen EXCEPT ![c] = {}]
    /\ UNCHANGED <<limiter, admin, load, turn, difficulty, inForce>>

\* The risk engine asks for nothing, or the request is refused after all.
Conclude(c) ==
    /\ Goto(c, "spend", "done")
    /\ UNCHANGED <<limiter, admin, load, turn, difficulty, seen, inForce>>

\* It asks for a review or an escalation: the answer advises a difficulty of
\* base + 1 or base + 2, at most max.
Advise(c) ==
    /\ Goto(c, "spend", "max")
    /\ \E extra \in 1..2: difficulty' = [difficulty EXCEPT ![c] = config.base + extra]
    /\ inForce' = [inForce EXCEPT ![c] = InForce]
    /\ UNCHANGED <<limiter, admin, load, turn, seen>>

Answer(c) ==
    /\ turn[c] = "verify"
    /\ Goto(c, "settled", "done")
    /\ inForce' = [inForce EXCEPT ![c] = {}]
    /\ UNCHANGED <<limiter, admin, load, turn, difficulty, seen>>

GetLimiter(c) == Look(c) \/ Create(c)

ComputeDifficulty(c) ==
    ReadLoad(c) \/ ReadBase(c) \/ ReadMin(c) \/ Raise(c) \/ ReadMax(c) \/ Lower(c)

Next ==
    \/ \E c \in Client:
        \/ GetLimiter(c) \/ Allow(c) \/ Limited(c)
        \/ Enter(c) \/ Fail(c) \/ ComputeDifficulty(c) \/ Issue(c) \/ DecrementLoad(c)
        \/ Search(c) \/ GiveUp(c)
        \/ VerifyPoW(c) \/ Conclude(c) \/ Advise(c) \/ Answer(c)
    \/ \E k \in Key: Refill(k)
    \/ \E s \in Setting: SetDifficulty(s)
    \/ Store

Spec == Init /\ [][Next]_vars

-----------------------------------------------------------------------------
(* What is claimed *)

\* Where the load counts a client; "max" to "settled" serve the advice as well.
Inside == {"load", "base", "min", "raise", "max", "lower", "settled", "leave", "abort"}

TypeOK ==
    /\ visitors \in [Key -> Maker \cup {None}]
    /\ tokens \in [Maker -> 0..Burst]
    /\ config \in AnySetting
    /\ writing \in [left: 0..3, to: AnySetting, from: AnySetting]
    /\ load \in Int
    /\ at \in [Client -> Inside \cup {"look", "create", "allow", "limited", "enter",
                 "failed", "search", "verify", "pow_fail", "spend", "done"}]
    /\ turn \in [Client -> {"challenge", "verify"}]
    /\ key \in [Client -> Key \cup {Absent}]
    /\ bucket \in [Client -> Maker \cup {None}]
    /\ \A c \in Client:
        /\ at[c] = "allow" => bucket[c] # None
        /\ at[c] \in {"create", "allow"} => key[c] \in KeysOf[c]
    /\ difficulty \in [Client -> Int]

\* All requests of a key share one bucket, however many meet in GetLimiter
\* before the key has one (ratelimit.go:25-69): the limiter implements
\* TokenBucket.  A key is not an address: without a proxy's header it names
\* the port of the connection as well.
Served(c) == (IF turn[c] = "verify" \/ at[c] \in Inside \cup {"enter", "search", "failed"}
              THEN 1 ELSE 0)
             + (IF turn[c] = "verify" /\ at[c] \notin {"look", "create", "allow", "limited"}
                THEN 1 ELSE 0)

Bucket == INSTANCE TokenBucket WITH
    tokens <- [k \in Key |-> IF visitors[k] = None THEN Burst ELSE tokens[visitors[k]]],
    passed <- [c \in Client |-> Served(c)]

ImplementsTokenBucket == Bucket!Spec

\* A difficulty that leaves the server lies between a minimum and a maximum
\* that were in force while its handler ran, though perhaps not in the same
\* setting, although base, min and max are read, and stored by SetDifficulty,
\* one by one; an advised one is at most such a maximum.  Administrators make
\* their changes one after another (challenge.go:96-107, handler.go:385-402,
\* admin.go:468-487).
DifficultyInForce ==
    \A c \in Client: at[c] = "settled" =>
        /\ \E s \in inForce[c]: difficulty[c] <= s.max
        /\ turn[c] = "challenge" => \E s \in inForce[c]: s.min <= difficulty[c]

\* The load is the number of clients that are in GetChallenge; what fails does
\* not go on raising everybody's difficulty (handler.go:134-135).
LoadIsInside ==
    load = Cardinality({c \in Client: turn[c] = "challenge" /\ at[c] \in Inside})

\* The server accepts what a worker has found, whatever the difficulty has
\* become meanwhile (worker.js:1-20, pow-worker.ts:69-88, challenge.go:82-86).
WebSolutionAccepted == \A c \in Client: Worker[c] = "web" => at[c] # "pow_fail"
SdkSolutionAccepted == \A c \in Client: Worker[c] = "sdk" => at[c] # "pow_fail"

=============================================================================
