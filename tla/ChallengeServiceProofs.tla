------------------------ MODULE ChallengeServiceProofs -----------------------
(***************************************************************************)
(* For any number of clients, keys and tokens, for all settings and        *)
(* digests: the limiter is one token bucket per key, difficulties lie      *)
(* between bounds that were in force, the load settles, and what the       *)
(* legacy page's worker finds is accepted.  Messages of less than 512 MB the web  *)
(* worker pads as SHA-256 does, and the SDK's worker none but the empty    *)
(* one; for every digest counting by bytes and by nibbles agree.           *)
(***************************************************************************)
EXTENDS ChallengeService, FiniteSetTheorems, TLAPS

-----------------------------------------------------------------------------
(* The arithmetic of the proof of work *)

\* The least multiple of 64 that leaves room for nine more bytes.
LEMMA BlocksValue ==
    ASSUME NEW n \in Nat
    PROVE  /\ Blocks(n) = ((n + 8) \div 64) * 64 + 64
           /\ Blocks(n) \in (n + 9)..(n + 72)
<1> DEFINE P == ((n + 8) \div 64) * 64 + 64
<1>1. P \in (n + 9)..(n + 72) /\ P % 64 = 0
  OBVIOUS
<1>2. ASSUME NEW p \in (n + 9)..(n + 72), p % 64 = 0
      PROVE  p = P
  BY <1>2
<1> QED
  BY <1>1, <1>2 DEF Blocks

\* The upper half of such a length is zero.
LEMMA UpperHalf ==
    ASSUME NEW n \in Nat, Short32(n), NEW k \in 4..7
    PROVE  LengthByte(n, k) = 0
<1>1. n \div 536870912 = 0
  BY DEF Short32
<1>2. \A j \in 0..3: Byte(0, j) = 0
  <2>1. /\ Byte(0, 0) = (0 \div 1) % 256 /\ Byte(0, 1) = (0 \div 256) % 256
        /\ Byte(0, 2) = (0 \div 65536) % 256 /\ Byte(0, 3) = (0 \div 16777216) % 256
    BY DEF Byte
  <2> QED
    BY <2>1
<1>3. k - 4 \in 0..3 /\ ~(k < 4)
  OBVIOUS
<1> QED
  BY <1>1, <1>2, <1>3 DEF LengthByte

\* The blocks that worker.js hashes of a message shorter than 2^32 bits are those
\* of SHA-256 (worker.js:41-48).
THEOREM WebPadding == \A n \in Nat: Short32(n) => WebPad(n) = Sha256Pad(n)
<1> SUFFICES ASSUME NEW n \in Nat, Short32(n)
             PROVE  WebPad(n) = Sha256Pad(n)
  OBVIOUS
<1> DEFINE B == Blocks(n)
<1>1. B = ((n + 8) \div 64) * 64 + 64 /\ B \in Int /\ B >= n + 9
  BY BlocksValue
<1>2. WebPad(n) = [i \in 0..(B - 1) |->
            IF i >= B - 4 THEN Byte(8 * n, B - 1 - i)
            ELSE IF i = n THEN 128
            ELSE IF i < n THEN -1 ELSE 0]
  BY <1>1 DEF WebPad
<1>3. ASSUME NEW i \in 0..(B - 1)
      PROVE  (IF i >= B - 4 THEN Byte(8 * n, B - 1 - i)
              ELSE IF i = n THEN 128
              ELSE IF i < n THEN -1 ELSE 0)
             = (IF i < n THEN -1
                ELSE IF i = n THEN 128
                ELSE IF i < B - 8 THEN 0
                ELSE LengthByte(n, B - 1 - i))
  <2> HIDE DEF B
  <2>1. i >= B - 4 => LengthByte(n, B - 1 - i) = Byte(8 * n, B - 1 - i)
    BY <1>1 DEF LengthByte
  <2>2. i < B - 4 /\ ~(i < B - 8) => LengthByte(n, B - 1 - i) = 0
    <3>1. i < B - 4 /\ ~(i < B - 8) => B - 1 - i \in 4..7
      BY <1>1
    <3> QED
      BY <3>1, UpperHalf
  <2> QED
    BY <1>1, <2>1, <2>2
<1> QED
  BY <1>2, <1>3 DEF Sha256Pad

\* Of the messages shorter than 2^32 bits the SDK's worker pads only the empty one
\* as SHA-256 does: where the eight bytes of the length begin, it repeats the lower
\* four (pow-worker.ts:18-25).
THEOREM SdkPadding ==
    \A n \in Nat: n > 0 /\ Short32(n) => SdkPad(n) # Sha256Pad(n)
<1> SUFFICES ASSUME NEW n \in Nat, n > 0, Short32(n)
             PROVE  SdkPad(n) # Sha256Pad(n)
  OBVIOUS
<1> DEFINE zeros == CHOOSE z \in 0..63 : (n + 1 + z) % 64 = 56
           bytes == n + 1 + zeros
           B == Blocks(n)
<1>1. zeros \in 0..63 /\ bytes % 64 = 56
  <2> DEFINE Z == IF n % 64 <= 55 THEN 55 - (n % 64) ELSE 119 - (n % 64)
  <2>1. Z \in 0..63 /\ (n + 1 + Z) % 64 = 56
    OBVIOUS
  <2> QED
    BY <2>1
<1>2. n \in Nat /\ n > 0
  OBVIOUS
<1>3. /\ bytes \in Nat /\ n < bytes
      /\ bytes + 8 \in (n + 9)..(n + 72)
      /\ (bytes + 8) % 64 = 0
  <2> HIDE DEF zeros
  <2> QED
    BY <1>1, <1>2
<1>4. B = bytes + 8
  <2>1. B \in (n + 9)..(n + 72) /\ B % 64 = 0
    BY <1>2, BlocksValue
  <2> HIDE DEF B, bytes
  <2> QED
    BY <1>2, <1>3, <2>1
<1>5. ASSUME NEW k \in 0..3
      PROVE  SdkPad(n)[bytes + 3 - k] = Byte(8 * n, k)
  <2>1. SdkPad(n) = [i \in 0..(bytes + 7) |->
            IF i < n THEN -1
            ELSE IF i = n THEN 128
            ELSE IF i < bytes THEN 0
            ELSE Byte(8 * n, (bytes + 7 - i) % 4)]
    BY DEF SdkPad
  <2> HIDE DEF bytes
  <2> DEFINE i == bytes + 3 - k
  <2>2. i \in 0..(bytes + 7) /\ ~(i < n) /\ i # n /\ ~(i < bytes) /\ (bytes + 7 - i) % 4 = k
    BY <1>2, <1>3
  <2> HIDE DEF i
  <2>3. SdkPad(n)[i] = Byte(8 * n, k)
    BY <2>1, <2>2
  <2> QED
    BY <2>3 DEF i
<1>6. ASSUME NEW k \in 0..3
      PROVE  Sha256Pad(n)[bytes + 3 - k] = 0
  <2> HIDE DEF bytes
  <2> DEFINE i == bytes + 3 - k
  <2>1. /\ i \in 0..(B - 1) /\ ~(i < n) /\ i # n /\ ~(i < B - 8)
        /\ B - 1 - i = 4 + k /\ 4 + k \in 4..7
    BY <1>2, <1>3, <1>4
  <2> HIDE DEF i
  <2>2. Sha256Pad(n)[i] = LengthByte(n, 4 + k)
    BY <2>1 DEF Sha256Pad
  <2>3. LengthByte(n, 4 + k) = 0
    BY <2>1, UpperHalf
  <2> QED
    BY <2>2, <2>3 DEF i
\* The length in bits is neither zero nor too great for four bytes.
<1>7. \E k \in 0..3: Byte(8 * n, k) # 0
  <2>1. /\ Byte(8 * n, 0) = (8 * n) % 256
        /\ Byte(8 * n, 1) = ((8 * n) \div 256) % 256
        /\ Byte(8 * n, 2) = ((8 * n) \div 65536) % 256
        /\ Byte(8 * n, 3) = ((8 * n) \div 16777216) % 256
    BY <1>2, SMT DEF Byte
  <2>2. \/ (8 * n) % 256 # 0
        \/ ((8 * n) \div 256) % 256 # 0
        \/ ((8 * n) \div 65536) % 256 # 0
        \/ ((8 * n) \div 16777216) % 256 # 0
    BY SMT DEF Short32
  <2> QED
    BY <2>1, <2>2
<1> QED
  BY <1>5, <1>6, <1>7

\* The masks, one by one, and what the top bits of a byte say of its nibbles.
LEMMA ByteMasks ==
    ASSUME NEW b
    PROVE  /\ TopBits(b, 1) = b \div 128 /\ TopBits(b, 2) = b \div 64
           /\ TopBits(b, 3) = b \div 32 /\ TopBits(b, 4) = b \div 16
           /\ TopBits(b, 5) = b \div 8 /\ TopBits(b, 6) = b \div 4
           /\ TopBits(b, 7) = b \div 2
  BY DEF TopBits

LEMMA NibbleMasks ==
    ASSUME NEW x
    PROVE  /\ TopNibble(x, 1) = x \div 8 /\ TopNibble(x, 2) = x \div 4
           /\ TopNibble(x, 3) = x \div 2
  BY DEF TopNibble

LEMMA UpperBits ==
    ASSUME NEW b \in 0..255, NEW r \in 1..3
    PROVE  TopNibble(b \div 16, r) = 0 <=> TopBits(b, r) = 0
<1>1. CASE r = 1
  <2>1. (b \div 16) \div 8 = 0 <=> b \div 128 = 0
    OBVIOUS
  <2> QED
    BY <1>1, <2>1, ByteMasks, NibbleMasks
<1>2. CASE r = 2
  <2>1. (b \div 16) \div 4 = 0 <=> b \div 64 = 0
    OBVIOUS
  <2> QED
    BY <1>2, <2>1, ByteMasks, NibbleMasks
<1>3. CASE r = 3
  <2>1. (b \div 16) \div 2 = 0 <=> b \div 32 = 0
    OBVIOUS
  <2> QED
    BY <1>3, <2>1, ByteMasks, NibbleMasks
<1> QED
  BY <1>1, <1>2, <1>3

LEMMA LowerBits ==
    ASSUME NEW b \in 0..255, NEW q \in 0..3
    PROVE  b \div 16 = 0 /\ (q > 0 => TopNibble(b % 16, q) = 0)
             <=> TopBits(b, q + 4) = 0
<1>1. CASE q = 0
  BY <1>1, ByteMasks
<1>2. CASE q = 1
  <2>1. b \div 16 = 0 /\ (b % 16) \div 8 = 0 <=> b \div 8 = 0
    OBVIOUS
  <2> QED
    BY <1>2, <2>1, ByteMasks, NibbleMasks
<1>3. CASE q = 2
  <2>1. b \div 16 = 0 /\ (b % 16) \div 4 = 0 <=> b \div 4 = 0
    OBVIOUS
  <2> QED
    BY <1>3, <2>1, ByteMasks, NibbleMasks
<1>4. CASE q = 3
  <2>1. b \div 16 = 0 /\ (b % 16) \div 2 = 0 <=> b \div 2 = 0
    OBVIOUS
  <2> QED
    BY <1>4, <2>1, ByteMasks, NibbleMasks
<1> QED
  BY <1>1, <1>2, <1>3, <1>4

LEMMA ElementOf ==
    ASSUME NEW S, NEW s \in Seq(S), NEW i \in 1..Len(s)
    PROVE  s[i] \in S
  OBVIOUS

\* Counting leading zeros by bytes and by hexadecimal digits is the same
\* (challenge.go:118-136, pow-worker.ts:55-67).
THEOREM ZerosAgree ==
    \A digest \in Seq(0..255), bits \in Int:
        bits <= 8 * Len(digest) =>
            (ZeroNibbles(digest, bits) <=> ZeroBytes(digest, bits))
<1> SUFFICES ASSUME NEW digest \in Seq(0..255), NEW bits \in Int, bits > 0,
                    bits <= 8 * Len(digest)
             PROVE  ZeroNibbles(digest, bits) <=> ZeroBytes(digest, bits)
  BY DEF ZeroNibbles, ZeroBytes
<1> DEFINE F == bits \div 8
           r == bits % 8
           N == bits \div 4
           q == bits % 4
           full == \A i \in 1..F: digest[i] = 0
<1>1. /\ F \in Nat /\ r \in 0..7 /\ q \in 0..3 /\ N \in Nat
      /\ \/ r <= 3 /\ q = r /\ N = 2 * F
         \/ r >= 4 /\ q = r - 4 /\ N = 2 * F + 1
      /\ F <= Len(digest) /\ (r > 0 => F + 1 <= Len(digest))
  OBVIOUS
<1> HIDE DEF F, r, N, q
<1>2. \A i \in 1..Len(digest): digest[i] \in 0..255
  BY ElementOf
<1>3. \A i \in Nat: Nibble(digest, 2 * i + 1) = digest[i + 1] \div 16
  BY DEF Nibble
<1>4. \A i \in Nat: Nibble(digest, 2 * i + 2) = digest[i + 1] % 16
  BY DEF Nibble
<1>5. (\A i \in 1..(2 * F): Nibble(digest, i) = 0) <=> full
  <2>1. ASSUME \A i \in 1..(2 * F): Nibble(digest, i) = 0, NEW j \in 1..F
        PROVE  digest[j] = 0
    <3>1. 2 * (j - 1) + 1 \in 1..(2 * F) /\ 2 * (j - 1) + 2 \in 1..(2 * F)
      BY <1>1
    <3>2. j - 1 \in Nat /\ (j - 1) + 1 = j
      BY <1>1
    <3>3. digest[j] \div 16 = 0 /\ digest[j] % 16 = 0
      BY <2>1, <3>1, <3>2, <1>3, <1>4
    <3>4. digest[j] \in 0..255
      BY <1>1, <1>2
    <3> DEFINE d == digest[j]
    <3> HIDE DEF d
    <3>5. d \in 0..255 /\ d \div 16 = 0 /\ d % 16 = 0 => d = 0
      OBVIOUS
    <3> QED
      BY <3>3, <3>4, <3>5 DEF d
  <2>2. ASSUME full, NEW i \in 1..(2 * F)
        PROVE  Nibble(digest, i) = 0
    <3>1. PICK k \in Nat: i = 2 * k + 1 \/ i = 2 * k + 2
      <4>1. CASE i % 2 = 1
        <5>1. (i - 1) \div 2 \in Nat /\ i = 2 * ((i - 1) \div 2) + 1
          BY <1>1, <4>1
        <5> QED
          BY <5>1
      <4>2. CASE i % 2 = 0
        <5>1. (i - 2) \div 2 \in Nat /\ i = 2 * ((i - 2) \div 2) + 2
          BY <1>1, <4>2
        <5> QED
          BY <5>1
      <4> QED
        BY <1>1, <4>1, <4>2
    <3>2. k + 1 \in 1..F
      BY <1>1, <3>1
    <3>3. digest[k + 1] = 0
      BY <2>2, <3>2
    <3>4. Nibble(digest, 2 * k + 1) = 0 \div 16 /\ Nibble(digest, 2 * k + 2) = 0 % 16
      BY <1>3, <1>4, <3>3
    <3>5. 0 \div 16 = 0 /\ 0 % 16 = 0
      OBVIOUS
    <3> QED
      BY <3>1, <3>4, <3>5
  <2> QED
    BY <2>1, <2>2
<1> DEFINE b == digest[F + 1]
<1>6. r > 0 => b \in 0..255
  BY <1>1, <1>2
<1> HIDE DEF b, full
<1>7. ZeroBytes(digest, bits) <=> full /\ (r > 0 => TopBits(b, r) = 0)
  BY DEF ZeroBytes, F, r, b, full
<1>8. ZeroNibbles(digest, bits)
      <=> /\ \A i \in 1..N: Nibble(digest, i) = 0
          /\ q > 0 => TopNibble(Nibble(digest, N + 1), q) = 0
  BY DEF ZeroNibbles, N, q
<1>9. CASE r <= 3
  <2>1. N = 2 * F /\ q = r /\ (r > 0 => r \in 1..3)
    BY <1>1, <1>9
  <2>2. Nibble(digest, N + 1) = b \div 16
    BY <1>1, <1>3, <2>1 DEF b
  <2>3. r > 0 => (TopNibble(b \div 16, r) = 0 <=> TopBits(b, r) = 0)
    BY <1>6, <2>1, UpperBits
  <2> QED
    BY <1>5, <1>7, <1>8, <2>1, <2>2, <2>3
<1>10. CASE r >= 4
  <2>1. N = 2 * F + 1 /\ q = r - 4 /\ r = q + 4 /\ r > 0
    BY <1>1, <1>10
  <2>2. Nibble(digest, N) = b \div 16 /\ Nibble(digest, N + 1) = b % 16
    BY <1>1, <1>3, <1>4, <2>1 DEF b
  <2>3. (\A i \in 1..N: Nibble(digest, i) = 0) <=> full /\ b \div 16 = 0
    <3>1. /\ N \in 1..N
          /\ \A i \in 1..N: i \in 1..(2 * F) \/ i = N
          /\ \A i \in 1..(2 * F): i \in 1..N
      BY <1>1, <2>1
    <3> QED
      BY <3>1, <1>5, <2>2
  <2>4. b \div 16 = 0 /\ (q > 0 => TopNibble(b % 16, q) = 0) <=> TopBits(b, r) = 0
    BY <1>1, <1>6, <2>1, LowerBits
  <2> QED
    BY <1>7, <1>8, <2>1, <2>2, <2>3, <2>4
<1> QED
  BY <1>1, <1>9, <1>10

-----------------------------------------------------------------------------
(* Types *)

LEMMA Log2IsNat == \A n \in Int: Log2Rounded(n) \in Nat
<1> SUFFICES ASSUME NEW n \in Int
             PROVE  Log2Rounded(n) \in Nat
  OBVIOUS
<1>1. IsFiniteSet(1..n)
  BY FS_Interval
<1>2. IsFiniteSet({k \in 1..n: 2 ^ (2 * k - 1) <= n * n})
  BY <1>1, FS_Subset
<1> QED
  BY <1>2, FS_CardinalityType DEF Log2Rounded

\* Which stages belong to which of the two requests.
Shared == {"look", "create", "allow", "limited"}

Phases ==
    \A c \in Client:
        /\ turn[c] = "challenge" =>
               at[c] \in Shared \cup Inside \cup {"enter", "failed", "search"}
        /\ turn[c] = "verify" =>
               at[c] \in Shared \cup {"verify", "pow_fail", "spend", "max", "lower",
                                      "settled", "done"}

Types == TypeOK /\ Phases

\* A setting that is put together from three integers.
LEMMA Fields ==
    /\ \A s \in AnySetting: s.base \in Int /\ s.min \in Int /\ s.max \in Int
    /\ \A x, y, z \in Int: [base |-> x, min |-> y, max |-> z] \in AnySetting
  BY DEF AnySetting

LEMMA TypesInit == Init => Types
<1> SUFFICES ASSUME Init
             PROVE  Types
  OBVIOUS
<1>1. config \in AnySetting /\ writing \in [left: 0..3, to: AnySetting, from: AnySetting]
  BY ServiceAssumption DEF Init
<1>2. tokens \in [Maker -> 0..Burst]
  BY ServiceAssumption DEF Init
<1> QED
  BY <1>1, <1>2 DEF Init, Types, TypeOK, Phases, Shared, Inside

LEMMA KeysAreKeys == \A c \in Client: \A k \in KeysOf[c]: k \in Key
  BY DEF KeysOf, Key

\* What TypeOK says of a request that is in GetLimiter or past it.
LEMMA Keyed ==
    Types => \A c \in Client:
        /\ at[c] = "allow" => bucket[c] # None /\ bucket[c] \in Maker
        /\ at[c] \in {"create", "allow"} => key[c] \in KeysOf[c] /\ key[c] \in Key
<1> SUFFICES ASSUME Types, NEW c \in Client
             PROVE  /\ at[c] = "allow" => bucket[c] # None /\ bucket[c] \in Maker
                    /\ at[c] \in {"create", "allow"} => key[c] \in KeysOf[c] /\ key[c] \in Key
  OBVIOUS
<1>1. bucket[c] \in Maker \cup {None}
  BY DEF Types, TypeOK
<1>2. /\ at[c] = "allow" => bucket[c] # None
      /\ at[c] \in {"create", "allow"} => key[c] \in KeysOf[c]
  BY DEF Types, TypeOK
<1> QED
  BY <1>1, <1>2, KeysAreKeys

\* What the steps of the limiter leave alone.
Outside ==
    UNCHANGED <<config, writing, load, turn, difficulty>>

\* A step of the limiter keeps the types when these parts of it do.
LEMMA LimiterParts ==
    ASSUME Types, NEW c \in Client, Outside,
           NEW to \in Shared \cup {"enter", "verify"},
           at' = [at EXCEPT ![c] = to],
           to = "enter" => turn[c] = "challenge",
           to = "verify" => turn[c] = "verify",
           to = "allow" => bucket'[c] # None,
           to \in {"create", "allow"} => key'[c] \in KeysOf[c],
           \A d \in Client: d # c => key'[d] = key[d] /\ bucket'[d] = bucket[d],
           visitors' \in [Key -> Maker \cup {None}],
           tokens' \in [Maker -> 0..Burst],
           key' \in [Client -> Key \cup {Absent}],
           bucket' \in [Client -> Maker \cup {None}]
    PROVE  Types'
<1>1. at'[c] = to /\ \A d \in Client: d # c => at'[d] = at[d]
  BY DEF Types, TypeOK
<1>2. at' \in [Client -> Inside \cup {"look", "create", "allow", "limited", "enter",
                   "failed", "search", "verify", "pow_fail", "spend", "done"}]
  BY DEF Types, TypeOK, Shared
<1>3. Phases'
  BY <1>1 DEF Types, Phases, Shared, Outside
<1>4. \A d \in Client:
        /\ at'[d] = "allow" => bucket'[d] # None
        /\ at'[d] \in {"create", "allow"} => key'[d] \in KeysOf[d]
  BY <1>1 DEF Types, TypeOK
<1> QED
  BY <1>2, <1>3, <1>4 DEF Types, TypeOK, Outside

LEMMA TypesLimiter ==
    ASSUME Types, NEW c \in Client, GetLimiter(c) \/ Allow(c) \/ Limited(c)
    PROVE  Types'
<1>1. CASE Look(c)
  <2>1. PICK k \in KeysOf[c]:
          /\ at' = [at EXCEPT ![c] = IF visitors[k] = None THEN "create" ELSE "allow"]
          /\ key' = [key EXCEPT ![c] = k]
          /\ bucket' = [bucket EXCEPT ![c] = visitors[k]]
    BY <1>1 DEF Look, Goto
  <2> DEFINE to == IF visitors[k] = None THEN "create" ELSE "allow"
  <2>2. k \in Key
    BY DEF Key, KeysOf
  <2>3. visitors[k] \in Maker \cup {None}
    BY <2>2 DEF Types, TypeOK
  <2>4. key' \in [Client -> Key \cup {Absent}] /\ key'[c] = k
        /\ bucket' \in [Client -> Maker \cup {None}] /\ bucket'[c] = visitors[k]
        /\ \A d \in Client: d # c => key'[d] = key[d] /\ bucket'[d] = bucket[d]
    BY <2>1, <2>2, <2>3 DEF Types, TypeOK
  <2>5. to \in Shared \cup {"enter", "verify"} /\ to \in {"create", "allow"}
        /\ (to = "allow" => bucket'[c] # None) /\ at' = [at EXCEPT ![c] = to]
    BY <2>1, <2>4 DEF Shared
  <2>6. Outside /\ visitors' \in [Key -> Maker \cup {None}] /\ tokens' \in [Maker -> 0..Burst]
    BY <1>1 DEF Look, Outside, admin, Types, TypeOK
  <2> HIDE DEF to
  <2> QED
    BY <2>4, <2>5, <2>6, LimiterParts
<1>2. CASE Create(c)
  <2>1. /\ at[c] = "create" /\ at' = [at EXCEPT ![c] = "allow"]
        /\ key' = key /\ Outside
    BY <1>2 DEF Create, Goto, Outside, admin
  <2>2. key[c] \in KeysOf[c] /\ key[c] \in Key /\ Me(c) \in Maker
    BY <2>1 DEF Types, TypeOK, Key, KeysOf, Maker, Me
  <2>3. Me(c) # None
    BY <2>2, ServiceAssumption
  <2>4. CASE visitors[key[c]] # None
    <3>1. UNCHANGED <<visitors, tokens>>
          /\ bucket' = [bucket EXCEPT ![c] = visitors[key[c]]]
      BY <1>2, <2>4 DEF Create
    <3>2. visitors[key[c]] \in Maker
      BY <2>2, <2>4 DEF Types, TypeOK
    <3>3. bucket' \in [Client -> Maker \cup {None}] /\ bucket'[c] # None
          /\ \A d \in Client: d # c => bucket'[d] = bucket[d]
      BY <2>4, <3>1, <3>2 DEF Types, TypeOK
    <3>4. visitors' \in [Key -> Maker \cup {None}] /\ tokens' \in [Maker -> 0..Burst]
          /\ key' \in [Client -> Key \cup {Absent}]
      BY <2>1, <3>1 DEF Types, TypeOK
    <3> QED
      BY <2>1, <2>2, <3>3, <3>4, LimiterParts DEF Shared
  <2>5. CASE visitors[key[c]] = None
    <3>1. /\ visitors' = [visitors EXCEPT ![key[c]] = Me(c)]
          /\ tokens' = [tokens EXCEPT ![Me(c)] = Burst]
          /\ bucket' = [bucket EXCEPT ![c] = Me(c)]
      BY <1>2, <2>5 DEF Create
    <3>2. Burst \in 0..Burst
      BY ServiceAssumption
    <3>3. visitors' \in [Key -> Maker \cup {None}] /\ tokens' \in [Maker -> 0..Burst]
          /\ key' \in [Client -> Key \cup {Absent}]
      BY <2>1, <2>2, <3>1, <3>2 DEF Types, TypeOK
    <3>4. bucket' \in [Client -> Maker \cup {None}] /\ bucket'[c] # None
          /\ \A d \in Client: d # c => bucket'[d] = bucket[d]
      BY <2>2, <2>3, <3>1 DEF Types, TypeOK
    <3> QED
      BY <2>1, <2>2, <3>3, <3>4, LimiterParts DEF Shared
  <2> QED
    BY <2>4, <2>5
<1>3. CASE Allow(c)
  <2> DEFINE to == IF turn[c] = "challenge" THEN "enter" ELSE "verify"
             b == bucket[c]
  <2>1. at[c] = "allow" /\ at' = [at EXCEPT ![c] = to] /\ tokens[b] > 0
        /\ tokens' = [tokens EXCEPT ![b] = @ - 1]
        /\ UNCHANGED <<visitors, key, bucket>> /\ Outside
    BY <1>3 DEF Allow, Goto, Outside, admin
  <2>2. b \in Maker /\ turn[c] \in {"challenge", "verify"}
    <3>1. turn[c] \in {"challenge", "verify"}
      BY DEF Types, TypeOK
    <3> QED
      BY <2>1, <3>1, Keyed
  <2>3. to \in {"enter", "verify"} /\ (to = "enter" => turn[c] = "challenge")
        /\ (to = "verify" => turn[c] = "verify")
    BY <2>2
  <2> HIDE DEF to, b
  <2>4. tokens[b] - 1 \in 0..Burst
    BY <2>1, <2>2, ServiceAssumption DEF Types, TypeOK
  <2>5. tokens' \in [Maker -> 0..Burst]
    BY <2>1, <2>2, <2>4 DEF Types, TypeOK
  <2>6. visitors' \in [Key -> Maker \cup {None}] /\ key' \in [Client -> Key \cup {Absent}]
        /\ bucket' \in [Client -> Maker \cup {None}]
    BY <2>1 DEF Types, TypeOK
  <2> QED
    BY <2>1, <2>3, <2>5, <2>6, LimiterParts
<1>4. CASE Limited(c)
  <2>1. at' = [at EXCEPT ![c] = "limited"] /\ UNCHANGED limiter /\ Outside
    BY <1>4 DEF Limited, Goto, Outside, admin
  <2>2. visitors' \in [Key -> Maker \cup {None}] /\ key' \in [Client -> Key \cup {Absent}]
        /\ bucket' \in [Client -> Maker \cup {None}] /\ tokens' \in [Maker -> 0..Burst]
    BY <2>1 DEF limiter, Types, TypeOK
  <2> QED
    BY <2>1, <2>2, LimiterParts DEF Shared, limiter
<1> QED
  BY <1>1, <1>2, <1>3, <1>4 DEF GetLimiter

LEMMA TypesChallenge ==
    ASSUME Types, NEW c \in Client,
           Enter(c) \/ Fail(c) \/ ComputeDifficulty(c) \/ Issue(c) \/ DecrementLoad(c)
    PROVE  Types'
<1> USE ServiceAssumption
        DEF Types, TypeOK, Phases, Shared, Inside, Goto, limiter, admin
<1>0. \A s \in AnySetting: s.base \in Int /\ s.min \in Int /\ s.max \in Int
  BY Fields
<1>1. CASE Enter(c)
  BY <1>1 DEF Enter
<1>2. CASE Fail(c)
  BY <1>2 DEF Fail
<1>3. CASE ReadLoad(c)
  <2>1. Log2Rounded(load + 1) \in Nat
    BY Log2IsNat
  <2> QED
    BY <1>3, <2>1 DEF ReadLoad
<1>4. CASE ReadBase(c)
  BY <1>0, <1>4 DEF ReadBase
<1>5. CASE ReadMin(c)
  BY <1>5 DEF ReadMin
<1>6. CASE Raise(c)
  BY <1>0, <1>6 DEF Raise
<1>7. CASE ReadMax(c)
  BY <1>7 DEF ReadMax
<1>8. CASE Lower(c)
  BY <1>0, <1>8 DEF Lower
<1>9. CASE Issue(c)
  BY <1>9 DEF Issue
<1>10. CASE DecrementLoad(c)
  BY <1>10 DEF DecrementLoad
<1> QED
  BY <1>1, <1>2, <1>3, <1>4, <1>5, <1>6, <1>7, <1>8, <1>9, <1>10 DEF ComputeDifficulty

LEMMA TypesVerify ==
    ASSUME Types, NEW c \in Client,
           Search(c) \/ GiveUp(c) \/ VerifyPoW(c) \/ Conclude(c) \/ Advise(c) \/ Answer(c)
    PROVE  Types'
<1> USE ServiceAssumption
        DEF Types, TypeOK, Phases, Shared, Inside, Goto, limiter, admin
<1>1. CASE Search(c)
  BY <1>1 DEF Search
<1>2. CASE GiveUp(c)
  BY <1>2 DEF GiveUp
<1>3. CASE VerifyPoW(c)
  BY <1>3 DEF VerifyPoW
<1>4. CASE Conclude(c)
  BY <1>4 DEF Conclude
<1>5. CASE Advise(c)
  <2>1. config.base \in Int
    BY Fields
  <2> QED
    BY <1>5, <2>1 DEF Advise
<1>6. CASE Answer(c)
  BY <1>6 DEF Answer
<1> QED
  BY <1>1, <1>2, <1>3, <1>4, <1>5, <1>6

LEMMA TypesOthers ==
    ASSUME Types,
           \/ \E k \in Key: Refill(k)
           \/ \E s \in Setting: SetDifficulty(s)
           \/ Store
           \/ UNCHANGED vars
    PROVE  Types'
<1> USE ServiceAssumption
        DEF Types, TypeOK, Phases, Shared, Inside, limiter, admin
<1>1. CASE \E k \in Key: Refill(k)
  BY <1>1 DEF Refill
<1>2. CASE \E s \in Setting: SetDifficulty(s)
  BY <1>2 DEF SetDifficulty
<1>3. CASE Store
  <2>1. config' \in AnySetting
    BY <1>3, Fields DEF Store
  <2>2. writing' \in [left: 0..3, to: AnySetting, from: AnySetting]
    BY <1>3, <2>1 DEF Store
  <2> QED
    BY <1>3, <2>1, <2>2 DEF Store
<1>4. CASE UNCHANGED vars
  BY <1>4 DEF vars
<1> QED
  BY <1>1, <1>2, <1>3, <1>4

LEMMA TypesStep == Types /\ [Next]_vars => Types'
  BY TypesLimiter, TypesChallenge, TypesVerify, TypesOthers DEF Next

LEMMA Typed == Spec => []Types
  BY TypesInit, TypesStep, PTL DEF Spec

\* Every variable keeps its type.
THEOREM ServiceTypes == Spec => []TypeOK
<1>1. Types => TypeOK
  BY DEF Types
<1> QED
  BY Typed, <1>1, PTL


-----------------------------------------------------------------------------
(* The limiter is one token bucket per key *)

\* A bucket serves one key, a request that has made none yet is nobody's maker,
\* and one that holds a bucket holds that which its key has in the map.
OneBucket ==
    /\ \A k, l \in Key: visitors[k] = visitors[l] /\ visitors[k] # None => k = l
    /\ \A k \in Key, c \in Client:
           /\ visitors[k] = <<c, turn[c]>> => at[c] \notin {"look", "create"}
           /\ visitors[k] = <<c, "verify">> => turn[c] = "verify"
    /\ \A c \in Client: at[c] = "allow" => bucket[c] = visitors[key[c]]

LEMMA OneBucketInit == Init => OneBucket
<1>1. \A c \in Client: None # <<c, "challenge">> /\ None # <<c, "verify">>
  BY ServiceAssumption DEF Maker
<1> QED
  BY <1>1 DEF Init, OneBucket

\* A step outside the limiter.
LEMMA BucketsKept ==
    ASSUME OneBucket, UNCHANGED <<visitors, key, bucket, turn>>,
           NEW c \in Client, NEW to, at' = [at EXCEPT ![c] = to], Types,
           to \notin {"look", "create"}, to = "allow" => at[c] = "allow"
    PROVE  OneBucket'
  BY DEF OneBucket, Types, TypeOK

LEMMA OneBucketStep == Types /\ OneBucket /\ [Next]_vars => OneBucket'
<1> SUFFICES ASSUME Types, OneBucket, [Next]_vars
             PROVE  OneBucket'
  OBVIOUS
<1> USE ServiceAssumption
<1>1. ASSUME NEW c \in Client, Look(c)
      PROVE  OneBucket'
  <2>1. PICK k \in KeysOf[c]:
          /\ at[c] = "look"
          /\ at' = [at EXCEPT ![c] = IF visitors[k] = None THEN "create" ELSE "allow"]
          /\ key' = [key EXCEPT ![c] = k]
          /\ bucket' = [bucket EXCEPT ![c] = visitors[k]]
    BY <1>1 DEF Look, Goto
  <2>2. UNCHANGED <<visitors, turn>>
    BY <1>1 DEF Look
  <2>3. \A l \in Key: visitors[l] # <<c, turn[c]>>
    BY <2>1 DEF OneBucket
  <2>4. at'[c] = "allow" => bucket'[c] = visitors[key'[c]]
    BY <2>1 DEF Types, TypeOK
  <2>5. \A d \in Client: d # c =>
          at'[d] = at[d] /\ key'[d] = key[d] /\ bucket'[d] = bucket[d]
    BY <2>1 DEF Types, TypeOK
  <2> QED
    BY <2>2, <2>3, <2>4, <2>5 DEF OneBucket
<1>2. ASSUME NEW c \in Client, Create(c)
      PROVE  OneBucket'
  <2>1. /\ at[c] = "create" /\ at' = [at EXCEPT ![c] = "allow"]
        /\ UNCHANGED <<key, turn>>
    BY <1>2 DEF Create, Goto
  <2>2. key[c] \in Key
    BY <2>1, Keyed
  <2>3. \A l \in Key: visitors[l] # <<c, turn[c]>>
    BY <2>1 DEF OneBucket
  <2>4. CASE visitors[key[c]] # None
    <3>1. visitors' = visitors /\ bucket' = [bucket EXCEPT ![c] = visitors[key[c]]]
      BY <1>2, <2>4 DEF Create
    <3> QED
      BY <2>1, <2>3, <3>1 DEF OneBucket, Types, TypeOK
  <2>5. CASE visitors[key[c]] = None
    <3> DEFINE me == <<c, turn[c]>>
    <3>1. visitors' = [visitors EXCEPT ![key[c]] = me] /\ bucket' = [bucket EXCEPT ![c] = me]
      BY <1>2, <2>5 DEF Create, Me
    <3>2. visitors'[key[c]] = me /\ \A l \in Key: l # key[c] => visitors'[l] = visitors[l]
      BY <2>2, <3>1 DEF Types, TypeOK
    <3>3. \A l \in Key: visitors[l] # me
      BY <2>3
    <3>4. \A d \in Client: /\ me = <<d, turn[d]>> => d = c
                           /\ me = <<d, "verify">> => turn[d] = "verify"
      OBVIOUS
    <3>5. at'[c] = "allow" /\ bucket'[c] = me
          /\ \A d \in Client: d # c => at'[d] = at[d] /\ bucket'[d] = bucket[d]
      BY <2>1, <3>1 DEF Types, TypeOK
    <3> HIDE DEF me
    <3>6. \A d \in Client: d # c /\ at[d] = "allow" => visitors'[key[d]] = visitors[key[d]]
      <4> SUFFICES ASSUME NEW d \in Client, d # c, at[d] = "allow"
                   PROVE  visitors'[key[d]] = visitors[key[d]]
        OBVIOUS
      <4>1. bucket[d] # None /\ key[d] \in Key
        BY Keyed
      <4>2. key[d] # key[c]
        BY <2>5, <4>1 DEF OneBucket
      <4> QED
        BY <3>2, <4>1, <4>2
    <3>7. \A k, l \in Key: visitors'[k] = visitors'[l] /\ visitors'[k] # None => k = l
      BY <3>2, <3>3 DEF OneBucket
    <3>8. \A k \in Key, d \in Client:
           /\ visitors'[k] = <<d, turn[d]>> => at'[d] \notin {"look", "create"}
           /\ visitors'[k] = <<d, "verify">> => turn[d] = "verify"
      <4> SUFFICES ASSUME NEW k \in Key, NEW d \in Client
                   PROVE  /\ visitors'[k] = <<d, turn[d]>> => at'[d] \notin {"look", "create"}
                          /\ visitors'[k] = <<d, "verify">> => turn[d] = "verify"
        OBVIOUS
      <4>1. CASE k = key[c]
        <5>1. visitors'[k] = me
          BY <3>2, <4>1
        <5> QED
          BY <3>4, <3>5, <5>1
      <4>2. CASE k # key[c]
        <5>1. visitors'[k] = visitors[k]
          BY <3>2, <4>2
        <5>2. /\ visitors[k] = <<d, turn[d]>> => at[d] \notin {"look", "create"}
              /\ visitors[k] = <<d, "verify">> => turn[d] = "verify"
          BY DEF OneBucket
        <5>3. d = c \/ at'[d] = at[d]
          BY <3>5
        <5>4. d = c => at'[d] \notin {"look", "create"}
          BY <3>5
        <5> QED
          BY <5>1, <5>2, <5>3, <5>4
      <4> QED
        BY <4>1, <4>2
    <3>9. \A d \in Client: at'[d] = "allow" => bucket'[d] = visitors'[key[d]]
      BY <3>2, <3>5, <3>6 DEF OneBucket
    <3> QED
      BY <2>1, <3>7, <3>8, <3>9 DEF OneBucket
  <2> QED
    BY <2>4, <2>5
<1>3. ASSUME NEW c \in Client, Allow(c) \/ Limited(c) \/ Enter(c) \/ Fail(c)
      PROVE  OneBucket'
  <2>1. /\ UNCHANGED <<visitors, key, bucket, turn>>
        /\ \E to \in {"enter", "verify", "limited", "load", "abort"}:
             at' = [at EXCEPT ![c] = to]
    BY <1>3 DEF Allow, Limited, Enter, Fail, Goto, limiter
  <2> QED
    BY <2>1, BucketsKept
<1>4. ASSUME NEW c \in Client, ComputeDifficulty(c) \/ Issue(c) \/ DecrementLoad(c)
      PROVE  OneBucket'
  <2>1. /\ UNCHANGED <<visitors, key, bucket, turn>>
        /\ \E to \in Inside \cup {"search", "failed"}: at' = [at EXCEPT ![c] = to]
    BY <1>4 DEF ComputeDifficulty, ReadLoad, ReadBase, ReadMin, Raise, ReadMax, Lower,
                Issue, DecrementLoad, Goto, limiter, Inside
  <2> QED
    BY <2>1, BucketsKept DEF Inside
<1>5. ASSUME NEW c \in Client, GiveUp(c) \/ VerifyPoW(c)
      PROVE  OneBucket'
  <2>1. /\ UNCHANGED <<visitors, key, bucket, turn>>
        /\ \E to \in {"failed", "spend", "pow_fail"}: at' = [at EXCEPT ![c] = to]
    BY <1>5 DEF GiveUp, VerifyPoW, Goto, limiter
  <2> QED
    BY <2>1, BucketsKept
<1>6. ASSUME NEW c \in Client, Conclude(c) \/ Advise(c) \/ Answer(c)
      PROVE  OneBucket'
  <2>1. /\ UNCHANGED <<visitors, key, bucket, turn>>
        /\ \E to \in {"done", "max"}: at' = [at EXCEPT ![c] = to]
    BY <1>6 DEF Conclude, Advise, Answer, Goto, limiter
  <2> QED
    BY <2>1, BucketsKept
<1>7. CASE \/ \E k \in Key: Refill(k)
           \/ \E s \in Setting: SetDifficulty(s)
           \/ Store
           \/ UNCHANGED vars
  <2>1. UNCHANGED <<visitors, key, bucket, turn, at>>
    BY <1>7 DEF Refill, SetDifficulty, Store, vars, limiter
  <2> QED
    BY <2>1 DEF OneBucket
<1>8. ASSUME NEW c \in Client, Search(c)
      PROVE  OneBucket'
  <2>1. /\ UNCHANGED <<visitors, key, bucket>>
        /\ at[c] = "search" /\ at' = [at EXCEPT ![c] = "look"]
        /\ turn' = [turn EXCEPT ![c] = "verify"]
    BY <1>8 DEF Search, Goto, limiter
  <2>2. turn[c] = "challenge"
    BY <2>1 DEF Types, TypeOK, Phases, Shared
  <2>3. \A k \in Key: visitors[k] # <<c, "verify">>
    BY <2>2 DEF OneBucket
  <2>4. \A d \in Client: d # c => at'[d] = at[d] /\ turn'[d] = turn[d]
    BY <2>1 DEF Types, TypeOK
  <2>5. at'[c] = "look" /\ turn'[c] = "verify"
    BY <2>1 DEF Types, TypeOK
  <2> QED
    BY <2>1, <2>3, <2>4, <2>5 DEF OneBucket
<1> QED
  BY <1>1, <1>2, <1>3, <1>4, <1>5, <1>6, <1>7, <1>8 DEF Next, GetLimiter

\* What the bucket of a key holds, as TokenBucket sees it.
Held == [k \in Key |-> IF visitors[k] = None THEN Burst ELSE tokens[visitors[k]]]
Passed == [c \in Client |-> Served(c)]

\* A step that leaves the buckets alone, and keeps its client among those that
\* have been served as often.
LEMMA Unserved ==
    ASSUME Types, NEW c \in Client, NEW to, at' = [at EXCEPT ![c] = to],
           UNCHANGED <<visitors, tokens>>,
           \/ turn' = turn /\ Served(c)' = Served(c)
           \/ turn' = [turn EXCEPT ![c] = "verify"] /\ Served(c)' = Served(c)
    PROVE  UNCHANGED <<Held, Passed>>
<1>1. ASSUME NEW d \in Client, d # c
      PROVE  Served(d)' = Served(d)
  BY <1>1 DEF Served, Types, TypeOK
<1>2. Passed' = Passed
  BY <1>1 DEF Passed
<1> QED
  BY <1>2 DEF Held

LEMMA BucketStep ==
    ASSUME Types, OneBucket, [Next]_vars
    PROVE  Bucket!Next \/ UNCHANGED <<Held, Passed>>
<1> USE ServiceAssumption
<1>1. ASSUME NEW c \in Client, Look(c)
      PROVE  UNCHANGED <<Held, Passed>>
  <2>1. PICK to \in {"create", "allow"}: at[c] = "look" /\ at' = [at EXCEPT ![c] = to]
    BY <1>1 DEF Look, Goto
  <2>2. UNCHANGED <<visitors, tokens, turn>>
    BY <1>1 DEF Look
  <2>3. Served(c)' = Served(c)
    BY <2>1, <2>2 DEF Served, Types, TypeOK, Phases, Inside, Shared
  <2> QED
    BY <2>1, <2>2, <2>3, Unserved
<1>2. ASSUME NEW c \in Client, Create(c)
      PROVE  UNCHANGED <<Held, Passed>>
  <2>1. Held' = Held
    <3>1. CASE visitors[key[c]] # None
      BY <1>2, <3>1 DEF Create, Held
    <3>2. CASE visitors[key[c]] = None
      <4> DEFINE me == <<c, turn[c]>>
      <4>1. /\ visitors' = [visitors EXCEPT ![key[c]] = me]
            /\ tokens' = [tokens EXCEPT ![me] = Burst]
        BY <1>2, <3>2 DEF Create, Me
      <4>2. me \in Maker /\ me # None
        BY DEF Maker, Types, TypeOK
      <4>3. \A k \in Key: visitors[k] # me
        BY <1>2 DEF Create, Goto, OneBucket
      <4> HIDE DEF me
      <4>4. ASSUME NEW k \in Key
            PROVE  Held'[k] = Held[k]
        <5>1. Held'[k] = IF visitors'[k] = None THEN Burst ELSE tokens'[visitors'[k]]
          BY DEF Held
        <5>2. CASE k = key[c]
          BY <3>2, <4>1, <4>2, <5>1, <5>2 DEF Held, Types, TypeOK
        <5>3. CASE k # key[c]
          <6>1. visitors'[k] = visitors[k]
            BY <4>1, <5>3 DEF Types, TypeOK
          <6>2. visitors[k] # None => visitors[k] \in Maker
            BY DEF Types, TypeOK
          <6>3. visitors[k] # None => tokens'[visitors[k]] = tokens[visitors[k]]
            BY <4>1, <4>3, <6>2 DEF Types, TypeOK
          <6> QED
            BY <5>1, <6>1, <6>3 DEF Held
        <5> QED
          BY <5>2, <5>3
      <4> QED
        BY <4>4 DEF Held
    <3> QED
      BY <3>1, <3>2
  <2>2. \A d \in Client: Served(d)' = Served(d)
    BY <1>2 DEF Create, Goto, Served, Types, TypeOK, Phases, Inside, Shared
  <2> QED
    BY <2>1, <2>2 DEF Passed
<1>3. ASSUME NEW c \in Client, Allow(c)
      PROVE  Bucket!Take(c)
  <2> DEFINE b == visitors[key[c]]
  <2>0. at[c] = "allow"
    BY <1>3 DEF Allow, Goto
  <2>1. at[c] = "allow" /\ bucket[c] = b /\ b \in Maker /\ key[c] \in KeysOf[c] /\ key[c] \in Key
    BY <2>0, Keyed DEF OneBucket
  <2>2. tokens[b] > 0 /\ tokens' = [tokens EXCEPT ![b] = @ - 1] /\ visitors' = visitors
    BY <1>3, <2>1 DEF Allow
  <2>3. Held[key[c]] = tokens[b] /\ b # None
    BY <2>1 DEF Held
  <2>4. Held' = [Held EXCEPT ![key[c]] = @ - 1]
    <3>1. \A k \in Key: k # key[c] => visitors[k] # b
      BY <2>1, <2>3 DEF OneBucket
    <3>2. ASSUME NEW k \in Key
          PROVE  Held'[k] = IF k = key[c] THEN Held[k] - 1 ELSE Held[k]
      <4>1. Held'[k] = IF visitors[k] = None THEN Burst ELSE tokens'[visitors[k]]
        BY <2>2 DEF Held
      <4>2. CASE k = key[c]
        BY <2>1, <2>2, <2>3, <4>1, <4>2 DEF Types, TypeOK
      <4>3. CASE k # key[c]
        <5>1. visitors[k] # None => visitors[k] \in Maker
          BY DEF Types, TypeOK
        <5>2. visitors[k] # None => tokens'[visitors[k]] = tokens[visitors[k]]
          BY <2>2, <3>1, <4>3, <5>1 DEF Types, TypeOK
        <5> QED
          BY <4>1, <4>3, <5>2 DEF Held
      <4> QED
        BY <4>2, <4>3
    <3> QED
      BY <3>2 DEF Held
  <2>5. Passed' = [Passed EXCEPT ![c] = @ + 1]
    <3>1. \A d \in Client: d # c => Served(d)' = Served(d)
      BY <1>3 DEF Allow, Goto, Served, Types, TypeOK
    <3>2. Served(c)' = Served(c) + 1
      BY <1>3 DEF Allow, Goto, Served, Types, TypeOK, Inside
    <3> QED
      BY <3>1, <3>2 DEF Passed
  <2> QED
    BY <2>1, <2>2, <2>3, <2>4, <2>5 DEF Bucket!Take, Held, Passed
<1>4. ASSUME NEW c \in Client, Limited(c)
      PROVE  UNCHANGED <<Held, Passed>>
  <2>1. Served(c)' = Served(c)
    BY <1>4 DEF Limited, Goto, Served, Types, TypeOK, Phases, Inside, Shared
  <2> QED
    BY <1>4, <2>1, Unserved DEF Limited, Goto, limiter
<1>5. ASSUME NEW c \in Client, Enter(c) \/ Fail(c) \/ ComputeDifficulty(c) \/ Issue(c)
                               \/ DecrementLoad(c)
      PROVE  UNCHANGED <<Held, Passed>>
  <2>1. /\ UNCHANGED <<visitors, tokens, turn>>
        /\ \E to \in Inside \cup {"failed", "search"}: at' = [at EXCEPT ![c] = to]
        /\ at[c] \in Inside \cup {"enter"}
    BY <1>5 DEF Enter, Fail, ComputeDifficulty, ReadLoad, ReadBase, ReadMin, Raise,
                ReadMax, Lower, Issue, DecrementLoad, Goto, limiter, Inside, Types, TypeOK
  <2>2. (turn[c] = "verify") => at'[c] # "look" /\ at'[c] \notin Shared
    BY <2>1 DEF Shared, Inside, Types, TypeOK
  <2>3. Served(c)' = Served(c)
    BY <2>1, <2>2 DEF Served, Types, TypeOK, Phases, Inside, Shared
  <2> QED
    BY <2>1, <2>3, Unserved
<1>6. ASSUME NEW c \in Client, Search(c) \/ GiveUp(c) \/ VerifyPoW(c)
      PROVE  UNCHANGED <<Held, Passed>>
  <2>1. CASE Search(c)
    <3>1. Served(c)' = Served(c)
      BY <2>1 DEF Search, Goto, Served, Types, TypeOK, Phases, Inside, Shared
    <3> QED
      BY <2>1, <3>1, Unserved DEF Search, Goto, limiter
  <2>2. CASE GiveUp(c)
    <3>1. Served(c)' = Served(c)
      BY <2>2 DEF GiveUp, Goto, Served, Types, TypeOK, Phases, Inside, Shared
    <3> QED
      BY <2>2, <3>1, Unserved DEF GiveUp, Goto, limiter
  <2>3. CASE VerifyPoW(c)
    <3>1. PICK to \in {"spend", "pow_fail"}: at[c] = "verify" /\ at' = [at EXCEPT ![c] = to]
      BY <2>3 DEF VerifyPoW, Goto
    <3>2. UNCHANGED <<visitors, tokens, turn>>
      BY <2>3 DEF VerifyPoW, limiter
    <3>3. Served(c)' = Served(c)
      BY <3>1, <3>2 DEF Served, Types, TypeOK, Phases, Inside, Shared
    <3> QED
      BY <3>1, <3>2, <3>3, Unserved
  <2> QED
    BY <1>6, <2>1, <2>2, <2>3
<1>7. ASSUME NEW c \in Client, Conclude(c) \/ Advise(c) \/ Answer(c)
      PROVE  UNCHANGED <<Held, Passed>>
  <2>1. /\ UNCHANGED <<visitors, tokens, turn>>
        /\ turn[c] = "verify"
        /\ at[c] \in {"spend", "settled"}
        /\ \E to \in {"done", "max"}: at' = [at EXCEPT ![c] = to]
    BY <1>7 DEF Conclude, Advise, Answer, Goto, limiter, Types, TypeOK, Phases, Shared,
                Inside
  <2>2. Served(c)' = Served(c)
    BY <2>1 DEF Served, Types, TypeOK
  <2> QED
    BY <2>1, <2>2, Unserved
<1>8. ASSUME NEW i \in Key, Refill(i)
      PROVE  Bucket!Refill(i)
  <2> DEFINE b == visitors[i]
  <2>1. b \in Maker /\ tokens[b] < Burst /\ tokens' = [tokens EXCEPT ![b] = @ + 1]
        /\ visitors' = visitors /\ b # None
    BY <1>8 DEF Refill, Types, TypeOK
  <2>2. \A j \in Key: j # i => visitors[j] # b
    BY <2>1 DEF OneBucket
  <2>3. Held[i] = tokens[b]
    BY <2>1 DEF Held
  <2>6. \A j \in Key: Held'[j] = IF j = i THEN Held[i] + 1 ELSE Held[j]
    <3> SUFFICES ASSUME NEW j \in Key
                 PROVE  Held'[j] = IF j = i THEN Held[i] + 1 ELSE Held[j]
      OBVIOUS
    <3>1. Held'[j] = IF visitors[j] = None THEN Burst ELSE tokens'[visitors[j]]
      BY <2>1 DEF Held
    <3>2. CASE j = i
      BY <2>1, <2>3, <3>1, <3>2 DEF Types, TypeOK
    <3>3. CASE j # i
      <4>1. visitors[j] # None => visitors[j] \in Maker
        BY DEF Types, TypeOK
      <4>2. visitors[j] # None => tokens'[visitors[j]] = tokens[visitors[j]]
        BY <2>1, <2>2, <3>3, <4>1 DEF Types, TypeOK
      <4> QED
        BY <3>1, <3>3, <4>2 DEF Held
    <3> QED
      BY <3>2, <3>3
  <2>5. Held' = [Held EXCEPT ![i] = @ + 1]
    BY <2>6 DEF Held
  <2>4. Passed' = Passed
    BY <1>8 DEF Refill, Passed, Served
  <2> QED
    BY <2>1, <2>3, <2>4, <2>5 DEF Bucket!Refill, Held, Passed
<1>9. CASE \/ \E s \in Setting: SetDifficulty(s)
           \/ Store
           \/ UNCHANGED vars
  BY <1>9 DEF SetDifficulty, Store, vars, limiter, Held, Passed, Served
<1> QED
  BY <1>1, <1>2, <1>3, <1>4, <1>5, <1>6, <1>7, <1>8, <1>9
  DEF Next, GetLimiter, Bucket!Next

\* However many requests meet in GetLimiter, the limiter lets through what one
\* bucket per key lets through (ratelimit.go:25-69).
THEOREM LimiterRefines == Spec => ImplementsTokenBucket
<1>1. Init => Bucket!Init
  BY ServiceAssumption DEF Init, Bucket!Init, Served, Inside
<1>2. Types /\ OneBucket /\ [Next]_vars => [Bucket!Next]_Bucket!vars
  <2> SUFFICES ASSUME Types, OneBucket, [Next]_vars
               PROVE  [Bucket!Next]_Bucket!vars
    OBVIOUS
  <2>1. UNCHANGED <<Held, Passed>> => UNCHANGED Bucket!vars
    BY DEF Held, Passed, Bucket!vars
  <2> QED
    BY <2>1, BucketStep
<1> QED
  BY <1>1, <1>2, Typed, OneBucketInit, OneBucketStep, TypesStep, TypesInit, PTL
  DEF Spec, ImplementsTokenBucket, Bucket!Spec

-----------------------------------------------------------------------------
(* The load *)

Loading == {c \in Client: turn[c] = "challenge" /\ at[c] \in Inside}

\* Only GetChallenge moves the load, once up and once down.
LEMMA LoadStep == Types /\ LoadIsInside /\ [Next]_vars => LoadIsInside'
<1> SUFFICES ASSUME Types, LoadIsInside, [Next]_vars
             PROVE  LoadIsInside'
  OBVIOUS
<1> USE ServiceAssumption
<1>1. IsFiniteSet(Loading) /\ load = Cardinality(Loading)
  BY FS_Subset DEF Loading, LoadIsInside
<1>2. Cardinality(Loading) \in Nat
  BY <1>1, FS_CardinalityType
<1>3. load' = Cardinality(Loading') => LoadIsInside'
  BY DEF Loading, LoadIsInside
<1>4. ASSUME NEW c \in Client, Enter(c)
      PROVE  LoadIsInside'
  <2>1. c \notin Loading /\ Loading' = Loading \cup {c}
    BY <1>4 DEF Enter, Goto, Loading, Inside, Types, TypeOK, Phases, Shared
  <2>2. load' = load + 1
    BY <1>4 DEF Enter
  <2> QED
    BY <1>1, <1>2, <1>3, <2>1, <2>2, FS_AddElement
<1>5. ASSUME NEW c \in Client, DecrementLoad(c)
      PROVE  LoadIsInside'
  <2>1. c \in Loading /\ Loading' = Loading \ {c}
    BY <1>5 DEF DecrementLoad, Goto, Loading, Inside, Types, TypeOK, Phases, Shared
  <2>2. load' = load - 1
    BY <1>5 DEF DecrementLoad
  <2> QED
    BY <1>1, <1>2, <1>3, <2>1, <2>2, FS_RemoveElement
<1>6. ASSUME Loading' = Loading, load' = load
      PROVE  LoadIsInside'
  BY <1>1, <1>3, <1>6
<1>7. ASSUME NEW c \in Client, GetLimiter(c) \/ Allow(c) \/ Limited(c)
      PROVE  LoadIsInside'
  <2>1. Loading' = Loading /\ load' = load
    BY <1>7 DEF GetLimiter, Look, Create, Allow, Limited, Goto, Loading, Inside,
                Types, TypeOK
  <2> QED
    BY <1>6, <2>1
<1>8. ASSUME NEW c \in Client, ComputeDifficulty(c) \/ Fail(c) \/ Issue(c)
      PROVE  LoadIsInside'
  <2>1. Loading' = Loading /\ load' = load
    BY <1>8 DEF Fail, Issue, ComputeDifficulty, ReadLoad, ReadBase, ReadMin, Raise, ReadMax, Lower,
                Goto, Loading, Inside, Types, TypeOK
  <2> QED
    BY <1>6, <2>1
<1>9. ASSUME NEW c \in Client,
             Search(c) \/ GiveUp(c) \/ VerifyPoW(c) \/ Conclude(c) \/ Advise(c) \/ Answer(c)
      PROVE  LoadIsInside'
  <2>1. Loading' = Loading /\ load' = load
    BY <1>9 DEF Search, GiveUp, VerifyPoW, Conclude, Advise, Answer, Goto, Loading,
                Inside, Types, TypeOK, Phases, Shared
  <2> QED
    BY <1>6, <2>1
<1>10. CASE \/ \E k \in Key: Refill(k)
            \/ \E s \in Setting: SetDifficulty(s)
            \/ Store
            \/ UNCHANGED vars
  BY <1>6, <1>10 DEF Refill, SetDifficulty, Store, vars, Loading
<1> QED
  BY <1>4, <1>5, <1>7, <1>8, <1>9, <1>10 DEF Next

\* However requests interleave or fail, the load is the number of those in
\* GetChallenge (challenge.go:88-94, handler.go:134-135).
THEOREM LoadSettles == Spec => []LoadIsInside
<1>1. Init => LoadIsInside
  <2> SUFFICES ASSUME Init PROVE LoadIsInside
    OBVIOUS
  <2>1. {c \in Client: turn[c] = "challenge" /\ at[c] \in Inside} = {}
    BY DEF Init, Inside
  <2> QED
    BY <2>1, FS_EmptySet DEF Init, LoadIsInside
<1> QED
  BY <1>1, LoadStep, Typed, PTL DEF Spec

-----------------------------------------------------------------------------
(* The proof of work of the legacy page *)

\* From the search to its check, the server will compute the one digest that
\* the worker has found.
Found ==
    \A c \in Client: Worker[c] = "web" =>
        /\ at[c] # "pow_fail"
        /\ turn[c] = "verify" /\ at[c] \in {"look", "create", "allow", "verify"} =>
               \E h \in Digests: seen[c] = {h} /\ ZeroBytes(h, difficulty[c])

Shaped == seen \in [Client -> SUBSET Digests]

LEMMA ShapedStep == Shaped /\ [Next]_vars => Shaped'
<1> SUFFICES ASSUME Shaped, [Next]_vars
             PROVE  Shaped'
  OBVIOUS
<1>1. ASSUME NEW c \in Client, Search(c)
      PROVE  Shaped'
  BY <1>1 DEF Search, Shaped
<1>2. ASSUME NEW c \in Client, VerifyPoW(c)
      PROVE  Shaped'
  BY <1>2 DEF VerifyPoW, Shaped
<1>3. seen' = seen => Shaped'
  BY DEF Shaped
<1> QED
  BY <1>1, <1>2, <1>3
  DEF Next, GetLimiter, Look, Create, Allow, Limited, Enter, Fail, ComputeDifficulty,
      ReadLoad, ReadBase, ReadMin, Raise, ReadMax, Lower, Issue, DecrementLoad, GiveUp,
      Conclude, Advise,
      Answer, Refill, SetDifficulty, Store, vars

LEMMA FoundStep == Types /\ Shaped /\ Found /\ [Next]_vars => Found'
<1> SUFFICES ASSUME Types, Shaped, Found, [Next]_vars
             PROVE  Found'
  OBVIOUS
<1> USE ServiceAssumption
<1>1. ASSUME NEW c \in Client, GetLimiter(c) \/ Allow(c) \/ Limited(c)
      PROVE  Found'
  BY <1>1 DEF GetLimiter, Look, Create, Allow, Limited, Goto, Found, Types, TypeOK
<1>2. ASSUME NEW c \in Client, Enter(c) \/ Fail(c) \/ ComputeDifficulty(c) \/ Issue(c)
                               \/ DecrementLoad(c)
      PROVE  Found'
  BY <1>2 DEF Enter, Fail, ComputeDifficulty, ReadLoad, ReadBase, ReadMin, Raise, ReadMax,
              Lower, Issue, DecrementLoad, Goto, Found, Types, TypeOK, Phases, Shared, Inside
<1>3. ASSUME NEW c \in Client, Search(c)
      PROVE  Found'
  <2>1. PICK n \in Lengths, h \in Digests:
            /\ Meets(Worker[c], h, difficulty[c])
            /\ seen' = [seen EXCEPT ![c] =
                          IF SameBlocks[Worker[c]][n] THEN {h} ELSE Digests]
    BY <1>3 DEF Search
  <2>2. Worker[c] = "web" => SameBlocks[Worker[c]][n] /\ ZeroBytes(h, difficulty[c])
    <3>1. WebPad(n) = Sha256Pad(n)
      BY WebPadding
    <3> QED
      BY <2>1, <3>1 DEF SameBlocks, Meets
  <2>3. Worker[c] = "web" => seen'[c] = {h} /\ ZeroBytes(h, difficulty[c])
    BY <2>1, <2>2 DEF Shaped
  <2>4. at' = [at EXCEPT ![c] = "look"] /\ difficulty' = difficulty
        /\ turn' = [turn EXCEPT ![c] = "verify"]
    BY <1>3 DEF Search, Goto
  <2>5. \A d \in Client: d # c => seen'[d] = seen[d]
    BY <2>1 DEF Shaped
  <2> QED
    BY <2>3, <2>4, <2>5 DEF Found, Types, TypeOK
<1>4. ASSUME NEW c \in Client, VerifyPoW(c)
      PROVE  Found'
  <2>1. PICK h \in seen[c]:
            Goto(c, "verify", IF ZeroBytes(h, difficulty[c]) THEN "spend" ELSE "pow_fail")
    BY <1>4 DEF VerifyPoW
  <2>2. turn[c] = "verify" /\ at[c] = "verify"
    BY <2>1 DEF Goto, Types, TypeOK, Phases, Shared, Inside
  <2>3. Worker[c] = "web" => ZeroBytes(h, difficulty[c])
    BY <2>1, <2>2 DEF Found
  <2>4. Worker[c] = "web" => at'[c] = "spend"
    BY <2>1, <2>3 DEF Goto, Types, TypeOK
  <2>5. \A d \in Client: d # c => at'[d] = at[d] /\ seen'[d] = seen[d]
    BY <1>4, <2>1 DEF VerifyPoW, Goto, Shaped, Types, TypeOK
  <2> QED
    BY <1>4, <2>4, <2>5 DEF VerifyPoW, Found
<1>5. ASSUME NEW c \in Client, GiveUp(c) \/ Conclude(c) \/ Advise(c) \/ Answer(c)
      PROVE  Found'
  BY <1>5 DEF GiveUp, Conclude, Advise, Answer, Goto, Found, Types, TypeOK
<1>6. CASE \/ \E k \in Key: Refill(k)
           \/ \E s \in Setting: SetDifficulty(s)
           \/ Store
           \/ UNCHANGED vars
  BY <1>6 DEF Refill, SetDifficulty, Store, vars, Found
<1> QED
  BY <1>1, <1>2, <1>3, <1>4, <1>5, <1>6 DEF Next

\* Whatever the lengths, the digests and the difficulties, the server accepts
\* what the legacy page's worker found (worker.js:1-20, challenge.go:82-86).
THEOREM WebAccepted == Spec => []WebSolutionAccepted
<1>1. Init => Shaped /\ Found
  BY DEF Init, Shaped, Found
<1>2. Found => WebSolutionAccepted
  BY DEF Found, WebSolutionAccepted
<1> QED
  BY <1>1, <1>2, ShapedStep, FoundStep, Typed, PTL DEF Spec

-----------------------------------------------------------------------------
(* The difficulty *)

\* What SetDifficulty has stored so far.
Stored ==
    /\ config = [base |-> IF writing.left < 3 THEN writing.to.base ELSE writing.from.base,
                 min |-> IF writing.left < 2 THEN writing.to.min ELSE writing.from.min,
                 max |-> IF writing.left < 1 THEN writing.to.max ELSE writing.from.max]
    /\ Sane(writing.from) /\ Sane(writing.to)

\* A handler knows every setting that may be in force while it runs.
Witnessed ==
    /\ inForce \in [Client -> SUBSET {s \in AnySetting: Sane(s)}]
    /\ \A c \in Client: at[c] \in Inside => InForce \subseteq inForce[c]

\* Between the two comparisons, and after them, one side is settled.
Bounds ==
    \A c \in Client:
        /\ turn[c] = "challenge" /\ at[c] \in {"max", "settled"} =>
               \E s \in inForce[c]: s.min <= difficulty[c]
        /\ at[c] = "settled" => \E s \in inForce[c]: difficulty[c] <= s.max

LEMMA StoredStep == Types /\ Stored /\ [Next]_vars => Stored'
<1> SUFFICES ASSUME Types, Stored, [Next]_vars
             PROVE  Stored'
  OBVIOUS
<1>1. UNCHANGED admin => Stored'
  BY DEF admin, Stored, Sane
<1>2. ASSUME NEW s \in Setting, SetDifficulty(s)
      PROVE  Stored'
  BY <1>2 DEF SetDifficulty, Stored, Sane, Types, TypeOK
<1>3. CASE Store
  <2> DEFINE k == writing.left
  <2>1. k \in {1, 2, 3}
    BY <1>3 DEF Store, Types, TypeOK
  <2>5. writing \in [left: 0..3, to: AnySetting, from: AnySetting]
    BY DEF Types, TypeOK
  <2>6. /\ config.base = IF k < 3 THEN writing.to.base ELSE writing.from.base
        /\ config.min = IF k < 2 THEN writing.to.min ELSE writing.from.min
        /\ config.max = IF k < 1 THEN writing.to.max ELSE writing.from.max
    BY DEF Stored
  <2>7. /\ config' = [base |-> IF k = 3 THEN writing.to.base ELSE config.base,
                     min |-> IF k = 2 THEN writing.to.min ELSE config.min,
                     max |-> IF k = 1 THEN writing.to.max ELSE config.max]
        /\ writing' = IF k > 1 THEN [writing EXCEPT !.left = @ - 1]
                     ELSE [left |-> 0, to |-> config', from |-> config']
    BY <1>3 DEF Store
  <2>8. Sane(writing.from) /\ Sane(writing.to)
    BY DEF Stored
  <2>2. CASE k = 3
    <3>1. writing' = [writing EXCEPT !.left = 2]
      BY <2>5, <2>7, <2>2
    <3>2. writing'.to = writing.to /\ writing'.from = writing.from /\ writing'.left = 2
      BY <2>5, <3>1
    <3>3. config' = [base |-> writing.to.base, min |-> writing.from.min,
                     max |-> writing.from.max]
      BY <2>6, <2>7, <2>2
    <3> QED
      BY <2>8, <3>2, <3>3 DEF Stored, Sane
  <2>3. CASE k = 2
    <3>1. writing' = [writing EXCEPT !.left = 1]
      BY <2>5, <2>7, <2>3
    <3>2. writing'.to = writing.to /\ writing'.from = writing.from /\ writing'.left = 1
      BY <2>5, <3>1
    <3>3. config' = [base |-> writing.to.base, min |-> writing.to.min,
                     max |-> writing.from.max]
      BY <2>6, <2>7, <2>3
    <3> QED
      BY <2>8, <3>2, <3>3 DEF Stored, Sane
  <2>4. CASE k = 1
    <3>1. writing.to = [base |-> writing.to.base, min |-> writing.to.min, max |-> writing.to.max]
      BY <2>5 DEF AnySetting
    <3>2. config' = writing.to
      BY <2>4, <2>6, <2>7, <3>1
    <3>3. writing'.left = 0 /\ writing'.to = config' /\ writing'.from = config'
      BY <2>4, <2>7
    <3>4. config' = [base |-> config'.base, min |-> config'.min, max |-> config'.max]
      BY <3>1, <3>2
    <3> QED
      BY <2>8, <3>2, <3>3, <3>4 DEF Stored
  <2> QED
    BY <2>1, <2>2, <2>3, <2>4
<1>4. ASSUME NEW c \in Client, GetLimiter(c) \/ Allow(c) \/ Limited(c) \/ Enter(c) \/ Fail(c)
                               \/ ComputeDifficulty(c) \/ Issue(c) \/ DecrementLoad(c)
      PROVE  UNCHANGED admin
  BY <1>4 DEF GetLimiter, Look, Create, Allow, Limited, Enter, Fail, ComputeDifficulty,
              ReadLoad, ReadBase, ReadMin, Raise, ReadMax, Lower, Issue, DecrementLoad, admin
<1>5. ASSUME NEW c \in Client, Search(c) \/ GiveUp(c) \/ VerifyPoW(c) \/ Conclude(c)
                               \/ Advise(c) \/ Answer(c)
      PROVE  UNCHANGED admin
  BY <1>5 DEF Search, GiveUp, VerifyPoW, Conclude, Advise, Answer, admin
<1>6. CASE (\E k \in Key: Refill(k)) \/ UNCHANGED vars
  BY <1>1, <1>6 DEF Refill, vars, admin
<1> QED
  BY <1>1, <1>2, <1>3, <1>4, <1>5, <1>6 DEF Next

\* Each field that a handler reads is that of a sane setting in force.
LEMMA FieldsInForce ==
    ASSUME Types, Stored
    PROVE  /\ \E s \in InForce: s.min = config.min
           /\ \E s \in InForce: s.max = config.max
           /\ InForce \subseteq {s \in AnySetting: Sane(s)}
<1>1. config \in AnySetting /\ writing.from \in AnySetting /\ writing.to \in AnySetting
      /\ writing.left \in 0..3
  BY DEF Types, TypeOK, AnySetting
<1>2. CASE writing.left = 0
  <2>1. config = writing.to
    BY <1>1, <1>2 DEF Stored, AnySetting
  <2> QED
    BY <1>1, <1>2, <2>1 DEF InForce, Stored
<1>3. CASE writing.left > 0
  <2>1. InForce = {writing.from, writing.to}
    BY <1>3 DEF InForce
  <2>2. config.min = writing.from.min \/ config.min = writing.to.min
    BY DEF Stored
  <2>3. config.max = writing.from.max \/ config.max = writing.to.max
    BY DEF Stored
  <2> QED
    BY <1>1, <2>1, <2>2, <2>3 DEF Stored
<1> QED
  BY <1>1, <1>2, <1>3

LEMMA WitnessedStep == Types /\ Stored /\ Witnessed /\ [Next]_vars => Witnessed'
<1> SUFFICES ASSUME Types, Stored, Witnessed, [Next]_vars
             PROVE  Witnessed'
  OBVIOUS
<1> USE ServiceAssumption
<1>0. ASSUME UNCHANGED <<config, writing, inForce>>,
             \A c \in Client: at'[c] \in Inside => at[c] \in Inside
      PROVE  Witnessed'
  BY <1>0 DEF Witnessed, InForce
<1>1. ASSUME NEW c \in Client, GetLimiter(c) \/ Allow(c) \/ Limited(c) \/ Fail(c)
                               \/ ComputeDifficulty(c) \/ Issue(c)
      PROVE  Witnessed'
  <2>1. UNCHANGED <<config, writing, inForce>>
    BY <1>1 DEF GetLimiter, Look, Create, Allow, Limited, Fail, ComputeDifficulty,
                ReadLoad, ReadBase, ReadMin, Raise, ReadMax, Lower, Issue, admin
  <2>2. \A d \in Client: at'[d] \in Inside => at[d] \in Inside
    BY <1>1 DEF GetLimiter, Look, Create, Allow, Limited, Fail, ComputeDifficulty,
                ReadLoad, ReadBase, ReadMin, Raise, ReadMax, Lower, Issue, Goto, Inside,
                Types, TypeOK
  <2> QED
    BY <1>0, <2>1, <2>2
<1>2. ASSUME NEW c \in Client, Search(c) \/ GiveUp(c) \/ VerifyPoW(c) \/ Conclude(c)
      PROVE  Witnessed'
  <2>1. UNCHANGED <<config, writing, inForce>>
    BY <1>2 DEF Search, GiveUp, VerifyPoW, Conclude, admin
  <2>2. \A d \in Client: at'[d] \in Inside => at[d] \in Inside
    BY <1>2 DEF Search, GiveUp, VerifyPoW, Conclude, Goto, Inside, Types, TypeOK
  <2> QED
    BY <1>0, <2>1, <2>2
<1>3. ASSUME NEW c \in Client, Enter(c) \/ Advise(c)
      PROVE  Witnessed'
  <2>1. inForce' = [inForce EXCEPT ![c] = InForce]
    BY <1>3 DEF Enter, Advise
  <2>3. InForce' = InForce
    BY <1>3 DEF Enter, Advise, InForce, admin
  <2>4. \A d \in Client: d # c => at'[d] = at[d]
    BY <1>3 DEF Enter, Advise, Goto, Types, TypeOK
  <2>2. InForce \in SUBSET {s \in AnySetting: Sane(s)}
    BY FieldsInForce
  <2> QED
    BY <2>1, <2>2, <2>3, <2>4 DEF Witnessed
<1>4. ASSUME NEW c \in Client, DecrementLoad(c) \/ Answer(c)
      PROVE  Witnessed'
  <2>1. inForce' = [inForce EXCEPT ![c] = {}]
    BY <1>4 DEF DecrementLoad, Answer
  <2>2. InForce' = InForce
    BY <1>4 DEF DecrementLoad, Answer, InForce, admin
  <2>3. at'[c] \notin Inside /\ \A d \in Client: d # c => at'[d] = at[d]
    BY <1>4 DEF DecrementLoad, Answer, Goto, Inside, Types, TypeOK
  <2> QED
    BY <2>1, <2>2, <2>3 DEF Witnessed
<1>5. ASSUME NEW s \in Setting, SetDifficulty(s)
      PROVE  Witnessed'
  <2>1. s \in AnySetting /\ Sane(s)
    BY <1>5 DEF SetDifficulty, AnySetting
  <2>2. at' = at /\ writing.left = 0
        /\ inForce' = [c \in Client |->
                         IF inForce[c] = {} THEN {} ELSE inForce[c] \cup {s}]
    BY <1>5 DEF SetDifficulty
  <2>3. InForce = {config} /\ InForce' = {config, s}
    BY <1>5 DEF SetDifficulty, InForce
  <2>4. inForce' \in [Client -> SUBSET {r \in AnySetting: Sane(r)}]
    BY <2>1, <2>2 DEF Witnessed
  <2>5. ASSUME NEW c \in Client, at'[c] \in Inside
        PROVE  InForce' \subseteq inForce'[c]
    <3>1. config \in inForce[c]
      BY <2>2, <2>3, <2>5 DEF Witnessed
    <3> QED
      BY <2>2, <2>3, <3>1
  <2> QED
    BY <2>4, <2>5 DEF Witnessed
<1>6. CASE Store
  <2>1. InForce' \subseteq InForce
    <3>1. CASE writing.left > 1
      BY <1>6, <3>1 DEF Store, InForce, Types, TypeOK
    <3>2. CASE writing.left = 1
      <4>1. writing.to = [base |-> writing.to.base, min |-> writing.to.min,
                          max |-> writing.to.max]
        BY DEF Types, TypeOK, AnySetting
      <4>2. config.base = writing.to.base /\ config.min = writing.to.min
        BY <3>2 DEF Stored
      <4>3. config' = [base |-> config.base, min |-> config.min, max |-> writing.to.max]
        BY <1>6, <3>2 DEF Store
      <4>4. config' = writing.to
        BY <4>1, <4>2, <4>3
      <4>5. writing'.left = 0
        BY <1>6, <3>2 DEF Store
      <4>6. InForce = {writing.from, writing.to} /\ InForce' = {config'}
        BY <3>2, <4>5 DEF InForce
      <4> QED
        BY <4>4, <4>6
    <3> QED
      BY <1>6, <3>1, <3>2 DEF Store, Types, TypeOK
  <2>2. at' = at /\ inForce' = inForce
    BY <1>6 DEF Store
  <2> QED
    BY <2>1, <2>2 DEF Witnessed
<1>7. CASE (\E k \in Key: Refill(k)) \/ UNCHANGED vars
  BY <1>0, <1>7 DEF Refill, vars, admin
<1> QED
  BY <1>1, <1>2, <1>3, <1>4, <1>5, <1>6, <1>7 DEF Next

LEMMA BoundsStep ==
    Types /\ Stored /\ Witnessed /\ Bounds /\ [Next]_vars => Bounds'
<1> SUFFICES ASSUME Types, Stored, Witnessed, Bounds, [Next]_vars
             PROVE  Bounds'
  OBVIOUS
<1> USE ServiceAssumption
<1>0. ASSUME NEW c \in Client, at'[c] \notin {"max", "settled"},
             UNCHANGED turn \/ turn' = [turn EXCEPT ![c] = "verify"],
             \A d \in Client: d # c =>
                 at'[d] = at[d] /\ difficulty'[d] = difficulty[d] /\ inForce'[d] = inForce[d]
      PROVE  Bounds'
  BY <1>0 DEF Bounds, Types, TypeOK
<1>1. ASSUME NEW c \in Client, GetLimiter(c) \/ Allow(c) \/ Limited(c) \/ Enter(c)
                               \/ Fail(c) \/ ReadLoad(c) \/ ReadBase(c) \/ Issue(c)
                               \/ DecrementLoad(c)
      PROVE  Bounds'
  <2>1. /\ at'[c] \notin {"max", "settled"} /\ UNCHANGED turn
        /\ \A d \in Client: d # c => at'[d] = at[d]
    BY <1>1 DEF GetLimiter, Look, Create, Allow, Limited, Enter, Fail, ReadLoad, ReadBase,
                Issue, DecrementLoad, Goto, Types, TypeOK
  <2>2. \A d \in Client: d # c => difficulty'[d] = difficulty[d] /\ inForce'[d] = inForce[d]
    BY <1>1 DEF GetLimiter, Look, Create, Allow, Limited, Enter, Fail, ReadLoad, ReadBase,
                Issue, DecrementLoad, Types, TypeOK, Witnessed
  <2> QED
    BY <1>0, <2>1, <2>2
<1>2. ASSUME NEW c \in Client, Search(c) \/ GiveUp(c) \/ VerifyPoW(c) \/ Conclude(c)
                               \/ Answer(c)
      PROVE  Bounds'
  <2>1. /\ at'[c] \notin {"max", "settled"}
        /\ UNCHANGED turn \/ turn' = [turn EXCEPT ![c] = "verify"]
        /\ \A d \in Client: d # c => at'[d] = at[d]
    BY <1>2 DEF Search, GiveUp, VerifyPoW, Conclude, Answer, Goto, Types, TypeOK
  <2>2. \A d \in Client: d # c => difficulty'[d] = difficulty[d] /\ inForce'[d] = inForce[d]
    BY <1>2 DEF Search, GiveUp, VerifyPoW, Conclude, Answer, Types, TypeOK, Witnessed
  <2> QED
    BY <1>0, <2>1, <2>2
<1>3. ASSUME NEW c \in Client, Advise(c)
      PROVE  Bounds'
  <2>1. turn[c] = "verify" /\ turn' = turn
    BY <1>3 DEF Advise, Goto, Types, TypeOK, Phases, Shared, Inside
  <2>2. at' = [at EXCEPT ![c] = "max"]
    BY <1>3 DEF Advise, Goto
  <2>3. \A d \in Client: d # c => difficulty'[d] = difficulty[d] /\ inForce'[d] = inForce[d]
    BY <1>3 DEF Advise, Types, TypeOK, Witnessed
  <2> QED
    BY <2>1, <2>2, <2>3 DEF Bounds, Types, TypeOK
<1>4. ASSUME NEW c \in Client, ReadMin(c) \/ Raise(c) \/ ReadMax(c) \/ Lower(c)
      PROVE  Bounds'
  <2>1. at[c] \in Inside /\ inForce' = inForce /\ turn' = turn
    BY <1>4 DEF ReadMin, Raise, ReadMax, Lower, Goto, Inside
  <2>2. \A d \in Client: d # c => at'[d] = at[d] /\ difficulty'[d] = difficulty[d]
    BY <1>4 DEF ReadMin, Raise, ReadMax, Lower, Goto, Types, TypeOK
  <2>3. PICK lo \in inForce[c]: lo.min = config.min
    BY <2>1, FieldsInForce DEF Witnessed
  <2>4. PICK hi \in inForce[c]: hi.max = config.max
    BY <2>1, FieldsInForce DEF Witnessed
  <2>5. lo \in AnySetting /\ hi \in AnySetting /\ hi.min <= hi.max
    BY <2>3, <2>4 DEF Witnessed, Sane, AnySetting
  <2>6. difficulty[c] \in Int /\ difficulty'[c] \in Int /\ config \in AnySetting
    BY <1>4, TypesChallenge DEF ComputeDifficulty, Types, TypeOK, AnySetting
  <2>7. turn[c] = "challenge" /\ at'[c] \in {"max", "settled"} =>
            \E s \in inForce[c]: s.min <= difficulty'[c]
    <3>1. CASE ReadMin(c)
      <4>1. at'[c] = "max" => lo.min <= difficulty'[c]
        BY <2>3, <2>5, <2>6, <3>1 DEF ReadMin, Goto, Types, TypeOK, AnySetting
      <4>2. at'[c] \in {"raise", "max"}
        BY <3>1 DEF ReadMin, Goto, Types, TypeOK
      <4> QED
        BY <4>1, <4>2
    <3>2. CASE Raise(c)
      <4>1. difficulty'[c] = config.min
        BY <3>2 DEF Raise, Types, TypeOK
      <4> QED
        BY <2>3, <2>5, <2>6, <4>1
    <3>3. CASE ReadMax(c)
      BY <3>3 DEF ReadMax, Goto, Bounds
    <3>4. CASE Lower(c)
      <4>1. difficulty'[c] = config.max
        BY <3>4 DEF Lower, Types, TypeOK
      <4> QED
        BY <2>4, <2>5, <4>1
    <3> QED
      BY <1>4, <3>1, <3>2, <3>3, <3>4
  <2>8. at'[c] = "settled" => \E s \in inForce[c]: difficulty'[c] <= s.max
    <3>1. CASE ReadMin(c) \/ Raise(c)
      BY <3>1 DEF ReadMin, Raise, Goto, Types, TypeOK
    <3>2. CASE ReadMax(c)
      <4>1. at'[c] = "settled" => difficulty'[c] <= hi.max
        BY <2>4, <2>5, <2>6, <3>2 DEF ReadMax, Goto, Types, TypeOK, AnySetting
      <4> QED
        BY <4>1
    <3>3. CASE Lower(c)
      <4>1. difficulty'[c] = config.max
        BY <3>3 DEF Lower, Types, TypeOK
      <4> QED
        BY <2>4, <2>5, <2>6, <4>1 DEF AnySetting
    <3> QED
      BY <1>4, <3>1, <3>2, <3>3
  <2> QED
    BY <2>1, <2>2, <2>7, <2>8 DEF Bounds
<1>5. ASSUME NEW s \in Setting, SetDifficulty(s)
      PROVE  Bounds'
  <2>1. UNCHANGED <<at, turn, difficulty>>
        /\ \A c \in Client: inForce[c] \subseteq inForce'[c]
    BY <1>5 DEF SetDifficulty
  <2> QED
    BY <2>1 DEF Bounds
<1>6. CASE Store \/ (\E k \in Key: Refill(k)) \/ UNCHANGED vars
  BY <1>6 DEF Store, Refill, vars, Bounds
<1> QED
  BY <1>1, <1>2, <1>3, <1>4, <1>5, <1>6 DEF Next, ComputeDifficulty

\* However the handler's reads and the administrator's stores interleave, every
\* difficulty lies between bounds that were in force (challenge.go:96-107).
THEOREM DifficultyStaysInForce == Spec => []DifficultyInForce
<1>1. Init => Stored /\ Witnessed /\ Bounds
  <2> SUFFICES ASSUME Init
               PROVE  Stored /\ Witnessed /\ Bounds
    OBVIOUS
  <2>1. config \in AnySetting /\ Sane(config)
    BY ServiceAssumption DEF Init, AnySetting
  <2>2. Stored
    BY <2>1 DEF Init, Stored, AnySetting
  <2>3. Witnessed /\ Bounds
    BY DEF Init, Witnessed, Bounds, Inside
  <2> QED
    BY <2>2, <2>3
<1>2. Bounds => DifficultyInForce
  BY DEF Bounds, DifficultyInForce
<1> QED
  BY <1>1, <1>2, StoredStep, WitnessedStep, BoundsStep, Typed, PTL DEF Spec

=============================================================================
