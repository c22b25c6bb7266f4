----------------------------- MODULE ProofOfWork -----------------------------
(***************************************************************************)
(* The arithmetic of the proof of work on its three sides: crypto/sha256   *)
(* and challenge.go in the server, web/worker.js in the legacy page and    *)
(* sdk/src/core/pow-worker.ts in the SDK.  Of SHA-256 only the padding is  *)
(* written down: two sides that hash the same blocks get the same digest,  *)
(* two that hash different ones get digests that have nothing in common.   *)
(* A byte of the message itself is -1; its value does not matter here.     *)
(***************************************************************************)
EXTENDS Integers, Sequences

\* Byte k of a 32-bit number, from the least significant one.
Byte(x, k) == (x \div <<1, 256, 65536, 16777216>>[k + 1]) % 256

\* Byte k of the length in bits, a 64-bit number, of a message of n bytes.
LengthByte(n, k) == IF k < 4 THEN Byte(8 * n, k) ELSE Byte(n \div 536870912, k - 4)

\* Messages whose length in bits fits in half of that.
Short32(n) == n < 536870912

\* FIPS 180-4: a one, zeros, and the length in 64 bits, up to a whole block.
Blocks(n) == CHOOSE p \in (n + 9)..(n + 72) : p % 64 = 0

Sha256Pad(n) ==
    [i \in 0..(Blocks(n) - 1) |->
        IF i < n THEN -1
        ELSE IF i = n THEN 128
        ELSE IF i < Blocks(n) - 8 THEN 0
        ELSE LengthByte(n, Blocks(n) - 1 - i)]

\* worker.js: a zeroed array of padLen bytes, into which the message, 0x80 and
\* a 32-bit length are written.
WebPad(n) ==
    LET padLen == ((n + 8) \div 64) * 64 + 64
    IN  [i \in 0..(padLen - 1) |->
            IF i >= padLen - 4 THEN Byte(8 * n, padLen - 1 - i)
            ELSE IF i = n THEN 128
            ELSE IF i < n THEN -1 ELSE 0]

\* pow-worker.ts: bytes are pushed until the length is 56 modulo 64, and then
\* the eight bytes bitLen >>> (8 * k); JavaScript shifts by 8 * k modulo 32.
SdkPad(n) ==
    LET zeros == CHOOSE z \in 0..63 : (n + 1 + z) % 64 = 56
        bytes == n + 1 + zeros
    IN  [i \in 0..(bytes + 7) |->
            IF i < n THEN -1
            ELSE IF i = n THEN 128
            ELSE IF i < bytes THEN 0
            ELSE Byte(8 * n, (bytes + 7 - i) % 4)]

-----------------------------------------------------------------------------
(* Leading zeros of a digest, a sequence of bytes *)

\* The top r < 8 bits of a byte: b & (0xFF << (8 - r)).
TopBits(b, r) == b \div <<256, 128, 64, 32, 16, 8, 4, 2>>[r + 1]

\* hasLeadingZeroBits of challenge.go and worker.js; of no bits, or of a negative
\* number of them, nothing is asked.
ZeroBytes(digest, bits) ==
    bits > 0 =>
    LET fullBytes == bits \div 8
    IN  /\ \A i \in 1..fullBytes: digest[i] = 0
        /\ bits % 8 > 0 => TopBits(digest[fullBytes + 1], bits % 8) = 0

\* hasLeadingZeroBits of pow-worker.ts, on the hexadecimal digits.
TopNibble(x, r) == x \div <<16, 8, 4, 2>>[r + 1]

Nibble(digest, i) ==
    LET b == digest[((i - 1) \div 2) + 1]
    IN  IF i % 2 = 1 THEN b \div 16 ELSE b % 16

ZeroNibbles(digest, bits) ==
    bits > 0 =>
    LET fullNibbles == bits \div 4
    IN  /\ \A i \in 1..fullNibbles: Nibble(digest, i) = 0
        /\ bits % 4 > 0 => TopNibble(Nibble(digest, fullNibbles + 1), bits % 4) = 0

=============================================================================
