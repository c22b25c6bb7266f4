------------------------- MODULE MCChallengeService --------------------------
(***************************************************************************)
(* ChallengeService with two clients behind one proxy, of which one may    *)
(* also come directly, two tokens, and two ranges of which neither holds   *)
(* the other, besides one that is refused.                                 *)
(***************************************************************************)
EXTENDS ChallengeService

CONSTANTS w1, s1, i1, p1

TwoClients == {w1, s1}
ByProxy == [forwarded |-> i1, realIp |-> Absent, remoteAddr |-> <<p1, 1>>]
ByOtherProxy == [forwarded |-> Absent, realIp |-> i1, remoteAddr |-> <<p1, 2>>]
Direct == [forwarded |-> Absent, realIp |-> Absent, remoteAddr |-> <<i1, 3>>]
SomeOrigins == [c \in TwoClients |-> IF c = w1 THEN {ByProxy} ELSE {ByOtherProxy, Direct}]
OneOfEach == [c \in TwoClients |-> IF c = w1 THEN "web" ELSE "sdk"]

SomeSettings == {[base |-> -2, min |-> -3, max |-> 0],
                 [base |-> 7, min |-> 7, max |-> 9],
                 [base |-> 5, min |-> 8, max |-> 2]}

\* Digests with 0, 4, 6, 7, 8 and 12 leading zeros.
SomeDigests == {<<128, 0>>, <<8, 255>>, <<2, 9>>, <<1, 0>>, <<0, 255>>, <<0, 8>>}

\* 32 digits, a colon, 32 digits, a colon and one to eight digits.
MessageLengths == 67..74

ASSUME PaddingAgrees == \A n \in 0..200: WebPad(n) = Sha256Pad(n)

ASSUME ZerosAgree ==
    \A a \in {0, 1, 3, 8, 15, 16, 31, 64, 127, 128, 255}, b \in {0, 1, 31, 32, 255}, d \in -9..16:
        ZeroNibbles(<<a, b>>, d) = ZeroBytes(<<a, b>>, d)

=============================================================================
