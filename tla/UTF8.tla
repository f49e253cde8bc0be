-------------------------------- MODULE UTF8 --------------------------------
(***************************************************************************)
(* utf-8.c: which strings the library accepts as client id, user name,     *)
(* password and topic.  A string is a sequence of bytes, and in memory it  *)
(* is followed by a terminating 0.                                         *)
(***************************************************************************)
EXTENDS Integers, Sequences

Between(lower, upper) == [lower |-> lower, upper |-> upper]
Continuation == Between(128, 191)

valid_ranges ==
    { << Between(0, 127) >>,
      << Between(194, 223), Continuation >>,
      << Between(224, 224), Between(160, 191), Continuation >>,
      << Between(225, 236), Continuation, Continuation >>,
      << Between(237, 237), Between(128, 159), Continuation >>,
      << Between(238, 239), Continuation, Continuation >>,
      << Between(240, 240), Between(144, 191), Continuation, Continuation >>,
      << Between(241, 243), Continuation, Continuation, Continuation >>,
      << Between(244, 244), Between(128, 143), Continuation, Continuation >> }

\* The compiler's char is signed: bytes from 128 on are negative
Signed(b) == IF b >= 128 THEN b - 256 ELSE b

\* The byte at position i, which may be past the end
At(text, i) == IF i <= Len(text) THEN text[i] ELSE 0

charlen(b) == IF b < 128 THEN 1 ELSE IF b >= 240 THEN 4 ELSE IF b >= 224 THEN 3 ELSE 2

\* Fault: the limits are compared as they are written, the bytes as chars
CharMatchesUnsigned(text, i, row) ==
    \A j \in DOMAIN row : LET c == Signed(At(text, i + j - 1))
                          IN c >= row[j].lower /\ c <= row[j].upper

CharMatches(text, i, row) ==
    \A j \in DOMAIN row : LET c == Signed(At(text, i + j - 1))
                          IN c >= Signed(row[j].lower) /\ c <= Signed(row[j].upper)

\* UTF8_char_validate at position i, told that len bytes are left, whatever is:
\* the position of the next character, or 0
UTF8_char_validate(len, text, i) ==
    LET n == charlen(At(text, i))
    IN IF n <= len /\ \E row \in valid_ranges : Len(row) = n /\ CharMatches(text, i, row)
       THEN i + n ELSE 0

\* UTF8_validate, UTF8_validateString: the length is not reduced on the way
UTF8_validate(text) ==
    LET from[i \in 0..Len(text) + 4] ==
            IF i = 0 THEN FALSE
            ELSE IF i > Len(text) THEN TRUE
            ELSE from[UTF8_char_validate(Len(text), text, i)]
    IN from[1]

-----------------------------------------------------------------------------
(* What UTF-8 is: each character is the shortest encoding of a code point  *)
(* that is not a surrogate.                                                *)

Continues(b) == b \div 64 = 2

\* The code point that n bytes from position i encode, or -1
CodePoint(text, i, n) ==
    LET b(j) == text[i + j - 1]
        low(j) == b(j) % 64
    IN IF i + n - 1 > Len(text) \/ \E j \in 2..n : ~Continues(b(j)) THEN -1
       ELSE CASE n = 1 /\ b(1) < 128        -> b(1)
              [] n = 2 /\ b(1) \div 32 = 6  -> (b(1) % 32) * 64 + low(2)
              [] n = 3 /\ b(1) \div 16 = 14 -> ((b(1) % 16) * 64 + low(2)) * 64 + low(3)
              [] n = 4 /\ b(1) \div 8 = 30  ->
                     (((b(1) % 8) * 64 + low(2)) * 64 + low(3)) * 64 + low(4)
              [] OTHER -> -1

Smallest == <<0, 128, 2048, 65536>>

IsCharacter(text, i, n) ==
    LET cp == CodePoint(text, i, n)
    IN cp >= Smallest[n] /\ cp <= 1114111 /\ cp \notin 55296..57343

IsUTF8(text) ==
    LET from[i \in 1..Len(text) + 1] ==
            i > Len(text) \/ \E n \in 1..4 : IsCharacter(text, i, n) /\ from[i + n]
    IN from[1]
=============================================================================
