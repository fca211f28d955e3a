---------------------------- MODULE FormatProofs -----------------------------
(***************************************************************************)
(* Words and bytes, for every base of a byte.                              *)
(***************************************************************************)
EXTENDS FaeFormat, TLAPS

-----------------------------------------------------------------------------
(***************************************************************************)
(* Types.                                                                  *)
(***************************************************************************)

(* A digit and a smaller number, in a positional system.                   *)
LEMMA Horner ==
  ASSUME NEW B \in Nat, NEW M \in Nat,
         NEW b \in 0 .. (B - 1), NEW y \in 0 .. (M - 1)
  PROVE  b + B * y \in 0 .. (B * M - 1)
<1>1. B * y \in Nat
  OBVIOUS
<1>2. B * y + B = B * (y + 1)
  OBVIOUS
<1>3. B * (y + 1) <= B * M
  OBVIOUS
<1>4. B * M \in Nat
  OBVIOUS
<1> QED
  BY <1>1, <1>2, <1>3, <1>4

(* A word has at least 256 values, and its count is a multiple of four.    *)
LEMMA WordModFacts == WordMod \in Nat /\ WordMod >= 256 /\ WordMod % 4 = 0
<1>1. ByteBase \in Nat /\ ByteBase >= 4
  BY ByteBaseAssumption
<1> DEFINE b2 == ByteBase * ByteBase
           b3 == ByteBase * b2
<1>2. b2 \in Nat /\ b2 >= 16
  BY <1>1
<1>3. b3 \in Nat /\ b3 >= 64
  <2> HIDE DEF b2
  <2> QED BY <1>1, <1>2
<1>4. ByteBase * b3 \in Nat /\ ByteBase * b3 >= 256
  <2> HIDE DEF b3
  <2> QED BY <1>1, <1>3
<1>5. (ByteBase * b3) % 4 = 0
  <2> HIDE DEF b3
  <2> DEFINE k == ByteBase \div 4
  <2>1. k \in Nat /\ ByteBase = 4 * k
    BY ByteBaseAssumption
  <2> HIDE DEF k
  <2>2. ByteBase * b3 = 4 * (k * b3)
    BY <2>1, <1>3
  <2>3. k * b3 \in Nat
    BY <2>1, <1>3
  <2> QED BY <2>2, <2>3
<1> QED
  BY <1>4, <1>5 DEF WordMod

LEMMA WordNat == \A x \in Word : x \in Nat
BY WordModFacts DEF Word

(* The sum of two words, as uint32_t computes it, is a word.               *)
LEMMA AddType ==
  ASSUME NEW x \in Word, NEW y \in Word
  PROVE  Add(x, y) \in Word
BY WordModFacts DEF Word, Add

(* A digit of a number is a byte.                                          *)
LEMMA DigitType ==
  ASSUME NEW x \in Nat
  PROVE  x % ByteBase \in Byte
BY ByteBaseAssumption DEF Byte

(* A word is stored as four bytes.                                         *)
LEMMA ToWordType ==
  ASSUME NEW x \in Word
  PROVE  /\ to_word(x) \in Seq(Byte)
         /\ Len(to_word(x)) = 4
<1> DEFINE b2 == ByteBase * ByteBase
           b3 == ByteBase * b2
<1>1. ByteBase \in Nat /\ ByteBase > 0
  BY ByteBaseAssumption
<1>2. b2 \in Nat /\ b2 > 0
  BY <1>1
<1>3. b3 \in Nat /\ b3 > 0
  <2> HIDE DEF b2
  <2> QED BY <1>1, <1>2
<1>4. x \in Nat
  BY WordModFacts DEF Word
<1> HIDE DEF b2, b3
<1>5. x \div ByteBase \in Nat /\ x \div b2 \in Nat /\ x \div b3 \in Nat
  BY <1>1, <1>2, <1>3, <1>4
<1>6. /\ x % ByteBase \in Byte
      /\ (x \div ByteBase) % ByteBase \in Byte
      /\ (x \div b2) % ByteBase \in Byte
      /\ (x \div b3) % ByteBase \in Byte
  BY <1>4, <1>5, DigitType
<1> QED
  BY <1>6 DEF to_word, b2, b3

(* Four bytes make a word.                                                 *)
LEMMA FromBytesType ==
  ASSUME NEW w0 \in Byte, NEW w1 \in Byte, NEW w2 \in Byte, NEW w3 \in Byte
  PROVE  from_bytes(w0, w1, w2, w3) \in Word
<1> DEFINE b2 == ByteBase * ByteBase
           b3 == ByteBase * b2
           h1 == w2 + ByteBase * w3
           h2 == w1 + ByteBase * h1
<1>1. ByteBase \in Nat
  BY ByteBaseAssumption
<1>2. b2 \in Nat
  BY <1>1
<1>3. b3 \in Nat
  <2> HIDE DEF b2
  <2> QED BY <1>1, <1>2
<1> HIDE DEF b2, b3, h1, h2
<1>4. h1 \in 0 .. (b2 - 1)
  BY <1>1, Horner DEF h1, b2, Byte
<1>5. h2 \in 0 .. (b3 - 1)
  BY <1>1, <1>2, <1>4, Horner DEF h2, b3, Byte
<1>6. w0 + ByteBase * h2 \in 0 .. (ByteBase * b3 - 1)
  BY <1>1, <1>3, <1>5, Horner DEF Byte
<1> QED
  BY <1>6 DEF from_bytes, Word, WordMod, b2, b3, h1, h2

-----------------------------------------------------------------------------
(***************************************************************************)
(* A word survives.                                                        *)
(***************************************************************************)

(* The quotient and the remainder of a division.                           *)
LEMMA Division ==
  ASSUME NEW x \in Nat, NEW d \in Nat \ {0}
  PROVE  /\ x \div d \in Nat /\ x % d \in Nat /\ x % d < d
         /\ x = d * (x \div d) + (x % d)
<1> DEFINE k == x \div d
           m == x % d
<1>1. k \in Nat /\ m \in 0 .. (d - 1) /\ x = d * k + m
  OBVIOUS
<1> QED
  BY <1>1

(* The quotient is the only one with a remainder below the divisor.        *)
LEMMA Quotient ==
  ASSUME NEW d \in Nat \ {0}, NEW q \in Nat, NEW r \in 0 .. (d - 1), NEW x \in Nat,
         x = d * q + r
  PROVE  x \div d = q /\ x % d = r
<1> DEFINE k == x \div d
           m == x % d
<1>1. k \in Nat /\ m \in 0 .. (d - 1) /\ x = d * k + m
  OBVIOUS
<1> HIDE DEF k, m
<1>2. ASSUME k < q
      PROVE  FALSE
  <2>1. q = k + 1 + (q - k - 1) /\ q - k - 1 \in Nat
    BY <1>1, <1>2
  <2>2. d * q = d * k + d + d * (q - k - 1)
    BY <1>1, <2>1
  <2>3. d * (q - k - 1) \in Nat /\ d * k \in Nat
    BY <1>1, <2>1
  <2> QED
    BY <1>1, <2>2, <2>3
<1>3. ASSUME q < k
      PROVE  FALSE
  <2>1. k = q + 1 + (k - q - 1) /\ k - q - 1 \in Nat
    BY <1>1, <1>3
  <2>2. d * k = d * q + d + d * (k - q - 1)
    BY <1>1, <2>1
  <2>3. d * (k - q - 1) \in Nat /\ d * q \in Nat
    BY <1>1, <2>1
  <2> QED
    BY <1>1, <2>2, <2>3
<1>4. k = q
  BY <1>1, <1>2, <1>3
<1>5. m = r
  <2>1. d * q \in Nat
    OBVIOUS
  <2> QED
    BY <1>1, <1>4, <2>1
<1> QED
  BY <1>4, <1>5 DEF k, m

(* Dividing twice is dividing by the product.                              *)
LEMMA DivideTwice ==
  ASSUME NEW x \in Nat, NEW B \in Nat \ {0}, NEW C \in Nat \ {0}
  PROVE  x \div (B * C) = (x \div B) \div C
<1> DEFINE k == x \div B
           m == x % B
           n == k \div C
           l == k % C
<1>1. k \in Nat /\ m \in 0 .. (B - 1) /\ x = B * k + m
  OBVIOUS
<1> HIDE DEF k, m
<1>2. n \in Nat /\ l \in 0 .. (C - 1) /\ k = C * n + l
  BY <1>1
<1> HIDE DEF n, l
<1> DEFINE d == B * C
           r == m + B * l
<1>3. r \in 0 .. (d - 1)
  BY <1>1, <1>2, Horner
<1>4. d \in Nat \ {0}
  <2>1. C = 1 + (C - 1) /\ C - 1 \in Nat
    OBVIOUS
  <2>2. B * C = B + B * (C - 1) /\ B * (C - 1) \in Nat
    BY <2>1
  <2> QED
    BY <2>2
<1>5. x = d * n + r
  <2>1. B * k = B * (C * n) + B * l
    BY <1>1, <1>2
  <2>2. B * (C * n) = (B * C) * n
    BY <1>1, <1>2
  <2>3. B * l \in Nat /\ (B * C) * n \in Nat
    BY <1>2
  <2> QED
    BY <1>1, <2>1, <2>2, <2>3
<1> HIDE DEF d, r
<1>6. x \div d = n
  BY <1>2, <1>3, <1>4, <1>5, Quotient
<1> QED
  BY <1>6 DEF d, n, k

(* What build_fae.py writes as a word, the loader and read_fae.py read as  *)
(* that word.                                                              *)
THEOREM WordSurvives ==
  ASSUME NEW x \in Word
  PROVE  from_bytes(to_word(x)[1], to_word(x)[2], to_word(x)[3], to_word(x)[4]) = x
<1> DEFINE B  == ByteBase
           b2 == B * B
           b3 == B * b2
<1> DEFINE q1 == x \div B
           q2 == q1 \div B
           q3 == q2 \div B
<1>1. B \in Nat \ {0} /\ x \in Nat
  BY ByteBaseAssumption, WordModFacts DEF Word
<1>2. b2 \in Nat \ {0}
  BY <1>1
<1>3. b3 \in Nat \ {0}
  <2> HIDE DEF b2, B
  <2> QED BY <1>1, <1>2
<1> HIDE DEF B
<1>4. x \div b2 = q2
  BY <1>1, DivideTwice
<1>5. q1 \in Nat /\ x % B \in Nat /\ x = B * q1 + (x % B)
  BY <1>1, Division, Zenon
<1> HIDE DEF q1
<1>6. q2 \in Nat /\ q1 % B \in Nat /\ q1 = B * q2 + (q1 % B)
  BY <1>1, <1>5, Division, Zenon
<1> HIDE DEF q2
<1>7. q3 \in Nat /\ q2 % B \in Nat /\ q2 = B * q3 + (q2 % B)
  BY <1>1, <1>6, Division, Zenon
<1>8. x \div b3 = q3
  <2>1. b3 = b2 * B
    BY <1>1
  <2> HIDE DEF b2, b3, q3
  <2>2. x \div b3 = (x \div b2) \div B
    BY <1>1, <1>2, <2>1, DivideTwice
  <2> QED
    BY <1>4, <2>2 DEF q3
<1>9. q3 \in 0 .. (B - 1)
  <2>1. x < B * b3
    BY <1>1 DEF Word, WordMod, B
  <2> HIDE DEF b2, b3, q3
  <2>2. x \div b3 \in Nat /\ x = b3 * (x \div b3) + (x % b3) /\ x % b3 \in Nat
    BY <1>1, <1>3, Division, Zenon
  <2>3. ASSUME q3 >= B
        PROVE  FALSE
    <3>1. b3 * q3 >= b3 * B
      BY <1>1, <1>3, <1>7, <2>3
    <3>2. b3 * B = B * b3
      BY <1>1, <1>3
    <3> QED
      BY <1>1, <1>3, <1>7, <1>8, <2>1, <2>2, <3>1, <3>2
  <2> QED
    BY <1>1, <1>7, <2>3
<1>10. q3 % B = q3
  <2> HIDE DEF q3
  <2> QED BY <1>1, <1>9
<1>11. to_word(x) = << x % B, q1 % B, q2 % B, q3 % B >>
  BY <1>4, <1>8 DEF to_word, B, q1
<1> HIDE DEF q3, b2, b3
<1>12. from_bytes(x % B, q1 % B, q2 % B, q3) = x
  <2>1. (q2 % B) + B * q3 = q2
    BY <1>1, <1>7, <1>9
  <2>2. (q1 % B) + B * q2 = q1
    BY <1>1, <1>6
  <2>3. (x % B) + B * q1 = x
    BY <1>1, <1>5
  <2> QED
    BY <2>1, <2>2, <2>3 DEF from_bytes, B
<1> QED
  BY <1>10, <1>11, <1>12
=============================================================================
