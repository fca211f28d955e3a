---------------------------- MODULE ImageProofs -----------------------------
(***************************************************************************)
(* Proofs about the contents of the file that build_fae.py writes: what    *)
(* its mask computes, how long its parts are, and where they are found.    *)
(***************************************************************************)
EXTENDS FaeImage, FormatProofs, WellFoundedInduction

-----------------------------------------------------------------------------
(***************************************************************************)
(* Induction, stated with sets.                                            *)
(***************************************************************************)

(* A set of numbers has a least element.                                   *)
LEMMA LeastElement ==
  ASSUME NEW S, S \subseteq Nat, S # {}
  PROVE  \E m \in S : \A k \in S : m <= k
<1>1. PICK m \in S : \A k \in S : ~ (<<k, m>> \in OpToRel(<, Nat))
  BY WFMin, NatLessThanWellFounded
<1>2. OpToRel(<, Nat) = {ss \in Nat \X Nat : ss[1] < ss[2]}
  BY Zenon DEF OpToRel
<1>3. ASSUME NEW k \in S
      PROVE  m <= k
  <2>1. <<k, m>> \notin {ss \in Nat \X Nat : ss[1] < ss[2]}
    BY <1>1, <1>2, Zenon
  <2>2. k \in Nat /\ m \in Nat
    OBVIOUS
  <2>3. ~ (k < m)
    BY <2>1, <2>2
  <2> QED
    BY <2>2, <2>3
<1> QED
  BY <1>3

(* A set that has a number whenever it has all smaller ones has them all.  *)
LEMMA StrongInduction ==
  ASSUME NEW S,
         \A n \in Nat : (\A m \in Nat : m < n => m \in S) => n \in S
  PROVE  Nat \subseteq S
<1> DEFINE Others == {n \in Nat : n \notin S}
<1>1. SUFFICES ASSUME Others # {}
               PROVE  FALSE
  OBVIOUS
<1>2. Others \subseteq Nat
  OBVIOUS
<1>3. PICK m \in Others : \A k \in Others : m <= k
  BY <1>1, <1>2, LeastElement
<1>4. \A k \in Nat : k < m => k \in S
  BY <1>3
<1> QED
  BY <1>3, <1>4

-----------------------------------------------------------------------------
(***************************************************************************)
(* The mask.  And is defined by recursion: that a function satisfies the   *)
(* definition follows from the rows up to any n, each of which is computed *)
(* from the one of half its number.                                        *)
(***************************************************************************)
Row(f, y) ==
  [x \in Nat |->
     IF x = 0 \/ y = 0 THEN 0
                       ELSE 2 * f[y \div 2][x \div 2] + (x % 2) * (y % 2)]

Rows(n) ==
  {f \in [0 .. n -> [Nat -> Nat]] : \A y \in 0 .. n : f[y] = Row(f, y)}

(* A row is computed from an earlier one.                                  *)
LEMMA Halves ==
  ASSUME NEW y \in Nat
  PROVE  /\ y \div 2 \in Nat /\ y % 2 \in 0 .. 1 /\ y = 2 * (y \div 2) + (y % 2)
         /\ y # 0 => y \div 2 < y
OBVIOUS

LEMMA RowType ==
  ASSUME NEW y \in Nat, NEW f,
         y # 0 => f[y \div 2] \in [Nat -> Nat]
  PROVE  Row(f, y) \in [Nat -> Nat]
<1>1. ASSUME NEW x \in Nat, x # 0, y # 0
      PROVE  2 * f[y \div 2][x \div 2] + (x % 2) * (y % 2) \in Nat
  <2>1. f[y \div 2][x \div 2] \in Nat
    BY <1>1, Halves
  <2>2. (x % 2) * (y % 2) \in Nat
    OBVIOUS
  <2> QED
    BY <2>1, <2>2
<1> QED
  BY <1>1 DEF Row

(* Rows agree where they depend on the same earlier row.                   *)
LEMMA RowDepends ==
  ASSUME NEW y \in Nat, NEW f, NEW g,
         y # 0 => f[y \div 2] = g[y \div 2]
  PROVE  Row(f, y) = Row(g, y)
<1>1. CASE y = 0
  BY <1>1 DEF Row
<1>2. CASE y # 0
  BY <1>2 DEF Row
<1> QED
  BY <1>1, <1>2

(* The rows up to any n can be computed.                                   *)
LEMMA RowsExist == \A n \in Nat : Rows(n) # {}
<1> DEFINE S == {n \in Nat : Rows(n) # {}}
<1>1. ASSUME NEW n \in Nat, \A m \in Nat : m < n => m \in S
      PROVE  n \in S
  <2>1. CASE n = 0
    <3> DEFINE f == [y \in 0 .. 0 |-> [x \in Nat |-> 0]]
    <3>1. f \in [0 .. 0 -> [Nat -> Nat]]
      OBVIOUS
    <3>2. ASSUME NEW y \in 0 .. 0
          PROVE  f[y] = Row(f, y)
      BY DEF Row
    <3> QED
      BY <2>1, <3>1, <3>2 DEF Rows
  <2>2. CASE n # 0
    <3>1. PICK f : f \in Rows(n - 1)
      BY <1>1, <2>2
    <3> DEFINE g == [y \in 0 .. n |-> IF y = n THEN Row(f, n) ELSE f[y]]
    <3>2. /\ \A y \in 0 .. (n - 1) : f[y] \in [Nat -> Nat] /\ f[y] = Row(f, y)
      BY <3>1 DEF Rows
    <3>3. \A y \in 0 .. n : y # 0 => y \div 2 \in 0 .. (n - 1)
      BY Halves
    <3>4. Row(f, n) \in [Nat -> Nat]
      BY <2>2, <3>2, <3>3, RowType
    <3>5. g \in [0 .. n -> [Nat -> Nat]]
      BY <3>2, <3>4
    <3>6. ASSUME NEW y \in 0 .. n
          PROVE  g[y] = Row(g, y)
      <4>1. y # 0 => f[y \div 2] = g[y \div 2]
        BY <3>3
      <4>2. g[y] = Row(f, y)
        BY <3>2
      <4> HIDE DEF g
      <4> QED
        BY <4>1, <4>2, RowDepends
    <3> QED
      BY <3>5, <3>6 DEF Rows
  <2> QED
    BY <2>1, <2>2
<1>2. Nat \subseteq S
  <2> HIDE DEF S
  <2> QED
    BY <1>1, StrongInduction
<1> QED
  BY <1>2

(* Computed up to different numbers, a row is the same.                    *)
LEMMA RowsAgree ==
  \A y \in Nat : \A n, m \in Nat : \A f \in Rows(n), g \in Rows(m) :
    y <= n /\ y <= m => f[y] = g[y]
<1> DEFINE S == {y \in Nat : \A n, m \in Nat : \A f \in Rows(n), g \in Rows(m) :
                   y <= n /\ y <= m => f[y] = g[y]}
<1>1. ASSUME NEW y \in Nat, \A k \in Nat : k < y => k \in S
      PROVE  y \in S
  <2> SUFFICES ASSUME NEW n \in Nat, NEW m \in Nat, NEW f \in Rows(n),
                      NEW g \in Rows(m), y <= n, y <= m
               PROVE  f[y] = g[y]
    OBVIOUS
  <2>1. f[y] = Row(f, y) /\ g[y] = Row(g, y)
    <3>1. y \in 0 .. n /\ y \in 0 .. m
      OBVIOUS
    <3> QED
      BY <3>1 DEF Rows
  <2>2. y # 0 => f[y \div 2] = g[y \div 2]
    <3>1. y # 0 => y \div 2 \in S /\ y \div 2 <= n /\ y \div 2 <= m
      BY <1>1, Halves
    <3> QED
      BY <3>1
  <2> QED
    BY <2>1, <2>2, RowDepends
<1>2. Nat \subseteq S
  <2> HIDE DEF S
  <2> QED
    BY <1>1, StrongInduction
<1> QED
  BY <1>2

(* The recursive definition of And has a solution.                         *)
LEMMA AndRows == And = [y \in Nat |-> Row(And, y)]
<1> DEFINE upTo(n) == CHOOSE f : f \in Rows(n)
           F == [y \in Nat |-> upTo(y)[y]]
<1>1. \A n \in Nat : upTo(n) \in Rows(n)
  BY RowsExist
<1> HIDE DEF upTo
<1>2. ASSUME NEW y \in Nat
      PROVE  F[y] = Row(F, y)
  <2>1. F[y] = Row(upTo(y), y)
    BY <1>1 DEF Rows
  <2>2. y # 0 => upTo(y)[y \div 2] = F[y \div 2]
    <3>1. y # 0 => upTo(y)[y \div 2] = upTo(y \div 2)[y \div 2]
      BY <1>1, Halves, RowsAgree
    <3> QED
      BY <3>1, Halves
  <2> HIDE DEF F
  <2> QED
    BY <2>1, <2>2, RowDepends
<1>3. F = [y \in Nat |-> Row(F, y)]
  BY <1>2
<1> HIDE DEF F
<1> QED
  BY <1>3 DEF And, Row

(* So it computes what it says.                                            *)
LEMMA AndUnfolds ==
  ASSUME NEW x \in Nat, NEW y \in Nat
  PROVE  And[y][x] = IF x = 0 \/ y = 0
                       THEN 0
                       ELSE 2 * And[y \div 2][x \div 2] + (x % 2) * (y % 2)
<1>1. And[y] = Row(And, y)
  BY AndRows
<1> QED
  BY <1>1 DEF Row

(* The common bits are bits of the mask.                                   *)
LEMMA AndBounds == \A y \in Nat : \A x \in Nat : And[y][x] \in 0 .. y
<1> DEFINE S == {y \in Nat : \A x \in Nat : And[y][x] \in 0 .. y}
<1>1. ASSUME NEW y \in Nat, \A k \in Nat : k < y => k \in S
      PROVE  y \in S
  <2> SUFFICES ASSUME NEW x \in Nat
               PROVE  And[y][x] \in 0 .. y
    OBVIOUS
  <2>1. CASE x = 0 \/ y = 0
    BY <2>1, AndUnfolds
  <2>2. CASE ~ (x = 0 \/ y = 0)
    <3>1. And[y \div 2][x \div 2] \in 0 .. (y \div 2)
      BY <1>1, <2>2, Halves
    <3>2. And[y][x] = 2 * And[y \div 2][x \div 2] + (x % 2) * (y % 2)
      BY <2>2, AndUnfolds
    <3>3. (x % 2) * (y % 2) \in 0 .. (y % 2)
      <4>1. x % 2 = 0 \/ x % 2 = 1
        BY Halves
      <4> QED
        BY <4>1, Halves
    <3> QED
      BY <3>1, <3>2, <3>3, Halves
  <2> QED
    BY <2>1, <2>2
<1>2. Nat \subseteq S
  <2> HIDE DEF S
  <2> QED
    BY <1>1, StrongInduction
<1> QED
  BY <1>2

(* Halving keeps the remainder by a power of two, but for the last bit.    *)
LEMMA HalfRemainder ==
  ASSUME NEW z \in Nat, NEW p \in Nat \ {0}
  PROVE  z % (2 * p) = 2 * ((z \div 2) % p) + (z % 2)
<1> DEFINE k == z \div 2
           b == z % 2
           q == k \div p
           r == k % p
<1>1. k \in Nat /\ b \in 0 .. 1 /\ z = 2 * k + b
  BY Halves
<1> HIDE DEF k, b
<1>2. q \in Nat /\ r \in Nat /\ r < p /\ k = p * q + r
  BY <1>1, Division
<1> HIDE DEF q, r
<1>3. p * q \in Nat /\ (2 * p) * q = 2 * (p * q) /\ 2 * p \in Nat \ {0}
  BY <1>2
<1>4. z = (2 * p) * q + (2 * r + b) /\ 2 * r + b \in 0 .. (2 * p - 1)
  BY <1>1, <1>2, <1>3
<1> DEFINE d == 2 * p
           s == 2 * r + b
<1>5. d \in Nat \ {0} /\ s \in 0 .. (d - 1) /\ z = d * q + s
  BY <1>3, <1>4
<1> HIDE DEF d, s
<1>6. z % d = s
  BY <1>2, <1>5, Quotient
<1>7. (z \div 2) % p = r /\ z % 2 = b
  BY DEF k, r, b
<1> QED
  BY <1>6, <1>7 DEF d, s

(* One below p is a mask: what it leaves of a number is the remainder.     *)
Masks(p) == \A z \in Nat : And[p - 1][z] = z % p

LEMMA MaskDoubles ==
  ASSUME NEW p \in Nat \ {0}, Masks(p)
  PROVE  Masks(2 * p)
<1> SUFFICES ASSUME NEW z \in Nat
             PROVE  And[2 * p - 1][z] = z % (2 * p)
  BY DEF Masks
<1> DEFINE y == 2 * p - 1
<1>1. y \in Nat /\ y # 0 /\ y = 2 * (p - 1) + 1 /\ p - 1 \in Nat
  OBVIOUS
<1>2. y \div 2 = p - 1 /\ y % 2 = 1
  <2> HIDE DEF y
  <2> QED
    BY <1>1, Quotient
<1> HIDE DEF y
<1>3. z % (2 * p) = 2 * ((z \div 2) % p) + (z % 2)
  BY HalfRemainder
<1>4. z \div 2 \in Nat /\ z % 2 \in 0 .. 1 /\ z = 2 * (z \div 2) + (z % 2)
  BY Halves
<1>5. And[p - 1][z \div 2] = (z \div 2) % p
  BY <1>4 DEF Masks
<1>6. CASE z = 0
  <2>1. And[y][z] = 0
    BY <1>1, <1>6, AndUnfolds
  <2>2. z \div 2 = 0 /\ z % 2 = 0
    BY <1>4, <1>6
  <2>3. (z \div 2) % p = 0
    <3>1. And[p - 1][0] = 0
      BY <1>1, AndUnfolds
    <3> QED
      BY <1>5, <2>2, <3>1
  <2> QED
    BY <1>3, <2>1, <2>2, <2>3 DEF y
<1>7. CASE z # 0
  <2>1. And[y][z] = 2 * And[y \div 2][z \div 2] + (z % 2) * (y % 2)
    BY <1>1, <1>7, AndUnfolds
  <2>2. And[y][z] = 2 * ((z \div 2) % p) + (z % 2) * 1
    BY <1>2, <1>5, <2>1
  <2> QED
    BY <1>3, <1>4, <2>2 DEF y
<1> QED
  BY <1>6, <1>7

(* So is one below each power of two.                                      *)
LEMMA PowerMasks == \A p \in PowersOfTwo : Masks(p)
<1>1. Masks(1)
  <2>1. \A z \in Nat : z % 1 = 0
    BY Division
  <2> QED
    BY <2>1, AndBounds DEF Masks
<1>2. Masks(2) /\ Masks(4) /\ Masks(8)
  BY <1>1, MaskDoubles, SMT
<1>3. Masks(16) /\ Masks(32) /\ Masks(64)
  BY <1>2, MaskDoubles, SMT
<1>4. Masks(128) /\ Masks(256) /\ Masks(512)
  BY <1>3, MaskDoubles, SMT
<1>5. Masks(1024) /\ Masks(2048) /\ Masks(4096)
  BY <1>4, MaskDoubles, SMT
<1>6. Masks(8192) /\ Masks(16384) /\ Masks(32768)
  BY <1>5, MaskDoubles, SMT
<1>7. Masks(65536) /\ Masks(131072) /\ Masks(262144)
  BY <1>6, MaskDoubles, SMT
<1>8. Masks(524288) /\ Masks(1048576) /\ Masks(2097152)
  BY <1>7, MaskDoubles, SMT
<1>9. Masks(4194304) /\ Masks(8388608) /\ Masks(16777216)
  BY <1>8, MaskDoubles, SMT
<1>10. Masks(33554432) /\ Masks(67108864) /\ Masks(134217728)
  BY <1>9, MaskDoubles, SMT
<1>11. Masks(268435456) /\ Masks(536870912) /\ Masks(1073741824)
  BY <1>10, MaskDoubles, SMT
<1> QED
  BY <1>1, <1>2, <1>3, <1>4, <1>5, <1>6, <1>7, <1>8, <1>9, <1>10, <1>11, SMT
     DEF PowersOfTwo

(* The round() of the tool rounds up, by less than what it rounds to.      *)
LEMMA RoundsUp ==
  ASSUME NEW x \in Nat, NEW y \in Nat \ {0}
  PROVE  RoundBits(x, y) \in x .. (x + y - 1)
<1>1. x + y - 1 \in Nat /\ y - 1 \in Nat
  OBVIOUS
<1>2. And[y - 1][x + y - 1] \in 0 .. (y - 1)
  BY <1>1, AndBounds
<1> QED
  BY <1>2 DEF RoundBits

(* The sum of two multiples is one.                                        *)
LEMMA SumOfMultiples ==
  ASSUME NEW x \in Nat, NEW z \in Nat, NEW y \in Nat \ {0}, x % y = 0, z % y = 0
  PROVE  (x + z) % y = 0
<1> DEFINE p == x \div y
           q == z \div y
           k == p + q
           r == 0
           n == x + z
<1>1. p \in Nat /\ x = y * p + 0
  BY Division
<1>2. q \in Nat /\ z = y * q + 0
  BY Division
<1> HIDE DEF p, q
<1>3. y * p + y * q = y * (p + q) /\ y * p \in Nat /\ y * q \in Nat
  BY <1>1, <1>2
<1>4. k \in Nat /\ n \in Nat /\ r \in 0 .. (y - 1) /\ n = y * k + r
  BY <1>1, <1>2, <1>3
<1> HIDE DEF k, r, n
<1>5. n % y = r
  BY <1>4, Quotient
<1> QED
  BY <1>5 DEF n, r

(* The mask by which build_fae.py rounds gives a multiple of the alignment,*)
(* if that is the power of two its usage asks for.                         *)
THEOREM RoundsToMultiple ==
  ASSUME NEW x \in Nat, NEW y \in PowersOfTwo
  PROVE  RoundBits(x, y) % y = 0
<1> DEFINE z == x + y - 1
           q == z \div y
           r == z % y
<1>0. y \in Nat \ {0}
  BY SMT DEF PowersOfTwo
<1>1. z \in Nat
  BY <1>0
<1>2. And[y - 1][z] = r
  BY <1>1, PowerMasks DEF Masks
<1> HIDE DEF z
<1>3. q \in Nat /\ r \in Nat /\ z = y * q + r
  BY <1>0, <1>1, Division
<1> HIDE DEF q, r
<1> DEFINE m == y * q
<1>4. m \in Nat /\ RoundBits(x, y) = m
  BY <1>0, <1>2, <1>3 DEF RoundBits, z
<1> DEFINE s == 0
<1>5. s \in 0 .. (y - 1) /\ m = y * q + s
  BY <1>0, <1>4
<1> HIDE DEF m, s
<1>6. q \in Nat /\ m \in Nat
  BY <1>3, <1>4
<1> HIDE DEF z
<1>7. m % y = s
  BY <1>0, <1>5, <1>6, Quotient
<1> QED
  BY <1>4, <1>7 DEF s

-----------------------------------------------------------------------------
(***************************************************************************)
(* Parts of a sequence of bytes.                                           *)
(***************************************************************************)

(* The bytes of t are in b from offset k on.                               *)
HasAt(b, k, t) ==
  /\ k \in Nat /\ k + Len(t) <= Len(b)
  /\ \A i \in 1 .. Len(t) : b[k + i] = t[i]

(* Two parts are one behind the other.                                     *)
LEMMA TwoParts ==
  ASSUME NEW b, NEW k, NEW s \in Seq(Byte), NEW t \in Seq(Byte), Len(b) \in Nat,
         HasAt(b, k, s \o t)
  PROVE  HasAt(b, k, s) /\ HasAt(b, k + Len(s), t)
<1>1. /\ Len(s) \in Nat /\ Len(t) \in Nat /\ Len(s \o t) = Len(s) + Len(t)
      /\ \A i \in 1 .. Len(s) : (s \o t)[i] = s[i]
      /\ \A i \in 1 .. Len(t) : (s \o t)[Len(s) + i] = t[i]
  OBVIOUS
<1>2. /\ k \in Nat /\ k + (Len(s) + Len(t)) <= Len(b)
      /\ \A i \in 1 .. (Len(s) + Len(t)) : b[k + i] = (s \o t)[i]
  BY <1>1 DEF HasAt
<1>3. ASSUME NEW i \in 1 .. Len(t)
      PROVE  b[k + Len(s) + i] = t[i]
  <2>1. Len(s) + i \in 1 .. (Len(s) + Len(t)) /\ k + (Len(s) + i) = k + Len(s) + i
    BY <1>1, <1>2
  <2>2. b[k + (Len(s) + i)] = (s \o t)[Len(s) + i]
    BY <1>2, <2>1
  <2> QED
    BY <1>1, <2>1, <2>2
<1>4. ASSUME NEW i \in 1 .. Len(s)
      PROVE  b[k + i] = s[i]
  BY <1>1, <1>2
<1> QED
  BY <1>1, <1>2, <1>3, <1>4 DEF HasAt

(* A part of a part is a part.                                             *)
LEMMA PartOfPart ==
  ASSUME NEW b, NEW t, NEW u, NEW k, NEW j,
         Len(t) \in Nat, Len(u) \in Nat, Len(b) \in Nat,
         HasAt(b, k, t), HasAt(t, j, u)
  PROVE  HasAt(b, k + j, u)
<1>1. /\ k \in Nat /\ k + Len(t) <= Len(b) /\ \A i \in 1 .. Len(t) : b[k + i] = t[i]
      /\ j \in Nat /\ j + Len(u) <= Len(t) /\ \A i \in 1 .. Len(u) : t[j + i] = u[i]
  BY DEF HasAt
<1>2. ASSUME NEW i \in 1 .. Len(u)
      PROVE  b[k + j + i] = u[i]
  <2>1. j + i \in 1 .. Len(t) /\ k + (j + i) = k + j + i
    BY <1>1
  <2>2. b[k + (j + i)] = t[j + i]
    BY <1>1, <2>1
  <2> QED
    BY <1>1, <2>1, <2>2
<1> QED
  BY <1>1, <1>2 DEF HasAt

(* What is in front starts at offset zero.                                 *)
LEMMA FrontParts ==
  ASSUME NEW b, NEW s \in Seq(Byte), NEW t \in Seq(Byte), Len(b) \in Nat,
         HasAt(b, 0, s \o t)
  PROVE  HasAt(b, 0, s) /\ HasAt(b, Len(s), t)
<1>1. HasAt(b, 0, s) /\ HasAt(b, 0 + Len(s), t)
  BY TwoParts
<1>2. 0 + Len(s) = Len(s)
  OBVIOUS
<1> QED
  BY <1>1, <1>2

(* A part behind another one makes it longer.                              *)
LEMMA AddPart ==
  ASSUME NEW s \in Seq(Byte), NEW t \in Seq(Byte)
  PROVE  s \o t \in Seq(Byte) /\ Len(s \o t) = Len(s) + Len(t)
OBVIOUS

LEMMA AddWord ==
  ASSUME NEW s \in Seq(Byte), NEW t \in Seq(Byte), Len(t) = 4,
         NEW n \in Nat, NEW k \in Nat, Len(s) = n + k
  PROVE  s \o t \in Seq(Byte) /\ Len(s \o t) = n + (k + 4)
<1>1. s \o t \in Seq(Byte) /\ Len(s \o t) = Len(s) + Len(t)
  BY AddPart
<1>2. Len(s \o t) = (n + k) + 4
  BY <1>1
<1>3. (n + k) + 4 = n + (k + 4)
  OBVIOUS
<1> QED
  BY <1>1, <1>2, <1>3

(* A word in a sequence of bytes is read as what it was written for.       *)
LEMMA ReadsWord ==
  ASSUME NEW b, NEW k \in Nat, NEW x \in Word, HasAt(b, k, to_word(x))
  PROVE  from_bytes(b[k + 1], b[k + 2], b[k + 3], b[k + 4]) = x
<1>1. Len(to_word(x)) = 4
  BY ToWordType
<1>2. \A i \in 1 .. 4 : b[k + i] = to_word(x)[i]
  BY <1>1 DEF HasAt
<1> QED
  BY <1>2, WordSurvives

(* The words of a sequence are one behind the other.                       *)
LEMMA ConcatType ==
  ASSUME NEW words \in Seq(Word)
  PROVE  /\ Concat(words) \in Seq(Byte)
         /\ Len(Concat(words)) = 4 * Len(words)
         /\ \A k \in 1 .. Len(words) :
              HasAt(Concat(words), 4 * (k - 1), to_word(words[k]))
<1> DEFINE n == 4 * Len(words)
           byte(i) == to_word(words[((i - 1) \div 4) + 1])[((i - 1) % 4) + 1]
<1>1. Len(words) \in Nat /\ n \in Nat
  OBVIOUS
<1>2. Concat(words) = [i \in 1 .. n |-> byte(i)]
  BY DEF Concat, WORD_BYTESIZE
<1>3. ASSUME NEW i \in 1 .. n
      PROVE  byte(i) \in Byte
  <2> DEFINE q == (i - 1) \div 4
             r == (i - 1) % 4
  <2>1. q \in Nat /\ r \in Nat /\ r < 4 /\ i - 1 = 4 * q + r
    <3>1. i - 1 \in Nat
      BY <1>1
    <3> QED
      BY <3>1, Division
  <2>2. byte(i) = to_word(words[q + 1])[r + 1]
    OBVIOUS
  <2> HIDE DEF q, r, byte
  <2>3. q + 1 \in 1 .. Len(words) /\ r + 1 \in 1 .. 4
    BY <1>1, <2>1
  <2>4. words[q + 1] \in Word
    BY <2>3
  <2> QED
    BY <2>2, <2>3, <2>4, ToWordType
<1>4. Concat(words) \in Seq(Byte) /\ Len(Concat(words)) = n
  <2> HIDE DEF byte, n
  <2> QED
    BY <1>1, <1>2, <1>3
<1>5. ASSUME NEW k \in 1 .. Len(words)
      PROVE  HasAt(Concat(words), 4 * (k - 1), to_word(words[k]))
  <2>1. words[k] \in Word
    OBVIOUS
  <2>2. Len(to_word(words[k])) = 4
    BY <2>1, ToWordType
  <2>3. ASSUME NEW j \in 1 .. 4
        PROVE  Concat(words)[4 * (k - 1) + j] = to_word(words[k])[j]
    <3> DEFINE i == 4 * (k - 1) + j
    <3>1. i \in 1 .. n /\ i - 1 \in Nat /\ k - 1 \in Nat /\ j - 1 \in 0 .. 3
          /\ i - 1 = 4 * (k - 1) + (j - 1)
      BY <1>1
    <3> HIDE DEF i
    <3>2. (i - 1) \div 4 = k - 1 /\ (i - 1) % 4 = j - 1
      BY <3>1, Quotient
    <3>3. byte(i) = to_word(words[k])[j]
      BY <3>2
    <3>4. Concat(words)[i] = byte(i)
      <4> HIDE DEF byte
      <4> QED
        BY <1>2, <3>1
    <3> QED
      BY <3>3, <3>4 DEF i
  <2>4. 4 * (k - 1) \in Nat /\ 4 * (k - 1) + 4 <= n
    BY <1>1
  <2> QED
    BY <1>4, <2>2, <2>3, <2>4 DEF HasAt
<1> QED
  BY <1>4, <1>5

-----------------------------------------------------------------------------
(***************************************************************************)
(* The parts of the file.                                                  *)
(***************************************************************************)

(* What objcopy, readelf and the linker deliver for an ELF file.           *)
ElfTyped(e) ==
  /\ e.crt0 \in Seq(Byte) /\ e.rel \in Seq(Word)
  /\ e.rom \in Seq(Byte) /\ e.got \in Seq(Byte) /\ e.rom_ram \in Seq(Byte)
  /\ e.ram_size \in Word /\ e.start \in Word /\ e.magic \in Word

(* The sizes are natural numbers.                                          *)
LEMMA ElfNat ==
  ASSUME NEW e, ElfTyped(e)
  PROVE  /\ Len(e.crt0) \in Nat /\ Len(e.rel) \in Nat /\ Len(e.rom) \in Nat
         /\ Len(e.got) \in Nat /\ Len(e.rom_ram) \in Nat
         /\ e.ram_size \in Nat /\ e.start \in Nat /\ e.magic \in Nat
<1>1. /\ e.crt0 \in Seq(Byte) /\ e.rel \in Seq(Word)
      /\ e.rom \in Seq(Byte) /\ e.got \in Seq(Byte) /\ e.rom_ram \in Seq(Byte)
      /\ e.ram_size \in Word /\ e.start \in Word /\ e.magic \in Word
  BY DEF ElfTyped
<1>2. /\ Len(e.crt0) \in Nat /\ Len(e.rel) \in Nat /\ Len(e.rom) \in Nat
      /\ Len(e.got) \in Nat /\ Len(e.rom_ram) \in Nat
  BY <1>1
<1>3. e.ram_size \in Nat /\ e.start \in Nat /\ e.magic \in Nat
  BY <1>1, WordNat, Zenon
<1> QED
  BY <1>2, <1>3

(* The bytes in front of the filler, and all.                              *)
raw_binary_size(e, a) ==
  metadata_size(e, a) + Len(e.rom) + Len(e.got) + Len(e.rom_ram)

file_size(e, a) == binary_size_of(raw_binary_size(e, a))

(* A number is stored as four bytes, those of its remainder as a word.     *)
LEMMA ToWordBytes ==
  ASSUME NEW x \in Nat
  PROVE  to_word(x) \in Seq(Byte) /\ Len(to_word(x)) = 4
<1> DEFINE b2 == ByteBase * ByteBase
           b3 == ByteBase * b2
<1>1. ByteBase \in Nat /\ ByteBase > 0
  BY ByteBaseAssumption
<1>2. b2 \in Nat /\ b2 > 0
  BY <1>1
<1>3. b3 \in Nat /\ b3 > 0
  <2> HIDE DEF b2
  <2> QED BY <1>1, <1>2
<1> HIDE DEF b2, b3
<1>4. x \div ByteBase \in Nat /\ x \div b2 \in Nat /\ x \div b3 \in Nat
  BY <1>1, <1>2, <1>3
<1>5. /\ x % ByteBase \in Byte
      /\ (x \div ByteBase) % ByteBase \in Byte
      /\ (x \div b2) % ByteBase \in Byte
      /\ (x \div b3) % ByteBase \in Byte
  BY <1>4, DigitType
<1> QED
  BY <1>5 DEF to_word, b2, b3

(* No padding is negative, and the filler is shorter than the alignment of *)
(* the MPU.                                                                *)
LEMMA Sizes ==
  ASSUME NEW e, NEW a \in Nat, ElfTyped(e)
  PROVE  /\ Len(export_relocation_table(e)) = 4 + 4 * Len(e.rel)
         /\ compute_header_size(e) = Len(e.crt0) + 8 + 4 * Len(e.rel)
         /\ compute_header_size(e) \in Nat
         /\ compute_text_alignment(e, a) \in Nat
         /\ metadata_size(e, a)
              = compute_header_size(e) + compute_text_alignment(e, a)
         /\ metadata_size(e, a) \in Nat /\ raw_binary_size(e, a) \in Nat
         /\ padding_size(raw_binary_size(e, a)) \in 0 .. 31
         /\ file_size(e, a) = raw_binary_size(e, a)
                                + padding_size(raw_binary_size(e, a)) + 28
<1>1. /\ Len(e.crt0) \in Nat /\ Len(e.rel) \in Nat /\ Len(e.rom) \in Nat
      /\ Len(e.got) \in Nat /\ Len(e.rom_ram) \in Nat
  BY DEF ElfTyped
<1>2. Len(export_relocation_table(e)) = 4 + 4 * Len(e.rel)
  <2>1. Concat(e.rel) \in Seq(Byte) /\ Len(Concat(e.rel)) = 4 * Len(e.rel)
    BY ConcatType DEF ElfTyped
  <2>2. to_word(Len(e.rel)) \in Seq(Byte) /\ Len(to_word(Len(e.rel))) = 4
    BY <1>1, ToWordBytes
  <2>3. \A s, t \in Seq(Byte) : Len(s \o t) = Len(s) + Len(t)
    OBVIOUS
  <2> QED
    BY <2>1, <2>2, <2>3 DEF export_relocation_table
<1> DEFINE h == compute_header_size(e)
           t == compute_text_alignment(e, a)
           c == Len(e.crt0)
           n == Len(e.rel)
           o == Len(e.rom)
           g == Len(e.got)
           d == Len(e.rom_ram)
           x == Len(export_relocation_table(e))
<1>3. h = c + 8 + 4 * n
  <2>1. h = c + 4 + x
    BY DEF compute_header_size, WORD_BYTESIZE
  <2>2. c \in Nat /\ n \in Nat /\ x = 4 + 4 * n
    BY <1>1, <1>2
  <2> HIDE DEF h, c, n, x
  <2> QED
    BY <2>1, <2>2
<1>4. h \in Nat
  <2>1. c \in Nat /\ n \in Nat
    BY <1>1
  <2> HIDE DEF h, c, n
  <2> QED
    BY <1>3, <2>1
<1>5. t \in Nat
  <2>1. CASE a = 0
    BY <2>1 DEF compute_text_alignment
  <2>2. CASE a # 0
    <3> DEFINE z == RoundBits(h, a)
    <3>1. z \in h .. (h + a - 1)
      <4> HIDE DEF h
      <4> QED
        BY <1>4, <2>2, RoundsUp
    <3>2. t = z - h
      BY <2>2, Zenon DEF compute_text_alignment, h
    <3> HIDE DEF t, h, z
    <3> QED
      BY <1>4, <3>1, <3>2
  <2> QED
    BY <2>1, <2>2
<1> DEFINE m == metadata_size(e, a)
           raw == raw_binary_size(e, a)
<1>6. m = h + t
  BY DEF metadata_size, h, t
<1>9. m \in Nat /\ raw \in Nat
  <2>1. raw = m + o + g + d
    BY DEF raw_binary_size
  <2>2. o \in Nat /\ g \in Nat /\ d \in Nat
    BY <1>1
  <2> HIDE DEF raw, m, h, t, o, g, d
  <2> QED
    BY <1>4, <1>5, <1>6, <2>1, <2>2
<1> HIDE DEF raw
<1>7. padding_size(raw) \in 0 .. 31
  <2> DEFINE gap == RoundBits(raw, 32) - raw
  <2>1. gap \in 0 .. 31
    <3>1. RoundBits(raw, 32) \in raw .. (raw + 32 - 1)
      BY <1>9, RoundsUp
    <3> QED
      BY <1>9, <3>1
  <2>2. padding_size(raw) = IF gap < 28 THEN gap + 32 - 28 ELSE gap - 28
    BY DEF padding_size, FOOTER_BYTESIZE, PADDING_MPU_ALIGNMENT
  <2> HIDE DEF gap
  <2> QED
    BY <2>1, <2>2
<1>8. file_size(e, a) = raw + padding_size(raw) + 28
  BY DEF file_size, binary_size_of, FOOTER_BYTESIZE, raw
<1> QED
  BY <1>2, <1>3, <1>4, <1>5, <1>6, <1>7, <1>8, <1>9 DEF h, t, c, n, m, raw

(* A filler has its length, and its byte everywhere.                       *)
LEMMA FillerType ==
  ASSUME NEW n \in Nat, NEW x \in Byte
  PROVE  Filler(n, x) \in Seq(Byte) /\ Len(Filler(n, x)) = n
BY DEF Filler

(* Where the parts of the file are, in the bytes b.                        *)
Metadata(b, e, a) ==
  /\ HasAt(b, 0, e.crt0)
  /\ HasAt(b, Len(e.crt0), to_word(file_size(e, a)))
  /\ HasAt(b, Len(e.crt0) + 4, to_word(Len(e.rel)))
  /\ HasAt(b, Len(e.crt0) + 8, Concat(e.rel))
  /\ HasAt(b, compute_header_size(e), Filler(compute_text_alignment(e, a), 0))

Partition(b, e, a) ==
  LET text == metadata_size(e, a)
  IN  /\ HasAt(b, text, e.rom)
      /\ HasAt(b, text + Len(e.rom), e.got)
      /\ HasAt(b, text + Len(e.rom) + Len(e.got), e.rom_ram)

FooterAt(b, e, a) ==
  LET end == file_size(e, a)
  IN  /\ HasAt(b, end - 28, to_word(e.ram_size))
      /\ HasAt(b, end - 24, to_word(Len(e.got)))
      /\ HasAt(b, end - 20, to_word(Len(e.rom)))
      /\ HasAt(b, end - 16, to_word(Len(e.rom_ram)))
      /\ HasAt(b, end - 12, to_word(e.start))
      /\ HasAt(b, end - 8, to_word(Len(e.crt0)))
      /\ HasAt(b, end - 4, to_word(e.magic))

(* What build_fae.py writes is laid out so, for every ELF file and every   *)
(* alignment: its size is the one its header gives, and its metadata, its  *)
(* sections and its footer are where the loader and read_fae.py look.      *)
THEOREM Layout ==
  ASSUME NEW e, NEW a \in Nat, ElfTyped(e)
  PROVE  LET b == concatenate_and_pad(e, a)
         IN  /\ b \in Seq(Byte) /\ Len(b) = file_size(e, a)
             /\ Metadata(b, e, a) /\ Partition(b, e, a) /\ FooterAt(b, e, a)
<1> DEFINE raw == raw_binary_size(e, a)
           t   == compute_text_alignment(e, a)
           p2  == to_word(file_size(e, a))
           p3  == export_relocation_table(e)
           p4  == Filler(t, 0)
           p5  == export_partition(e)
           p6  == Filler(padding_size(raw), PADDING_VALUE)
           p7  == to_word(e.ram_size)
           p8  == to_word(Len(e.got))
           p9  == to_word(Len(e.rom))
           p10 == to_word(Len(e.rom_ram))
           p11 == to_word(e.start)
           p12 == to_word(Len(e.crt0))
           p13 == to_word(e.magic)
           b   == concatenate_and_pad(e, a)
<1>1. /\ Len(e.crt0) \in Nat /\ Len(e.rel) \in Nat /\ Len(e.rom) \in Nat
      /\ Len(e.got) \in Nat /\ Len(e.rom_ram) \in Nat
      /\ e.crt0 \in Seq(Byte) /\ e.rom \in Seq(Byte) /\ e.got \in Seq(Byte)
      /\ e.rom_ram \in Seq(Byte) /\ e.rel \in Seq(Word)
      /\ e.ram_size \in Nat /\ e.start \in Nat /\ e.magic \in Nat
  BY ElfNat, Zenon DEF ElfTyped
<1>2. /\ t \in Nat /\ padding_size(raw) \in Nat /\ file_size(e, a) \in Nat
      /\ file_size(e, a) = raw + padding_size(raw) + 28 /\ raw \in Nat
  <2>1. /\ t \in Nat /\ padding_size(raw) \in 0 .. 31 /\ raw \in Nat
        /\ file_size(e, a) = raw + padding_size(raw) + 28
    BY Sizes
  <2> HIDE DEF t, raw
  <2> QED
    BY <2>1
<1>3. /\ p2 \in Seq(Byte) /\ Len(p2) = 4
      /\ p7 \in Seq(Byte) /\ Len(p7) = 4
      /\ p8 \in Seq(Byte) /\ Len(p8) = 4
      /\ p9 \in Seq(Byte) /\ Len(p9) = 4
      /\ p10 \in Seq(Byte) /\ Len(p10) = 4
      /\ p11 \in Seq(Byte) /\ Len(p11) = 4
      /\ p12 \in Seq(Byte) /\ Len(p12) = 4
      /\ p13 \in Seq(Byte) /\ Len(p13) = 4
  BY <1>1, <1>2, ToWordBytes
<1>4. p3 = to_word(Len(e.rel)) \o Concat(e.rel)
  BY DEF export_relocation_table
<1>5. /\ to_word(Len(e.rel)) \in Seq(Byte) /\ Len(to_word(Len(e.rel))) = 4
      /\ Concat(e.rel) \in Seq(Byte)
  BY <1>1, ToWordBytes, ConcatType
<1>6. p3 \in Seq(Byte)
  <2> HIDE DEF p3
  <2> QED
    BY <1>4, <1>5
<1>7. /\ p4 \in Seq(Byte) /\ Len(p4) = t
      /\ p6 \in Seq(Byte) /\ Len(p6) = padding_size(raw)
  BY <1>2, FillerType, ByteBaseAssumption DEF PADDING_VALUE, Byte
<1>8. /\ p5 = (e.rom \o e.got) \o e.rom_ram
      /\ e.rom \o e.got \in Seq(Byte) /\ Len(e.rom \o e.got) = Len(e.rom) + Len(e.got)
      /\ p5 \in Seq(Byte)
  BY <1>1 DEF export_partition
<1> DEFINE s2  == e.crt0 \o p2
           s3  == s2 \o p3
           s4  == s3 \o p4
           s5  == s4 \o p5
           s6  == s5 \o p6
           s7  == s6 \o p7
           s8  == s7 \o p8
           s9  == s8 \o p9
           s10 == s9 \o p10
           s11 == s10 \o p11
           s12 == s11 \o p12
           s13 == s12 \o p13
<1> DEFINE c == Len(e.crt0)
           h == compute_header_size(e)
           o == Len(e.rom)
           g == Len(e.got)
           d == Len(e.rom_ram)
           m == metadata_size(e, a)
           L == file_size(e, a)
<1>9. /\ h = c + 4 + Len(p3) /\ h + t = m /\ m + Len(p5) = raw
      /\ Len(p5) = o + g + d
  <2>1. h = c + 4 + Len(p3)
    BY DEF compute_header_size, WORD_BYTESIZE
  <2>2. m = h + t
    BY DEF metadata_size
  <2>3. raw = m + o + g + d
    BY DEF raw_binary_size
  <2>4. o \in Nat /\ g \in Nat /\ d \in Nat /\ m \in Nat
    BY <1>1, Sizes
  <2>5. Len(p5) = o + g + d
    BY <1>1, <1>8
  <2> HIDE DEF p3, p5, raw, m, o, g, d, h, t, c
  <2> QED
    BY <2>1, <2>2, <2>3, <2>4, <2>5
<1>10. b = s13
  <2>1. h + t + Len(p5) = raw
    BY <1>9
  <2> QED
    BY <2>1, Zenon DEF concatenate_and_pad, TEXT_ALIGNMENT_PADDING_VALUE, file_size
<1>11. c \in Nat /\ e.crt0 \in Seq(Byte)
  BY <1>1
<1>12. p5 \in Seq(Byte)
  BY <1>8
<1> DEFINE u == raw + padding_size(raw)
<1>44. L = u + 28
  BY <1>2
<1>13. u \in Nat
  <2> HIDE DEF raw
  <2> QED
    BY <1>2
<1>15. Len(p6) = padding_size(raw) /\ u = raw + Len(p6)
  BY <1>7
<1> HIDE DEF p2, p3, p4, p5, p6, p7, p8, p9, p10, p11, p12, p13,
             s2, s3, s4, s5, s6, s7, s8, s9, s10, s11, s12, s13,
             b, c, h, m, L, raw, t, u
<1>16. s2 \in Seq(Byte) /\ Len(s2) = c + 4
  BY <1>11, <1>3, AddPart DEF c, s2
<1>17. s3 \in Seq(Byte) /\ Len(s3) = h
  BY <1>16, <1>6, <1>9, AddPart DEF s3
<1>18. s4 \in Seq(Byte) /\ Len(s4) = m
  BY <1>17, <1>7, <1>9, AddPart DEF s4
<1>19. s5 \in Seq(Byte) /\ Len(s5) = raw
  BY <1>18, <1>9, <1>12, AddPart DEF s5
<1>20. s6 \in Seq(Byte) /\ Len(s6) = u
  BY <1>19, <1>7, <1>15, AddPart DEF s6
<1>21. s7 \in Seq(Byte) /\ Len(s7) = u + 4
  BY <1>20, <1>3, <1>13, AddPart DEF s7
<1>22. s8 \in Seq(Byte) /\ Len(s8) = u + 8
  BY <1>21, <1>3, <1>13, AddWord DEF s8
<1>23. s9 \in Seq(Byte) /\ Len(s9) = u + 12
  BY <1>22, <1>3, <1>13, AddWord DEF s9
<1>24. s10 \in Seq(Byte) /\ Len(s10) = u + 16
  BY <1>23, <1>3, <1>13, AddWord DEF s10
<1>25. s11 \in Seq(Byte) /\ Len(s11) = u + 20
  BY <1>24, <1>3, <1>13, AddWord DEF s11
<1>26. s12 \in Seq(Byte) /\ Len(s12) = u + 24
  BY <1>25, <1>3, <1>13, AddWord DEF s12
<1>27. s13 \in Seq(Byte) /\ Len(s13) = u + 28
  BY <1>26, <1>3, <1>13, AddWord DEF s13
<1>28. b \in Seq(Byte) /\ Len(b) = L /\ Len(b) \in Nat /\ HasAt(b, 0, s13)
  <2>1. b \in Seq(Byte) /\ Len(b) = L
    BY <1>10, <1>44, <1>27
  <2> QED
    BY <1>10, <2>1 DEF HasAt
<1>29. HasAt(b, 0, s12) /\ HasAt(b, u + 24, p13)
  BY <1>28, <1>28, <1>26, <1>3, FrontParts DEF s13
<1>30. HasAt(b, 0, s11) /\ HasAt(b, u + 20, p12)
  BY <1>28, <1>29, <1>25, <1>3, FrontParts DEF s12
<1>31. HasAt(b, 0, s10) /\ HasAt(b, u + 16, p11)
  BY <1>28, <1>30, <1>24, <1>3, FrontParts DEF s11
<1>32. HasAt(b, 0, s9) /\ HasAt(b, u + 12, p10)
  BY <1>28, <1>31, <1>23, <1>3, FrontParts DEF s10
<1>33. HasAt(b, 0, s8) /\ HasAt(b, u + 8, p9)
  BY <1>28, <1>32, <1>22, <1>3, FrontParts DEF s9
<1>34. HasAt(b, 0, s7) /\ HasAt(b, u + 4, p8)
  BY <1>28, <1>33, <1>21, <1>3, FrontParts DEF s8
<1>35. HasAt(b, 0, s6) /\ HasAt(b, u, p7)
  BY <1>28, <1>34, <1>20, <1>3, FrontParts DEF s7
<1>36. HasAt(b, 0, s5) /\ HasAt(b, raw, p6)
  BY <1>28, <1>35, <1>19, <1>7, FrontParts DEF s6
<1>37. HasAt(b, 0, s4) /\ HasAt(b, m, p5)
  BY <1>28, <1>36, <1>18, <1>12, FrontParts DEF s5
<1>38. HasAt(b, 0, s3) /\ HasAt(b, h, p4)
  BY <1>28, <1>37, <1>17, <1>7, FrontParts DEF s4
<1>39. HasAt(b, 0, s2) /\ HasAt(b, c + 4, p3)
  BY <1>28, <1>38, <1>16, <1>6, FrontParts DEF s3
<1>40. HasAt(b, 0, e.crt0) /\ HasAt(b, c, p2)
  BY <1>3, <1>11, <1>28, <1>39, FrontParts DEF s2, c
<1>41. Metadata(b, e, a)
  <2>1. HasAt(b, c + 4, to_word(Len(e.rel)) \o Concat(e.rel))
    BY <1>4, <1>39
  <2>2. /\ HasAt(b, c + 4, to_word(Len(e.rel)))
        /\ HasAt(b, c + 4 + Len(to_word(Len(e.rel))), Concat(e.rel))
    BY <1>5, <1>28, <2>1, TwoParts
  <2>3. c + 4 + Len(to_word(Len(e.rel))) = c + 8
    BY <1>5, <1>11
  <2> QED
    BY <1>38, <1>40, <2>2, <2>3, Zenon DEF Metadata, c, h, L, t, p2, p4
<1>42. Partition(b, e, a)
  <2>1. HasAt(b, m, (e.rom \o e.got) \o e.rom_ram)
    BY <1>8, <1>37
  <2>2. /\ HasAt(b, m, e.rom \o e.got)
        /\ HasAt(b, m + Len(e.rom \o e.got), e.rom_ram)
    BY <1>1, <1>8, <1>28, <2>1, TwoParts
  <2>3. HasAt(b, m, e.rom) /\ HasAt(b, m + Len(e.rom), e.got)
    BY <1>1, <1>28, <2>2, TwoParts
  <2>4. m + Len(e.rom \o e.got) = m + Len(e.rom) + Len(e.got)
    <3>1. o \in Nat /\ g \in Nat /\ m \in Nat /\ Len(e.rom \o e.got) = o + g
      BY <1>1, <1>8, Sizes DEF m
    <3> HIDE DEF o, g
    <3>2. m + Len(e.rom \o e.got) = m + o + g
      BY <3>1
    <3> QED
      BY <3>2 DEF o, g
  <2> QED
    BY <2>2, <2>3, <2>4, Zenon DEF Partition, m
<1>43. FooterAt(b, e, a)
  <2>1. /\ L - 28 = u /\ L - 24 = u + 4 /\ L - 20 = u + 8 /\ L - 16 = u + 12
        /\ L - 12 = u + 16 /\ L - 8 = u + 20 /\ L - 4 = u + 24
    BY <1>44, <1>13
  <2> QED
    BY <2>1, <1>29, <1>30, <1>31, <1>32, <1>33, <1>34, <1>35, Zenon
       DEF FooterAt, L, p7, p8, p9, p10, p11, p12, p13
<1> QED
  BY <1>28, <1>41, <1>42, <1>43 DEF b, L
=============================================================================
