------------------------------- MODULE TextProofs -------------------------------
(***************************************************************************)
(* What the decoder of Input.tla makes of bytes is what Wtf8Text.tla says  *)
(* they mean, and a cursor that stands at the place of a position stands   *)
(* at one after every read, seek and restored mark: for all bytes.         *)
(***************************************************************************)
EXTENDS Input, Wtf8Text, WellFoundedInduction, SequenceTheorems,
        FiniteSetTheorems, TLAPS

(* Every nonempty set of natural numbers has a least element.              *)
LEMMA LeastOf ==
  ASSUME NEW T \in SUBSET Nat, T # {}
  PROVE  \E n \in T : \A m \in T : n <= m
<1>1. \E n \in T : \A m \in T : ~(m < n)
  <2>1. \E n \in T : \A m \in T : ~(<<m, n>> \in OpToRel(<, Nat))
    BY NatLessThanWellFounded, WFMin
  <2>2. \A m, n \in Nat : m < n => <<m, n>> \in OpToRel(<, Nat)
    BY DEF OpToRel
  <2>3. \A m, n \in T : m < n => <<m, n>> \in OpToRel(<, Nat)
    BY <2>2
  <2> QED BY <2>1, <2>3, Zenon
<1> QED BY <1>1

(* A function that is defined by its own values, each by one whose measure *)
(* is less, exists.                                                        *)
Grounded(D, S, n, measure, stop, leaf, next, step) ==
  /\ n \in Nat /\ measure \in [D -> 0..n] /\ stop \in SUBSET D
  /\ leaf \in [D -> S] /\ next \in [D -> D] /\ step \in [D -> [S -> S]]
  /\ \A o \in D : o \notin stop => measure[next[o]] < measure[o]
Unfolds(f, D, stop, leaf, next, step) ==
  \A o \in D : f[o] = IF o \in stop THEN leaf[o] ELSE step[o][f[next[o]]]

LEMMA RecursionExists ==
  ASSUME NEW D, NEW S, NEW n, NEW measure, NEW stop, NEW leaf, NEW next, NEW step,
         Grounded(D, S, n, measure, stop, leaf, next, step)
  PROVE  \E f \in [D -> S] : Unfolds(f, D, stop, leaf, next, step)
<1> USE DEF Grounded
<1> DEFINE Body(f, o) == IF o \in stop THEN leaf[o] ELSE step[o][f[next[o]]]
           UpTo(f, k) == \A o \in D : measure[o] < k => f[o] = Body(f, o)
           Without == {k \in Nat : ~\E f \in [D -> S] : UpTo(f, k)}
<1>1. 0 \notin Without
  <2>1. UpTo(leaf, 0) OBVIOUS
  <2> QED BY <2>1
<1>2. ASSUME NEW k \in Nat, NEW f \in [D -> S], UpTo(f, k)
      PROVE  \E g \in [D -> S] : UpTo(g, k + 1)
  <2> DEFINE g == [o \in D |-> Body(f, o)]
  <2>1. g \in [D -> S] OBVIOUS
  <2>2. ASSUME NEW o \in D, measure[o] < k + 1 PROVE g[o] = Body(g, o)
    <3>1. CASE o \in stop BY <3>1
    <3>2. CASE o \notin stop
      <4>1. next[o] \in D /\ measure[next[o]] < k BY <2>2, <3>2
      <4>2. f[next[o]] = g[next[o]] BY <4>1, <1>2
      <4> QED BY <4>2, <3>2
    <3> QED BY <3>1, <3>2
  <2> HIDE DEF g
  <2> QED BY <2>1, <2>2
<1>3. Without = {}
  <2> SUFFICES ASSUME Without # {} PROVE FALSE OBVIOUS
  <2>1. PICK k \in Without : \A j \in Without : k <= j BY LeastOf
  <2>2. k \in Nat /\ k # 0 BY <1>1
  <2>3. PICK j \in Nat : k = j + 1 /\ j \notin Without
    <3>1. k - 1 \in Nat /\ k = k - 1 + 1 /\ k - 1 \notin Without BY <2>1, <2>2
    <3> QED BY <3>1
  <2>4. PICK f \in [D -> S] : UpTo(f, j) BY <2>3
  <2>5. \E g \in [D -> S] : UpTo(g, j + 1)
    <3> HIDE DEF UpTo
    <3> QED BY <1>2, <2>4
  <2> QED BY <2>2, <2>3, <2>5
<1>4. PICK f \in [D -> S] : UpTo(f, n + 1)
  <2>1. n + 1 \in Nat OBVIOUS
  <2>2. n + 1 \notin Without
    <3> HIDE DEF Without
    <3> QED BY <1>3
  <2> QED BY <2>1, <2>2
<1>5. \A o \in D : measure[o] < n + 1 OBVIOUS
<1> QED BY <1>4, <1>5 DEF Unfolds

-----------------------------------------------------------------------------
(* The table of sequences, byte by byte.                                   *)
Octet == 0..255
Shaped(b, o, w) ==
  \/ w = 1 /\ b[o + 1] < 128
  \/ w = 2 /\ Within(b[o + 1], 194, 223) /\ Trailing(b[o + 2])
  \/ /\ w = 3 /\ Trailing(b[o + 3])
     /\ \/ b[o + 1] = 224 /\ Within(b[o + 2], 160, 191)
        \/ Within(b[o + 1], 225, 239) /\ Trailing(b[o + 2])
  \/ /\ w = 4 /\ Trailing(b[o + 3]) /\ Trailing(b[o + 4])
     /\ \/ b[o + 1] = 240 /\ Within(b[o + 2], 144, 191)
        \/ Within(b[o + 1], 241, 243) /\ Trailing(b[o + 2])
        \/ b[o + 1] = 244 /\ Within(b[o + 2], 128, 143)

(* The bytes of a text from an offset.                                     *)
LEMMA Bytes ==
  ASSUME NEW b \in Seq(Octet), NEW o \in 0..Len(b), NEW w \in 1..4, o + w <= Len(b)
  PROVE  /\ SubSeq(b, o + 1, o + w) \in Seq(Octet)
         /\ Len(SubSeq(b, o + 1, o + w)) = w
         /\ \A i \in 1..w : SubSeq(b, o + 1, o + w)[i] = b[o + i]
         /\ \A i \in 1..w : b[o + i] \in Nat /\ b[o + i] < 256
<1>1. o \in Nat /\ Len(b) \in Nat OBVIOUS
<1>2. \A i \in 1..w : o + i \in 1..Len(b) BY <1>1
<1>3. \A i \in (o + 1)..(o + w) : b[i] \in Octet BY <1>1, ElementOfSeq
<1>4. \A x \in Octet : x \in Nat /\ x < 256 BY DEF Octet
<1>5. \A i \in 1..w : b[o + i] \in Octet BY <1>2, ElementOfSeq
<1>6. /\ SubSeq(b, o + 1, o + w) \in Seq(Octet)
      /\ Len(SubSeq(b, o + 1, o + w)) = w
      /\ \A i \in 1..w : SubSeq(b, o + 1, o + w)[i] = b[o + i]
  BY <1>1, <1>2, <1>3, SubSeqProperties
<1> QED BY <1>4, <1>5, <1>6

LEMMA WidthsAre ==
  ASSUME NEW b \in Seq(Octet), NEW o \in 0..Len(b)
  PROVE  Widths(b, o) = {w \in 1..4 : o + w <= Len(b) /\ Shaped(b, o, w)}
<1>1. ASSUME NEW w \in 1..4, o + w <= Len(b)
      PROVE  Sequence(SubSeq(b, o + 1, o + w)) <=> Shaped(b, o, w)
  <2> DEFINE s == SubSeq(b, o + 1, o + w)
  <2>1. Len(s) = w /\ \A i \in 1..w : s[i] = b[o + i] BY <1>1, Bytes
  <2> HIDE DEF s
  <2>2. Sequence(s) <=> Shaped(b, o, w)
    <3>1. CASE w = 1 BY <2>1, <3>1 DEF Sequence, Shaped
    <3>2. CASE w = 2 BY <2>1, <3>2 DEF Sequence, Shaped
    <3>3. CASE w = 3 BY <2>1, <3>3 DEF Sequence, Shaped
    <3>4. CASE w = 4 BY <2>1, <3>4 DEF Sequence, Shaped
    <3> QED BY <3>1, <3>2, <3>3, <3>4
  <2> QED BY <2>2 DEF s
<1> QED BY <1>1 DEF Widths

(* The bits a byte adds to a scalar.                                       *)
LEMMA ByteBits ==
  ASSUME NEW x \in Nat, x < 256
  PROVE  /\ IsContinuation(x) <=> Trailing(x)
         /\ Trailing(x) => x % 64 = x - 128
         /\ Within(x, 194, 223) => x % 32 = x - 192
         /\ Within(x, 224, 239) => x % 16 = x - 224
         /\ Within(x, 240, 244) => x % 8 = x - 240
<1>1. x \div 64 = 2 <=> 128 <= x /\ x <= 191 BY SMT
<1>2. 128 <= x /\ x <= 191 => x % 64 = x - 128 BY SMT
<1>3. 194 <= x /\ x <= 223 => x % 32 = x - 192 BY SMT
<1>4. 224 <= x /\ x <= 239 => x % 16 = x - 224 BY SMT
<1>5. 240 <= x /\ x <= 244 => x % 8 = x - 240 BY SMT
<1> QED BY <1>1, <1>2, <1>3, <1>4, <1>5 DEF IsContinuation, Trailing, Within

(* What the table says of the lead and of the bytes behind it.             *)
LEMMA ShapeFacts ==
  ASSUME NEW b \in Seq(Octet), NEW o \in 0..Len(b), NEW w \in 1..4, o + w <= Len(b), Shaped(b, o, w)
  PROVE  /\ w = 1 => b[o + 1] < 128
         /\ w = 2 => Within(b[o + 1], 194, 223)
         /\ w = 3 => /\ Within(b[o + 1], 224, 239)
                     /\ b[o + 1] = 224 => b[o + 2] >= 160
         /\ w = 4 => /\ Within(b[o + 1], 240, 244)
                     /\ b[o + 1] = 240 => b[o + 2] >= 144
                     /\ b[o + 1] = 244 => b[o + 2] <= 143
         /\ \A i \in 2..w : Trailing(b[o + i])
<1>1. \A i \in 1..w : b[o + i] \in Nat BY Bytes
<1>2. CASE w = 1 BY <1>2 DEF Shaped
<1>3. CASE w = 2 BY <1>3 DEF Shaped
<1>4. CASE w = 3 BY <1>1, <1>4, SMT DEF Shaped, Within, Trailing
<1>5. CASE w = 4
  <2>1. b[o + 1] \in Nat /\ b[o + 2] \in Nat BY <1>1, <1>5
  <2>2. Trailing(b[o + 3]) /\ Trailing(b[o + 4]) BY <1>5 DEF Shaped
  <2>3. /\ Within(b[o + 1], 240, 244) /\ Trailing(b[o + 2])
        /\ b[o + 1] = 240 => b[o + 2] >= 144
        /\ b[o + 1] = 244 => b[o + 2] <= 143
    <3>1. \/ b[o + 1] = 240 /\ Within(b[o + 2], 144, 191)
          \/ Within(b[o + 1], 241, 243) /\ Trailing(b[o + 2])
          \/ b[o + 1] = 244 /\ Within(b[o + 2], 128, 143)
      BY <1>5 DEF Shaped
    <3> QED BY <2>1, <3>1, SMTT(30) DEF Within, Trailing
  <2> QED BY <1>5, <2>2, <2>3
<1> QED BY <1>2, <1>3, <1>4, <1>5

(* The point of a sequence, out of its bytes.                              *)
PointOf(b, o, w) ==
  IF w = 1 THEN b[o + 1]
  ELSE IF w = 2 THEN 64 * (b[o + 1] - 192) + (b[o + 2] - 128)
  ELSE IF w = 3 THEN 4096 * (b[o + 1] - 224) + 64 * (b[o + 2] - 128) + (b[o + 3] - 128)
  ELSE 262144 * (b[o + 1] - 240) + 4096 * (b[o + 2] - 128) + 64 * (b[o + 3] - 128) + (b[o + 4] - 128)

LEMMA BitsArePoint ==
  ASSUME NEW b \in Seq(Octet), NEW o \in 0..Len(b), NEW w \in 2..4, o + w <= Len(b), Shaped(b, o, w)
  PROVE  Bits(b, o, w) = PointOf(b, o, w)
<1>0. w \in 1..4 OBVIOUS
<1>1. \A i \in 1..w : b[o + i] \in Nat /\ b[o + i] < 256 BY <1>0, Bytes
<1>2. \A i \in 2..w : b[o + i] % 64 = b[o + i] - 128
  <2>1. TAKE i \in 2..w
  <2>2. Trailing(b[o + i]) BY <1>0, <2>1, ShapeFacts
  <2>3. i \in 1..w OBVIOUS
  <2>4. b[o + i] \in Nat /\ b[o + i] < 256 BY <1>1, <2>3
  <2> QED BY <2>2, <2>4, ByteBits, SMT
<1>3. /\ w = 2 => b[o + 1] % 32 = b[o + 1] - 192
      /\ w = 3 => b[o + 1] % 16 = b[o + 1] - 224
      /\ w = 4 => b[o + 1] % 8 = b[o + 1] - 240
  <2>1. b[o + 1] \in Nat /\ b[o + 1] < 256 BY <1>0, <1>1
  <2>2. /\ w = 2 => Within(b[o + 1], 194, 223)
        /\ w = 3 => Within(b[o + 1], 224, 239)
        /\ w = 4 => Within(b[o + 1], 240, 244)
    BY <1>0, ShapeFacts
  <2> QED BY <2>1, <2>2, ByteBits, SMTT(30)
<1>4. CASE w = 2 BY <1>2, <1>3, <1>4, SMT DEF Bits, PointOf
<1>5. CASE w = 3 BY <1>2, <1>3, <1>5, SMT DEF Bits, PointOf
<1>6. CASE w = 4 BY <1>2, <1>3, <1>6, SMT DEF Bits, PointOf
<1> QED BY <1>4, <1>5, <1>6

LEMMA PointRange ==
  ASSUME NEW b \in Seq(Octet), NEW o \in 0..Len(b), NEW w \in 1..4, o + w <= Len(b), Shaped(b, o, w)
  PROVE  /\ PointOf(b, o, w) \in Nat
         /\ w = 1 => PointOf(b, o, w) < 128
         /\ w = 2 => Within(PointOf(b, o, w), 128, 2047)
         /\ w = 3 => Within(PointOf(b, o, w), 2048, 65535)
         /\ w = 4 => Within(PointOf(b, o, w), 65536, 1114111)
<1>1. \A i \in 1..w : b[o + i] \in Nat /\ b[o + i] < 256 BY Bytes
<1> DEFINE point == PointOf(b, o, w)
           x == b[o + 1]
           y == b[o + 2]
           z == b[o + 3]
           v == b[o + 4]
<1>2. CASE w = 1 BY <1>1, <1>2, ShapeFacts, SMT DEF PointOf
<1>3. CASE w = 2
  <2>1. x \in Nat /\ y \in Nat BY <1>1, <1>3
  <2>2. Within(x, 194, 223) /\ Trailing(y) BY <1>3, ShapeFacts
  <2>3. point = 64 * (x - 192) + (y - 128) BY <1>3, SMT DEF PointOf
  <2>4. point \in Nat /\ Within(point, 128, 2047)
    <3> HIDE DEF point, x, y
    <3> QED BY <2>1, <2>2, <2>3, SMT DEF Within, Trailing
  <2> QED BY <1>3, <2>4
<1>4. CASE w = 3
  <2>1. x \in Nat /\ y \in Nat /\ z \in Nat BY <1>1, <1>4
  <2>2. Within(x, 224, 239) /\ Trailing(y) /\ Trailing(z) /\ (x = 224 => y >= 160) BY <1>4, ShapeFacts
  <2>3. point = 4096 * (x - 224) + 64 * (y - 128) + (z - 128) BY <1>4, SMT DEF PointOf
  <2>4. point \in Nat /\ Within(point, 2048, 65535)
    <3> HIDE DEF point, x, y, z
    <3> QED BY <2>1, <2>2, <2>3, SMT DEF Within, Trailing
  <2> QED BY <1>4, <2>4
<1>5. CASE w = 4
  <2>1. x \in Nat /\ y \in Nat /\ z \in Nat /\ v \in Nat BY <1>1, <1>5
  <2>2. /\ Within(x, 240, 244) /\ Trailing(y) /\ Trailing(z) /\ Trailing(v)
        /\ x = 240 => y >= 144
        /\ x = 244 => y <= 143
    BY <1>5, ShapeFacts
  <2>3. point = 262144 * (x - 240) + 4096 * (y - 128) + 64 * (z - 128) + (v - 128)
    BY <1>5, SMT DEF PointOf
  <2>4. point \in Nat /\ Within(point, 65536, 1114111)
    <3> HIDE DEF point, x, y, z, v
    <3> QED BY <2>1, <2>2, <2>3, SMT DEF Within, Trailing
  <2> QED BY <1>5, <2>4
<1> QED BY <1>2, <1>3, <1>4, <1>5
LEMMA AnnouncedIs ==
  ASSUME NEW x \in Nat
  PROVE  Announced(x) = IF 194 <= x /\ x <= 223 THEN 2 ELSE IF 224 <= x /\ x <= 239 THEN 3
                        ELSE IF 240 <= x /\ x <= 244 THEN 4 ELSE 0
<1>1. x \in 194..223 <=> 194 <= x /\ x <= 223 BY SMT
<1>2. x \in 224..239 <=> 224 <= x /\ x <= 239 BY SMT
<1>3. x \in 240..244 <=> 240 <= x /\ x <= 244 BY SMT
<1> DEFINE two == x \in 194..223
           three == x \in 224..239
           four == x \in 240..244
<1>4. Announced(x) = IF two THEN 2 ELSE IF three THEN 3 ELSE IF four THEN 4 ELSE 0
  BY Zenon DEF Announced
<1>5. (two <=> 194 <= x /\ x <= 223) /\ (three <=> 224 <= x /\ x <= 239) /\ (four <=> 240 <= x /\ x <= 244)
  BY <1>1, <1>2, <1>3, Zenon
<1> HIDE DEF two, three, four
<1> QED BY <1>4, <1>5, SMT

(* Points of two units, and the last of them.                              *)
Astral(point) == point > 65535
LastPoint == 1114111

(* A scalar of a width stands at an offset, with a point.                  *)
Scalar(b, o, w, point) ==
  /\ o \in 0..(Len(b) - 1) /\ w \in 1..4 /\ o + w <= Len(b)
  /\ point \in Nat /\ point <= LastPoint /\ (w = 4 <=> Astral(point))
  /\ DecodeValid(b, o) = [point |-> point, width |-> w]
  /\ ~IsContinuation(b[o + 1])
  /\ \A i \in 2..w : IsContinuation(b[o + i])
  /\ w = 1 <=> b[o + 1] < 128
  /\ IF w = 1 THEN point = b[o + 1] ELSE point >= 128

(* A sequence of the table is decoded to its point.                        *)
LEMMA Decoded ==
  ASSUME NEW b \in Seq(Octet), NEW o \in 0..Len(b), NEW w \in Widths(b, o)
  PROVE  /\ Scalar(b, o, w, PointOf(b, o, w))
         /\ DecodeChecked(b, o) = [point |-> PointOf(b, o, w), width |-> w]
<1> DEFINE point == PointOf(b, o, w)
<1>1. w \in 1..4 /\ o + w <= Len(b) /\ Shaped(b, o, w) BY WidthsAre
<1>2. \A i \in 1..w : b[o + i] \in Nat /\ b[o + i] < 256 BY <1>1, Bytes
<1>3. b[o + 1] \in Nat /\ b[o + 1] < 256
  <2>1. 1 \in 1..w BY <1>1
  <2> QED BY <1>2, <2>1
<1>4. o \in 0..(Len(b) - 1) BY <1>1
<1>5. w # 1 => Bits(b, o, w) = point
  <2>1. w # 1 => w \in 2..4 BY <1>1
  <2> QED BY <1>1, <2>1, BitsArePoint
<1>6. \A i \in 2..w : IsContinuation(b[o + i])
  <2>1. TAKE i \in 2..w
  <2>2. Trailing(b[o + i]) BY <1>1, <2>1, ShapeFacts
  <2>3. i \in 1..w OBVIOUS
  <2>4. b[o + i] \in Nat /\ b[o + i] < 256 BY <1>2, <2>3
  <2> QED BY <2>2, <2>4, ByteBits, SMT
<1>7. /\ w = 1 => b[o + 1] < 128
      /\ w = 2 => Within(b[o + 1], 194, 223)
      /\ w = 3 => Within(b[o + 1], 224, 239)
      /\ w = 4 => Within(b[o + 1], 240, 244)
  BY <1>1, ShapeFacts
<1>8. ~IsContinuation(b[o + 1])
  <2>1. ~Trailing(b[o + 1]) BY <1>1, <1>3, <1>7, SMT DEF Trailing, Within
  <2> QED BY <1>3, <2>1, ByteBits, SMT
<1>9. w = 1 <=> b[o + 1] < 128 BY <1>1, <1>3, <1>7, SMT DEF Within
<1>10. DecodeValid(b, o) = [point |-> point, width |-> w]
  <2>1. CASE w = 1 BY <1>9, <2>1, SMT DEF DecodeValid, PointOf
  <2>2. CASE w # 1
    <3>1. w = IF b[o + 1] < 224 THEN 2 ELSE IF b[o + 1] < 240 THEN 3 ELSE 4
      BY <1>1, <1>3, <1>7, <2>2, SMT DEF Within
    <3> HIDE DEF point
    <3> QED BY <1>5, <1>9, <2>2, <3>1, SMT DEF DecodeValid
  <2> QED BY <2>1, <2>2
<1>11. DecodeChecked(b, o) = [point |-> point, width |-> w]
  <2>1. CASE w = 1 BY <1>9, <2>1, SMT DEF DecodeChecked, PointOf
  <2>2. CASE w # 1
    <3>1. Announced(b[o + 1]) = w
      <4>1. /\ w = 2 => 194 <= b[o + 1] /\ b[o + 1] <= 223
            /\ w = 3 => 224 <= b[o + 1] /\ b[o + 1] <= 239
            /\ w = 4 => 240 <= b[o + 1] /\ b[o + 1] <= 244
        BY <1>7 DEF Within
      <4> QED BY <1>1, <1>3, <2>2, <4>1, AnnouncedIs, SMT
    <3>2. LeastPoint(w) <= point /\ point <= 1114111
      <4>1. /\ point \in Nat
            /\ w = 2 => Within(point, 128, 2047)
            /\ w = 3 => Within(point, 2048, 65535)
            /\ w = 4 => Within(point, 65536, 1114111)
        BY <1>1, PointRange
      <4> HIDE DEF point
      <4> QED BY <1>1, <2>2, <4>1, SMT DEF Within, LeastPoint
    <3>3. \A i \in (o + 2)..(o + w) : IsContinuation(b[i])
      <4>1. TAKE i \in (o + 2)..(o + w)
      <4>2. i - o \in 2..w /\ o + (i - o) = i BY <1>1, <4>1
      <4> QED BY <1>6, <4>2
    <3>4. Follows(b, o, w) BY <1>1, <3>3, SMT DEF Follows
    <3>5. Bits(b, o, w) = point BY <1>5, <2>2
    <3> HIDE DEF point
    <3>6. DecodeChecked(b, o) = [point |-> Bits(b, o, w), width |-> w]
      BY <1>9, <2>2, <3>1, <3>2, <3>4, <3>5, SMT DEF DecodeChecked
    <3> QED BY <3>5, <3>6
  <2> QED BY <2>1, <2>2
<1>12. point \in Nat /\ point <= LastPoint /\ (w = 4 <=> Astral(point)) /\ (w # 1 => point >= 128)
  <2>1. /\ point \in Nat
        /\ w = 1 => point < 128
        /\ w = 2 => Within(point, 128, 2047)
        /\ w = 3 => Within(point, 2048, 65535)
        /\ w = 4 => Within(point, 65536, 1114111)
    BY <1>1, PointRange
  <2> HIDE DEF point
  <2> QED BY <1>1, <2>1, SMT DEF Within, Astral, LastPoint
<1>13. w = 1 => point = b[o + 1] BY SMT DEF PointOf
<1> HIDE DEF point
<1>14. Scalar(b, o, w, point)
  BY <1>1, <1>4, <1>6, <1>8, <1>9, <1>10, <1>12, <1>13, SMT DEF Scalar
<1> QED BY <1>11, <1>14 DEF point
(* What is no sequence of the table is not decoded.                        *)
LEMMA Rejected ==
  ASSUME NEW b \in Seq(Octet), NEW o \in 0..(Len(b) - 1), Widths(b, o) = {}
  PROVE  DecodeChecked(b, o) = NoPoint
<1> DEFINE lead == b[o + 1]
           y == b[o + 2]
           z == b[o + 3]
           v == b[o + 4]
           w == Announced(lead)
           point == Bits(b, o, w)
<1>1. o \in 0..Len(b) OBVIOUS
<1>2. \A i \in 1..4 : o + i <= Len(b) => ~Shaped(b, o, i) BY <1>1, WidthsAre
<1>3. lead \in Nat /\ lead < 256
  <2>1. o + 1 <= Len(b) OBVIOUS
  <2> QED BY <1>1, <2>1, Bytes
<1>4. ~(lead < 128)
  <2>1. o + 1 <= Len(b) OBVIOUS
  <2> QED BY <1>2, <2>1, SMT DEF Shaped
<1>5. SUFFICES ASSUME Follows(b, o, w), LeastPoint(w) <= point, point <= 1114111 PROVE FALSE
  <2> HIDE DEF w
  <2> QED BY <1>4, SMT DEF DecodeChecked, w
<1>6. w = IF 194 <= lead /\ lead <= 223 THEN 2 ELSE IF 224 <= lead /\ lead <= 239 THEN 3
          ELSE IF 240 <= lead /\ lead <= 244 THEN 4 ELSE 0
  <2> HIDE DEF lead
  <2> QED BY <1>3, AnnouncedIs, SMT
<1> HIDE DEF w
<1>7. w \in 2..4 /\ o + w <= Len(b) BY <1>5, <1>6, SMT DEF Follows
<1>8. \A i \in 2..w : b[o + i] \in Nat /\ b[o + i] < 256 /\ Trailing(b[o + i])
  <2>1. TAKE i \in 2..w
  <2>2. o + i \in (o + 2)..(o + w) BY <1>7, <2>1
  <2>3. IsContinuation(b[o + i]) BY <1>5, <2>2 DEF Follows
  <2>4. i \in 1..w /\ w \in 1..4 BY <1>7, <2>1
  <2>5. b[o + i] \in Nat /\ b[o + i] < 256 BY <1>1, <1>7, <2>4, Bytes
  <2> QED BY <2>3, <2>5, ByteBits, SMT
<1>9. \A i \in 2..w : b[o + i] % 64 = b[o + i] - 128
  <2>1. TAKE i \in 2..w
  <2>2. b[o + i] \in Nat /\ b[o + i] < 256 /\ Trailing(b[o + i]) BY <1>8, <2>1
  <2> QED BY <2>2, ByteBits, SMT
<1>10. CASE w = 2
  <2>1. Within(lead, 194, 223)
    <3> HIDE DEF lead
    <3> QED BY <1>3, <1>6, <1>10, SMT DEF Within
  <2>2. Trailing(y) BY <1>8, <1>10, SMT
  <2>3. Shaped(b, o, 2) BY <2>1, <2>2, SMT DEF Shaped
  <2> QED BY <1>2, <1>7, <1>10, <2>3
<1>11. CASE w = 3
  <2>1. Within(lead, 224, 239)
    <3> HIDE DEF lead
    <3> QED BY <1>3, <1>6, <1>11, SMT DEF Within
  <2>2. Trailing(y) /\ Trailing(z) /\ y \in Nat /\ z \in Nat BY <1>8, <1>11, SMT
  <2>3. y % 64 = y - 128 /\ z % 64 = z - 128 BY <1>9, <1>11, SMT
  <2>4. lead % 16 = lead - 224 BY <1>3, <2>1, ByteBits, SMT
  <2>5. point = 4096 * (lead - 224) + 64 * (y - 128) + (z - 128) BY <1>11, <2>3, <2>4, SMT DEF Bits
  <2>6. 2048 <= point BY <1>5, <1>11, SMT DEF LeastPoint
  <2>7. \/ lead = 224 /\ Within(y, 160, 191)
        \/ Within(lead, 225, 239) /\ Trailing(y)
    <3> HIDE DEF lead, y, z, point
    <3> QED BY <1>3, <2>1, <2>2, <2>5, <2>6, SMT DEF Within, Trailing
  <2>8. Shaped(b, o, 3) BY <2>2, <2>7, Zenon DEF Shaped
  <2> QED BY <1>2, <1>7, <1>11, <2>8, SMT
<1>12. CASE w = 4
  <2>1. Within(lead, 240, 244)
    <3> HIDE DEF lead
    <3> QED BY <1>3, <1>6, <1>12, SMT DEF Within
  <2>2. Trailing(y) /\ Trailing(z) /\ Trailing(v) /\ y \in Nat /\ z \in Nat /\ v \in Nat BY <1>8, <1>12, SMT
  <2>3. y % 64 = y - 128 /\ z % 64 = z - 128 /\ v % 64 = v - 128 BY <1>9, <1>12, SMT
  <2>4. lead % 8 = lead - 240 BY <1>3, <2>1, ByteBits, SMT
  <2>5. point = 262144 * (lead - 240) + 4096 * (y - 128) + 64 * (z - 128) + (v - 128)
    BY <1>12, <2>3, <2>4, SMT DEF Bits
  <2>6. 65536 <= point /\ point <= 1114111 BY <1>5, <1>12, SMT DEF LeastPoint
  <2>7. \/ lead = 240 /\ Within(y, 144, 191)
        \/ Within(lead, 241, 243) /\ Trailing(y)
        \/ lead = 244 /\ Within(y, 128, 143)
    <3> HIDE DEF lead, y, z, v, point
    <3> QED BY <1>3, <2>1, <2>2, <2>5, <2>6, SMT DEF Within, Trailing
  <2>8. Shaped(b, o, 4) BY <2>2, <2>7, Zenon DEF Shaped
  <2> QED BY <1>2, <1>7, <1>12, <2>8, SMT
<1> QED BY <1>7, <1>10, <1>11, <1>12, SMT
(* At most one sequence begins at an offset.                               *)
LEMMA OneWidth ==
  ASSUME NEW b \in Seq(Octet), NEW o \in 0..Len(b), NEW w \in Widths(b, o)
  PROVE  Widths(b, o) = {w} /\ (CHOOSE v \in Widths(b, o) : TRUE) = w
<1>1. \A v \in Widths(b, o) : DecodeValid(b, o).width = v
  <2>1. TAKE v \in Widths(b, o)
  <2>2. Scalar(b, o, v, PointOf(b, o, v)) BY <2>1, Decoded
  <2>3. DecodeValid(b, o) = [point |-> PointOf(b, o, v), width |-> v] BY <2>2, Zenon DEF Scalar
  <2> QED BY <2>3, SMT
<1> QED BY <1>1

(* The units of a point, and the marks before them.                        *)
Coded(point) == IF Astral(point) THEN <<HighSurrogate(point), LowSurrogate(point)>> ELSE <<point>>
Marked(o, w) == IF w = 4 THEN <<<<o, FALSE>>, <<o, TRUE>>>> ELSE <<<<o, FALSE>>>>

(* A sequence means the units of the point it is decoded to.               *)
LEMMA MeaningIs ==
  ASSUME NEW b \in Seq(Octet), NEW o \in 0..Len(b), NEW w \in Widths(b, o)
  PROVE  Meaning(SubSeq(b, o + 1, o + w)) = Coded(PointOf(b, o, w))
<1> DEFINE s == SubSeq(b, o + 1, o + w)
           point == PointOf(b, o, w)
<1>1. w \in 1..4 /\ o + w <= Len(b) /\ Shaped(b, o, w) BY WidthsAre
<1>2. Len(s) = w /\ \A i \in 1..w : s[i] = b[o + i] /\ b[o + i] \in Nat BY <1>1, Bytes, ZenonT(60)
<1>3. point \in Nat /\ (w = 4 <=> Astral(point))
  <2>1. Scalar(b, o, w, point) BY Decoded
  <2> HIDE DEF point
  <2> QED BY <2>1, SMT DEF Scalar
<1> HIDE DEF s
<1> SUFFICES Meaning(s) = Coded(point) BY DEF s
<1>4. CASE w = 1
  <2>1. Meaning(s) = <<s[1]>> BY <1>2, <1>4, SMT DEF Meaning
  <2>2. point = b[o + 1] BY <1>4, SMT DEF PointOf
  <2>3. s[1] = b[o + 1] BY <1>2, <1>4, SMT
  <2> HIDE DEF point
  <2> QED BY <1>3, <1>4, <2>1, <2>2, <2>3, SMT DEF Coded
<1>5. CASE w = 2
  <2>1. Meaning(s) = <<64 * (s[1] - 192) + (s[2] - 128)>> BY <1>2, <1>5, SMT DEF Meaning
  <2>2. point = 64 * (b[o + 1] - 192) + (b[o + 2] - 128) BY <1>5, SMT DEF PointOf
  <2>3. s[1] = b[o + 1] /\ s[2] = b[o + 2] BY <1>2, <1>5, SMT
  <2> HIDE DEF point
  <2> QED BY <1>3, <1>5, <2>1, <2>2, <2>3, SMT DEF Coded
<1>6. CASE w = 3
  <2>1. Meaning(s) = <<4096 * (s[1] - 224) + 64 * (s[2] - 128) + (s[3] - 128)>> BY <1>2, <1>6, SMT DEF Meaning
  <2>2. point = 4096 * (b[o + 1] - 224) + 64 * (b[o + 2] - 128) + (b[o + 3] - 128) BY <1>6, SMT DEF PointOf
  <2>3. s[1] = b[o + 1] /\ s[2] = b[o + 2] /\ s[3] = b[o + 3] BY <1>2, <1>6, SMT
  <2> HIDE DEF point
  <2> QED BY <1>3, <1>6, <2>1, <2>2, <2>3, SMT DEF Coded
<1>7. CASE w = 4
  <2> DEFINE above == 262144 * (s[1] - 240) + 4096 * (s[2] - 144) + 64 * (s[3] - 128) + (s[4] - 128)
  <2>1. Meaning(s) = <<55296 + (above \div 1024), 56320 + (above % 1024)>> BY <1>2, <1>7, SMT DEF Meaning
  <2>2. point = 262144 * (b[o + 1] - 240) + 4096 * (b[o + 2] - 128) + 64 * (b[o + 3] - 128) + (b[o + 4] - 128)
    BY <1>7, SMT DEF PointOf
  <2>3. /\ s[1] = b[o + 1] /\ s[2] = b[o + 2] /\ s[3] = b[o + 3] /\ s[4] = b[o + 4]
        /\ s[1] \in Nat /\ s[2] \in Nat /\ s[3] \in Nat /\ s[4] \in Nat
    BY <1>2, <1>7, SMT
  <2> HIDE DEF point
  <2>4. above = point - 65536
    <3>1. point = 262144 * (s[1] - 240) + 4096 * (s[2] - 128) + 64 * (s[3] - 128) + (s[4] - 128)
      BY <2>2, <2>3, SMT
    <3>2. PICK x \in Nat, y \in Nat, z \in Nat, v \in Nat : s[1] = x /\ s[2] = y /\ s[3] = z /\ s[4] = v
      BY <2>3, SMTT(30)
    <3> QED BY <3>1, <3>2, SMT
  <2> HIDE DEF above
  <2> QED BY <1>3, <1>7, <2>1, <2>4, SMT DEF Coded, HighSurrogate, LowSurrogate
<1> QED BY <1>1, <1>4, <1>5, <1>6, <1>7, SMT
-----------------------------------------------------------------------------
(* Wtf8Text's function of a text, without its choices.                     *)
Reading == [units : Seq(Int), places : Seq(Int \X BOOLEAN), error : Int]

LEMMA Joined ==
  ASSUME NEW point \in Nat, NEW o \in Int, NEW w, NEW rest \in Reading
  PROVE  /\ Coded(point) \o rest.units \in Seq(Int)
         /\ Marked(o, w) \o rest.places \in Seq(Int \X BOOLEAN)
<1>1. Coded(point) \in Seq(Int)
  <2>1. HighSurrogate(point) \in Int /\ LowSurrogate(point) \in Int
    BY SMT DEF HighSurrogate, LowSurrogate
  <2> QED BY <2>1, SMT DEF Coded
<1>2. Marked(o, w) \in Seq(Int \X BOOLEAN)
  <2>1. <<o, FALSE>> \in Int \X BOOLEAN /\ <<o, TRUE>> \in Int \X BOOLEAN OBVIOUS
  <2>2. \A x, y \in Int \X BOOLEAN : <<x, y>> \in Seq(Int \X BOOLEAN) /\ <<x>> \in Seq(Int \X BOOLEAN)
    OBVIOUS
  <2> QED BY <2>1, <2>2 DEF Marked
<1>3. rest.units \in Seq(Int) /\ rest.places \in Seq(Int \X BOOLEAN) BY DEF Reading
<1> QED BY <1>1, <1>2, <1>3, ConcatProperties

LEMMA TextFromIs ==
  ASSUME NEW b \in Seq(Octet)
  PROVE  /\ \A o \in 0..Len(b) : TextFrom(b)[o] \in Reading
         /\ TextFrom(b)[Len(b)] = [units |-> <<>>, places |-> <<<<Len(b), FALSE>>>>, error |-> -1]
         /\ \A o \in 0..(Len(b) - 1) : Widths(b, o) = {} => TextFrom(b)[o].error = o
         /\ \A o \in 0..(Len(b) - 1) : \A w \in Widths(b, o) :
              TextFrom(b)[o] = [units |-> Coded(PointOf(b, o, w)) \o TextFrom(b)[o + w].units,
                                places |-> Marked(o, w) \o TextFrom(b)[o + w].places,
                                error |-> TextFrom(b)[o + w].error]
<1> DEFINE N == Len(b)
           D == 0..N
           width(o) == CHOOSE w \in Widths(b, o) : TRUE
           meaning(o) == Meaning(SubSeq(b, o + 1, o + width(o)))
           marks(o) == IF width(o) = 4 THEN <<<<o, FALSE>>, <<o, TRUE>>>> ELSE <<<<o, FALSE>>>>
           Body(f, o) == IF o = N THEN [units |-> <<>>, places |-> <<<<o, FALSE>>>>, error |-> -1]
                         ELSE IF Widths(b, o) = {} THEN [units |-> <<>>, places |-> <<>>, error |-> o]
                         ELSE [units |-> meaning(o) \o f[o + width(o)].units,
                               places |-> marks(o) \o f[o + width(o)].places,
                               error |-> f[o + width(o)].error]
           stop == {o \in D : o = N \/ Widths(b, o) = {}}
           measure == [o \in D |-> N - o]
           leaf == [o \in D |-> IF o = N THEN [units |-> <<>>, places |-> <<<<o, FALSE>>>>, error |-> -1]
                                ELSE [units |-> <<>>, places |-> <<>>, error |-> o]]
           next == [o \in D |-> IF o \in stop THEN o ELSE o + width(o)]
           step == [o \in D |-> [r \in Reading |->
                      IF o \in stop THEN r
                      ELSE [units |-> meaning(o) \o r.units, places |-> marks(o) \o r.places, error |-> r.error]]]
<1>1. N \in Nat OBVIOUS
<1>2. ASSUME NEW o \in D, o \notin stop
      PROVE  /\ width(o) \in Widths(b, o) /\ width(o) \in 1..4 /\ o + width(o) \in D
             /\ PointOf(b, o, width(o)) \in Nat
             /\ meaning(o) = Coded(PointOf(b, o, width(o)))
             /\ marks(o) = Marked(o, width(o))
  <2>1. width(o) \in Widths(b, o) BY <1>2
  <2> HIDE DEF width
  <2>2. Scalar(b, o, width(o), PointOf(b, o, width(o))) BY <2>1, Decoded
  <2>3. width(o) \in 1..4 /\ o + width(o) <= N /\ PointOf(b, o, width(o)) \in Nat BY <2>2, SMT DEF Scalar
  <2>4. meaning(o) = Coded(PointOf(b, o, width(o))) BY <2>1, MeaningIs
  <2> QED BY <2>1, <2>3, <2>4, SMT DEF Marked
<1>3. leaf \in [D -> Reading]
  <2>1. ASSUME NEW o \in D
        PROVE  /\ [units |-> <<>>, places |-> <<<<o, FALSE>>>>, error |-> -1] \in Reading
               /\ [units |-> <<>>, places |-> <<>>, error |-> o] \in Reading
    <3>1. o \in Int BY <1>1
    <3>2. <<>> \in Seq(Int) /\ <<>> \in Seq(Int \X BOOLEAN) BY EmptySeq
    <3>3. <<o, FALSE>> \in Int \X BOOLEAN BY <3>1
    <3>4. <<<<o, FALSE>>>> \in Seq(Int \X BOOLEAN) BY <3>3
    <3> QED BY <3>1, <3>2, <3>4 DEF Reading
  <2> HIDE DEF D
  <2> QED BY <2>1
<1>4. next \in [D -> D] BY <1>2
<1>5. step \in [D -> [Reading -> Reading]]
  <2>1. ASSUME NEW o \in D, NEW r \in Reading, o \notin stop
        PROVE  [units |-> meaning(o) \o r.units, places |-> marks(o) \o r.places, error |-> r.error] \in Reading
    <3>1. o \in Int /\ r.error \in Int BY <1>1, <2>1 DEF Reading
    <3> HIDE DEF width, meaning, marks
    <3>2. meaning(o) \o r.units \in Seq(Int) /\ marks(o) \o r.places \in Seq(Int \X BOOLEAN)
      BY <1>2, <2>1, <3>1, Joined
    <3> QED BY <3>1, <3>2 DEF Reading
  <2> HIDE DEF meaning, marks, stop
  <2> QED BY <2>1
<1>6. measure \in [D -> 0..N] BY <1>1
<1>7. \A o \in D : o \notin stop => measure[next[o]] < measure[o]
  <2>1. TAKE o \in D
  <2>0. HAVE o \notin stop
  <2>2. next[o] = o + width(o) BY <2>0, <2>1
  <2>3. o + width(o) \in D /\ width(o) \in 1..4 BY <1>2, <2>0, <2>1
  <2> HIDE DEF width, next, stop
  <2> QED BY <1>1, <2>1, <2>2, <2>3
<1>8. PICK f \in [D -> Reading] : \A o \in D : f[o] = IF o \in stop THEN leaf[o] ELSE step[o][f[next[o]]]
  <2> HIDE DEF D, stop, measure, leaf, next, step, N
  <2>1. stop \in SUBSET D BY DEF stop
  <2>2. Grounded(D, Reading, N, measure, stop, leaf, next, step)
    BY <1>1, <1>3, <1>4, <1>5, <1>6, <1>7, <2>1 DEF Grounded
  <2>3. \E f \in [D -> Reading] : Unfolds(f, D, stop, leaf, next, step) BY <2>2, RecursionExists
  <2> QED BY <2>3 DEF Unfolds
<1>9. f = [o \in D |-> Body(f, o)]
  <2>1. ASSUME NEW o \in D PROVE f[o] = Body(f, o)
    <3>1. CASE o \in stop BY <1>8, <3>1
    <3>2. CASE o \notin stop
      <4>1. next[o] = o + width(o) /\ o + width(o) \in D BY <1>2, <3>2
      <4>2. f[o] = step[o][f[next[o]]] BY <1>8, <3>2
      <4>3. f[next[o]] \in Reading BY <4>1
      <4> HIDE DEF next, width, meaning, marks
      <4>4. step[o][f[next[o]]] = [units |-> meaning(o) \o f[next[o]].units,
                                   places |-> marks(o) \o f[next[o]].places, error |-> f[next[o]].error]
        BY <3>2, <4>3
      <4> QED BY <3>2, <4>1, <4>2, <4>4
    <3> QED BY <3>1, <3>2
  <2> HIDE DEF Body
  <2> QED BY <2>1
<1>10. TextFrom(b) = CHOOSE g : g = [o \in D |-> Body(g, o)] BY DEF TextFrom
<1>11. TextFrom(b) = [o \in D |-> Body(TextFrom(b), o)]
  <2> HIDE DEF Body, D
  <2> QED BY <1>9, <1>10
<1> DEFINE T == TextFrom(b)
           Bad == {k \in Nat : k <= N /\ T[N - k] \notin Reading}
<1>12. ASSUME NEW o \in D PROVE T[o] = Body(T, o)
  <2> HIDE DEF Body, D, T
  <2> QED BY <1>11 DEF T
<1> HIDE DEF T
<1>13. \A o \in D : T[o] \in Reading
  <2>1. Bad = {}
    <3> SUFFICES ASSUME Bad # {} PROVE FALSE OBVIOUS
    <3>1. PICK k \in Bad : \A j \in Bad : k <= j BY LeastOf
    <3> DEFINE o == N - k
    <3>2. o \in D /\ k \in Nat /\ T[o] \notin Reading BY <1>1, <3>1
    <3> HIDE DEF o
    <3>3. o \notin stop
      <4>1. ASSUME o \in stop PROVE Body(T, o) = leaf[o] BY <3>2, <4>1
      <4>2. leaf[o] \in Reading
        <5> HIDE DEF leaf, D
        <5> QED BY <1>3, <3>2
      <4> HIDE DEF Body, leaf, stop
      <4> QED BY <1>12, <3>2, <4>1, <4>2
    <3>4. width(o) \in 1..4 /\ o + width(o) \in D BY <1>2, <3>2, <3>3
    <3>5. T[o + width(o)] \in Reading
      <4> HIDE DEF width
      <4>1. o = N - k BY DEF o
      <4>2. k - width(o) \in Nat /\ k - width(o) < k /\ N - (k - width(o)) = o + width(o)
        BY <1>1, <3>2, <3>4, <4>1
      <4>3. k - width(o) \notin Bad BY <3>1, <3>2, <4>2
      <4> QED BY <3>2, <4>2, <4>3, <1>1
    <3>6. step[o][T[o + width(o)]] \in Reading
      <4> HIDE DEF step, width, D
      <4> QED BY <1>5, <3>2, <3>5
    <3>7. Body(T, o) = step[o][T[o + width(o)]]
      <4> HIDE DEF width, meaning, marks
      <4> QED BY <3>2, <3>3, <3>5
    <3> HIDE DEF Body, step
    <3> QED BY <1>12, <3>2, <3>6, <3>7
  <2>2. TAKE o \in D
  <2>3. N - o \in Nat /\ N - o <= N /\ N - (N - o) = o BY <1>1
  <2>4. N - o \notin Bad
    <3> HIDE DEF Bad
    <3> QED BY <2>1
  <2> QED BY <2>3, <2>4
<1>14. T[N] = [units |-> <<>>, places |-> <<<<N, FALSE>>>>, error |-> -1]
  <2>1. N \in D BY <1>1
  <2> QED BY <1>12, <2>1
<1>15. ASSUME NEW o \in 0..(N - 1), Widths(b, o) = {} PROVE T[o].error = o
  <2>1. o \in D /\ o # N BY <1>1
  <2>2. T[o] = [units |-> <<>>, places |-> <<>>, error |-> o] BY <1>12, <1>15, <2>1
  <2> QED BY <2>2
<1>16. ASSUME NEW o \in 0..(N - 1), NEW w \in Widths(b, o)
       PROVE  T[o] = [units |-> Coded(PointOf(b, o, w)) \o T[o + w].units,
                      places |-> Marked(o, w) \o T[o + w].places, error |-> T[o + w].error]
  <2>1. o \in D /\ o # N /\ o \notin stop BY <1>1, <1>16
  <2>2. width(o) = w BY <1>16, <2>1, OneWidth
  <2>3. T[o] = Body(T, o) BY <1>12, <2>1
  <2>4. meaning(o) = Coded(PointOf(b, o, w)) /\ marks(o) = Marked(o, w) BY <1>2, <2>1, <2>2
  <2>5. Widths(b, o) # {} BY <1>16
  <2> HIDE DEF width, meaning, marks
  <2> QED BY <2>1, <2>2, <2>3, <2>4, <2>5
<1> QED BY <1>13, <1>14, <1>15, <1>16 DEF T
(* Validation's function of a text, step by step, and against the table's. *)
LEMMA CountedFromIs ==
  ASSUME NEW b \in Seq(Octet)
  PROVE  /\ CountedFrom(b)[Len(b)] = [units |-> 0, error |-> None]
         /\ \A o \in 0..(Len(b) - 1) : Widths(b, o) = {} => CountedFrom(b)[o] = [units |-> 0, error |-> o]
         /\ \A o \in 0..(Len(b) - 1) : \A w \in Widths(b, o) :
              CountedFrom(b)[o] = [CountedFrom(b)[o + w] EXCEPT !.units = UnitsOf(PointOf(b, o, w)) + @]
<1> DEFINE N == Len(b)
           D == 0..N
           Count == [units : Nat, error : Int]
           read(o) == DecodeChecked(b, o)
           Body(f, o) == IF o = N THEN [units |-> 0, error |-> None]
                         ELSE IF read(o).point = None THEN [units |-> 0, error |-> o]
                         ELSE [f[o + read(o).width] EXCEPT !.units = UnitsOf(read(o).point) + @]
           stop == {o \in D : o = N \/ read(o).point = None}
           measure == [o \in D |-> N - o]
           leaf == [o \in D |-> IF o = N THEN [units |-> 0, error |-> None] ELSE [units |-> 0, error |-> o]]
           next == [o \in D |-> IF o \in stop THEN o ELSE o + read(o).width]
           step == [o \in D |-> [r \in Count |->
                      IF o \in stop THEN r ELSE [r EXCEPT !.units = UnitsOf(read(o).point) + @]]]
<1>1. N \in Nat OBVIOUS
<1>2. ASSUME NEW o \in 0..(N - 1), NEW w \in Widths(b, o)
      PROVE  /\ read(o).point = PointOf(b, o, w) /\ read(o).width = w /\ read(o).point # None
             /\ w \in 1..4 /\ o + w \in D /\ UnitsOf(read(o).point) \in Nat
  <2>1. o \in 0..N BY <1>1
  <2>2. Scalar(b, o, w, PointOf(b, o, w)) /\ read(o) = [point |-> PointOf(b, o, w), width |-> w]
    BY <1>2, <2>1, Decoded
  <2>3. w \in 1..4 /\ o + w <= N /\ PointOf(b, o, w) \in Nat BY <2>2, SMT DEF Scalar
  <2>4. PointOf(b, o, w) # None BY <2>3, SMT DEF None
  <2>5. UnitsOf(PointOf(b, o, w)) \in Nat BY SMT DEF UnitsOf
  <2>6. read(o).point = PointOf(b, o, w) /\ read(o).width = w BY <2>2
  <2> HIDE DEF read
  <2> QED BY <1>1, <2>1, <2>3, <2>4, <2>5, <2>6
<1>3. ASSUME NEW o \in 0..(N - 1), Widths(b, o) = {} PROVE read(o).point = None
  <2>1. read(o) = NoPoint BY <1>3, Rejected
  <2> QED BY <2>1 DEF NoPoint
<1>4. ASSUME NEW o \in D, o \notin stop
      PROVE  /\ o \in 0..(N - 1) /\ read(o).width \in 1..4 /\ o + read(o).width \in D
             /\ UnitsOf(read(o).point) \in Nat
  <2>1. o \in 0..(N - 1) /\ read(o).point # None BY <1>1, <1>4
  <2>2. PICK w \in Widths(b, o) : TRUE BY <1>3, <2>1
  <2> HIDE DEF read
  <2> QED BY <1>2, <2>1, <2>2
<1>5. leaf \in [D -> Count] BY <1>1 DEF None
<1>6. next \in [D -> D]
  <2> HIDE DEF read
  <2> QED BY <1>4
<1>7. step \in [D -> [Count -> Count]]
  <2>1. ASSUME NEW o \in D, NEW r \in Count, o \notin stop
        PROVE  [r EXCEPT !.units = UnitsOf(read(o).point) + @] \in Count
    <3>1. UnitsOf(read(o).point) \in Nat BY <1>4, <2>1
    <3> QED BY <3>1
  <2> HIDE DEF read, stop
  <2> QED BY <2>1
<1>8. measure \in [D -> 0..N] BY <1>1
<1>9. \A o \in D : o \notin stop => measure[next[o]] < measure[o]
  <2>1. TAKE o \in D
  <2>0. HAVE o \notin stop
  <2>2. next[o] = o + read(o).width BY <2>0, <2>1
  <2>3. o + read(o).width \in D /\ read(o).width \in 1..4 BY <1>4, <2>0, <2>1
  <2> HIDE DEF read, next, stop
  <2> QED BY <1>1, <2>1, <2>2, <2>3
<1>10. PICK f \in [D -> Count] : \A o \in D : f[o] = IF o \in stop THEN leaf[o] ELSE step[o][f[next[o]]]
  <2> HIDE DEF D, stop, measure, leaf, next, step, N, Count
  <2>1. stop \in SUBSET D BY DEF stop
  <2>2. Grounded(D, Count, N, measure, stop, leaf, next, step)
    BY <1>1, <1>5, <1>6, <1>7, <1>8, <1>9, <2>1 DEF Grounded
  <2>3. \E f \in [D -> Count] : Unfolds(f, D, stop, leaf, next, step) BY <2>2, RecursionExists
  <2> QED BY <2>3 DEF Unfolds
<1>11. f = [o \in D |-> Body(f, o)]
  <2>1. ASSUME NEW o \in D PROVE f[o] = Body(f, o)
    <3>1. CASE o \in stop
      <4> HIDE DEF read
      <4> QED BY <1>10, <3>1
    <3>2. CASE o \notin stop
      <4>1. next[o] = o + read(o).width /\ o + read(o).width \in D BY <1>4, <3>2
      <4>2. f[o] = step[o][f[next[o]]] BY <1>10, <3>2
      <4>3. f[next[o]] \in Count BY <4>1
      <4> HIDE DEF next, read, Count
      <4>4. step[o][f[next[o]]] = [f[next[o]] EXCEPT !.units = UnitsOf(read(o).point) + @]
        BY <3>2, <4>3
      <4> QED BY <3>2, <4>1, <4>2, <4>4
    <3> QED BY <3>1, <3>2
  <2> HIDE DEF Body
  <2> QED BY <2>1
<1>12. CountedFrom(b) = CHOOSE g : g = [o \in D |-> Body(g, o)] BY DEF CountedFrom
<1>13. CountedFrom(b) = [o \in D |-> Body(CountedFrom(b), o)]
  <2> HIDE DEF Body, D
  <2> QED BY <1>11, <1>12
<1> DEFINE T == CountedFrom(b)
<1>14. ASSUME NEW o \in D PROVE T[o] = Body(T, o)
  <2> HIDE DEF Body, D, T
  <2> QED BY <1>13 DEF T
<1> HIDE DEF T
<1>15. T[N] = [units |-> 0, error |-> None]
  <2>1. N \in D BY <1>1
  <2>2. T[N] = Body(T, N) BY <1>14, <2>1
  <2> HIDE DEF read
  <2> QED BY <2>2
<1>16. ASSUME NEW o \in 0..(N - 1), Widths(b, o) = {} PROVE T[o] = [units |-> 0, error |-> o]
  <2>1. o \in D /\ o # N /\ read(o).point = None BY <1>1, <1>3, <1>16
  <2> HIDE DEF read
  <2> QED BY <1>14, <2>1
<1>17. ASSUME NEW o \in 0..(N - 1), NEW w \in Widths(b, o)
       PROVE  T[o] = [T[o + w] EXCEPT !.units = UnitsOf(PointOf(b, o, w)) + @]
  <2>1. o \in D /\ o # N BY <1>1
  <2>2. read(o).point = PointOf(b, o, w) /\ read(o).width = w /\ read(o).point # None BY <1>2, <1>17
  <2> HIDE DEF read
  <2> QED BY <1>14, <2>1, <2>2
<1> QED BY <1>15, <1>16, <1>17 DEF T

LEMMA LengthOfJoin ==
  ASSUME NEW s \in Seq(Int), NEW t \in Seq(Int)
  PROVE  Len(s \o t) = Len(s) + Len(t)
<1> QED BY ConcatProperties

LEMMA CountedIs ==
  ASSUME NEW b \in Seq(Octet), NEW o \in 0..Len(b)
  PROVE  /\ CountedFrom(b)[o].error = TextFrom(b)[o].error
         /\ CountedFrom(b)[o] \in [units : Nat, error : Int]
         /\ TextFrom(b)[o].error = None => CountedFrom(b)[o].units = Len(TextFrom(b)[o].units)
<1> DEFINE N == Len(b)
           T == TextFrom(b)
           C == CountedFrom(b)
           Agree(x) == /\ C[x].error = T[x].error
                       /\ C[x] \in [units : Nat, error : Int]
                       /\ T[x].error = None => C[x].units = Len(T[x].units)
           Bad == {k \in Nat : k <= N /\ ~Agree(N - k)}
<1>1. N \in Nat OBVIOUS
<1>2. Agree(N)
  <2>1. T[N] = [units |-> <<>>, places |-> <<<<Len(b), FALSE>>>>, error |-> -1] BY TextFromIs
  <2>2. C[N] = [units |-> 0, error |-> None] BY CountedFromIs
  <2> HIDE DEF T, C
  <2> QED BY <2>1, <2>2 DEF None
<1>3. ASSUME NEW x \in 0..(N - 1), \A y \in (x + 1)..N : Agree(y) PROVE Agree(x)
  <2>1. CASE Widths(b, x) = {}
    <3>1. T[x].error = x BY <2>1, TextFromIs
    <3>2. C[x] = [units |-> 0, error |-> x] BY <2>1, CountedFromIs
    <3>3. x # None BY <1>1 DEF None
    <3> HIDE DEF T, C
    <3> QED BY <1>1, <3>1, <3>2, <3>3
  <2>2. CASE Widths(b, x) # {}
    <3>1. PICK w \in Widths(b, x) : TRUE BY <2>2
    <3> DEFINE point == PointOf(b, x, w)
    <3>2. x \in 0..N BY <1>1
    <3>3. Scalar(b, x, w, point) BY <3>1, <3>2, Decoded
    <3>4. w \in 1..4 /\ x + w <= N /\ point \in Nat BY <3>3, SMT DEF Scalar
    <3>5. T[x] = [units |-> Coded(point) \o T[x + w].units, places |-> Marked(x, w) \o T[x + w].places,
                  error |-> T[x + w].error]
      BY <3>1, TextFromIs
    <3>6. C[x] = [C[x + w] EXCEPT !.units = UnitsOf(point) + @] BY <3>1, CountedFromIs
    <3>7. x + w \in (x + 1)..N BY <1>1, <3>4
    <3>8. Agree(x + w) BY <1>3, <3>7
    <3>9. T[x + w] \in Reading
      <4>1. x + w \in 0..N BY <1>1, <3>7
      <4> QED BY <4>1, TextFromIs
    <3>10. Coded(point) \in Seq(Int) /\ Len(Coded(point)) = UnitsOf(point) /\ UnitsOf(point) \in Nat
      <4>1. HighSurrogate(point) \in Int /\ LowSurrogate(point) \in Int
        BY <3>4, SMT DEF HighSurrogate, LowSurrogate
      <4> HIDE DEF point
      <4> QED BY <3>4, <4>1, SMT DEF Coded, UnitsOf, Astral
    <3> HIDE DEF T, C, point
    <3>11. T[x + w].units \in Seq(Int) BY <3>9 DEF Reading
    <3>12. Len(Coded(point) \o T[x + w].units) = UnitsOf(point) + Len(T[x + w].units)
      BY <3>10, <3>11, LengthOfJoin
    <3>13. /\ C[x + w].error = T[x + w].error
           /\ C[x + w].units \in Nat /\ C[x + w].error \in Int
           /\ T[x + w].error = None => C[x + w].units = Len(T[x + w].units)
      BY <3>8
    <3>14. C[x] = [units |-> UnitsOf(point) + C[x + w].units, error |-> C[x + w].error]
      BY <3>6, <3>8
    <3>15. /\ C[x].error = T[x].error
           /\ C[x] \in [units : Nat, error : Int]
      BY <3>5, <3>10, <3>13, <3>14
    <3>16. T[x].error = None => C[x].units = Len(T[x].units)
      BY <3>5, <3>12, <3>13, <3>14
    <3> QED BY <3>15, <3>16
  <2> QED BY <2>1, <2>2
<1>4. Bad = {}
  <2> SUFFICES ASSUME Bad # {} PROVE FALSE OBVIOUS
  <2>1. PICK k \in Bad : \A j \in Bad : k <= j
    <3>1. Bad \in SUBSET Nat OBVIOUS
    <3> HIDE DEF Bad
    <3> QED BY <3>1, LeastOf
  <2> HIDE DEF Agree
  <2>2. k \in Nat /\ k <= N /\ ~Agree(N - k) BY <2>1
  <2>3. N - k \in 0..(N - 1) BY <1>1, <1>2, <2>2
  <2>4. ASSUME NEW y \in (N - k + 1)..N PROVE Agree(y)
    <3>1. N - y \in Nat /\ N - y <= N /\ N - y < k /\ N - (N - y) = y BY <1>1, <2>2, <2>4
    <3>2. N - y \notin Bad BY <2>1, <2>2, <3>1
    <3> QED BY <3>1, <3>2
  <2> QED BY <1>3, <2>2, <2>3, <2>4
<1>5. N - o \in Nat /\ N - o <= N /\ N - (N - o) = o BY <1>1
<1>6. N - o \notin Bad
  <2> HIDE DEF Bad
  <2> QED BY <1>4
<1>7. Agree(o)
  <2> HIDE DEF Agree
  <2> QED BY <1>5, <1>6
<1> QED BY <1>7
-----------------------------------------------------------------------------
(* How the units of a text and the marks before them lie over its bytes:   *)
(* each unit is that of a scalar, or one of the two of a scalar.           *)
Plain(us, ps, p, o, w, point) ==
  w # 4 /\ ps[p] = <<o, FALSE>> /\ ps[p + 1] = <<o + w, FALSE>> /\ us[p] = point
FirstOf(us, ps, p, o, w, point) ==
  /\ w = 4 /\ ps[p] = <<o, FALSE>> /\ ps[p + 1] = <<o, TRUE>> /\ p + 1 <= Len(us)
  /\ us[p] = HighSurrogate(point) /\ us[p + 1] = LowSurrogate(point) /\ ps[p + 2] = <<o + 4, FALSE>>
SecondOf(us, ps, p, o, w, point) ==
  /\ w = 4 /\ ps[p] = <<o, TRUE>> /\ ps[p + 1] = <<o + 4, FALSE>> /\ p > 1
  /\ us[p - 1] = HighSurrogate(point) /\ us[p] = LowSurrogate(point) /\ ps[p - 1] = <<o, FALSE>>
Link(b, us, ps, p) ==
  \E o, w, point : /\ Scalar(b, o, w, point)
                   /\ \/ Plain(us, ps, p, o, w, point)
                      \/ FirstOf(us, ps, p, o, w, point)
                      \/ SecondOf(us, ps, p, o, w, point)
Chain(b, us, ps, o) ==
  /\ us \in Seq(Int) /\ ps \in Seq(Int \X BOOLEAN) /\ Len(ps) = Len(us) + 1
  /\ ps[1] = <<o, FALSE>> /\ ps[Len(us) + 1] = <<Len(b), FALSE>>
  /\ \A p \in 1..Len(us) : Link(b, us, ps, p)

LEMMA Shifted ==
  ASSUME NEW b, NEW us, NEW ps, NEW vs, NEW qs, NEW k \in 1..2, NEW n \in Nat, Len(vs) = n, Len(us) = k + n,
         \A i \in 1..n : us[k + i] = vs[i], \A i \in 1..(n + 1) : ps[k + i] = qs[i],
         NEW p \in 1..n, Link(b, vs, qs, p)
  PROVE  Link(b, us, ps, k + p)
<1>1. PICK o, w, point : /\ Scalar(b, o, w, point)
                         /\ \/ Plain(vs, qs, p, o, w, point)
                            \/ FirstOf(vs, qs, p, o, w, point)
                            \/ SecondOf(vs, qs, p, o, w, point)
  BY DEF Link
<1>2. us[k + p] = vs[p] /\ ps[k + p] = qs[p] /\ ps[k + p + 1] = qs[p + 1]
  <2>1. p + 1 \in 1..(n + 1) /\ k + (p + 1) = k + p + 1 /\ p \in 1..(n + 1) OBVIOUS
  <2> QED BY <2>1
<1>3. CASE Plain(vs, qs, p, o, w, point)
  <2>1. Plain(us, ps, k + p, o, w, point) BY <1>2, <1>3, Zenon DEF Plain
  <2> QED BY <1>1, <2>1, Zenon DEF Link
<1>4. CASE FirstOf(vs, qs, p, o, w, point)
  <2>1. p + 1 <= n BY <1>4 DEF FirstOf
  <2>2. us[k + p + 1] = vs[p + 1] /\ ps[k + p + 2] = qs[p + 2] /\ k + p + 1 <= Len(us)
    <3>1. p + 1 \in 1..n /\ k + (p + 1) = k + p + 1 /\ p + 2 \in 1..(n + 1) /\ k + (p + 2) = k + p + 2
      BY <2>1
    <3> QED BY <2>1, <3>1
  <2>3. FirstOf(us, ps, k + p, o, w, point) BY <1>2, <1>4, <2>2, Zenon DEF FirstOf
  <2> QED BY <1>1, <2>3, Zenon DEF Link
<1>5. CASE SecondOf(vs, qs, p, o, w, point)
  <2>1. p > 1 BY <1>5 DEF SecondOf
  <2>2. us[(k + p) - 1] = vs[p - 1] /\ ps[(k + p) - 1] = qs[p - 1] /\ k + p > 1
    <3>1. p - 1 \in 1..n /\ p - 1 \in 1..(n + 1) /\ k + (p - 1) = (k + p) - 1 /\ k + p > 1
      BY <2>1
    <3> QED BY <3>1
  <2>3. /\ w = 4 /\ qs[p] = <<o, TRUE>> /\ qs[p + 1] = <<o + 4, FALSE>>
        /\ vs[p - 1] = HighSurrogate(point) /\ vs[p] = LowSurrogate(point) /\ qs[p - 1] = <<o, FALSE>>
    BY <1>5, Zenon DEF SecondOf
  <2>4. /\ ps[k + p] = <<o, TRUE>> /\ ps[k + p + 1] = <<o + 4, FALSE>> /\ ps[(k + p) - 1] = <<o, FALSE>>
        /\ us[(k + p) - 1] = HighSurrogate(point) /\ us[k + p] = LowSurrogate(point)
    BY <1>2, <2>2, <2>3, Zenon
  <2>5. SecondOf(us, ps, k + p, o, w, point) BY <2>2, <2>3, <2>4, Zenon DEF SecondOf
  <2> QED BY <1>1, <2>5, Zenon DEF Link
<1> QED BY <1>1, <1>3, <1>4, <1>5

LEMMA JoinFacts ==
  ASSUME NEW S, NEW s \in Seq(S), NEW t \in Seq(S)
  PROVE  /\ s \o t \in Seq(S) /\ Len(s \o t) = Len(s) + Len(t)
         /\ \A i \in 1..Len(s) : (s \o t)[i] = s[i]
         /\ \A i \in 1..Len(t) : (s \o t)[Len(s) + i] = t[i]
<1>1. Len(s) \in Nat /\ Len(t) \in Nat OBVIOUS
<1>2. \A i \in 1..Len(t) : Len(s) + i \in 1..(Len(s) + Len(t)) /\ ~(Len(s) + i <= Len(s)) /\ Len(s) + i - Len(s) = i
  BY <1>1
<1>3. \A i \in 1..Len(s) : i \in 1..(Len(s) + Len(t)) BY <1>1
<1> QED BY <1>1, <1>2, <1>3, ConcatProperties

(* A chain grows by a scalar at its front.                                 *)
LEMMA ChainGrows ==
  ASSUME NEW b, NEW o, NEW w, NEW point, NEW vs, NEW qs, Scalar(b, o, w, point), Chain(b, vs, qs, o + w)
  PROVE  Chain(b, Coded(point) \o vs, Marked(o, w) \o qs, o)
<1> DEFINE us == Coded(point) \o vs
           ps == Marked(o, w) \o qs
           k == IF w = 4 THEN 2 ELSE 1
           n == Len(vs)
<1>1. w \in 1..4 /\ point \in Nat /\ (w = 4 <=> Astral(point)) /\ o \in Int BY DEF Scalar
<1>2. HighSurrogate(point) \in Int /\ LowSurrogate(point) \in Int
  BY <1>1, SMT DEF HighSurrogate, LowSurrogate
<1>3. vs \in Seq(Int) /\ qs \in Seq(Int \X BOOLEAN) /\ Len(qs) = n + 1 /\ n \in Nat BY DEF Chain
<1>4. Coded(point) \in Seq(Int) /\ Len(Coded(point)) = k BY <1>1, <1>2 DEF Coded
<1>5. Marked(o, w) \in Seq(Int \X BOOLEAN) /\ Len(Marked(o, w)) = k
  <2>1. \A x, y \in Int \X BOOLEAN : /\ <<x, y>> \in Seq(Int \X BOOLEAN) /\ Len(<<x, y>>) = 2
                                     /\ <<x>> \in Seq(Int \X BOOLEAN) /\ Len(<<x>>) = 1
    OBVIOUS
  <2>2. <<o, FALSE>> \in Int \X BOOLEAN /\ <<o, TRUE>> \in Int \X BOOLEAN BY <1>1
  <2> QED BY <2>1, <2>2 DEF Marked
<1> HIDE DEF k
<1>6. /\ us \in Seq(Int) /\ Len(us) = k + n
      /\ \A i \in 1..k : us[i] = Coded(point)[i]
      /\ \A i \in 1..n : us[k + i] = vs[i]
  <2> DEFINE s == Coded(point)
  <2>1. /\ s \o vs \in Seq(Int) /\ Len(s \o vs) = Len(s) + Len(vs)
        /\ \A i \in 1..Len(s) : (s \o vs)[i] = s[i]
        /\ \A i \in 1..Len(vs) : (s \o vs)[Len(s) + i] = vs[i]
    <3>1. s \in Seq(Int) BY <1>4
    <3> HIDE DEF s
    <3> QED BY <1>3, <3>1, JoinFacts
  <2> HIDE DEF s
  <2>2. Len(s) = k BY <1>4 DEF s
  <2> QED BY <2>1, <2>2 DEF s
<1>7. /\ ps \in Seq(Int \X BOOLEAN) /\ Len(ps) = k + (n + 1)
      /\ \A i \in 1..k : ps[i] = Marked(o, w)[i]
      /\ \A i \in 1..(n + 1) : ps[k + i] = qs[i]
  <2> DEFINE s == Marked(o, w)
  <2>1. /\ s \o qs \in Seq(Int \X BOOLEAN) /\ Len(s \o qs) = Len(s) + Len(qs)
        /\ \A i \in 1..Len(s) : (s \o qs)[i] = s[i]
        /\ \A i \in 1..Len(qs) : (s \o qs)[Len(s) + i] = qs[i]
    <3> DEFINE M == Int \X BOOLEAN
    <3>1. s \in Seq(M) /\ qs \in Seq(M) BY <1>3, <1>5
    <3> HIDE DEF s, M
    <3>2. /\ s \o qs \in Seq(M) /\ Len(s \o qs) = Len(s) + Len(qs)
          /\ \A i \in 1..Len(s) : (s \o qs)[i] = s[i]
          /\ \A i \in 1..Len(qs) : (s \o qs)[Len(s) + i] = qs[i]
      BY <3>1, JoinFacts
    <3> QED BY <3>2 DEF M
  <2> HIDE DEF s
  <2>2. Len(s) = k /\ Len(qs) = n + 1 BY <1>3, <1>5 DEF s
  <2> QED BY <2>1, <2>2 DEF s
<1> HIDE DEF us, ps
<1>8. qs[1] = <<o + w, FALSE>> /\ qs[n + 1] = <<Len(b), FALSE>> BY DEF Chain
<1>9. k \in 1..2 BY DEF k
<1>10. ps[1] = <<o, FALSE>>
  <2>1. Marked(o, w)[1] = <<o, FALSE>> BY DEF Marked
  <2>2. ps[1] = Marked(o, w)[1] BY <1>7, <1>9
  <2> QED BY <2>1, <2>2
<1>11. ps[Len(us) + 1] = <<Len(b), FALSE>>
  <2>1. n + 1 \in 1..(n + 1) /\ k + (n + 1) = Len(us) + 1 BY <1>3, <1>6, <1>9
  <2>2. ps[k + (n + 1)] = qs[n + 1] BY <1>7, <2>1
  <2> QED BY <1>8, <2>1, <2>2, Zenon
<1>12. ps[k + 1] = <<o + w, FALSE>>
  <2>1. 1 \in 1..(n + 1) BY <1>3
  <2>2. ps[k + 1] = qs[1] BY <1>7, <2>1
  <2> QED BY <1>8, <2>2, Zenon
<1>13. ASSUME NEW p \in 1..Len(us) PROVE Link(b, us, ps, p)
  <2>1. CASE p > k
    <3>1. p - k \in 1..n /\ k + (p - k) = p BY <1>3, <1>6, <1>9, <2>1
    <3>2. Link(b, vs, qs, p - k) BY <3>1 DEF Chain
    <3>3. Link(b, us, ps, k + (p - k)) BY <1>3, <1>6, <1>7, <1>9, <3>1, <3>2, Shifted
    <3> QED BY <3>1, <3>3
  <2>2. CASE p <= k /\ w # 4
    <3>1. k = 1 /\ p = 1 BY <1>9, <2>2 DEF k
    <3>2. us[1] = point
      <4>1. Coded(point)[1] = point BY <1>1, <2>2 DEF Coded
      <4> QED BY <1>6, <3>1, <4>1
    <3>3. Plain(us, ps, p, o, w, point) BY <1>10, <1>12, <2>2, <3>1, <3>2 DEF Plain
    <3> QED BY <3>3, Zenon DEF Link
  <2>3. CASE p <= k /\ w = 4
    <3>1. k = 2 /\ (p = 1 \/ p = 2) BY <2>3 DEF k
    <3>2. us[1] = HighSurrogate(point) /\ us[2] = LowSurrogate(point)
      <4>1. Coded(point)[1] = HighSurrogate(point) /\ Coded(point)[2] = LowSurrogate(point)
        BY <1>1, <2>3 DEF Coded
      <4> QED BY <1>6, <3>1, <4>1
    <3>3. ps[2] = <<o, TRUE>>
      <4>1. Marked(o, w)[2] = <<o, TRUE>> BY <2>3 DEF Marked
      <4>2. ps[2] = Marked(o, w)[2] BY <1>7, <3>1
      <4> QED BY <4>1, <4>2, Zenon
    <3>4. ps[3] = <<o + 4, FALSE>>
      <4>1. k + 1 = 3 BY <3>1
      <4> QED BY <1>12, <2>3, <4>1, Zenon
    <3>5. ASSUME p = 1 PROVE FirstOf(us, ps, p, o, w, point)
      <4>1. p + 1 = 2 /\ p + 2 = 3 /\ p + 1 <= Len(us) BY <1>3, <1>6, <3>1, <3>5
      <4> QED BY <1>10, <2>3, <3>2, <3>3, <3>4, <3>5, <4>1, Zenon DEF FirstOf
    <3>6. ASSUME p = 2 PROVE SecondOf(us, ps, p, o, w, point)
      <4>1. p + 1 = 3 /\ p - 1 = 1 /\ p > 1 BY <3>6
      <4> QED BY <1>10, <2>3, <3>2, <3>3, <3>4, <3>6, <4>1, Zenon DEF SecondOf
    <3> QED BY <3>1, <3>5, <3>6, Zenon DEF Link
  <2> QED BY <1>1, <1>9, <2>1, <2>2, <2>3
<1>14. Len(ps) = Len(us) + 1 BY <1>3, <1>6, <1>7, <1>9
<1>15. Chain(b, us, ps, o) BY <1>6, <1>7, <1>10, <1>11, <1>13, <1>14 DEF Chain
<1> QED BY <1>15 DEF us, ps
(* The units and marks of a text that is sequences from an offset on.      *)
LEMMA ChainFrom ==
  ASSUME NEW b \in Seq(Octet), NEW o \in 0..Len(b), TextFrom(b)[o].error = None
  PROVE  Chain(b, TextFrom(b)[o].units, TextFrom(b)[o].places, o)
<1> DEFINE N == Len(b)
           T == TextFrom(b)
           Holds(x) == T[x].error = None => Chain(b, T[x].units, T[x].places, x)
           Bad == {k \in Nat : k <= N /\ ~Holds(N - k)}
<1>1. N \in Nat OBVIOUS
<1>2. Holds(N)
  <2> DEFINE ps == <<<<N, FALSE>>>>
             us == <<>>
  <2>1. T[N].units = us /\ T[N].places = ps
    <3>1. T[N] = [units |-> us, places |-> ps, error |-> -1] BY TextFromIs
    <3> HIDE DEF T, us, ps
    <3> QED BY <3>1
  <2>2. us \in Seq(Int) /\ Len(us) = 0 BY EmptySeq
  <2>3. ps \in Seq(Int \X BOOLEAN) /\ Len(ps) = 1 /\ ps[1] = <<N, FALSE>>
    <3>1. \A x \in Int \X BOOLEAN : <<x>> \in Seq(Int \X BOOLEAN) /\ Len(<<x>>) = 1 /\ <<x>>[1] = x
      OBVIOUS
    <3>2. \A x \in Int : <<x, FALSE>> \in Int \X BOOLEAN OBVIOUS
    <3>3. <<N, FALSE>> \in Int \X BOOLEAN
      <4>1. N \in Int BY <1>1
      <4> HIDE DEF N
      <4> QED BY <3>2, <4>1, Zenon
    <3> HIDE DEF N
    <3> QED BY <3>1, <3>3, Zenon
  <2> HIDE DEF ps, us
  <2>4. Chain(b, us, ps, N)
    <3>1. N = Len(b) OBVIOUS
    <3>2. Len(ps) = Len(us) + 1 /\ ps[Len(us) + 1] = <<N, FALSE>>
      <4>1. Len(us) + 1 = 1 BY <2>2
      <4> HIDE DEF N
      <4> QED BY <2>3, <4>1, Zenon
    <3>3. ASSUME NEW p \in 1..Len(us) PROVE FALSE BY <2>2, <3>3
    <3> HIDE DEF N
    <3> QED BY <2>2, <2>3, <3>1, <3>2, <3>3 DEF Chain
  <2> HIDE DEF T
  <2> QED BY <2>1, <2>4
<1>3. ASSUME NEW x \in 0..(N - 1), \A y \in (x + 1)..N : Holds(y) PROVE Holds(x)
  <2> SUFFICES ASSUME T[x].error = None PROVE Chain(b, T[x].units, T[x].places, x) OBVIOUS
  <2>1. Widths(b, x) # {}
    <3>1. x # None BY <1>1 DEF None
    <3> QED BY <3>1, TextFromIs
  <2>2. PICK w \in Widths(b, x) : TRUE BY <2>1
  <2> DEFINE point == PointOf(b, x, w)
  <2>3. Scalar(b, x, w, point)
    <3>1. x \in 0..N BY <1>1
    <3> QED BY <2>2, <3>1, Decoded
  <2>4. T[x] = [units |-> Coded(point) \o T[x + w].units, places |-> Marked(x, w) \o T[x + w].places,
                error |-> T[x + w].error]
    BY <2>2, TextFromIs
  <2>5. x + w \in (x + 1)..N BY <1>1, <2>3, SMT DEF Scalar
  <2> HIDE DEF T, point
  <2>6. T[x + w].error = None BY <2>4
  <2>7. Chain(b, T[x + w].units, T[x + w].places, x + w) BY <1>3, <2>5, <2>6
  <2>8. Chain(b, Coded(point) \o T[x + w].units, Marked(x, w) \o T[x + w].places, x)
    BY <2>3, <2>7, ChainGrows
  <2> QED BY <2>4, <2>8
<1>4. Bad = {}
  <2> SUFFICES ASSUME Bad # {} PROVE FALSE OBVIOUS
  <2>1. PICK k \in Bad : \A j \in Bad : k <= j
    <3>1. Bad \in SUBSET Nat OBVIOUS
    <3> HIDE DEF Bad
    <3> QED BY <3>1, LeastOf
  <2> HIDE DEF Holds
  <2>2. k \in Nat /\ k <= N /\ ~Holds(N - k) BY <2>1
  <2>3. N - k \in 0..(N - 1) BY <1>1, <1>2, <2>2
  <2>4. ASSUME NEW y \in (N - k + 1)..N PROVE Holds(y)
    <3>1. N - y \in Nat /\ N - y <= N /\ N - y < k /\ N - (N - y) = y BY <1>1, <2>2, <2>4
    <3>2. N - y \notin Bad BY <2>1, <2>2, <3>1
    <3> QED BY <3>1, <3>2
  <2> QED BY <1>3, <2>2, <2>3, <2>4
<1>5. N - o \in Nat /\ N - o <= N /\ N - (N - o) = o BY <1>1
<1>6. N - o \notin Bad
  <2> HIDE DEF Bad
  <2> QED BY <1>4
<1>7. Holds(o)
  <2> HIDE DEF Holds
  <2> QED BY <1>5, <1>6
<1> QED BY <1>7

(* A text read from an offset on stops being one there or later.           *)
LEMMA ErrorRange ==
  ASSUME NEW b \in Seq(Octet), NEW o \in 0..Len(b)
  PROVE  TextFrom(b)[o].error \in Int
<1> QED BY TextFromIs DEF Reading

-----------------------------------------------------------------------------
(* From here on, cursors: one that stands at the place of a position of a  *)
(* text stands at one after every read, seek and restored mark, and reads  *)
(* the text's units.                                                       *)

(* A scalar of two units is the pair of its surrogates.                    *)
LEMMA PairOf ==
  ASSUME NEW point \in Nat, Astral(point), point <= LastPoint
  PROVE  /\ IsHigh(HighSurrogate(point)) /\ IsLow(LowSurrogate(point))
         /\ HighSurrogate(point) \in Nat /\ LowSurrogate(point) \in Nat
         /\ CombinePair(HighSurrogate(point), LowSurrogate(point)) = point
<1> DEFINE x == point - 65536
           q == x \div 1024
           r == x % 1024
<1>1. x \in Nat /\ x <= 1048575 BY SMT DEF Astral, LastPoint
<1>2. q \in Nat /\ r \in Nat /\ r < 1024 /\ x = 1024 * q + r /\ q <= 1023
  <2> HIDE DEF x
  <2> QED BY <1>1, SMT
<1>3. HighSurrogate(point) = 55296 + q /\ LowSurrogate(point) = 56320 + r
  BY SMT DEF HighSurrogate, LowSurrogate
<1>4. point = 65536 + x BY SMT
<1> HIDE DEF x, q, r
<1> DEFINE h == HighSurrogate(point)
           l == LowSurrogate(point)
<1>5. h = 55296 + q /\ l = 56320 + r BY <1>3
<1> HIDE DEF h, l
<1>6. h \in Nat /\ l \in Nat /\ 55296 <= h /\ h <= 56319 /\ 56320 <= l /\ l <= 57343
  BY <1>2, <1>5, SMT
<1>7. h - 55296 = q /\ l - 56320 = r BY <1>2, <1>5, SMT
<1>8. CombinePair(h, l) = point BY <1>2, <1>4, <1>7, SMT DEF CombinePair
<1>9. IsHigh(h) /\ IsLow(l) BY <1>6, SMT DEF IsHigh, IsLow
<1> QED BY <1>6, <1>8, <1>9 DEF h, l

(* What rises by one to three at each step.                                *)
LEMMA Rising ==
  ASSUME NEW n \in Nat, NEW v \in [1..(n + 1) -> Int],
         \A p \in 1..n : 1 <= v[p + 1] - v[p] /\ v[p + 1] - v[p] <= 3
  PROVE  \A p, q \in 1..(n + 1) : p <= q => q - p <= v[q] - v[p] /\ v[q] - v[p] <= 3 * (q - p)
<1> DEFINE Holds(d) == \A p \in 1..(n + 1) : p + d <= n + 1 => d <= v[p + d] - v[p] /\ v[p + d] - v[p] <= 3 * d
           Bad == {d \in Nat : ~Holds(d)}
<1>1. Holds(0) OBVIOUS
<1>2. ASSUME NEW d \in Nat, Holds(d) PROVE Holds(d + 1)
  <2> SUFFICES ASSUME NEW p \in 1..(n + 1), p + (d + 1) <= n + 1
               PROVE  d + 1 <= v[p + (d + 1)] - v[p] /\ v[p + (d + 1)] - v[p] <= 3 * (d + 1)
    OBVIOUS
  <2>1. p + d \in 1..n /\ (p + d) + 1 = p + (d + 1) /\ p + d <= n + 1 OBVIOUS
  <2>2. 1 <= v[(p + d) + 1] - v[p + d] /\ v[(p + d) + 1] - v[p + d] <= 3 BY <2>1
  <2>3. d <= v[p + d] - v[p] /\ v[p + d] - v[p] <= 3 * d BY <1>2, <2>1
  <2>4. v[p] \in Int /\ v[p + d] \in Int /\ v[p + (d + 1)] \in Int BY <2>1
  <2> QED BY <2>1, <2>2, <2>3, <2>4
<1>3. Bad = {}
  <2> SUFFICES ASSUME Bad # {} PROVE FALSE OBVIOUS
  <2>1. PICK k \in Bad : \A j \in Bad : k <= j
    <3>1. Bad \in SUBSET Nat OBVIOUS
    <3> HIDE DEF Bad
    <3> QED BY <3>1, LeastOf
  <2>2. k \in Nat /\ ~Holds(k) BY <2>1
  <2> HIDE DEF Holds
  <2>3. k - 1 \in Nat /\ (k - 1) + 1 = k /\ ~(k <= k - 1) BY <1>1, <2>2
  <2>4. Holds(k - 1) BY <2>1, <2>3
  <2>5. Holds((k - 1) + 1) BY <1>2, <2>3, <2>4
  <2> QED BY <2>2, <2>3, <2>5
<1> SUFFICES ASSUME NEW p \in 1..(n + 1), NEW q \in 1..(n + 1), p <= q
             PROVE  q - p <= v[q] - v[p] /\ v[q] - v[p] <= 3 * (q - p)
  OBVIOUS
<1>4. q - p \in Nat /\ p + (q - p) = q OBVIOUS
<1>5. Holds(q - p)
  <2> HIDE DEF Holds
  <2> QED BY <1>3, <1>4
<1> QED BY <1>4, <1>5

(* How far into the bytes a mark is: a scalar's second unit counts one.    *)
Depth(m) == m[1] + (IF m[2] THEN 1 ELSE 0)

LEMMA LinkRises ==
  ASSUME NEW b, NEW us, NEW ps, NEW p, Link(b, us, ps, p)
  PROVE  1 <= Depth(ps[p + 1]) - Depth(ps[p]) /\ Depth(ps[p + 1]) - Depth(ps[p]) <= 3
<1>1. PICK o, w, point : /\ Scalar(b, o, w, point)
                         /\ \/ Plain(us, ps, p, o, w, point)
                            \/ FirstOf(us, ps, p, o, w, point)
                            \/ SecondOf(us, ps, p, o, w, point)
  BY DEF Link
<1>2. o \in Int /\ w \in 1..4 BY <1>1 DEF Scalar
<1>3. \A x \in Int : Depth(<<x, FALSE>>) = x /\ Depth(<<x, TRUE>>) = x + 1 BY DEF Depth
<1>4. CASE Plain(us, ps, p, o, w, point)
  <2>1. ps[p] = <<o, FALSE>> /\ ps[p + 1] = <<o + w, FALSE>> /\ w # 4 BY <1>4, Zenon DEF Plain
  <2>2. o + w \in Int BY <1>2
  <2>3. Depth(ps[p]) = o /\ Depth(ps[p + 1]) = o + w BY <1>2, <1>3, <2>1, <2>2, Zenon
  <2> QED BY <1>2, <2>1, <2>3
<1>5. CASE FirstOf(us, ps, p, o, w, point)
  <2>1. Depth(ps[p]) = o /\ Depth(ps[p + 1]) = o + 1 BY <1>2, <1>3, <1>5 DEF FirstOf
  <2> QED BY <1>2, <2>1
<1>6. CASE SecondOf(us, ps, p, o, w, point)
  <2>2. ps[p] = <<o, TRUE>> /\ ps[p + 1] = <<o + 4, FALSE>> BY <1>6, Zenon DEF SecondOf
  <2>3. o + 4 \in Int BY <1>2
  <2>1. Depth(ps[p]) = o + 1 /\ Depth(ps[p + 1]) = o + 4 BY <1>2, <1>3, <2>2, <2>3, Zenon
  <2> QED BY <1>2, <2>1
<1> QED BY <1>1, <1>4, <1>5, <1>6

LEMMA ChainRises ==
  ASSUME NEW b \in Seq(Octet), NEW us, NEW ps, Chain(b, us, ps, 0)
  PROVE  /\ Depth(ps[1]) = 0 /\ Depth(ps[Len(us) + 1]) = Len(b)
         /\ \A p \in 1..(Len(us) + 1) : Depth(ps[p]) \in Int
         /\ \A p, q \in 1..(Len(us) + 1) : p <= q =>
              q - p <= Depth(ps[q]) - Depth(ps[p]) /\ Depth(ps[q]) - Depth(ps[p]) <= 3 * (q - p)
<1> DEFINE n == Len(us)
           v == [p \in 1..(n + 1) |-> Depth(ps[p])]
<1>1. n \in Nat /\ Len(b) \in Int /\ Len(ps) = n + 1 /\ ps \in Seq(Int \X BOOLEAN) BY DEF Chain
<1>2. \A x \in Int : Depth(<<x, FALSE>>) = x BY DEF Depth
<1>3. Depth(ps[1]) = 0 /\ Depth(ps[n + 1]) = Len(b)
  <2>1. ps[1] = <<0, FALSE>> /\ ps[n + 1] = <<Len(b), FALSE>> BY Zenon DEF Chain
  <2>2. 0 \in Int OBVIOUS
  <2> HIDE DEF n
  <2> QED BY <1>1, <1>2, <2>1, <2>2, Zenon
<1>4. ASSUME NEW p \in 1..(n + 1) PROVE Depth(ps[p]) \in Int
  <2>1. ps[p] \in Int \X BOOLEAN BY <1>1
  <2> QED BY <2>1 DEF Depth
<1>5. v \in [1..(n + 1) -> Int] BY <1>4
<1>6. ASSUME NEW p \in 1..n PROVE 1 <= v[p + 1] - v[p] /\ v[p + 1] - v[p] <= 3
  <2>1. Link(b, us, ps, p) BY DEF Chain
  <2>2. p \in 1..(n + 1) /\ p + 1 \in 1..(n + 1) BY <1>1
  <2> QED BY <2>1, <2>2, LinkRises
<1>7. \A p, q \in 1..(n + 1) : p <= q => q - p <= v[q] - v[p] /\ v[q] - v[p] <= 3 * (q - p)
  <2> HIDE DEF v, n
  <2> QED BY <1>1, <1>5, <1>6, Rising
<1> QED BY <1>3, <1>4, <1>7

(* The bounds of a mark, and which marks stand at the ends.                *)
LEMMA PlaceFacts ==
  ASSUME NEW b \in Seq(Octet), NEW us, NEW ps, Chain(b, us, ps, 0), NEW p \in 1..(Len(us) + 1)
  PROVE  /\ p - 1 <= Depth(ps[p]) /\ Depth(ps[p]) <= 3 * (p - 1)
         /\ (Len(us) + 1) - p <= Len(b) - Depth(ps[p])
         /\ ps[p] = <<ps[p][1], ps[p][2]>> /\ ps[p][1] \in Int /\ ps[p][2] \in BOOLEAN
         /\ 0 <= ps[p][1] /\ ps[p][1] <= Len(b)
         /\ ps[p][1] = Len(b) <=> p = Len(us) + 1
         /\ ps[p][1] = 0 /\ ~ps[p][2] => p = 1
         /\ ps[p][2] => 1 < p /\ p <= Len(us)
<1> DEFINE n == Len(us)
<1>1. n \in Nat /\ Len(b) \in Nat /\ Len(ps) = n + 1 /\ ps \in Seq(Int \X BOOLEAN) BY DEF Chain
<1>2. ps[p] \in Int \X BOOLEAN BY <1>1
<1>3. ps[p] = <<ps[p][1], ps[p][2]>> /\ ps[p][1] \in Int /\ ps[p][2] \in BOOLEAN BY <1>2
<1>4. p - 1 <= Depth(ps[p]) /\ Depth(ps[p]) <= 3 * (p - 1) /\ (n + 1) - p <= Len(b) - Depth(ps[p])
  <2>1. 1 \in 1..(n + 1) /\ n + 1 \in 1..(n + 1) /\ 1 <= p /\ p <= n + 1 BY <1>1
  <2>2. /\ Depth(ps[1]) = 0 /\ Depth(ps[n + 1]) = Len(b)
        /\ \A r, q \in 1..(n + 1) : r <= q =>
             q - r <= Depth(ps[q]) - Depth(ps[r]) /\ Depth(ps[q]) - Depth(ps[r]) <= 3 * (q - r)
        /\ Depth(ps[p]) \in Int
    BY ChainRises
  <2> HIDE DEF n
  <2>3. p - 1 <= Depth(ps[p]) - 0 /\ Depth(ps[p]) - 0 <= 3 * (p - 1) BY <2>1, <2>2
  <2>4. (n + 1) - p <= Len(b) - Depth(ps[p]) BY <2>1, <2>2
  <2> QED BY <1>1, <2>2, <2>3, <2>4
<1>5. Depth(ps[p]) = IF ps[p][2] THEN ps[p][1] + 1 ELSE ps[p][1] BY <1>3 DEF Depth
<1>6. CASE p = n + 1
  <2>1. ps[p] = <<Len(b), FALSE>> BY <1>6 DEF Chain
  <2>2. ps[p][1] = Len(b) /\ ps[p][2] = FALSE BY <2>1
  <2> QED BY <1>1, <1>3, <1>4, <1>5, <1>6, <2>2
<1>7. CASE p # n + 1
  <2>1. p \in 1..n BY <1>1, <1>7
  <2>2. Link(b, us, ps, p) BY <2>1 DEF Chain
  <2>3. PICK o, w, point : /\ Scalar(b, o, w, point)
                           /\ \/ Plain(us, ps, p, o, w, point)
                              \/ FirstOf(us, ps, p, o, w, point)
                              \/ SecondOf(us, ps, p, o, w, point)
    BY <2>2 DEF Link
  <2>4. o \in Int /\ 0 <= o /\ o < Len(b) BY <1>1, <2>3 DEF Scalar
  <2>5. ps[p] = <<o, FALSE>> \/ (ps[p] = <<o, TRUE>> /\ p > 1) BY <2>3, Zenon DEF Plain, FirstOf, SecondOf
  <2>6. ps[p][1] = o /\ (ps[p][2] => p > 1)
    <3>1. \A x \in Int : <<x, FALSE>>[1] = x /\ <<x, FALSE>>[2] = FALSE /\ <<x, TRUE>>[1] = x OBVIOUS
    <3> QED BY <2>4, <2>5, <3>1, Zenon
  <2> HIDE DEF n
  <2>7. ps[p][1] = 0 /\ ~ps[p][2] => p = 1 BY <1>1, <1>4, <1>5
  <2> QED BY <1>1, <1>3, <1>4, <1>7, <2>1, <2>4, <2>6, <2>7, SMTT(30) DEF n
<1> QED BY <1>6, <1>7

LEMMA EndPlace ==
  ASSUME NEW b \in Seq(Octet), NEW us, NEW ps, Chain(b, us, ps, 0), NEW p \in 0..Len(us)
  PROVE  ps[p + 1][1] = Len(b) <=> p = Len(us)
<1>1. Len(us) \in Nat BY DEF Chain
<1>2. p + 1 \in 1..(Len(us) + 1) /\ (p + 1 = Len(us) + 1 <=> p = Len(us)) BY <1>1
<1>3. ps[p + 1][1] = Len(b) <=> p + 1 = Len(us) + 1
  <2> DEFINE r == p + 1
  <2>1. r \in 1..(Len(us) + 1) BY <1>2
  <2> HIDE DEF r
  <2>2. ps[r][1] = Len(b) <=> r = Len(us) + 1 BY <2>1, PlaceFacts
  <2> QED BY <2>2 DEF r
<1> QED BY <1>2, <1>3, Zenon

(* The scalar before an offset is found from its last byte.                *)
LEMMA LeadFound ==
  ASSUME NEW b \in Seq(Octet), NEW o, NEW w, NEW point, Scalar(b, o, w, point)
  PROVE  LeadBefore(b, o + w) = o
<1> DEFINE S == {x \in 0..((o + w) - 1) : ~IsContinuation(b[x + 1])}
<1>1. o \in Nat /\ w \in 1..4 BY DEF Scalar
<1>2. o \in S BY <1>1 DEF Scalar
<1>3. ASSUME NEW x \in S PROVE x <= o
  <2> SUFFICES ASSUME x > o PROVE FALSE BY <1>1
  <2>1. (x + 1) - o \in 2..w /\ o + ((x + 1) - o) = x + 1 BY <1>1
  <2>2. IsContinuation(b[o + ((x + 1) - o)]) BY <2>1 DEF Scalar
  <2> QED BY <2>1, <2>2
<1>4. S \subseteq Int OBVIOUS
<1>5. LeadBefore(b, o + w) = Max(S) BY <1>1 DEF LeadBefore
<1> HIDE DEF S
<1>6. \A x \in S : (\A y \in S : x >= y) => x = o BY <1>1, <1>2, <1>3, <1>4
<1>7. \A y \in S : o >= y BY <1>1, <1>3, <1>4
<1>8. Max(S) = o BY <1>2, <1>6, <1>7 DEF Max
<1> QED BY <1>5, <1>8
-----------------------------------------------------------------------------
(* Storage of the units of a text, and the cursor at each of its           *)
(* positions.                                                              *)
Viewed(view, us, ps) ==
  /\ us \in Seq(Nat) /\ view.units = Len(us)
  /\ \/ view.kind = "units" /\ view.data = us
     \/ view.kind = "ascii" /\ view.data = us /\ \A i \in 1..Len(us) : us[i] < 128
     \/ view.kind = "bytes" /\ view.data \in Seq(Octet) /\ Chain(view.data, us, ps, 0)
Stand(view, ps, p) ==
  IF view.kind # "bytes" THEN Mark(p, FALSE, p) ELSE Mark(ps[p + 1][1], ps[p + 1][2], p)

UnitHere(us, p) == IF p \in 0..(Len(us) - 1) THEN us[p + 1] ELSE None
PairHere(us, p) == IsHigh(UnitHere(us, p)) /\ IsLow(UnitHere(us, p + 1))
PointHere(us, p) ==
  IF PairHere(us, p) THEN CombinePair(UnitHere(us, p), UnitHere(us, p + 1)) ELSE UnitHere(us, p)

(* A mark's two parts, and a link of the chain by them.                    *)
At(ps, p, o, h) == ps[p][1] = o /\ ps[p][2] = h

LEMMA Parts ==
  ASSUME NEW ps, NEW p, NEW o, NEW h, ps[p] = <<o, h>>
  PROVE  At(ps, p, o, h)
<1> DEFINE m == ps[p]
<1>1. m = <<o, h>> OBVIOUS
<1> HIDE DEF m
<1>2. m[1] = o /\ m[2] = h BY <1>1
<1> QED BY <1>2 DEF m, At
OneUnitHere(us, ps, p, o, w, point) ==
  w # 4 /\ ~Astral(point) /\ At(ps, p, o, FALSE) /\ At(ps, p + 1, o + w, FALSE) /\ us[p] = point
HighHere(us, ps, p, o, w, point) ==
  /\ w = 4 /\ Astral(point) /\ At(ps, p, o, FALSE) /\ At(ps, p + 1, o, TRUE) /\ At(ps, p + 2, o + 4, FALSE)
  /\ p + 1 <= Len(us) /\ us[p] = HighSurrogate(point) /\ us[p + 1] = LowSurrogate(point)
LowHere(us, ps, p, o, w, point) ==
  /\ w = 4 /\ Astral(point) /\ At(ps, p, o, TRUE) /\ At(ps, p + 1, o + 4, FALSE) /\ At(ps, p - 1, o, FALSE)
  /\ p > 1 /\ us[p - 1] = HighSurrogate(point) /\ us[p] = LowSurrogate(point)

LEMMA LinkParts ==
  ASSUME NEW b, NEW us, NEW ps, NEW p, Link(b, us, ps, p)
  PROVE  \E o, w, point : /\ Scalar(b, o, w, point)
                          /\ \/ OneUnitHere(us, ps, p, o, w, point)
                             \/ HighHere(us, ps, p, o, w, point)
                             \/ LowHere(us, ps, p, o, w, point)
<1>1. PICK o, w, point : /\ Scalar(b, o, w, point)
                         /\ \/ Plain(us, ps, p, o, w, point)
                            \/ FirstOf(us, ps, p, o, w, point)
                            \/ SecondOf(us, ps, p, o, w, point)
  BY DEF Link
<1>2. w = 4 <=> Astral(point) BY <1>1 DEF Scalar
<1>3. ASSUME Plain(us, ps, p, o, w, point) PROVE OneUnitHere(us, ps, p, o, w, point)
  BY <1>2, <1>3, Parts, Zenon DEF Plain, OneUnitHere
<1>4. ASSUME FirstOf(us, ps, p, o, w, point) PROVE HighHere(us, ps, p, o, w, point)
  BY <1>2, <1>4, Parts, Zenon DEF FirstOf, HighHere
<1>5. ASSUME SecondOf(us, ps, p, o, w, point) PROVE LowHere(us, ps, p, o, w, point)
  BY <1>2, <1>5, Parts, Zenon DEF SecondOf, LowHere
<1> QED BY <1>1, <1>3, <1>4, <1>5, Zenon

(* A unit read forwards: of storage of units, and of a decoded scalar.     *)
LEMMA NextOfUnits ==
  ASSUME NEW view, NEW mark, view.kind # "bytes"
  PROVE  NextUnit(view, mark) =
           IF mark.offset = Len(view.data) THEN Read(mark, None)
           ELSE Read(Mark(mark.offset + 1, FALSE, mark.units + 1), view.data[mark.offset + 1])
<1> QED BY SMT DEF NextUnit

LEMMA NextOfBytes ==
  ASSUME NEW view, NEW mark, view.kind = "bytes", mark.offset # Len(view.data), mark.half \in BOOLEAN,
         NEW point \in Nat, NEW w \in Nat,
         DecodeValid(view.data, mark.offset).point = point, DecodeValid(view.data, mark.offset).width = w
  PROVE  NextUnit(view, mark) =
           IF ~Astral(point) THEN Read(Mark(mark.offset + w, FALSE, mark.units + 1), point)
           ELSE IF mark.half THEN Read(Mark(mark.offset + w, FALSE, mark.units + 1), LowSurrogate(point))
           ELSE Read(Mark(mark.offset, TRUE, mark.units + 1), HighSurrogate(point))
<1> DEFINE single == point <= 65535
<1>1. NextUnit(view, mark) =
        IF single THEN Read(Mark(mark.offset + w, FALSE, mark.units + 1), point)
        ELSE IF mark.half THEN Read(Mark(mark.offset + w, FALSE, mark.units + 1), LowSurrogate(point))
        ELSE Read(Mark(mark.offset, TRUE, mark.units + 1), HighSurrogate(point))
  BY SMT DEF NextUnit
<1>2. single <=> ~Astral(point) BY SMT DEF Astral
<1> HIDE DEF single
<1> QED BY <1>1, <1>2, Zenon

LEMMA NextUnitIs ==
  ASSUME NEW view, NEW us, NEW ps, Viewed(view, us, ps), NEW p \in 0..Len(us)
  PROVE  NextUnit(view, Stand(view, ps, p)) =
           IF p = Len(us) THEN Read(Stand(view, ps, p), None) ELSE Read(Stand(view, ps, p + 1), us[p + 1])
<1> DEFINE m == Stand(view, ps, p)
           n == Len(us)
           b == view.data
<1>1. n \in Nat /\ p \in Nat /\ p <= n BY DEF Viewed
<1>2. CASE view.kind # "bytes"
  <2>1. b = us /\ m = Mark(p, FALSE, p) /\ Stand(view, ps, p + 1) = Mark(p + 1, FALSE, p + 1)
    BY <1>2 DEF Viewed, Stand
  <2>2. m.offset = p /\ m.units = p BY <2>1 DEF Mark
  <2>3. NextUnit(view, m) =
          IF m.offset = Len(b) THEN Read(m, None) ELSE Read(Mark(m.offset + 1, FALSE, m.units + 1), b[m.offset + 1])
    BY <1>2, NextOfUnits
  <2> HIDE DEF m, b
  <2>4. NextUnit(view, m) = IF p = n THEN Read(m, None) ELSE Read(Stand(view, ps, p + 1), us[p + 1])
    BY <2>1, <2>2, <2>3, Zenon
  <2> QED BY <2>4 DEF m
<1>3. CASE view.kind = "bytes"
  <2>1. b \in Seq(Octet) /\ Chain(b, us, ps, 0) BY <1>3 DEF Viewed
  <2>2. m.offset = ps[p + 1][1] /\ m.half = ps[p + 1][2] /\ m.units = p BY <1>3 DEF Stand, Mark
  <2>3. ps[p + 1][1] = Len(b) <=> p = n
    <3> HIDE DEF b
    <3> QED BY <2>1, EndPlace
  <2>4. Stand(view, ps, p + 1) = Mark(ps[(p + 1) + 1][1], ps[(p + 1) + 1][2], p + 1)
    BY <1>3, Zenon DEF Stand
  <2> HIDE DEF m, b, n
  <2>5. ASSUME p = n PROVE NextUnit(view, m) = Read(m, None)
    BY <2>2, <2>3, <2>5, SMT DEF NextUnit, b
  <2>6. ASSUME p # n PROVE NextUnit(view, m) = Read(Stand(view, ps, p + 1), us[p + 1])
    <3> DEFINE r == p + 1
    <3>1. r \in 1..n BY <1>1, <2>6
    <3>2. Link(b, us, ps, r) BY <2>1, <3>1 DEF Chain, n
    <3> HIDE DEF r
    <3>3. PICK o, w, point : /\ Scalar(b, o, w, point)
                             /\ \/ OneUnitHere(us, ps, r, o, w, point)
                                \/ HighHere(us, ps, r, o, w, point)
                                \/ LowHere(us, ps, r, o, w, point)
      BY <3>2, LinkParts
    <3>4. point \in Nat /\ w \in Nat /\ DecodeValid(b, o).point = point /\ DecodeValid(b, o).width = w
      BY <3>3 DEF Scalar
    <3>5. ps[r][1] = o BY <3>3, Zenon DEF OneUnitHere, HighHere, LowHere, At
    <3>6. m.offset # Len(b) /\ m.offset = o /\ m.half = ps[r][2] BY <2>2, <2>3, <2>6, <3>5, Zenon DEF r
    <3>7. NextUnit(view, m) =
            IF ~Astral(point) THEN Read(Mark(o + w, FALSE, r), point)
            ELSE IF m.half THEN Read(Mark(o + w, FALSE, r), LowSurrogate(point))
            ELSE Read(Mark(o, TRUE, r), HighSurrogate(point))
      <4>1. m.half \in BOOLEAN
        <5>1. r \in 1..(Len(us) + 1) BY <1>1, <3>1 DEF n
        <5>2. ps[r][2] \in BOOLEAN BY <2>1, <5>1, PlaceFacts
        <5> QED BY <3>6, <5>2
      <4> QED BY <1>3, <2>2, <3>4, <3>6, <4>1, NextOfBytes, ZenonT(60) DEF b, r
    <3>8. Stand(view, ps, r) = Mark(ps[r + 1][1], ps[r + 1][2], r) BY <2>4, Zenon DEF r
    <3>9. NextUnit(view, m) = Read(Stand(view, ps, r), us[r])
      <4>1. CASE OneUnitHere(us, ps, r, o, w, point) BY <3>7, <3>8, <4>1, Zenon DEF OneUnitHere, At
      <4>2. CASE HighHere(us, ps, r, o, w, point) BY <3>6, <3>7, <3>8, <4>2, Zenon DEF HighHere, At
      <4>3. CASE LowHere(us, ps, r, o, w, point) BY <3>6, <3>7, <3>8, <4>3, Zenon DEF LowHere, At
      <4> QED BY <3>3, <4>1, <4>2, <4>3, Zenon
    <3> QED BY <3>9 DEF r
  <2> QED BY <2>5, <2>6, Zenon DEF m, n
<1> QED BY <1>2, <1>3

(* A unit read backwards.                                                  *)
LEMMA PreviousOfUnits ==
  ASSUME NEW view, NEW mark, view.kind # "bytes"
  PROVE  PreviousUnit(view, mark) =
           IF mark.units = 0 THEN Read(mark, None)
           ELSE Read(Mark(mark.offset - 1, FALSE, mark.units - 1), view.data[mark.offset])
<1> QED BY SMT DEF PreviousUnit

LEMMA PreviousOfHalf ==
  ASSUME NEW view, NEW mark, view.kind = "bytes", mark.units # 0, mark.half,
         NEW point \in Nat, DecodeValid(view.data, mark.offset).point = point
  PROVE  PreviousUnit(view, mark) = Read(Mark(mark.offset, FALSE, mark.units - 1), HighSurrogate(point))
<1> QED BY SMT DEF PreviousUnit

LEMMA PreviousOfBytes ==
  ASSUME NEW view, NEW mark, view.kind = "bytes", mark.units # 0, ~mark.half,
         NEW o \in Int, LeadBefore(view.data, mark.offset) = o, NEW point \in Nat, DecodeValid(view.data, o).point = point
  PROVE  PreviousUnit(view, mark) =
           IF Astral(point) THEN Read(Mark(o, TRUE, mark.units - 1), LowSurrogate(point))
           ELSE Read(Mark(o, FALSE, mark.units - 1), point)
<1> DEFINE double == point > 65535
<1>1. PreviousUnit(view, mark) =
        IF double THEN Read(Mark(o, TRUE, mark.units - 1), LowSurrogate(point))
        ELSE Read(Mark(o, FALSE, mark.units - 1), point)
  BY SMT DEF PreviousUnit
<1>2. double <=> Astral(point) BY SMT DEF Astral
<1> HIDE DEF double
<1> QED BY <1>1, <1>2, Zenon

LEMMA PreviousUnitIs ==
  ASSUME NEW view, NEW us, NEW ps, Viewed(view, us, ps), NEW p \in 0..Len(us)
  PROVE  PreviousUnit(view, Stand(view, ps, p)) =
           IF p = 0 THEN Read(Stand(view, ps, p), None) ELSE Read(Stand(view, ps, p - 1), us[p])
<1> DEFINE m == Stand(view, ps, p)
           n == Len(us)
           b == view.data
<1>1. n \in Nat /\ p \in Nat /\ p <= n BY DEF Viewed
<1>2. CASE view.kind # "bytes"
  <2>1. b = us /\ m = Mark(p, FALSE, p) /\ Stand(view, ps, p - 1) = Mark(p - 1, FALSE, p - 1)
    BY <1>2 DEF Viewed, Stand
  <2>2. m.offset = p /\ m.units = p BY <2>1 DEF Mark
  <2>3. PreviousUnit(view, m) =
          IF m.units = 0 THEN Read(m, None) ELSE Read(Mark(m.offset - 1, FALSE, m.units - 1), b[m.offset])
    BY <1>2, PreviousOfUnits
  <2> HIDE DEF m, b
  <2>4. PreviousUnit(view, m) = IF p = 0 THEN Read(m, None) ELSE Read(Stand(view, ps, p - 1), us[p])
    BY <2>1, <2>2, <2>3, Zenon
  <2> QED BY <2>4 DEF m
<1>3. CASE view.kind = "bytes"
  <2>1. b \in Seq(Octet) /\ Chain(b, us, ps, 0) BY <1>3 DEF Viewed
  <2>2. m.offset = ps[p + 1][1] /\ m.half = ps[p + 1][2] /\ m.units = p BY <1>3 DEF Stand, Mark
  <2>3. Stand(view, ps, p - 1) = Mark(ps[p][1], ps[p][2], p - 1)
    <3>1. (p - 1) + 1 = p BY <1>1
    <3>2. Stand(view, ps, p - 1) = Mark(ps[(p - 1) + 1][1], ps[(p - 1) + 1][2], p - 1)
      BY <1>3, Zenon DEF Stand
    <3> QED BY <3>1, <3>2, Zenon
  <2> HIDE DEF m, b, n
  <2>4. ASSUME p = 0 PROVE PreviousUnit(view, m) = Read(m, None)
    BY <2>2, <2>4, SMT DEF PreviousUnit
  <2>5. ASSUME p # 0 PROVE PreviousUnit(view, m) = Read(Stand(view, ps, p - 1), us[p])
    <3>1. p \in 1..n BY <1>1, <2>5
    <3>2. Link(b, us, ps, p) BY <2>1, <3>1 DEF Chain, n
    <3>3. PICK o, w, point : /\ Scalar(b, o, w, point)
                             /\ \/ OneUnitHere(us, ps, p, o, w, point)
                                \/ HighHere(us, ps, p, o, w, point)
                                \/ LowHere(us, ps, p, o, w, point)
      BY <3>2, LinkParts
    <3>4. point \in Nat /\ o \in Int /\ DecodeValid(b, o).point = point BY <3>3 DEF Scalar
    <3>5. LeadBefore(b, o + w) = o BY <2>1, <3>3, LeadFound
    <3>6. m.units # 0 BY <2>2, <2>5
    <3>7. CASE OneUnitHere(us, ps, p, o, w, point)
      <4>1. /\ ~Astral(point) /\ m.offset = o + w /\ m.half = FALSE
            /\ Stand(view, ps, p - 1) = Mark(o, FALSE, p - 1) /\ us[p] = point
        BY <2>2, <2>3, <3>7, Zenon DEF OneUnitHere, At
      <4>2. PreviousUnit(view, m) =
              IF Astral(point) THEN Read(Mark(o, TRUE, m.units - 1), LowSurrogate(point))
              ELSE Read(Mark(o, FALSE, m.units - 1), point)
        BY <1>3, <3>4, <3>5, <3>6, <4>1, PreviousOfBytes, ZenonT(40) DEF b
      <4> QED BY <2>2, <4>1, <4>2, Zenon
    <3>8. CASE LowHere(us, ps, p, o, w, point)
      <4>1. /\ Astral(point) /\ m.offset = o + w /\ m.half = FALSE
            /\ Stand(view, ps, p - 1) = Mark(o, TRUE, p - 1) /\ us[p] = LowSurrogate(point)
        BY <2>2, <2>3, <3>8, Zenon DEF LowHere, At
      <4>2. PreviousUnit(view, m) =
              IF Astral(point) THEN Read(Mark(o, TRUE, m.units - 1), LowSurrogate(point))
              ELSE Read(Mark(o, FALSE, m.units - 1), point)
        BY <1>3, <3>4, <3>5, <3>6, <4>1, PreviousOfBytes, ZenonT(40) DEF b
      <4> QED BY <2>2, <4>1, <4>2, Zenon
    <3>9. CASE HighHere(us, ps, p, o, w, point)
      <4>1. /\ m.offset = o /\ m.half = TRUE
            /\ Stand(view, ps, p - 1) = Mark(o, FALSE, p - 1) /\ us[p] = HighSurrogate(point)
        BY <2>2, <2>3, <3>9, Zenon DEF HighHere, At
      <4>2. PreviousUnit(view, m) = Read(Mark(m.offset, FALSE, m.units - 1), HighSurrogate(point))
        BY <1>3, <3>4, <3>6, <4>1, PreviousOfHalf DEF b
      <4> QED BY <2>2, <4>1, <4>2, Zenon
    <3> QED BY <3>3, <3>7, <3>8, <3>9, Zenon
  <2> QED BY <2>4, <2>5, Zenon DEF m
<1> QED BY <1>2, <1>3

LEMMA NoUnit == ~IsHigh(None) /\ ~IsLow(None)
<1> QED BY SMT DEF IsHigh, IsLow, None

LEMMA AsciiUnit ==
  ASSUME NEW unit \in Nat, unit < 128
  PROVE  ~IsHigh(unit) /\ ~IsLow(unit)
<1> QED BY SMT DEF IsHigh, IsLow

LEMMA ReadIs ==
  ASSUME NEW read, NEW m, NEW value, read = Read(m, value)
  PROVE  read.mark = m /\ read.value = value
<1> QED BY DEF Read

LEMMA UnitIs ==
  ASSUME NEW view, NEW us, NEW ps, Viewed(view, us, ps), NEW p \in 0..(Len(us) - 1)
  PROVE  /\ UnitHere(us, p) = us[p + 1] /\ us[p + 1] \in Nat /\ us[p + 1] # None
         /\ view.kind = "ascii" => ~IsHigh(us[p + 1]) /\ ~IsLow(us[p + 1])
<1>1. us \in Seq(Nat) BY DEF Viewed
<1>2. p + 1 \in 1..Len(us) BY <1>1
<1>3. us[p + 1] \in Nat BY <1>1, <1>2
<1>4. view.kind = "ascii" => us[p + 1] < 128 BY <1>2 DEF Viewed
<1>5. \A x \in Nat : x # None BY DEF None
<1>6. UnitHere(us, p) = us[p + 1] BY Zenon DEF UnitHere
<1> QED BY <1>3, <1>4, <1>5, <1>6, AsciiUnit

(* A unit forwards, by the unit there.                                     *)
LEMMA NextRead ==
  ASSUME NEW view, NEW us, NEW ps, Viewed(view, us, ps), NEW p \in 0..Len(us)
  PROVE  NextUnit(view, Stand(view, ps, p)) = Read(Stand(view, ps, Least(Len(us), p + 1)), UnitHere(us, p))
<1>1. Len(us) \in Nat BY DEF Viewed
<1>2. CASE p = Len(us)
  <2>1. Least(Len(us), p + 1) = p /\ p \notin 0..(Len(us) - 1) BY <1>1, <1>2 DEF Least
  <2>2. UnitHere(us, p) = None BY <2>1, Zenon DEF UnitHere
  <2>3. NextUnit(view, Stand(view, ps, p)) = Read(Stand(view, ps, p), None) BY <1>2, NextUnitIs, Zenon
  <2> QED BY <2>1, <2>2, <2>3, Zenon
<1>3. CASE p # Len(us)
  <2>1. p \in 0..(Len(us) - 1) /\ Least(Len(us), p + 1) = p + 1 BY <1>1, <1>3 DEF Least
  <2>2. UnitHere(us, p) = us[p + 1] BY <2>1, Zenon DEF UnitHere
  <2>3. NextUnit(view, Stand(view, ps, p)) = Read(Stand(view, ps, p + 1), us[p + 1]) BY <1>3, NextUnitIs, Zenon
  <2> QED BY <2>1, <2>2, <2>3, Zenon
<1> QED BY <1>2, <1>3

(* A unit backwards, by the unit before.                                   *)
LEMMA PreviousRead ==
  ASSUME NEW view, NEW us, NEW ps, Viewed(view, us, ps), NEW p \in 0..Len(us)
  PROVE  PreviousUnit(view, Stand(view, ps, p)) =
           Read(Stand(view, ps, IF p = 0 THEN 0 ELSE p - 1), UnitHere(us, p - 1))
<1>1. Len(us) \in Nat BY DEF Viewed
<1>2. CASE p = 0
  <2>1. p - 1 \notin 0..(Len(us) - 1) BY <1>2
  <2>2. UnitHere(us, p - 1) = None BY <2>1, Zenon DEF UnitHere
  <2>3. PreviousUnit(view, Stand(view, ps, p)) = Read(Stand(view, ps, p), None) BY <1>2, PreviousUnitIs, Zenon
  <2> QED BY <1>2, <2>2, <2>3, Zenon
<1>3. CASE p # 0
  <2>1. p - 1 \in 0..(Len(us) - 1) /\ (p - 1) + 1 = p BY <1>1, <1>3
  <2>2. UnitHere(us, p - 1) = us[p] BY <2>1, Zenon DEF UnitHere
  <2>3. PreviousUnit(view, Stand(view, ps, p)) = Read(Stand(view, ps, p - 1), us[p]) BY <1>3, PreviousUnitIs, Zenon
  <2> QED BY <1>3, <2>2, <2>3, Zenon
<1> QED BY <1>2, <1>3

(* A scalar stored whole, met at its first unit, is the pair there.        *)
LEMMA WholeAhead ==
  ASSUME NEW view, NEW us, NEW ps, Viewed(view, us, ps), NEW p \in 0..(Len(us) - 1),
         Whole(view, Stand(view, ps, p), Stand(view, ps, p).offset)
  PROVE  /\ PairHere(us, p) /\ p + 2 <= Len(us)
         /\ LET read == DecodeValid(view.data, Stand(view, ps, p).offset)
            IN /\ read.point = PointHere(us, p)
               /\ Mark(Stand(view, ps, p).offset + read.width, FALSE, p + 2) = Stand(view, ps, p + 2)
<1> DEFINE m == Stand(view, ps, p)
           b == view.data
           r == p + 1
<1>0. DecodeValid(b, m.offset).point > 65535 BY DEF Whole
<1>1. view.kind = "bytes" /\ ~m.half BY DEF Whole
<1>2. b \in Seq(Octet) /\ Chain(b, us, ps, 0) /\ Len(us) \in Nat BY <1>1 DEF Viewed
<1>3. m.offset = ps[r][1] /\ m.half = ps[r][2] /\ m.units = p BY <1>1 DEF Stand, Mark
<1>4. r \in 1..Len(us) /\ r + 1 = p + 2 /\ r + 2 = (p + 2) + 1 BY <1>2
<1>5. Stand(view, ps, p + 2) = Mark(ps[r + 2][1], ps[r + 2][2], p + 2)
  <2>1. Stand(view, ps, p + 2) = Mark(ps[(p + 2) + 1][1], ps[(p + 2) + 1][2], p + 2) BY <1>1, Zenon DEF Stand
  <2> QED BY <1>4, <2>1, Zenon
<1>6. Link(b, us, ps, r) BY <1>2, <1>4 DEF Chain
<1> HIDE DEF m, b, r
<1>7. PICK o, w, point : /\ Scalar(b, o, w, point)
                         /\ \/ OneUnitHere(us, ps, r, o, w, point)
                            \/ HighHere(us, ps, r, o, w, point)
                            \/ LowHere(us, ps, r, o, w, point)
  BY <1>6, LinkParts
<1>8. /\ point \in Nat /\ point <= LastPoint /\ DecodeValid(b, o).point = point /\ DecodeValid(b, o).width = w
      /\ (w = 4 <=> Astral(point))
  BY <1>7 DEF Scalar
<1>9. ps[r][1] = o BY <1>7, Zenon DEF OneUnitHere, HighHere, LowHere, At
<1>10. Astral(point) BY <1>0, <1>3, <1>8, <1>9, SMT DEF Astral
<1>11. HighHere(us, ps, r, o, w, point) BY <1>1, <1>3, <1>7, <1>10, Zenon DEF OneUnitHere, LowHere, At
<1>12. /\ ps[r + 2][1] = o + w /\ ps[r + 2][2] = FALSE
       /\ us[r] = HighSurrogate(point) /\ us[r + 1] = LowSurrogate(point) /\ r + 1 <= Len(us)
  BY <1>11, Zenon DEF HighHere, At
<1>13. p + 1 \in 0..(Len(us) - 1) /\ (p + 1) + 1 = r + 1 BY <1>2, <1>4, <1>12 DEF r
<1>14. UnitHere(us, p) = us[r] /\ UnitHere(us, p + 1) = us[r + 1]
  BY <1>13, Zenon DEF UnitHere, r
<1>15. /\ IsHigh(HighSurrogate(point)) /\ IsLow(LowSurrogate(point))
       /\ CombinePair(HighSurrogate(point), LowSurrogate(point)) = point
  BY <1>8, <1>10, PairOf
<1>16. PairHere(us, p) /\ PointHere(us, p) = point BY <1>12, <1>14, <1>15, Zenon DEF PairHere, PointHere
<1>17. p + 2 <= Len(us) BY <1>4, <1>12, Zenon
<1>18. Stand(view, ps, p + 2) = Mark(o + w, FALSE, p + 2) BY <1>5, <1>12, Zenon
<1>19. m.offset = o BY <1>3, <1>9, Zenon
<1> QED BY <1>8, <1>16, <1>17, <1>18, <1>19, Zenon DEF m, b

(* The same of one met at its end.                                         *)
LEMMA WholeBehind ==
  ASSUME NEW view, NEW us, NEW ps, Viewed(view, us, ps), NEW p \in 1..Len(us),
         Whole(view, Stand(view, ps, p), LeadBefore(view.data, Stand(view, ps, p).offset))
  PROVE  /\ PairHere(us, p - 2) /\ p >= 2
         /\ DecodeValid(view.data, LeadBefore(view.data, Stand(view, ps, p).offset)).point = PointHere(us, p - 2)
         /\ Mark(LeadBefore(view.data, Stand(view, ps, p).offset), FALSE, p - 2) = Stand(view, ps, p - 2)
<1> DEFINE m == Stand(view, ps, p)
           b == view.data
           lead == LeadBefore(b, m.offset)
<1>1. DecodeValid(b, lead).point > 65535 BY DEF Whole
<1>2. view.kind = "bytes" /\ ~m.half BY DEF Whole
<1>3. b \in Seq(Octet) /\ Chain(b, us, ps, 0) /\ Len(us) \in Nat BY <1>2 DEF Viewed
<1>4. m.offset = ps[p + 1][1] /\ m.half = ps[p + 1][2] /\ m.units = p BY <1>2 DEF Stand, Mark
<1>5. Stand(view, ps, p - 2) = Mark(ps[p - 1][1], ps[p - 1][2], p - 2)
  <2>1. Stand(view, ps, p - 2) = Mark(ps[(p - 2) + 1][1], ps[(p - 2) + 1][2], p - 2) BY <1>2, Zenon DEF Stand
  <2>2. (p - 2) + 1 = p - 1 BY <1>3
  <2> QED BY <2>1, <2>2, Zenon
<1>6. Link(b, us, ps, p) BY <1>3 DEF Chain
<1> HIDE DEF m, b
<1>7. PICK o, w, point : /\ Scalar(b, o, w, point)
                         /\ \/ OneUnitHere(us, ps, p, o, w, point)
                            \/ HighHere(us, ps, p, o, w, point)
                            \/ LowHere(us, ps, p, o, w, point)
  BY <1>6, LinkParts
<1>8. /\ point \in Nat /\ point <= LastPoint /\ DecodeValid(b, o).point = point
      /\ (w = 4 <=> Astral(point))
  BY <1>7 DEF Scalar
<1>9. ~HighHere(us, ps, p, o, w, point) BY <1>2, <1>4, Zenon DEF HighHere, At
<1>10. ps[p + 1][1] = o + w BY <1>7, <1>9, Zenon DEF OneUnitHere, LowHere, At
<1>11. LeadBefore(b, o + w) = o BY <1>3, <1>7, LeadFound
<1>12. lead = o BY <1>4, <1>10, <1>11, Zenon
<1> HIDE DEF lead
<1>13. Astral(point) BY <1>1, <1>8, <1>12, SMT DEF Astral
<1>14. LowHere(us, ps, p, o, w, point) BY <1>7, <1>9, <1>13, Zenon DEF OneUnitHere
<1>15. /\ ps[p - 1][1] = o /\ ps[p - 1][2] = FALSE /\ p > 1
       /\ us[p - 1] = HighSurrogate(point) /\ us[p] = LowSurrogate(point)
  BY <1>14, Zenon DEF LowHere, At
<1>16. /\ p - 2 \in 0..(Len(us) - 1) /\ (p - 2) + 1 \in 0..(Len(us) - 1)
       /\ (p - 2) + 1 = p - 1 /\ ((p - 2) + 1) + 1 = p /\ p >= 2
  BY <1>3, <1>15
<1>17. UnitHere(us, p - 2) = us[p - 1] /\ UnitHere(us, (p - 2) + 1) = us[p]
  BY <1>16, Zenon DEF UnitHere
<1>18. /\ IsHigh(HighSurrogate(point)) /\ IsLow(LowSurrogate(point))
       /\ CombinePair(HighSurrogate(point), LowSurrogate(point)) = point
  BY <1>8, <1>13, PairOf
<1>19. PairHere(us, p - 2) /\ PointHere(us, p - 2) = point
  BY <1>15, <1>17, <1>18, Zenon DEF PairHere, PointHere
<1>20. Stand(view, ps, p - 2) = Mark(o, FALSE, p - 2) BY <1>5, <1>15, Zenon
<1> QED BY <1>8, <1>12, <1>16, <1>19, <1>20, Zenon DEF m, b, lead

LEMMA NextPointIs ==
  ASSUME NEW view, NEW us, NEW ps, Viewed(view, us, ps), NEW p \in 0..Len(us)
  PROVE  NextPoint(view, Stand(view, ps, p)) =
           Read(Stand(view, ps, Least(Len(us), IF PairHere(us, p) THEN p + 2 ELSE p + 1)), PointHere(us, p))
<1> DEFINE m == Stand(view, ps, p)
           n == Len(us)
           first == NextUnit(view, m)
           second == NextUnit(view, first.mark)
           whole == Whole(view, m, m.offset)
           read == DecodeValid(view.data, m.offset)
<1>1. n \in Nat /\ p \in Nat /\ p <= n /\ m.units = p BY DEF Viewed, Stand, Mark
<1>2. /\ NextUnit(view, m) = Read(Stand(view, ps, Least(n, p + 1)), UnitHere(us, p))
      /\ first.value = UnitHere(us, p) /\ first.mark = Stand(view, ps, Least(n, p + 1))
  <2>1. NextUnit(view, m) = Read(Stand(view, ps, Least(n, p + 1)), UnitHere(us, p)) BY NextRead
  <2> QED BY <2>1, ReadIs
<1>3. NextPoint(view, m) =
        IF first.value = None THEN first
        ELSE IF whole THEN Read(Mark(m.offset + read.width, FALSE, m.units + 2), read.point)
        ELSE IF view.kind # "ascii" /\ IsHigh(first.value) /\ IsLow(second.value)
        THEN Read(second.mark, CombinePair(first.value, second.value))
        ELSE first
  BY Zenon DEF NextPoint
<1> HIDE DEF m, n, second, whole, read
<1>4. CASE p = n
  <2>1. p \notin 0..(n - 1) BY <1>1, <1>4
  <2>2. UnitHere(us, p) = None BY <2>1, Zenon DEF UnitHere, n
  <2>3. ~PairHere(us, p) BY <2>2, NoUnit, Zenon DEF PairHere
  <2>4. PointHere(us, p) = None BY <2>2, <2>3, Zenon DEF PointHere
  <2>5. NextPoint(view, m) = first BY <1>2, <1>3, <2>2, Zenon
  <2> QED BY <1>2, <2>2, <2>3, <2>4, <2>5, Zenon DEF m, n
<1>5. CASE p # n
  <2>1. p \in 0..(n - 1) /\ p + 1 \in 0..n /\ Least(n, p + 1) = p + 1 /\ (p + 1) + 1 = p + 2
    BY <1>1, <1>5 DEF Least
  <2>2. UnitHere(us, p) # None /\ (view.kind = "ascii" => ~IsHigh(UnitHere(us, p)))
    BY <2>1, UnitIs, Zenon DEF n
  <2>3. /\ second.value = UnitHere(us, p + 1)
        /\ second.mark = Stand(view, ps, Least(n, p + 2))
    <3>1. NextUnit(view, Stand(view, ps, p + 1)) = Read(Stand(view, ps, Least(n, (p + 1) + 1)), UnitHere(us, p + 1))
      BY <2>1, NextRead, Zenon DEF n
    <3>2. second = Read(Stand(view, ps, Least(n, p + 2)), UnitHere(us, p + 1))
      BY <1>2, <2>1, <3>1, Zenon DEF second
    <3> QED BY <3>2, ReadIs
  <2>4. CASE whole
    <3>1. /\ PairHere(us, p) /\ p + 2 <= n /\ read.point = PointHere(us, p)
          /\ Mark(m.offset + read.width, FALSE, p + 2) = Stand(view, ps, p + 2)
      BY <2>1, <2>4, WholeAhead, Zenon DEF whole, m, n, read
    <3>2. Least(n, p + 2) = p + 2 BY <1>1, <3>1 DEF Least
    <3>3. NextPoint(view, m) = Read(Mark(m.offset + read.width, FALSE, p + 2), read.point)
      BY <1>1, <1>2, <1>3, <2>2, <2>4, Zenon
    <3> QED BY <3>1, <3>2, <3>3, Zenon DEF m, n
  <2>5. CASE ~whole
    <3>1. CASE PairHere(us, p)
      <4>1. NextPoint(view, m) = Read(second.mark, CombinePair(first.value, second.value))
        BY <1>2, <1>3, <2>2, <2>3, <2>5, <3>1, Zenon DEF PairHere
      <4> QED BY <1>2, <2>3, <3>1, <4>1, Zenon DEF PointHere, m, n
    <3>2. CASE ~PairHere(us, p)
      <4>1. NextPoint(view, m) = first BY <1>2, <1>3, <2>2, <2>3, <2>5, <3>2, Zenon DEF PairHere
      <4> QED BY <1>2, <3>2, <4>1, Zenon DEF PointHere, m, n
    <3> QED BY <3>1, <3>2
  <2> QED BY <2>4, <2>5
<1> QED BY <1>4, <1>5

LEMMA PreviousPointIs ==
  ASSUME NEW view, NEW us, NEW ps, Viewed(view, us, ps), NEW p \in 0..Len(us)
  PROVE  PreviousPoint(view, Stand(view, ps, p)) =
           IF PairHere(us, p - 2) THEN Read(Stand(view, ps, p - 2), PointHere(us, p - 2))
           ELSE Read(Stand(view, ps, IF p = 0 THEN 0 ELSE p - 1), UnitHere(us, p - 1))
<1> DEFINE m == Stand(view, ps, p)
           n == Len(us)
           last == PreviousUnit(view, m)
           first == PreviousUnit(view, last.mark)
           lead == LeadBefore(view.data, m.offset)
           whole == Whole(view, m, lead)
<1>1. n \in Nat /\ p \in Nat /\ p <= n /\ m.units = p BY DEF Viewed, Stand, Mark
<1>2. /\ last = Read(Stand(view, ps, IF p = 0 THEN 0 ELSE p - 1), UnitHere(us, p - 1))
      /\ last.value = UnitHere(us, p - 1) /\ last.mark = Stand(view, ps, IF p = 0 THEN 0 ELSE p - 1)
  <2>1. last = Read(Stand(view, ps, IF p = 0 THEN 0 ELSE p - 1), UnitHere(us, p - 1)) BY PreviousRead
  <2> QED BY <2>1, ReadIs
<1>3. PreviousPoint(view, m) =
        IF last.value = None THEN last
        ELSE IF whole THEN Read(Mark(lead, FALSE, m.units - 2), DecodeValid(view.data, lead).point)
        ELSE IF view.kind # "ascii" /\ IsLow(last.value) /\ IsHigh(first.value)
        THEN Read(first.mark, CombinePair(first.value, last.value))
        ELSE last
  BY Zenon DEF PreviousPoint
<1> HIDE DEF m, n, first, whole, lead
<1>4. CASE p = 0
  <2>1. p - 1 \notin 0..(n - 1) /\ p - 2 \notin 0..(n - 1) BY <1>1, <1>4
  <2>2. UnitHere(us, p - 1) = None /\ UnitHere(us, p - 2) = None BY <2>1, Zenon DEF UnitHere, n
  <2>3. ~PairHere(us, p - 2) BY <2>2, NoUnit, Zenon DEF PairHere
  <2>4. PreviousPoint(view, m) = last BY <1>2, <1>3, <2>2, Zenon
  <2> QED BY <1>2, <2>3, <2>4, Zenon DEF m
<1>5. CASE p # 0
  <2>1. /\ p - 1 \in 0..(n - 1) /\ p - 1 \in 0..n /\ (p - 1) - 1 = p - 2 /\ p \in 1..n
        /\ (p - 1 = 0 => p - 2 \notin 0..(n - 1)) /\ (p - 2) + 1 = p - 1
    BY <1>1, <1>5
  <2>2. UnitHere(us, p - 1) # None /\ (view.kind = "ascii" => ~IsLow(UnitHere(us, p - 1)))
    BY <2>1, UnitIs, Zenon DEF n
  <2>3. /\ first.value = UnitHere(us, p - 2)
        /\ first.mark = Stand(view, ps, IF p - 1 = 0 THEN 0 ELSE p - 2)
    <3>1. PreviousUnit(view, Stand(view, ps, p - 1)) =
            Read(Stand(view, ps, IF p - 1 = 0 THEN 0 ELSE (p - 1) - 1), UnitHere(us, (p - 1) - 1))
      BY <2>1, PreviousRead, Zenon DEF n
    <3>2. first = Read(Stand(view, ps, IF p - 1 = 0 THEN 0 ELSE p - 2), UnitHere(us, p - 2))
      BY <1>2, <1>5, <2>1, <3>1, Zenon DEF first
    <3> QED BY <3>2, ReadIs
  <2>4. PairHere(us, p - 2) <=> IsHigh(UnitHere(us, p - 2)) /\ IsLow(UnitHere(us, p - 1))
    BY <2>1, Zenon DEF PairHere
  <2>5. CASE whole
    <3>1. /\ PairHere(us, p - 2) /\ DecodeValid(view.data, lead).point = PointHere(us, p - 2)
          /\ Mark(lead, FALSE, p - 2) = Stand(view, ps, p - 2)
      BY <2>1, <2>5, WholeBehind, ZenonT(40) DEF whole, m, n, lead
    <3>2. PreviousPoint(view, m) = Read(Mark(lead, FALSE, p - 2), DecodeValid(view.data, lead).point)
      BY <1>1, <1>2, <1>3, <2>2, <2>5, Zenon
    <3> QED BY <3>1, <3>2, Zenon DEF m
  <2>6. CASE ~whole
    <3>1. CASE PairHere(us, p - 2)
      <4>1. PreviousPoint(view, m) = Read(first.mark, CombinePair(first.value, last.value))
        BY <1>2, <1>3, <2>2, <2>3, <2>4, <2>6, <3>1, Zenon
      <4>2. p - 1 # 0
        <5>1. UnitHere(us, p - 2) # None BY <2>4, <3>1, NoUnit, Zenon
        <5> QED BY <2>1, <5>1, Zenon DEF UnitHere, n
      <4>3. PointHere(us, p - 2) = CombinePair(UnitHere(us, p - 2), UnitHere(us, p - 1))
        BY <2>1, <3>1, Zenon DEF PointHere
      <4> QED BY <1>2, <2>3, <3>1, <4>1, <4>2, <4>3, Zenon DEF m
    <3>2. CASE ~PairHere(us, p - 2)
      <4>1. PreviousPoint(view, m) = last BY <1>2, <1>3, <2>2, <2>3, <2>4, <2>6, <3>2, Zenon
      <4> QED BY <1>2, <3>2, <4>1, Zenon DEF m
    <3> QED BY <3>1, <3>2
  <2> QED BY <2>5, <2>6
<1> QED BY <1>4, <1>5

(* A start is moved from between the units of a pair to before them.       *)
LEMMA NormalizeIs ==
  ASSUME NEW view, NEW us, NEW ps, Viewed(view, us, ps), NEW p \in 0..Len(us)
  PROVE  NormalizeUnicodeStart(view, Stand(view, ps, p)) =
           Stand(view, ps, IF PairHere(us, p - 1) THEN p - 1 ELSE p)
<1> DEFINE m == Stand(view, ps, p)
<1>1. NextUnit(view, m) = Read(Stand(view, ps, Least(Len(us), p + 1)), UnitHere(us, p)) BY NextRead
<1>2. PreviousUnit(view, m) = Read(Stand(view, ps, IF p = 0 THEN 0 ELSE p - 1), UnitHere(us, p - 1))
  BY PreviousRead
<1>3. (p - 1) + 1 = p OBVIOUS
<1>4. PairHere(us, p - 1) => p # 0
  <2>1. p = 0 => p - 1 \notin 0..(Len(us) - 1) OBVIOUS
  <2> QED BY <2>1, NoUnit, Zenon DEF PairHere, UnitHere
<1>5. NextUnit(view, m).value = UnitHere(us, p) BY <1>1, ReadIs
<1>6. /\ PreviousUnit(view, m).value = UnitHere(us, p - 1)
      /\ PreviousUnit(view, m).mark = Stand(view, ps, IF p = 0 THEN 0 ELSE p - 1)
  BY <1>2, ReadIs, Zenon
<1>7. PairHere(us, p - 1) <=> IsHigh(UnitHere(us, p - 1)) /\ IsLow(UnitHere(us, p))
  BY <1>3, Zenon DEF PairHere
<1> HIDE DEF m
<1>8. NormalizeUnicodeStart(view, m) =
        IF PairHere(us, p - 1) THEN PreviousUnit(view, m).mark ELSE m
  BY <1>5, <1>6, <1>7, Zenon DEF NormalizeUnicodeStart
<1>9. CASE PairHere(us, p - 1) BY <1>4, <1>6, <1>8, <1>9, Zenon DEF m
<1>10. CASE ~PairHere(us, p - 1) BY <1>8, <1>10, Zenon DEF m
<1> QED BY <1>9, <1>10, Zenon DEF m

(* ASCII passed over is passed over as units.                              *)
SameAt(us, p, b, o) == us[p] = b[o]

LEMMA AsciiAhead ==
  ASSUME NEW b \in Seq(Octet), NEW us, NEW ps, Chain(b, us, ps, 0), NEW p \in 0..Len(us), NEW o \in Int,
         At(ps, p + 1, o, FALSE), o + 1 <= Len(b), b[o + 1] < 128
  PROVE  p + 1 <= Len(us) /\ At(ps, p + 2, o + 1, FALSE) /\ SameAt(us, p + 1, b, o + 1)
<1> DEFINE r == p + 1
<1>1. Len(us) \in Nat BY DEF Chain
<1>2. ps[r][1] = o BY Zenon DEF At
<1>3. ps[r][1] = Len(b) <=> p = Len(us) BY EndPlace
<1>4. o # Len(b) OBVIOUS
<1>5. p # Len(us) BY <1>2, <1>3, <1>4, Zenon
<1>6. r \in 1..Len(us) /\ r + 1 = p + 2 BY <1>1, <1>5
<1>7. Link(b, us, ps, r) BY <1>6 DEF Chain
<1>9. PICK x, w, point : /\ Scalar(b, x, w, point)
                         /\ \/ OneUnitHere(us, ps, r, x, w, point)
                            \/ HighHere(us, ps, r, x, w, point)
                            \/ LowHere(us, ps, r, x, w, point)
  BY <1>7, LinkParts
<1> HIDE DEF r
<1>10. x = o BY <1>2, <1>9, Zenon DEF OneUnitHere, HighHere, LowHere, At
<1>11. w = 1 BY <1>9, <1>10 DEF Scalar
<1>12. w # 4 BY <1>11
<1>13. At(ps, r + 1, o + w, FALSE) BY <1>9, <1>10, <1>12, Zenon DEF OneUnitHere, HighHere, LowHere
<1>14. p + 1 <= Len(us) BY <1>6 DEF r
<1>15. ~LowHere(us, ps, r, x, w, point) /\ ~HighHere(us, ps, r, x, w, point) BY <1>12 DEF LowHere, HighHere
<1>16. us[r] = point BY <1>9, <1>15 DEF OneUnitHere
<1>17. point = b[x + 1] BY <1>9, <1>11 DEF Scalar
<1>18. SameAt(us, p + 1, b, o + 1) BY <1>10, <1>16, <1>17 DEF r, SameAt
<1> QED BY <1>6, <1>11, <1>13, <1>14, <1>18, Zenon

(* An ASCII unit is the byte at the offset of its place.                   *)
LEMMA AsciiHere ==
  ASSUME NEW b \in Seq(Octet), NEW us, NEW ps, Chain(b, us, ps, 0), NEW p \in 0..(Len(us) - 1), us[p + 1] < 128
  PROVE  \E o \in Nat : At(ps, p + 1, o, FALSE) /\ o + 1 <= Len(b) /\ SameAt(us, p + 1, b, o + 1)
<1> DEFINE r == p + 1
<1>1. Len(us) \in Nat BY DEF Chain
<1>2. r \in 1..Len(us) BY <1>1
<1> HIDE DEF r
<1>3. Link(b, us, ps, r) BY <1>2 DEF Chain
<1>4. PICK x, w, point : /\ Scalar(b, x, w, point)
                         /\ \/ OneUnitHere(us, ps, r, x, w, point)
                            \/ HighHere(us, ps, r, x, w, point)
                            \/ LowHere(us, ps, r, x, w, point)
  BY <1>3, LinkParts
<1>5. us[r] < 128 BY DEF r
<1>6. point \in Nat /\ point <= LastPoint BY <1>4 DEF Scalar
<1>7. Astral(point) => HighSurrogate(point) >= 55296 /\ LowSurrogate(point) >= 56320
  <2> HAVE Astral(point)
  <2>1. IsHigh(HighSurrogate(point)) /\ IsLow(LowSurrogate(point)) BY <1>6, PairOf
  <2> QED BY <2>1 DEF IsHigh, IsLow
<1>8. ~HighHere(us, ps, r, x, w, point)
  <2> SUFFICES ASSUME HighHere(us, ps, r, x, w, point) PROVE FALSE OBVIOUS
  <2>1. Astral(point) /\ us[r] = HighSurrogate(point) BY DEF HighHere
  <2>2. HighSurrogate(point) \in Int BY <1>6 DEF HighSurrogate
  <2> QED BY <1>5, <1>7, <2>1, <2>2
<1>9. ~LowHere(us, ps, r, x, w, point)
  <2> SUFFICES ASSUME LowHere(us, ps, r, x, w, point) PROVE FALSE OBVIOUS
  <2>1. Astral(point) /\ us[r] = LowSurrogate(point) BY DEF LowHere
  <2>2. LowSurrogate(point) \in Int BY <1>6 DEF LowSurrogate
  <2> QED BY <1>5, <1>7, <2>1, <2>2
<1>10. us[r] = point /\ At(ps, r, x, FALSE) BY <1>4, <1>8, <1>9 DEF OneUnitHere
<1>11. w = 1 /\ point = b[x + 1] BY <1>4, <1>5, <1>6, <1>10 DEF Scalar
<1>12. x \in Nat /\ x + 1 <= Len(b) BY <1>4, <1>11 DEF Scalar
<1>13. SameAt(us, p + 1, b, x + 1) /\ At(ps, p + 1, x, FALSE) BY <1>10, <1>11 DEF r, SameAt
<1> QED BY <1>12, <1>13

(* So many ASCII bytes are so many units, and end at a place.              *)
LEMMA AsciiRun ==
  ASSUME NEW b \in Seq(Octet), NEW us, NEW ps, Chain(b, us, ps, 0), NEW p \in 0..Len(us), NEW o \in Nat,
         At(ps, p + 1, o, FALSE), NEW count \in Nat, o + count <= Len(b), \A i \in 1..count : b[o + i] < 128
  PROVE  /\ p + count <= Len(us) /\ At(ps, (p + count) + 1, o + count, FALSE)
         /\ \A i \in 1..count : SameAt(us, p + i, b, o + i)
<1> DEFINE Ends(k) == p + k <= Len(us) /\ At(ps, (p + k) + 1, o + k, FALSE)
           Same(k) == SameAt(us, p + k, b, o + k)
           Bad == {k \in Nat : k <= count /\ ~(Ends(k) /\ (k > 0 => Same(k)))}
<1>1. Len(us) \in Nat BY DEF Chain
<1>2. Bad = {}
  <2> SUFFICES ASSUME Bad # {} PROVE FALSE OBVIOUS
  <2>1. PICK k \in Bad : \A m \in Bad : k <= m BY LeastOf
  <2>2. k \in Nat /\ k <= count /\ ~(Ends(k) /\ (k > 0 => Same(k))) BY <2>1
  <2>3. k # 0
    <3>1. (p + 0) + 1 = p + 1 /\ o + 0 = o /\ p + 0 <= Len(us) BY <1>1
    <3>2. Ends(0) BY <3>1, Zenon
    <3> HIDE DEF Ends, Same
    <3> QED BY <2>2, <3>2
  <2>4. k - 1 \in Nat /\ k - 1 <= count /\ k - 1 \notin Bad
    <3> HIDE DEF Bad
    <3>1. k - 1 \in Nat /\ k - 1 <= count /\ ~(k <= k - 1) BY <2>2, <2>3
    <3> QED BY <2>1, <3>1
  <2>5. Ends(k - 1) BY <2>4
  <2> DEFINE q == p + (k - 1)
             x == o + (k - 1)
  <2>6. q \in 0..Len(us) /\ x \in Int /\ At(ps, q + 1, x, FALSE)
    <3>1. p + (k - 1) <= Len(us) /\ At(ps, q + 1, x, FALSE) BY <2>5, Zenon
    <3>2. p + (k - 1) \in Int /\ p + (k - 1) >= 0 /\ o + (k - 1) \in Int BY <2>2, <2>3
    <3>3. q \in 0..Len(us) /\ x \in Int BY <1>1, <3>1, <3>2
    <3> QED BY <3>1, <3>3, Zenon
  <2>7. x + 1 <= Len(b) /\ b[x + 1] < 128
    <3>1. x + 1 = o + k /\ k \in 1..count BY <2>2, <2>3
    <3>2. Len(b) \in Nat OBVIOUS
    <3> HIDE DEF x
    <3> QED BY <2>2, <3>1, <3>2
  <2>8. q + 1 = p + k /\ x + 1 = o + k /\ q + 2 = (p + k) + 1 BY <2>2
  <2> HIDE DEF q, x
  <2>9. q + 1 <= Len(us) /\ At(ps, q + 2, x + 1, FALSE) /\ SameAt(us, q + 1, b, x + 1)
    BY <2>6, <2>7, AsciiAhead, Zenon
  <2>10. Ends(k) /\ Same(k) BY <2>8, <2>9, Zenon
  <2> HIDE DEF Ends, Same
  <2> QED BY <2>2, <2>10
<1>3. ASSUME NEW k \in Nat, k <= count PROVE Ends(k) /\ (k > 0 => Same(k))
  <2> HIDE DEF Ends, Same
  <2> QED BY <1>2, <1>3
<1> HIDE DEF Bad, Ends, Same
<1>4. Ends(count)
  <2>1. count <= count OBVIOUS
  <2> QED BY <1>3, <2>1
<1>5. ASSUME NEW i \in 1..count PROVE Same(i)
  <2>1. i \in Nat /\ i <= count /\ i > 0 OBVIOUS
  <2> QED BY <1>3, <2>1
<1> QED BY <1>4, <1>5 DEF Ends, Same

(* So many ASCII units are so many bytes.                                  *)
LEMMA AsciiUnits ==
  ASSUME NEW b \in Seq(Octet), NEW us, NEW ps, Chain(b, us, ps, 0), NEW p \in 0..(Len(us) - 1), NEW count \in Nat,
         count > 0, p + count <= Len(us), \A k \in 1..count : us[p + k] < 128
  PROVE  \E o \in Nat : o + count <= Len(b) /\ \A k \in 1..count : SameAt(us, p + k, b, o + k)
<1>1. Len(us) \in Nat /\ Len(b) \in Nat BY DEF Chain
<1>2. us[p + 1] < 128
  <2>1. 1 \in 1..count OBVIOUS
  <2> QED BY <2>1
<1>3. PICK o \in Nat : At(ps, p + 1, o, FALSE) /\ o + 1 <= Len(b) /\ SameAt(us, p + 1, b, o + 1) BY <1>2, AsciiHere
<1> DEFINE Good(k) == /\ At(ps, (p + k) + 1, o + k, FALSE)
                      /\ k > 0 => o + k <= Len(b) /\ SameAt(us, p + k, b, o + k)
           Bad == {k \in Nat : k <= count /\ ~Good(k)}
<1>4. Bad = {}
  <2> SUFFICES ASSUME Bad # {} PROVE FALSE OBVIOUS
  <2>1. PICK k \in Bad : \A m \in Bad : k <= m BY LeastOf
  <2>2. k \in Nat /\ k <= count /\ ~Good(k) BY <2>1
  <2>3. k # 0
    <3>1. (p + 0) + 1 = p + 1 /\ o + 0 = o /\ ~(0 > 0) OBVIOUS
    <3>2. Good(0) BY <1>3, <3>1, Zenon
    <3> HIDE DEF Good
    <3> QED BY <2>2, <3>2
  <2>4. Good(k - 1)
    <3> HIDE DEF Bad, Good
    <3>1. k - 1 \in Nat /\ k - 1 <= count /\ ~(k <= k - 1) BY <2>2, <2>3
    <3>2. k - 1 \notin Bad BY <2>1, <3>1
    <3> QED BY <3>1, <3>2 DEF Bad
  <2> DEFINE q == p + (k - 1)
             x == o + (k - 1)
  <2>5. At(ps, q + 1, x, FALSE) BY <2>4, Zenon
  <2>6. q \in 0..(Len(us) - 1) /\ q \in 0..Len(us) /\ x \in Nat BY <1>1, <2>2, <2>3
  <2>7. q + 1 = p + k /\ x + 1 = o + k /\ q + 2 = (p + k) + 1 /\ k \in 1..count BY <2>2, <2>3
  <2> HIDE DEF q, x, Good, Bad
  <2>8. us[q + 1] < 128 BY <2>7
  <2>9. PICK y \in Nat : At(ps, q + 1, y, FALSE) /\ y + 1 <= Len(b) /\ SameAt(us, q + 1, b, y + 1)
    BY <2>6, <2>8, AsciiHere
  <2>10. y = x BY <2>5, <2>9, Zenon DEF At
  <2>11. x + 1 <= Len(b) /\ SameAt(us, q + 1, b, x + 1) BY <2>9, <2>10
  <2>12. b[x + 1] < 128 BY <2>8, <2>11 DEF SameAt
  <2>13. x \in Int BY <2>6
  <2>14. At(ps, q + 2, x + 1, FALSE) BY <2>5, <2>6, <2>11, <2>12, <2>13, AsciiAhead, Zenon
  <2>15. Good(k) BY <2>7, <2>11, <2>14, Zenon DEF Good
  <2> QED BY <2>2, <2>15
<1>5. ASSUME NEW k \in Nat, k <= count PROVE Good(k)
  <2> HIDE DEF Good
  <2> QED BY <1>4, <1>5
<1>6. o + count <= Len(b)
  <2>1. count <= count OBVIOUS
  <2>2. Good(count)
    <3> HIDE DEF Good
    <3> QED BY <1>5, <2>1
  <2> QED BY <2>2
<1>7. ASSUME NEW k \in 1..count PROVE SameAt(us, p + k, b, o + k)
  <2>1. k \in Nat /\ k <= count /\ k > 0 OBVIOUS
  <2>2. Good(k) BY <1>5, <2>1
  <2> QED BY <2>1, <2>2
<1> QED BY <1>6, <1>7

LEMMA SkipIs ==
  ASSUME NEW view, NEW us, NEW ps, Viewed(view, us, ps), NEW p \in 0..Len(us), NEW count \in 1..2
  PROVE  \E q \in 0..Len(us) : SkipAscii(view, Stand(view, ps, p), count) = Stand(view, ps, q)
<1> DEFINE m == Stand(view, ps, p)
           b == view.data
           n == Len(us)
           skips == /\ view.kind # "units" /\ ~m.half /\ m.offset + count <= Len(b)
                    /\ \A i \in 1..count : b[m.offset + i] < 128
<1>1. n \in Nat /\ p \in Nat /\ p <= n /\ m.units = p BY DEF Viewed, Stand, Mark
<1>2. SkipAscii(view, m, count) = IF skips THEN Mark(m.offset + count, FALSE, m.units + count) ELSE m
  BY SMT DEF SkipAscii
<1>3. CASE ~skips
  <2> HIDE DEF skips
  <2> QED BY <1>2, <1>3
<1>4. CASE skips /\ view.kind # "bytes"
  <2>1. b = us /\ m.offset = p BY <1>4 DEF Viewed, Stand, Mark
  <2>2. p + count \in 0..n BY <1>1, <1>4, <2>1
  <2>3. Stand(view, ps, p + count) = Mark(p + count, FALSE, p + count) BY <1>4, Zenon DEF Stand
  <2> HIDE DEF m, n, skips
  <2>4. SkipAscii(view, m, count) = Mark(p + count, FALSE, p + count) BY <1>1, <1>2, <1>4, <2>1, Zenon
  <2> QED BY <2>2, <2>3, <2>4, Zenon DEF m, n
<1>5. CASE skips /\ view.kind = "bytes"
  <2>1. b \in Seq(Octet) /\ Chain(b, us, ps, 0) BY <1>5 DEF Viewed
  <2>2. m.offset = ps[p + 1][1] /\ m.half = ps[p + 1][2] BY <1>5 DEF Stand, Mark
  <2> DEFINE o == m.offset
  <2>3. o \in Int /\ ps[p + 1][2] \in BOOLEAN
    <3> DEFINE r == p + 1
    <3>1. r \in 1..(Len(us) + 1) BY <1>1
    <3> HIDE DEF r
    <3>2. ps[r][1] \in Int /\ ps[r][2] \in BOOLEAN BY <2>1, <3>1, PlaceFacts
    <3> QED BY <2>2, <3>2 DEF r
  <2>4. At(ps, p + 1, o, FALSE)
    <3>1. ~m.half BY <1>5
    <3> HIDE DEF m
    <3> QED BY <2>2, <2>3, <3>1 DEF At
  <2>5. o + count <= Len(b) /\ \A i \in 1..count : b[o + i] < 128 BY <1>5
  <2> HIDE DEF o, b
  <2>6. \A q : Stand(view, ps, q) = Mark(ps[q + 1][1], ps[q + 1][2], q) BY <1>5, Zenon DEF Stand
  <2>7. p + 1 <= n /\ At(ps, p + 2, o + 1, FALSE)
    <3>1. o + 1 <= Len(b) /\ b[o + 1] < 128
      <4>1. Len(b) \in Int BY <2>1
      <4>2. 1 \in 1..count OBVIOUS
      <4> QED BY <2>3, <2>5, <4>1, <4>2
    <3> QED BY <2>1, <2>3, <2>4, <3>1, AsciiAhead
  <2>8. CASE count = 1
    <3>1. (p + 1) + 1 = p + 2 /\ p + 1 \in 0..n BY <1>1, <2>7
    <3>2. Stand(view, ps, p + 1) = Mark(o + 1, FALSE, p + 1) BY <2>6, <2>7, <3>1, Zenon DEF At
    <3> HIDE DEF m, skips
    <3>3. SkipAscii(view, m, count) = Mark(o + 1, FALSE, p + 1) BY <1>1, <1>2, <1>5, <2>8, Zenon DEF o
    <3> QED BY <3>1, <3>2, <3>3, Zenon DEF m, n
  <2>9. CASE count = 2
    <3> DEFINE r == p + 1
               x == o + 1
    <3>2. x + 1 <= Len(b) /\ b[x + 1] < 128
      <4>1. Len(b) \in Int BY <2>1
      <4>2. 2 \in 1..count /\ o + 2 = x + 1 BY <2>3, <2>9
      <4>3. b[o + 2] < 128 BY <2>5, <4>2
      <4> QED BY <2>3, <2>5, <2>9, <4>1, <4>2, <4>3
    <3>3. r \in 0..n /\ x \in Int /\ r + 1 = p + 2 /\ r + 2 = (p + 2) + 1 /\ x + 1 = o + 2 BY <1>1, <2>3, <2>7
    <3>4. At(ps, r + 1, x, FALSE) BY <2>7, <3>3, Zenon
    <3> HIDE DEF r, x, n
    <3>5. r + 1 <= n /\ At(ps, r + 2, x + 1, FALSE) BY <2>1, <3>2, <3>3, <3>4, AsciiAhead DEF n
    <3>6. p + 2 \in 0..n BY <1>1, <3>3, <3>5
    <3>7. Stand(view, ps, p + 2) = Mark(o + 2, FALSE, p + 2) BY <2>6, <3>3, <3>5, Zenon DEF At
    <3> HIDE DEF m, skips
    <3>8. SkipAscii(view, m, count) = Mark(o + 2, FALSE, p + 2) BY <1>1, <1>2, <1>5, <2>9, Zenon DEF o
    <3> QED BY <3>6, <3>7, <3>8, Zenon DEF m, n
  <2> QED BY <2>8, <2>9
<1> QED BY <1>3, <1>4, <1>5
-----------------------------------------------------------------------------
(* A scalar of a seek, forwards and backwards, from a place that divides   *)
(* no scalar: to a place nearer the target, which alone may divide one.    *)
UnitCount(point) == IF Astral(point) THEN 2 ELSE 1
HaltsAt(ps, t, q) == ps[q + 1][2] => q = t

LEMMA AheadIs ==
  ASSUME NEW bytes, NEW mark, NEW target, NEW point \in Nat, NEW w \in Nat,
         DecodeValid(bytes, mark.offset).point = point, DecodeValid(bytes, mark.offset).width = w
  PROVE  Ahead(bytes, mark, target) =
           IF UnitCount(point) > target - mark.units THEN Mark(mark.offset, TRUE, target)
           ELSE Mark(mark.offset + w, FALSE, mark.units + UnitCount(point))
<1>1. UnitsOf(point) = UnitCount(point) BY SMT DEF UnitsOf, UnitCount, Astral
<1> QED BY <1>1, Zenon DEF Ahead

LEMMA BackIs ==
  ASSUME NEW bytes, NEW mark, NEW target, NEW point \in Nat,
         DecodeValid(bytes, LeadBefore(bytes, mark.offset)).point = point
  PROVE  Back(bytes, mark, target) =
           IF UnitCount(point) > mark.units - target THEN Mark(LeadBefore(bytes, mark.offset), TRUE, target)
           ELSE Mark(LeadBefore(bytes, mark.offset), FALSE, mark.units - UnitCount(point))
<1>1. UnitsOf(point) = UnitCount(point) BY SMT DEF UnitsOf, UnitCount, Astral
<1> QED BY <1>1, Zenon DEF Back

LEMMA SeekAheadStep ==
  ASSUME NEW view, NEW us, NEW ps, Viewed(view, us, ps), view.kind = "bytes",
         NEW t \in 0..Len(us), NEW q \in 0..Len(us), q < t, HaltsAt(ps, t, q)
  PROVE  \E y \in 0..Len(us) : /\ q < y /\ y <= t /\ HaltsAt(ps, t, y)
                               /\ Ahead(view.data, Stand(view, ps, q), t) = Stand(view, ps, y)
<1> DEFINE m == Stand(view, ps, q)
           b == view.data
           n == Len(us)
           r == q + 1
<1>1. b \in Seq(Octet) /\ Chain(b, us, ps, 0) /\ n \in Nat /\ t <= n BY DEF Viewed
<1>2. m.offset = ps[r][1] /\ m.half = ps[r][2] /\ m.units = q BY DEF Stand, Mark
<1>3. r \in 1..n /\ r <= t /\ r + 1 = q + 2 BY <1>1
<1>4. Link(b, us, ps, r) BY <1>1, <1>3 DEF Chain
<1>5. \A y : Stand(view, ps, y) = Mark(ps[y + 1][1], ps[y + 1][2], y) BY Zenon DEF Stand
<1>6. ~ps[r][2]
  <2>1. q # t OBVIOUS
  <2> QED BY <2>1, Zenon DEF HaltsAt
<1> HIDE DEF m, b, n, r
<1>7. PICK o, w, point : /\ Scalar(b, o, w, point)
                         /\ \/ OneUnitHere(us, ps, r, o, w, point)
                            \/ HighHere(us, ps, r, o, w, point)
                            \/ LowHere(us, ps, r, o, w, point)
  BY <1>4, LinkParts
<1>8. /\ point \in Nat /\ w \in Nat /\ o \in Int
      /\ DecodeValid(b, o).point = point /\ DecodeValid(b, o).width = w
  BY <1>7 DEF Scalar
<1>9. ~LowHere(us, ps, r, o, w, point) BY <1>6, Zenon DEF LowHere, At
<1>10. m.offset = o BY <1>2, <1>7, <1>9, Zenon DEF OneUnitHere, HighHere, At
<1>11. Ahead(b, m, t) =
         IF UnitCount(point) > t - q THEN Mark(o, TRUE, t) ELSE Mark(o + w, FALSE, q + UnitCount(point))
  <2>1. Ahead(b, m, t) =
          IF UnitCount(point) > t - m.units THEN Mark(m.offset, TRUE, t)
          ELSE Mark(m.offset + w, FALSE, m.units + UnitCount(point))
    <3>1. DecodeValid(b, m.offset).point = point /\ DecodeValid(b, m.offset).width = w BY <1>8, <1>10, Zenon
    <3> QED BY <1>8, <3>1, AheadIs, ZenonT(40)
  <2> QED BY <1>2, <1>10, <2>1, Zenon
<1>12. CASE OneUnitHere(us, ps, r, o, w, point)
  <2>1. UnitCount(point) = 1 BY <1>12, Zenon DEF OneUnitHere, UnitCount
  <2>2. ~(1 > t - q) /\ q + 1 \in 0..n /\ q < q + 1 /\ q + 1 <= t BY <1>1 DEF n
  <2>3. At(ps, (q + 1) + 1, o + w, FALSE) BY <1>12, Zenon DEF OneUnitHere, r
  <2>4. Ahead(b, m, t) = Mark(o + w, FALSE, q + 1) BY <1>11, <2>1, <2>2, Zenon
  <2>5. Stand(view, ps, q + 1) = Mark(o + w, FALSE, q + 1) BY <1>5, <2>3, Zenon DEF At
  <2>6. HaltsAt(ps, t, q + 1) BY <2>3, Zenon DEF HaltsAt, At
  <2> QED BY <2>2, <2>4, <2>5, <2>6, Zenon DEF b, m, n
<1>13. CASE HighHere(us, ps, r, o, w, point)
  <2>1. UnitCount(point) = 2 BY <1>13, Zenon DEF HighHere, UnitCount
  <2>2. /\ At(ps, (q + 1) + 1, o, TRUE) /\ At(ps, r + 2, o + 4, FALSE) /\ w = 4
    BY <1>13, Zenon DEF HighHere, r
  <2>3. r + 2 = (q + 2) + 1 BY DEF r
  <2>4. CASE t = q + 1
    <3>1. 2 > t - q /\ q + 1 \in 0..n /\ q < q + 1 /\ q + 1 <= t BY <1>1, <2>4 DEF n
    <3>2. Ahead(b, m, t) = Mark(o, TRUE, q + 1) BY <1>11, <2>1, <2>4, <3>1, Zenon
    <3>3. Stand(view, ps, q + 1) = Mark(o, TRUE, q + 1) BY <1>5, <2>2, Zenon DEF At
    <3>4. HaltsAt(ps, t, q + 1) BY <2>4, Zenon DEF HaltsAt
    <3> QED BY <3>1, <3>2, <3>3, <3>4, Zenon DEF b, m, n
  <2>5. CASE t # q + 1
    <3>1. ~(2 > t - q) /\ q + 2 \in 0..n /\ q < q + 2 /\ q + 2 <= t BY <1>1, <2>5 DEF n
    <3>2. Ahead(b, m, t) = Mark(o + 4, FALSE, q + 2) BY <1>11, <2>1, <2>2, <3>1, Zenon
    <3>3. At(ps, (q + 2) + 1, o + 4, FALSE) BY <2>2, <2>3, Zenon
    <3>4. Stand(view, ps, q + 2) = Mark(o + 4, FALSE, q + 2) BY <1>5, <3>3, Zenon DEF At
    <3>5. HaltsAt(ps, t, q + 2) BY <3>3, Zenon DEF HaltsAt, At
    <3> QED BY <3>1, <3>2, <3>4, <3>5, Zenon DEF b, m, n
  <2> QED BY <2>4, <2>5
<1> QED BY <1>7, <1>9, <1>12, <1>13, Zenon

LEMMA SeekBackStep ==
  ASSUME NEW view, NEW us, NEW ps, Viewed(view, us, ps), view.kind = "bytes",
         NEW t \in 0..Len(us), NEW q \in 0..Len(us), t < q, HaltsAt(ps, t, q)
  PROVE  \E y \in 0..Len(us) : /\ t <= y /\ y < q /\ HaltsAt(ps, t, y)
                               /\ Back(view.data, Stand(view, ps, q), t) = Stand(view, ps, y)
<1> DEFINE m == Stand(view, ps, q)
           b == view.data
           n == Len(us)
<1>1. b \in Seq(Octet) /\ Chain(b, us, ps, 0) /\ n \in Nat /\ q <= n BY DEF Viewed
<1>2. m.offset = ps[q + 1][1] /\ m.half = ps[q + 1][2] /\ m.units = q BY DEF Stand, Mark
<1>3. q \in 1..n /\ (q - 1) + 1 = q /\ (q - 2) + 1 = q - 1 BY <1>1
<1>4. Link(b, us, ps, q) BY <1>1, <1>3 DEF Chain
<1>5. \A y : Stand(view, ps, y) = Mark(ps[y + 1][1], ps[y + 1][2], y) BY Zenon DEF Stand
<1>6. ~ps[q + 1][2]
  <2>1. q # t OBVIOUS
  <2> QED BY <2>1, Zenon DEF HaltsAt
<1> HIDE DEF m, b, n
<1>7. PICK o, w, point : /\ Scalar(b, o, w, point)
                         /\ \/ OneUnitHere(us, ps, q, o, w, point)
                            \/ HighHere(us, ps, q, o, w, point)
                            \/ LowHere(us, ps, q, o, w, point)
  BY <1>4, LinkParts
<1>8. point \in Nat /\ o \in Int /\ DecodeValid(b, o).point = point BY <1>7 DEF Scalar
<1>9. ~HighHere(us, ps, q, o, w, point) BY <1>6, Zenon DEF HighHere, At
<1>10. m.offset = o + w BY <1>2, <1>7, <1>9, Zenon DEF OneUnitHere, LowHere, At
<1>11. LeadBefore(b, m.offset) = o
  <2>1. LeadBefore(b, o + w) = o BY <1>1, <1>7, LeadFound
  <2> QED BY <1>10, <2>1, Zenon
<1>12. Back(b, m, t) =
         IF UnitCount(point) > q - t THEN Mark(o, TRUE, t) ELSE Mark(o, FALSE, q - UnitCount(point))
  <2>1. Back(b, m, t) =
          IF UnitCount(point) > m.units - t THEN Mark(o, TRUE, t) ELSE Mark(o, FALSE, m.units - UnitCount(point))
    <3>1. DecodeValid(b, LeadBefore(b, m.offset)).point = point BY <1>8, <1>11, Zenon
    <3>2. Back(b, m, t) =
            IF UnitCount(point) > m.units - t THEN Mark(LeadBefore(b, m.offset), TRUE, t)
            ELSE Mark(LeadBefore(b, m.offset), FALSE, m.units - UnitCount(point))
      BY <1>8, <3>1, BackIs, Zenon
    <3> QED BY <1>11, <3>2, Zenon
  <2> QED BY <1>2, <2>1, Zenon
<1>13. Stand(view, ps, q - 1) = Mark(ps[q][1], ps[q][2], q - 1) BY <1>3, <1>5, Zenon
<1>14. CASE OneUnitHere(us, ps, q, o, w, point)
  <2>1. UnitCount(point) = 1 BY <1>14, Zenon DEF OneUnitHere, UnitCount
  <2>2. ~(1 > q - t) /\ q - 1 \in 0..n /\ t <= q - 1 /\ q - 1 < q BY <1>1 DEF n
  <2>3. ps[q][1] = o /\ ps[q][2] = FALSE BY <1>14, Zenon DEF OneUnitHere, At
  <2>4. Back(b, m, t) = Mark(o, FALSE, q - 1) BY <1>12, <2>1, <2>2, Zenon
  <2>5. HaltsAt(ps, t, q - 1) BY <1>3, <2>3, Zenon DEF HaltsAt
  <2> QED BY <1>13, <2>2, <2>3, <2>4, <2>5, Zenon DEF b, m, n
<1>15. CASE LowHere(us, ps, q, o, w, point)
  <2>1. UnitCount(point) = 2 BY <1>15, Zenon DEF LowHere, UnitCount
  <2>2. /\ ps[q][1] = o /\ ps[q][2] = TRUE /\ ps[q - 1][1] = o /\ ps[q - 1][2] = FALSE
    BY <1>15, Zenon DEF LowHere, At
  <2>4. CASE t = q - 1
    <3>1. 2 > q - t /\ q - 1 \in 0..n /\ t <= q - 1 /\ q - 1 < q BY <1>1, <2>4 DEF n
    <3>2. Back(b, m, t) = Mark(o, TRUE, q - 1) BY <1>12, <2>1, <2>4, <3>1, Zenon
    <3>3. HaltsAt(ps, t, q - 1) BY <2>4, Zenon DEF HaltsAt
    <3> QED BY <1>13, <2>2, <3>1, <3>2, <3>3, Zenon DEF b, m, n
  <2>5. CASE t # q - 1
    <3>1. ~(2 > q - t) /\ q - 2 \in 0..n /\ t <= q - 2 /\ q - 2 < q BY <1>1, <2>5 DEF n
    <3>2. Back(b, m, t) = Mark(o, FALSE, q - 2) BY <1>12, <2>1, <3>1, Zenon
    <3>3. Stand(view, ps, q - 2) = Mark(o, FALSE, q - 2) BY <1>3, <1>5, <2>2, Zenon
    <3>4. HaltsAt(ps, t, q - 2) BY <1>3, <2>2, Zenon DEF HaltsAt
    <3> QED BY <3>1, <3>2, <3>3, <3>4, Zenon DEF b, m, n
  <2> QED BY <2>4, <2>5
<1> QED BY <1>7, <1>9, <1>14, <1>15, Zenon

(* A walk whose every step is nearer its end is there after as many steps  *)
(* as it was far, and is not there only before.                            *)
Walks(n, far, S, dist, step, f) ==
  /\ n \in Nat /\ far \in Nat /\ far <= n /\ dist \in [S -> Nat] /\ step \in [S -> S]
  /\ \A s \in S : IF dist[s] = 0 THEN step[s] = s ELSE dist[step[s]] < dist[s]
  /\ f[0] \in S /\ dist[f[0]] <= far
  /\ \A k \in 1..n : f[k - 1] \in S => f[k] = step[f[k - 1]]

LEMMA WalkArrives ==
  ASSUME NEW n, NEW far, NEW S, NEW dist, NEW step, NEW f, Walks(n, far, S, dist, step, f)
  PROVE  \A k \in 0..n : f[k] \in S /\ (dist[f[k]] = 0 \/ dist[f[k]] + k <= far)
<1> USE DEF Walks
<1> DEFINE Near(k) == f[k] \in S /\ (dist[f[k]] = 0 \/ dist[f[k]] + k <= far)
           Bad == {k \in Nat : k <= n /\ ~Near(k)}
<1>1. Near(0) OBVIOUS
<1>2. ASSUME NEW k \in 1..n, Near(k - 1) PROVE Near(k)
  <2>1. f[k - 1] \in S /\ f[k] = step[f[k - 1]] /\ f[k] \in S BY <1>2
  <2> DEFINE s == f[k - 1]
  <2>2. dist[s] \in Nat /\ dist[f[k]] \in Nat BY <2>1
  <2>3. CASE dist[s] = 0
    <3>1. f[k] = s BY <2>1, <2>3
    <3> QED BY <2>1, <2>3, <3>1
  <2>4. CASE dist[s] # 0
    <3>1. dist[f[k]] < dist[s] BY <2>1, <2>4
    <3>2. dist[s] + (k - 1) <= far BY <1>2, <2>4
    <3> QED BY <2>1, <2>2, <3>1, <3>2
  <2> QED BY <2>3, <2>4
<1>3. Bad = {}
  <2> SUFFICES ASSUME Bad # {} PROVE FALSE OBVIOUS
  <2>1. PICK k \in Bad : \A j \in Bad : k <= j
    <3>1. Bad \in SUBSET Nat OBVIOUS
    <3> HIDE DEF Bad
    <3> QED BY <3>1, LeastOf
  <2>2. k \in Nat /\ k <= n /\ ~Near(k) BY <2>1
  <2> HIDE DEF Near
  <2>3. k \in 1..n /\ k - 1 \in Nat /\ k - 1 <= n /\ ~(k <= k - 1) BY <1>1, <2>2
  <2>4. Near(k - 1) BY <2>1, <2>3
  <2> QED BY <1>2, <2>2, <2>3, <2>4
<1>4. ASSUME NEW k \in 0..n PROVE Near(k)
  <2> HIDE DEF Near
  <2>1. k \in Nat /\ k <= n OBVIOUS
  <2> QED BY <1>3, <2>1
<1> QED BY <1>4

(* The places a seek passes, how far each is, and its step.                *)
Side(view, t, q) == IF FromStart(view, t) THEN q <= t ELSE t <= q
Passed(view, us, ps, t) ==
  {Stand(view, ps, q) : q \in {x \in 0..Len(us) : Side(view, t, x) /\ HaltsAt(ps, t, x)}}
Far(view, us, ps, t) == [s \in Passed(view, us, ps, t) |-> Distance(s.units, t)]
WalkedOn(view, t, s) ==
  IF s.units = t THEN s ELSE IF FromStart(view, t) THEN Ahead(view.data, s, t) ELSE Back(view.data, s, t)

LEMMA SeekStep ==
  ASSUME NEW view, NEW us, NEW ps, Viewed(view, us, ps), view.kind = "bytes", NEW t \in 0..Len(us),
         NEW s \in Passed(view, us, ps, t)
  PROVE  /\ WalkedOn(view, t, s) \in Passed(view, us, ps, t) /\ Distance(s.units, t) \in Nat
         /\ Distance(s.units, t) = 0 <=> s.units = t
         /\ s.units # t => Distance(WalkedOn(view, t, s).units, t) < Distance(s.units, t)
<1>1. PICK q \in 0..Len(us) : s = Stand(view, ps, q) /\ Side(view, t, q) /\ HaltsAt(ps, t, q) BY DEF Passed
<1>2. \A y : Stand(view, ps, y).units = y BY DEF Stand, Mark
<1>3. s.units = q BY <1>1, <1>2
<1>4. q \in Int /\ t \in Int OBVIOUS
<1>5. CASE q = t
  <2>1. WalkedOn(view, t, s) = s BY <1>3, <1>5, Zenon DEF WalkedOn
  <2>2. Distance(q, t) = 0 BY <1>4, <1>5 DEF Distance
  <2> QED BY <1>3, <1>5, <2>1, <2>2
<1>6. CASE q # t /\ FromStart(view, t)
  <2>1. q < t
    <3>1. q <= t BY <1>1, <1>6, Zenon DEF Side
    <3> QED BY <1>4, <1>6, <3>1
  <2>2. PICK y \in 0..Len(us) : /\ q < y /\ y <= t /\ HaltsAt(ps, t, y)
                                /\ Ahead(view.data, Stand(view, ps, q), t) = Stand(view, ps, y)
    BY <1>1, <2>1, SeekAheadStep
  <2>3. WalkedOn(view, t, s) = Stand(view, ps, y) BY <1>1, <1>3, <1>6, <2>2, Zenon DEF WalkedOn
  <2>4. Stand(view, ps, y) \in Passed(view, us, ps, t)
    <3>1. Side(view, t, y) BY <1>6, <2>2, Zenon DEF Side
    <3> QED BY <2>2, <3>1 DEF Passed
  <2>5. Distance(q, t) \in Nat /\ Distance(q, t) # 0 /\ Distance(y, t) < Distance(q, t)
    BY <1>4, <2>1, <2>2 DEF Distance
  <2> QED BY <1>2, <1>3, <1>6, <2>3, <2>4, <2>5
<1>7. CASE q # t /\ ~FromStart(view, t)
  <2>1. t < q
    <3>1. t <= q BY <1>1, <1>7, Zenon DEF Side
    <3> QED BY <1>4, <1>7, <3>1
  <2>2. PICK y \in 0..Len(us) : /\ t <= y /\ y < q /\ HaltsAt(ps, t, y)
                                /\ Back(view.data, Stand(view, ps, q), t) = Stand(view, ps, y)
    BY <1>1, <2>1, SeekBackStep
  <2>3. WalkedOn(view, t, s) = Stand(view, ps, y) BY <1>1, <1>3, <1>7, <2>2, Zenon DEF WalkedOn
  <2>4. Stand(view, ps, y) \in Passed(view, us, ps, t)
    <3>1. Side(view, t, y) BY <1>7, <2>2, Zenon DEF Side
    <3> QED BY <2>2, <3>1 DEF Passed
  <2>5. Distance(q, t) \in Nat /\ Distance(q, t) # 0 /\ Distance(y, t) < Distance(q, t)
    BY <1>4, <2>1, <2>2 DEF Distance
  <2> QED BY <1>2, <1>3, <1>7, <2>3, <2>4, <2>5
<1> QED BY <1>5, <1>6, <1>7

(* The ends stand where the storage begins and ends.                       *)
LEMMA EndsStand ==
  ASSUME NEW view, NEW us, NEW ps, Viewed(view, us, ps), view.kind = "bytes"
  PROVE  /\ Stand(view, ps, 0) = Mark(0, FALSE, 0) /\ Stand(view, ps, Len(us)) = Mark(Len(view.data), FALSE, Len(us))
         /\ ps[0 + 1][2] = FALSE /\ ps[Len(us) + 1][2] = FALSE
<1>1. Chain(view.data, us, ps, 0) BY DEF Viewed
<1>2. At(ps, 1, 0, FALSE) /\ At(ps, Len(us) + 1, Len(view.data), FALSE)
  <2>1. ps[1] = <<0, FALSE>> /\ ps[Len(us) + 1] = <<Len(view.data), FALSE>> BY <1>1, Zenon DEF Chain
  <2> QED BY <2>1, Parts
<1>3. 0 + 1 = 1 OBVIOUS
<1> QED BY <1>2, <1>3, Zenon DEF Stand, At

Begun(view, t) == IF FromStart(view, t) THEN Mark(0, FALSE, 0) ELSE Mark(Len(view.data), FALSE, view.units)

LEMMA BegunStands ==
  ASSUME NEW view, NEW us, NEW ps, Viewed(view, us, ps), view.kind = "bytes", NEW t \in 0..Len(us)
  PROVE  Begun(view, t) \in Passed(view, us, ps, t)
<1>1. Len(us) \in Nat /\ view.units = Len(us) BY DEF Viewed
<1>2. 0 \in 0..Len(us) /\ Len(us) \in 0..Len(us) /\ 0 <= t /\ t <= Len(us) BY <1>1
<1>3. CASE FromStart(view, t)
  <2>1. Side(view, t, 0) BY <1>2, <1>3, Zenon DEF Side
  <2>2. HaltsAt(ps, t, 0) BY EndsStand, Zenon DEF HaltsAt
  <2>3. Begun(view, t) = Stand(view, ps, 0) BY <1>3, EndsStand, Zenon DEF Begun
  <2> QED BY <1>2, <2>1, <2>2, <2>3 DEF Passed
<1>4. CASE ~FromStart(view, t)
  <2>1. Side(view, t, Len(us)) BY <1>2, <1>4, Zenon DEF Side
  <2>2. HaltsAt(ps, t, Len(us)) BY EndsStand, Zenon DEF HaltsAt
  <2>3. Begun(view, t) = Stand(view, ps, Len(us)) BY <1>1, <1>4, EndsStand, Zenon DEF Begun
  <2> QED BY <1>2, <2>1, <2>2, <2>3 DEF Passed
<1> QED BY <1>3, <1>4

(* The walk is its step, again and again.                                  *)
LEMMA WalkingIs ==
  ASSUME NEW view, NEW us, NEW ps, Viewed(view, us, ps), view.kind = "bytes", NEW t \in 0..Len(us)
  PROVE  /\ Walking(view, t)[0] = Begun(view, t)
         /\ \A k \in 1..Len(us) : Walking(view, t)[k] = WalkedOn(view, t, Walking(view, t)[k - 1])
<1> DEFINE n == Len(us)
           D == 0..n
           S == Passed(view, us, ps, t)
           Body(f, k) == IF k = 0 THEN Begun(view, t) ELSE WalkedOn(view, t, f[k - 1])
           stop == {0}
           measure == [k \in D |-> k]
           leaf == [k \in D |-> Begun(view, t)]
           next == [k \in D |-> IF k = 0 THEN 0 ELSE k - 1]
           step == [k \in D |-> [s \in S |-> WalkedOn(view, t, s)]]
<1>1. n \in Nat /\ view.units = n BY DEF Viewed
<1>2. Grounded(D, S, n, measure, stop, leaf, next, step)
  <2>1. Begun(view, t) \in S BY BegunStands
  <2>2. \A s \in S : WalkedOn(view, t, s) \in S BY SeekStep, Zenon
  <2> HIDE DEF S, n
  <2>3. measure \in [D -> 0..n] /\ stop \in SUBSET D BY <1>1
  <2>4. leaf \in [D -> S] BY <2>1
  <2>5. next \in [D -> D] BY <1>1
  <2>6. step \in [D -> [S -> S]] BY <2>2
  <2>7. \A k \in D : k \notin stop => measure[next[k]] < measure[k] BY <1>1
  <2> HIDE DEF D, stop, measure, leaf, next, step
  <2> QED BY <1>1, <2>3, <2>4, <2>5, <2>6, <2>7 DEF Grounded
<1>3. PICK f \in [D -> S] : Unfolds(f, D, stop, leaf, next, step)
  <2> HIDE DEF D, stop, measure, leaf, next, step, n, S
  <2> QED BY <1>2, RecursionExists
<1>4. f = [k \in D |-> Body(f, k)]
  <2>1. ASSUME NEW k \in D PROVE f[k] = Body(f, k)
    <3>1. f[k] = IF k \in stop THEN leaf[k] ELSE step[k][f[next[k]]]
      <4> HIDE DEF stop, leaf, next, step, D
      <4> QED BY <1>3 DEF Unfolds
    <3>2. CASE k = 0 BY <3>1, <3>2
    <3>3. CASE k # 0
      <4>1. next[k] = k - 1 /\ k - 1 \in D BY <1>1, <3>3
      <4>2. f[k - 1] \in S
        <5> HIDE DEF D, S
        <5> QED BY <4>1
      <4>3. f[k] = step[k][f[k - 1]]
        <5>1. k \notin stop BY <3>3
        <5> HIDE DEF stop, leaf, next, step, D
        <5> QED BY <3>1, <4>1, <5>1, Zenon
      <4>4. step[k][f[k - 1]] = WalkedOn(view, t, f[k - 1])
        <5> HIDE DEF S, D
        <5> QED BY <4>2
      <4> QED BY <3>3, <4>3, <4>4, Zenon
    <3> QED BY <3>2, <3>3
  <2> HIDE DEF Body, D, S
  <2> QED BY <2>1
<1>5. Walking(view, t) = CHOOSE g : g = [k \in D |-> Body(g, k)]
  BY <1>1, Zenon DEF Walking, Begun, WalkedOn
<1>6. Walking(view, t) = [k \in D |-> Body(Walking(view, t), k)]
  <2> HIDE DEF Body, D, S
  <2> QED BY <1>4, <1>5
<1> DEFINE W == Walking(view, t)
<1>7. \A k \in D : W[k] = Body(W, k)
  <2> HIDE DEF Body, D, W
  <2> QED BY <1>6 DEF W
<1> HIDE DEF W
<1>8. 0 \in D /\ \A k \in 1..n : k \in D /\ k # 0 BY <1>1
<1> HIDE DEF D
<1>9. W[0] = Begun(view, t) /\ \A k \in 1..n : W[k] = WalkedOn(view, t, W[k - 1]) BY <1>7, <1>8, Zenon
<1> QED BY <1>9 DEF W

(* A seek is to the place of its target, and decodes fewer scalars for it  *)
(* than it is charged.                                                     *)
LEMMA SeekIs ==
  ASSUME NEW view, NEW us, NEW ps, Viewed(view, us, ps), view.kind = "bytes", NEW t \in 0..Len(us)
  PROVE  Sought(view, t).mark = Stand(view, ps, t) /\ Sought(view, t).work < SeekWork(view, t)
<1> DEFINE n == Len(us)
           S == Passed(view, us, ps, t)
           dist == Far(view, us, ps, t)
           step == [s \in S |-> WalkedOn(view, t, s)]
           W == Walking(view, t)
           far == Least(t, n - t)
           Seeking == {k \in 0..n : W[k].units # t}
<1>1. n \in Nat /\ view.units = n /\ far \in Nat /\ far <= n BY DEF Viewed, Least
<1>2. /\ dist \in [S -> Nat] /\ step \in [S -> S]
      /\ \A s \in S : dist[s] = 0 <=> s.units = t
      /\ \A s \in S : IF dist[s] = 0 THEN step[s] = s ELSE dist[step[s]] < dist[s]
  <2>1. \A s \in S : /\ WalkedOn(view, t, s) \in S /\ Distance(s.units, t) \in Nat
                     /\ Distance(s.units, t) = 0 <=> s.units = t
                     /\ s.units # t => Distance(WalkedOn(view, t, s).units, t) < Distance(s.units, t)
    BY SeekStep, Zenon
  <2>2. \A s \in S : s.units = t => WalkedOn(view, t, s) = s BY Zenon DEF WalkedOn
  <2>3. dist = [s \in S |-> Distance(s.units, t)] BY DEF Far
  <2> HIDE DEF S, dist
  <2>4. \A s \in S : dist[s] = Distance(s.units, t) /\ step[s] = WalkedOn(view, t, s) /\ step[s] \in S
    BY <2>1, <2>3
  <2>5. dist \in [S -> Nat] /\ step \in [S -> S] BY <2>1, <2>3
  <2> HIDE DEF step
  <2> QED BY <2>1, <2>2, <2>4, <2>5, SMTT(30)
<1>3. W[0] \in S /\ dist[W[0]] <= far
  <2>1. W[0] = Begun(view, t) /\ Begun(view, t) \in S BY WalkingIs, BegunStands
  <2>2. Begun(view, t).units = IF FromStart(view, t) THEN 0 ELSE n BY <1>1 DEF Begun, Mark
  <2>3. dist[Begun(view, t)] = Distance(Begun(view, t).units, t) BY <2>1 DEF Far
  <2>4. Distance(IF FromStart(view, t) THEN 0 ELSE n, t) <= far
    <3>1. t \in Nat /\ t <= n BY <1>1
    <3>2. CASE FromStart(view, t)
      <4>1. t <= n \div 2 BY <1>1, <3>2 DEF FromStart
      <4>2. t <= n - t BY <1>1, <3>1, <4>1
      <4> QED BY <1>1, <3>1, <3>2, <4>2 DEF Distance, Least
    <3>3. CASE ~FromStart(view, t)
      <4>1. ~(t <= n \div 2) BY <1>1, <3>3 DEF FromStart
      <4>2. n - t <= t BY <1>1, <3>1, <4>1
      <4> QED BY <1>1, <3>1, <3>3, <4>2 DEF Distance, Least
    <3> QED BY <3>2, <3>3
  <2> HIDE DEF dist, W, S, far, n
  <2> QED BY <2>1, <2>2, <2>3, <2>4
<1>4. \A k \in 1..n : W[k - 1] \in S => W[k] = step[W[k - 1]]
  <2>1. \A k \in 1..n : W[k] = WalkedOn(view, t, W[k - 1]) BY WalkingIs
  <2> HIDE DEF W, S, n
  <2> QED BY <2>1
<1>5. \A k \in 0..n : W[k] \in S /\ (dist[W[k]] = 0 \/ dist[W[k]] + k <= far)
  <2> HIDE DEF W, S, n, dist, step, far
  <2>1. Walks(n, far, S, dist, step, W) BY <1>1, <1>2, <1>3, <1>4 DEF Walks
  <2> QED BY <2>1, WalkArrives
<1>6. W[n] = Stand(view, ps, t)
  <2>1. n \in 0..n BY <1>1
  <2>2. W[n] \in S /\ (dist[W[n]] = 0 \/ dist[W[n]] + n <= far) BY <1>5, <2>1
  <2>3. dist[W[n]] = 0
    <3>1. dist[W[n]] \in Nat
      <4> HIDE DEF W, S, n, dist, far
      <4> QED BY <1>2, <2>2
    <3> HIDE DEF W, S, n, dist, far
    <3> QED BY <1>1, <2>2, <3>1
  <2>4. W[n].units = t
    <3> HIDE DEF W, S, n, dist, far
    <3> QED BY <1>2, <2>2, <2>3
  <2>5. PICK q \in 0..Len(us) : W[n] = Stand(view, ps, q)
    <3> HIDE DEF W, n
    <3> QED BY <2>2 DEF Passed
  <2>6. W[n].units = q
    <3> HIDE DEF W, n
    <3> QED BY <2>5 DEF Stand, Mark
  <2> QED BY <2>4, <2>5, <2>6, Zenon
<1>7. Sought(view, t) = [mark |-> W[n], work |-> Cardinality(Seeking)] BY <1>1, Zenon DEF Sought
<1>8. Cardinality(Seeking) <= far
  <2> DEFINE Before == 0..(far - 1)
  <2>1. Seeking \subseteq Before
    <3>1. ASSUME NEW k \in Seeking PROVE k \in Before
      <4>1. k \in 0..n /\ W[k].units # t OBVIOUS
      <4>2. W[k] \in S /\ (dist[W[k]] = 0 \/ dist[W[k]] + k <= far) BY <1>5, <4>1
      <4> HIDE DEF W, S, n, dist, far
      <4>3. dist[W[k]] \in Nat /\ dist[W[k]] # 0 BY <1>2, <4>1, <4>2
      <4> QED BY <1>1, <4>1, <4>2, <4>3
    <3> HIDE DEF Seeking, Before
    <3> QED BY <3>1
  <2>2. IsFiniteSet(Before) /\ Cardinality(Before) = far
    <3> HIDE DEF far
    <3>1. 0 \in Int /\ far - 1 \in Int BY <1>1
    <3>2. /\ IsFiniteSet(0..(far - 1))
          /\ Cardinality(0..(far - 1)) = IF 0 > far - 1 THEN 0 ELSE (far - 1) - 0 + 1
      BY <3>1, FS_Interval
    <3> QED BY <1>1, <3>2
  <2> HIDE DEF Seeking, Before
  <2> QED BY <2>1, <2>2, FS_Subset
<1>9. SeekWork(view, t) = far + 1 BY <1>1, Zenon DEF SeekWork
<1>10. Cardinality(Seeking) \in Nat
  <2>1. IsFiniteSet(0..n) BY <1>1, FS_Interval
  <2>2. Seeking \subseteq 0..n OBVIOUS
  <2> HIDE DEF Seeking
  <2> QED BY <2>1, <2>2, FS_Subset, FS_CardinalityType
<1> HIDE DEF W, n, Seeking, far
<1>11. Sought(view, t).mark = W[n] /\ Sought(view, t).work = Cardinality(Seeking) BY <1>7
<1> QED BY <1>1, <1>6, <1>8, <1>9, <1>10, <1>11

LEMMA CursorAtIs ==
  ASSUME NEW view, NEW us, NEW ps, Viewed(view, us, ps), NEW p \in 0..Len(us)
  PROVE  CursorAt(view, p) = Stand(view, ps, p)
<1>1. view.units = Len(us) BY DEF Viewed
<1>2. CASE view.kind # "bytes" BY <1>2, Zenon DEF CursorAt, Stand
<1>3. CASE view.kind = "bytes"
  <2>1. /\ Stand(view, ps, 0) = Mark(0, FALSE, 0)
        /\ Stand(view, ps, Len(us)) = Mark(Len(view.data), FALSE, Len(us))
    BY <1>3, EndsStand
  <2>2. Sought(view, p).mark = Stand(view, ps, p) BY <1>3, SeekIs
  <2>3. CASE p = 0 BY <2>1, <2>3, Zenon DEF CursorAt
  <2>4. CASE p # 0 /\ p = view.units BY <1>1, <1>3, <2>1, <2>4, Zenon DEF CursorAt
  <2>5. CASE p # 0 /\ p # view.units BY <1>3, <2>2, <2>5, Zenon DEF CursorAt
  <2> QED BY <2>3, <2>4, <2>5
<1> QED BY <1>2, <1>3

(* A view takes back the mark of every place.                              *)
LEMMA ResumesAll ==
  ASSUME NEW view, NEW us, NEW ps, Viewed(view, us, ps), NEW p \in 0..Len(us)
  PROVE  Resumes(view, Stand(view, ps, p))
<1> DEFINE m == Stand(view, ps, p)
           b == view.data
           n == Len(us)
           r == p + 1
<1>1. n \in Nat /\ view.units = n /\ p \in Nat /\ p <= n BY DEF Viewed
<1>2. CASE view.kind # "bytes"
  <2>1. m = Mark(p, FALSE, p) /\ b = us BY <1>2 DEF Viewed, Stand
  <2>2. m.offset = p /\ m.half = FALSE /\ m.units = p BY <2>1 DEF Mark
  <2> HIDE DEF m, b, n
  <2>3. Len(b) = n BY <2>1 DEF n
  <2> QED BY <1>1, <1>2, <2>2, <2>3 DEF Resumes, m, b
<1>3. CASE view.kind = "bytes"
  <2>1. b \in Seq(Octet) /\ Chain(b, us, ps, 0) BY <1>3 DEF Viewed
  <2>2. m.offset = ps[r][1] /\ m.half = ps[r][2] /\ m.units = p BY <1>3 DEF Stand, Mark
  <2>3. r \in 1..(n + 1) /\ (r = n + 1 <=> p = n) /\ (r = 1 <=> p = 0) BY <1>1
  <2> HIDE DEF m, b, r
  <2>4. /\ ps[r][1] \in Int /\ ps[r][2] \in BOOLEAN /\ ps[r][1] <= Len(b)
        /\ ps[r][1] = Len(b) <=> r = Len(us) + 1
        /\ ps[r][1] = 0 /\ ~ps[r][2] => r = 1
        /\ ps[r][2] => r <= Len(us)
    BY <2>1, <2>3, PlaceFacts, SMTT(30)
  <2>5. r \in 1..n \/ r = n + 1 BY <1>1, <2>3
  <2> HIDE DEF n
  <2>6. (m.offset = Len(b)) = (m.units = view.units)
    <3>1. (m.offset = Len(b)) <=> (m.units = view.units) BY <1>1, <2>2, <2>3, <2>4, Zenon DEF n
    <3> QED BY <3>1
  <2>7. ~(m.offset = 0 /\ ~m.half /\ m.units # 0) BY <2>2, <2>3, <2>4, Zenon
  <2>8. ASSUME r \in 1..n
        PROVE  /\ ~IsContinuation(b[m.offset + 1])
               /\ m.half => DecodeValid(b, m.offset).point > 65535
    <3>1. Link(b, us, ps, r) BY <2>1, <2>8 DEF Chain, n
    <3>2. PICK o, w, point : /\ Scalar(b, o, w, point)
                             /\ \/ OneUnitHere(us, ps, r, o, w, point)
                                \/ HighHere(us, ps, r, o, w, point)
                                \/ LowHere(us, ps, r, o, w, point)
      BY <3>1, LinkParts
    <3>3. m.offset = o BY <2>2, <3>2, Zenon DEF OneUnitHere, HighHere, LowHere, At
    <3>4. ~IsContinuation(b[o + 1]) /\ point \in Nat /\ DecodeValid(b, o).point = point BY <3>2 DEF Scalar
    <3>5. m.half => Astral(point) BY <2>2, <3>2, Zenon DEF OneUnitHere, HighHere, LowHere, At
    <3>6. Astral(point) => point > 65535 BY SMT DEF Astral
    <3>7. DecodeValid(b, m.offset).point = point /\ ~IsContinuation(b[m.offset + 1]) BY <3>3, <3>4, Zenon
    <3> QED BY <3>5, <3>6, <3>7, SMT
  <2>9. m.offset < Len(b) => r \in 1..n
    <3>1. Len(b) \in Int BY <2>1
    <3>2. ~(Len(b) < Len(b)) BY <3>1
    <3> QED BY <2>2, <2>4, <2>5, <3>2, Zenon DEF n
  <2>10. m.half => m.offset < Len(b)
    <3>1. Len(b) \in Int /\ n \in Nat BY <1>1, <2>1
    <3>2. ~(n + 1 <= n) BY <3>1
    <3>3. m.half => m.offset # Len(b) BY <2>2, <2>4, <3>2, Zenon DEF n
    <3> QED BY <2>2, <2>4, <3>1, <3>3
  <2>11. m.units <= view.units /\ m.offset <= Len(b) BY <1>1, <2>2, <2>4
  <2>12. m.half => DecodeValid(b, m.offset).point > 65535 BY <2>8, <2>9, <2>10, SMT
  <2>13. m.offset < Len(b) => ~IsContinuation(b[m.offset + 1]) BY <2>8, <2>9, SMT
  <2> QED BY <1>3, <2>6, <2>7, <2>10, <2>11, <2>12, <2>13, SMT DEF Resumes, m, b
<1> QED BY <1>2, <1>3

(* Every lead is of some scalar of the chain.                              *)
LEMMA Covered ==
  ASSUME NEW b \in Seq(Octet), NEW us, NEW ps, Chain(b, us, ps, 0),
         NEW x \in Nat, x < Len(b), ~IsContinuation(b[x + 1])
  PROVE  \E r \in 1..Len(us) : \E w, point :
           Scalar(b, x, w, point) /\ (OneUnitHere(us, ps, r, x, w, point) \/ LowHere(us, ps, r, x, w, point))
<1> DEFINE n == Len(us)
           Over == {q \in Nat : 1 <= q /\ q <= n + 1 /\ ps[q][1] > x}
<1>1. n \in Nat /\ Len(b) \in Nat BY DEF Chain
<1>2. At(ps, 1, 0, FALSE) /\ At(ps, n + 1, Len(b), FALSE)
  <2>1. ps[1] = <<0, FALSE>> /\ ps[n + 1] = <<Len(b), FALSE>> BY Zenon DEF Chain
  <2> HIDE DEF n
  <2> QED BY <2>1, Parts
<1>3. n + 1 \in Over
  <2>1. ps[n + 1][1] = Len(b) BY <1>2, Zenon DEF At
  <2> HIDE DEF n
  <2> QED BY <1>1, <2>1
<1>4. PICK q \in Over : \A j \in Over : q <= j
  <2>1. Over \in SUBSET Nat OBVIOUS
  <2>2. Over # {} BY <1>3
  <2> HIDE DEF Over
  <2> QED BY <2>1, <2>2, LeastOf
<1>5. q \in Nat /\ 1 <= q /\ q <= n + 1 /\ ps[q][1] > x BY <1>4
<1>6. q # 1
  <2>1. ps[1][1] = 0 BY <1>2, Zenon DEF At
  <2> QED BY <1>5, <2>1
<1> DEFINE r == q - 1
<1>7. r \in 1..n /\ r + 1 = q /\ r \in Nat /\ r < q BY <1>1, <1>5, <1>6
<1>8. ~(ps[r][1] > x)
  <2>1. r \notin Over
    <3> HIDE DEF Over, r
    <3>1. ~(q <= r) BY <1>5, <1>7
    <3> QED BY <1>4, <3>1
  <2> HIDE DEF r
  <2> QED BY <1>1, <1>7, <2>1
<1> HIDE DEF r, Over
<1>9. Link(b, us, ps, r) BY <1>7 DEF Chain
<1>10. PICK o, w, point : /\ Scalar(b, o, w, point)
                          /\ \/ OneUnitHere(us, ps, r, o, w, point)
                             \/ HighHere(us, ps, r, o, w, point)
                             \/ LowHere(us, ps, r, o, w, point)
  BY <1>9, LinkParts
<1>11. o \in Nat /\ w \in 1..4 BY <1>10 DEF Scalar
<1>12. ps[r][1] = o BY <1>10, Zenon DEF OneUnitHere, HighHere, LowHere, At
<1>13. ps[r + 1][1] > x BY <1>5, <1>7
<1>14. ~HighHere(us, ps, r, o, w, point)
  <2>1. HighHere(us, ps, r, o, w, point) => ps[r + 1][1] = o BY Zenon DEF HighHere, At
  <2> QED BY <1>8, <1>12, <1>13, <2>1
<1>15. ps[r + 1][1] = o + w BY <1>10, <1>14, Zenon DEF OneUnitHere, LowHere, At
<1>16. o <= x /\ x < o + w BY <1>8, <1>11, <1>12, <1>13, <1>15
<1>17. o = x
  <2> SUFFICES ASSUME o # x PROVE FALSE OBVIOUS
  <2>1. (x + 1) - o \in 2..w /\ o + ((x + 1) - o) = x + 1 BY <1>11, <1>16
  <2>2. IsContinuation(b[o + ((x + 1) - o)]) BY <1>10, <2>1 DEF Scalar
  <2> QED BY <2>1, <2>2
<1> QED BY <1>7, <1>10, <1>14, <1>17, Zenon

(* And no other mark that it cannot decode.                                *)
LEMMA ResumesOnly ==
  ASSUME NEW view, NEW us, NEW ps, Viewed(view, us, ps),
         NEW x \in Nat, NEW half \in BOOLEAN, NEW units \in Nat, Resumes(view, Mark(x, half, units))
  PROVE  /\ \E p \in 0..Len(us) : Stand(view, ps, p).offset = x /\ Stand(view, ps, p).half = half
         /\ x = Len(view.data) <=> units = view.units
         /\ view.kind # "bytes" => x = units
<1> DEFINE b == view.data
           n == Len(us)
           m == Mark(x, half, units)
<1>1. m.offset = x /\ m.half = half /\ m.units = units BY DEF Mark
<1>2. n \in Nat /\ view.units = n BY DEF Viewed
<1>3. CASE view.kind # "bytes"
  <2>1. b = us BY <1>3 DEF Viewed
  <2>2. ~half /\ x = units /\ units <= n BY <1>1, <1>2, <1>3 DEF Resumes
  <2>3. Stand(view, ps, x).offset = x /\ Stand(view, ps, x).half = FALSE BY <1>3 DEF Stand, Mark
  <2>4. x \in 0..Len(us) BY <1>2, <2>2
  <2>5. half = FALSE BY <2>2
  <2> QED BY <1>2, <2>1, <2>2, <2>3, <2>4, <2>5
<1>4. CASE view.kind = "bytes"
  <2>1. b \in Seq(Octet) /\ Chain(b, us, ps, 0) BY <1>4 DEF Viewed
  <2> HIDE DEF m
  <2>2. /\ x <= Len(b) /\ (x = Len(b)) = (units = n)
        /\ x < Len(b) => ~IsContinuation(b[x + 1])
        /\ half => x < Len(b) /\ DecodeValid(b, x).point > 65535
    BY <1>1, <1>2, <1>4, SMT DEF Resumes, m
  <2>3. \A p : Stand(view, ps, p).offset = ps[p + 1][1] /\ Stand(view, ps, p).half = ps[p + 1][2]
    BY <1>4 DEF Stand, Mark
  <2>4. Len(b) \in Nat BY <2>1
  <2> HIDE DEF b
  <2>5. \E p \in 0..n : ps[p + 1][1] = x /\ ps[p + 1][2] = half
    <3>1. CASE x = Len(b)
      <4>1. half = FALSE BY <2>2, <2>4, <3>1
      <4>2. ps[n + 1] = <<Len(b), FALSE>> BY <2>1 DEF Chain
      <4>3. At(ps, n + 1, Len(b), FALSE)
        <5> HIDE DEF n
        <5> QED BY <4>2, Parts
      <4>4. n \in 0..n BY <1>2
      <4> QED BY <3>1, <4>1, <4>3, <4>4, Zenon DEF At
    <3>2. CASE x # Len(b)
      <4>1. x < Len(b) /\ ~IsContinuation(b[x + 1]) BY <2>2, <2>4, <3>2
      <4>0. PICK r \in 1..n : \E w, point :
              Scalar(b, x, w, point) /\ (OneUnitHere(us, ps, r, x, w, point) \/ LowHere(us, ps, r, x, w, point))
        BY <2>1, <4>1, Covered
      <4>2. PICK w, point :
              Scalar(b, x, w, point) /\ (OneUnitHere(us, ps, r, x, w, point) \/ LowHere(us, ps, r, x, w, point))
        BY <4>0
      <4>3. point \in Nat /\ DecodeValid(b, x).point = point BY <4>2 DEF Scalar
      <4>4. half => Astral(point) BY <2>2, <4>3, SMT DEF Astral
      <4>5. r - 1 \in 0..n /\ (r - 1) + 1 = r BY <1>2
      <4>6. CASE half = FALSE /\ OneUnitHere(us, ps, r, x, w, point)
        <5>1. ps[r][1] = x /\ ps[r][2] = FALSE BY <4>6, Zenon DEF OneUnitHere, At
        <5> QED BY <4>5, <4>6, <5>1, Zenon
      <4>7. CASE half = FALSE /\ LowHere(us, ps, r, x, w, point)
        <5>1. ps[r - 1][1] = x /\ ps[r - 1][2] = FALSE /\ r > 1 BY <4>7, Zenon DEF LowHere, At
        <5>2. r - 2 \in 0..n /\ (r - 2) + 1 = r - 1 BY <1>2, <5>1
        <5> QED BY <4>7, <5>1, <5>2, Zenon
      <4>8. CASE half = TRUE
        <5>1. LowHere(us, ps, r, x, w, point) BY <4>2, <4>4, <4>8, Zenon DEF OneUnitHere
        <5>2. ps[r][1] = x /\ ps[r][2] = TRUE BY <5>1, Zenon DEF LowHere, At
        <5> QED BY <4>5, <4>8, <5>2, Zenon
      <4>9. half = TRUE \/ half = FALSE OBVIOUS
      <4> QED BY <4>2, <4>6, <4>7, <4>8, <4>9, Zenon
    <3> QED BY <3>1, <3>2
  <2>6. x = Len(b) <=> units = n BY <2>2
  <2> QED BY <1>2, <1>4, <2>3, <2>5, <2>6, Zenon DEF b
<1> QED BY <1>3, <1>4
-----------------------------------------------------------------------------
(* The units of a chain are units, and of bytes as many as they are ASCII. *)
LEMMA UnitsAreNat ==
  ASSUME NEW b, NEW us, NEW ps, Chain(b, us, ps, 0)
  PROVE  us \in Seq(Nat)
<1>1. us \in Seq(Int) BY DEF Chain
<1>2. ASSUME NEW p \in 1..Len(us) PROVE us[p] \in Nat
  <2>1. Link(b, us, ps, p) BY DEF Chain
  <2>2. PICK o, w, point : /\ Scalar(b, o, w, point)
                           /\ \/ OneUnitHere(us, ps, p, o, w, point)
                              \/ HighHere(us, ps, p, o, w, point)
                              \/ LowHere(us, ps, p, o, w, point)
    BY <2>1, LinkParts
  <2>3. point \in Nat /\ point <= LastPoint BY <2>2 DEF Scalar
  <2>4. us[p] = point \/ (Astral(point) /\ (us[p] = HighSurrogate(point) \/ us[p] = LowSurrogate(point)))
    BY <2>2, Zenon DEF OneUnitHere, HighHere, LowHere
  <2>5. Astral(point) => HighSurrogate(point) \in Nat /\ LowSurrogate(point) \in Nat BY <2>3, PairOf
  <2> QED BY <2>3, <2>4, <2>5, Zenon
<1> QED BY <1>1, <1>2, SeqDef

LEMMA AsciiIs ==
  ASSUME NEW b \in Seq(Octet), NEW us, NEW ps, Chain(b, us, ps, 0), Len(us) = Len(b)
  PROVE  b = us /\ \A i \in 1..Len(us) : us[i] < 128
<1> DEFINE n == Len(us)
<1>1. n \in Nat /\ us \in Seq(Int) BY DEF Chain
<1>2. ASSUME NEW p \in 1..(n + 1) PROVE Depth(ps[p]) = p - 1 /\ ps[p][1] \in Int /\ ps[p][2] \in BOOLEAN
  <2>1. /\ p - 1 <= Depth(ps[p]) /\ (n + 1) - p <= Len(b) - Depth(ps[p])
        /\ ps[p][1] \in Int /\ ps[p][2] \in BOOLEAN
    BY PlaceFacts
  <2>2. Depth(ps[p]) \in Int BY <2>1 DEF Depth
  <2> HIDE DEF n
  <2>3. Len(b) = n BY DEF n
  <2> QED BY <1>1, <2>1, <2>2, <2>3
<1>3. ASSUME NEW p \in 1..n PROVE us[p] = b[p] /\ b[p] < 128
  <2>1. Link(b, us, ps, p) BY DEF Chain
  <2>2. PICK o, w, point : /\ Scalar(b, o, w, point)
                           /\ \/ OneUnitHere(us, ps, p, o, w, point)
                              \/ HighHere(us, ps, p, o, w, point)
                              \/ LowHere(us, ps, p, o, w, point)
    BY <2>1, LinkParts
  <2>3. o \in Nat /\ w \in 1..4 BY <2>2 DEF Scalar
  <2>4. p \in 1..(n + 1) /\ p + 1 \in 1..(n + 1) /\ (p + 1) - 1 = p BY <1>1
  <2>5. Depth(ps[p]) = p - 1 /\ Depth(ps[p + 1]) = p
    <3>1. Depth(ps[p]) = p - 1 BY <1>2, <2>4
    <3>2. Depth(ps[p + 1]) = (p + 1) - 1 BY <1>2, <2>4
    <3> QED BY <2>4, <3>1, <3>2
  <2>6. ~LowHere(us, ps, p, o, w, point)
    <3> SUFFICES ASSUME LowHere(us, ps, p, o, w, point) PROVE FALSE OBVIOUS
    <3>1. ps[p][1] = o /\ ps[p][2] = TRUE /\ ps[p + 1][1] = o + 4 /\ ps[p + 1][2] = FALSE BY Zenon DEF LowHere, At
    <3>2. Depth(ps[p]) = o + 1 /\ Depth(ps[p + 1]) = o + 4 BY <2>3, <3>1 DEF Depth
    <3> QED BY <2>3, <2>5, <3>2
  <2>7. ~HighHere(us, ps, p, o, w, point)
    <3> SUFFICES ASSUME HighHere(us, ps, p, o, w, point) PROVE FALSE OBVIOUS
    <3>1. ps[p][1] = o /\ ps[p][2] = FALSE /\ ps[p + 2][1] = o + 4 /\ ps[p + 2][2] = FALSE /\ p + 1 <= Len(us)
      BY Zenon DEF HighHere, At
    <3>2. p + 2 \in 1..(n + 1) /\ (p + 2) - 1 = p + 1 BY <1>1, <3>1
    <3>3. Depth(ps[p + 2]) = (p + 2) - 1 BY <1>2, <3>2
    <3>4. Depth(ps[p]) = o /\ Depth(ps[p + 2]) = o + 4 BY <2>3, <3>1 DEF Depth
    <3> QED BY <2>3, <2>5, <3>2, <3>3, <3>4
  <2>8. OneUnitHere(us, ps, p, o, w, point) BY <2>2, <2>6, <2>7
  <2>9. /\ ps[p][1] = o /\ ps[p][2] = FALSE /\ ps[p + 1][1] = o + w /\ ps[p + 1][2] = FALSE /\ us[p] = point
    BY <2>8, Zenon DEF OneUnitHere, At
  <2>10. Depth(ps[p]) = o /\ Depth(ps[p + 1]) = o + w BY <2>3, <2>9 DEF Depth
  <2>11. o = p - 1 /\ w = 1 BY <2>3, <2>5, <2>10
  <2>12. o + 1 = p BY <2>3, <2>11
  <2>13. b[o + 1] < 128 /\ point = b[o + 1] BY <2>2, <2>11 DEF Scalar
  <2> QED BY <2>9, <2>12, <2>13, Zenon
<1>4. b = us
  <2>1. Len(b) = Len(us) /\ b \in Seq(Int)
    <3>1. \A x \in Octet : x \in Int BY DEF Octet
    <3>2. Octet \subseteq Int BY <3>1
    <3> QED BY <3>2, SeqMonotonic
  <2>2. \A i \in 1..Len(us) : us[i] = b[i] BY <1>3
  <2> QED BY <1>1, <2>1, <2>2, SeqEqual
<1> QED BY <1>3, <1>4

(* A text that is well formed is storage of its units, either way.         *)
LEMMA TextViewed ==
  ASSUME NEW b \in Seq(Octet), Text(b).error = None
  PROVE  /\ Chain(b, Text(b).units, Text(b).places, 0) /\ Text(b).units \in Seq(Nat)
         /\ Counted(b).error = None /\ Counted(b).units = Len(Text(b).units)
         /\ Viewed(Wtf8(b), Text(b).units, Text(b).places)
         /\ Viewed(Utf16(Text(b).units), Text(b).units, Text(b).places)
<1> DEFINE us == Text(b).units
           ps == Text(b).places
<1>1. 0 \in 0..Len(b) OBVIOUS
<1>2. Text(b) = TextFrom(b)[0] /\ Counted(b) = CountedFrom(b)[0] BY DEF Text, Counted
<1>3. Chain(b, us, ps, 0)
  <2>1. TextFrom(b)[0].error = None BY <1>2
  <2>2. Chain(b, TextFrom(b)[0].units, TextFrom(b)[0].places, 0) BY <1>1, <2>1, ChainFrom
  <2> QED BY <1>2, <2>2, Zenon
<1>4. Counted(b).error = None /\ Counted(b).units = Len(us)
  <2>1. /\ CountedFrom(b)[0].error = TextFrom(b)[0].error
        /\ TextFrom(b)[0].error = None => CountedFrom(b)[0].units = Len(TextFrom(b)[0].units)
    BY <1>1, CountedIs
  <2> QED BY <1>2, <2>1, Zenon
<1> HIDE DEF us, ps
<1>5. us \in Seq(Nat) BY <1>3, UnitsAreNat
<1>6. Viewed(Utf16(us), us, ps) BY <1>5 DEF Viewed, Utf16, View
<1>7. Viewed(Wtf8(b), us, ps)
  <2> DEFINE kind == IF Len(us) = Len(b) THEN "ascii" ELSE "bytes"
  <2>1. Wtf8(b) = View(kind, b, Len(us)) BY <1>4, Zenon DEF Wtf8
  <2>2. CASE Len(us) = Len(b)
    <3>1. b = us /\ \A i \in 1..Len(us) : us[i] < 128 BY <1>3, <2>2, AsciiIs
    <3>2. Wtf8(b) = View("ascii", us, Len(us)) BY <2>1, <2>2, <3>1
    <3> QED BY <1>5, <3>1, <3>2 DEF Viewed, View
  <2>3. CASE Len(us) # Len(b)
    <3>1. Wtf8(b) = View("bytes", b, Len(us)) BY <2>1, <2>3
    <3> QED BY <1>3, <1>5, <3>1 DEF Viewed, View
  <2> QED BY <2>2, <2>3
<1> QED BY <1>3, <1>4, <1>5, <1>6, <1>7 DEF us, ps
================================================================================
