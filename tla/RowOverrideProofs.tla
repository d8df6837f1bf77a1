--------------------------- MODULE RowOverrideProofs ---------------------------
(***************************************************************************)
(* Proofs about RowOverride and what it is built on: that mysql/types.rs   *)
(* reads what it writes, what the evaluator makes of a condition, and that *)
(* a row reaches the client as the live updates have it.                   *)
(***************************************************************************)
EXTENDS RowOverride, TLAPS, SequenceTheorems, FiniteSetTheorems, WellFoundedInduction

-----------------------------------------------------------------------------
(* Numbers and texts on the wire.                                          *)

\* A number is its lowest byte and the rest.
LEMMA Halves ==
    ASSUME NEW v \in Nat
    PROVE  /\ Low(v) \in Byte /\ Low(v) \in Nat /\ High(v) \in Nat
           /\ v = Low(v) + 256 * High(v)
BY DEF Low, High, Byte

\* What is below 256 times a bound has its higher bytes below the bound.
LEMMA HighBelow ==
    ASSUME NEW v \in Nat, NEW k \in Nat, v < 256 * k
    PROVE  High(v) < k
BY Halves

\* The byte at a position behind the first of two sequences, and in it.
LEMMA InFirst ==
    ASSUME NEW s \in Seq(Byte), NEW t \in Seq(Byte), NEW i \in 1..Len(s)
    PROVE  (s \o t)[i] = s[i]
BY ConcatProperties, Len(s) \in Nat, Len(t) \in Nat

\* The bytes of a number, four by four.
LEMMA FourBytes ==
    ASSUME NEW v \in Nat
    PROVE  /\ Le4(v) \in Seq(Byte) /\ Len(Le4(v)) = 4
           /\ Le4(v)[1] = Low(v) /\ Le4(v)[2] = Low(High(v))
           /\ Le4(v)[3] = Low(High(High(v))) /\ Le4(v)[4] = Low(High(High(High(v))))
<1>1. /\ Low(v) \in Byte /\ Low(High(v)) \in Byte
      /\ Low(High(High(v))) \in Byte /\ Low(High(High(High(v)))) \in Byte
  BY Halves
<1> QED BY <1>1 DEF Le4, Le2

LEMMA EightBytes ==
    ASSUME NEW v \in Nat
    PROVE  /\ Le8(v) \in Seq(Byte) /\ Len(Le8(v)) = 8
           /\ \A i \in 1..4 : Le8(v)[i] = Le4(v)[i]
           /\ \A i \in 1..4 : Le8(v)[4 + i] = Le4(High(High(High(High(v)))))[i]
<1> DEFINE h == High(High(High(High(v))))
<1>1. h \in Nat
  BY Halves
<1> HIDE DEF h
<1>2. /\ Le4(v) \in Seq(Byte) /\ Len(Le4(v)) = 4
      /\ Le4(h) \in Seq(Byte) /\ Len(Le4(h)) = 4
  BY <1>1, FourBytes
<1>3. Le8(v) = Le4(v) \o Le4(h)
  BY DEF Le8, h
<1>4. /\ Le8(v) \in Seq(Byte) /\ Len(Le8(v)) = 8
      /\ \A i \in 1..8 : Le8(v)[i] = IF i <= 4 THEN Le4(v)[i] ELSE Le4(h)[i - 4]
  <2> DEFINE s == Le4(v)
             t == Le4(h)
  <2>1. s \in Seq(Byte) /\ t \in Seq(Byte) /\ Len(s) = 4 /\ Len(t) = 4 /\ Le8(v) = s \o t
    BY <1>2, <1>3
  <2> HIDE DEF s, t
  <2>2. /\ s \o t \in Seq(Byte) /\ Len(s \o t) = Len(s) + Len(t)
        /\ \A i \in 1..(Len(s) + Len(t)) :
               (s \o t)[i] = IF i <= Len(s) THEN s[i] ELSE t[i - Len(s)]
    BY <2>1, ConcatProperties
  <2>3. Len(s) + Len(t) = 8
    BY <2>1
  <2> QED BY <2>1, <2>2, <2>3 DEF s, t
<1>5. \A i \in 1..4 : Le8(v)[i] = Le4(v)[i]
  BY <1>4
<1>6. \A i \in 1..4 : Le8(v)[4 + i] = Le4(h)[i]
  <2>1. \A i \in 1..4 : 4 + i \in 1..8 /\ (4 + i) - 4 = i /\ ~(4 + i <= 4)
    OBVIOUS
  <2> QED BY <1>4, <2>1
<1> QED BY <1>4, <1>5, <1>6 DEF h

\* The number that the bytes of a number make, by Horner's rule.
LEMMA FourMake ==
    ASSUME NEW v \in Nat
    PROVE  v = Low(v) + 256 * (Low(High(v)) + 256 * (Low(High(High(v)))
                + 256 * (Low(High(High(High(v)))) + 256 * High(High(High(High(v)))))))
<1> DEFINE a == High(v)
           b == High(a)
           c == High(b)
           d == High(c)
<1>1. a \in Nat /\ v = Low(v) + 256 * a
  BY Halves
<1> HIDE DEF a
<1>2. b \in Nat /\ a = Low(a) + 256 * b
  BY <1>1, Halves
<1> HIDE DEF b
<1>3. c \in Nat /\ b = Low(b) + 256 * c
  BY <1>2, Halves
<1> HIDE DEF c
<1>4. c = Low(c) + 256 * d
  BY <1>3, Halves
<1> HIDE DEF d
<1>5. v = Low(v) + 256 * (Low(a) + 256 * (Low(b) + 256 * (Low(c) + 256 * d)))
  BY <1>1, <1>2, <1>3, <1>4
<1> QED BY <1>5 DEF a, b, c, d

\* A number below 256 is its lowest byte.
LEMMA OneByte ==
    ASSUME NEW v \in Nat, v < 256
    PROVE  Low(v) = v /\ High(v) = 0
BY DEF Low, High

\* The bytes behind a header byte, whatever follows.
LEMMA Behind ==
    ASSUME NEW head \in Byte, NEW s \in Seq(Byte), NEW rest \in Seq(Byte)
    PROVE  /\ <<head>> \o s \in Seq(Byte) /\ Len(<<head>> \o s) = Len(s) + 1
           /\ ((<<head>> \o s) \o rest)[1] = head
           /\ \A i \in 1..Len(s) : ((<<head>> \o s) \o rest)[i + 1] = s[i]
<1> DEFINE h == <<head>>
           b == h \o s
<1>1. h \in Seq(Byte) /\ Len(h) = 1 /\ h[1] = head /\ Len(s) \in Nat
  OBVIOUS
<1> HIDE DEF h
<1>2. /\ b \in Seq(Byte) /\ Len(b) = 1 + Len(s)
      /\ \A i \in 1..(1 + Len(s)) : b[i] = IF i <= 1 THEN h[i] ELSE s[i - 1]
  <2>1. /\ h \o s \in Seq(Byte) /\ Len(h \o s) = Len(h) + Len(s)
        /\ \A i \in 1..(Len(h) + Len(s)) :
               (h \o s)[i] = IF i <= Len(h) THEN h[i] ELSE s[i - Len(h)]
    BY <1>1, ConcatProperties
  <2> QED BY <1>1, <2>1
<1> HIDE DEF b
<1>3. \A i \in 1..(1 + Len(s)) : (b \o rest)[i] = b[i]
  BY <1>2, InFirst
<1>4. (b \o rest)[1] = head
  <2>1. 1 \in 1..(1 + Len(s))
    BY <1>1
  <2> QED BY <1>1, <1>2, <1>3, <2>1
<1>5. \A i \in 1..Len(s) : (b \o rest)[i + 1] = s[i]
  <2>1. \A i \in 1..Len(s) : i + 1 \in 1..(1 + Len(s)) /\ (i + 1) - 1 = i /\ ~(i + 1 <= 1)
    BY <1>1
  <2> QED BY <1>2, <1>3, <2>1
<1>6. Len(b) = Len(s) + 1
  BY <1>1, <1>2
<1> QED BY <1>2, <1>4, <1>5, <1>6 DEF b, h

\* IntLenEnc reads the number it has written, and takes as many bytes as it wrote, for
\* every number of 64 bits and whatever follows: the limits of its four forms agree in
\* encode and from_bytes.
THEOREM NumbersReadBack ==
    ASSUME NEW v \in Nat, v < 65536 * 65536 * 65536 * 65536, NEW rest \in Seq(Byte)
    PROVE  /\ IntLenEncode(v) \in Seq(Byte)
           /\ IntLenDecode(IntLenEncode(v) \o rest) = [result |-> v, used |-> Len(IntLenEncode(v))]
<1> DEFINE a == High(v)
           b == High(a)
           c == High(b)
           bytes == IntLenEncode(v) \o rest
<1>1. /\ a \in Nat /\ b \in Nat /\ c \in Nat
      /\ 251 \in Byte /\ 252 \in Byte /\ 253 \in Byte /\ 254 \in Byte
  BY Halves DEF Byte
<1>2. /\ Low(v) \in Byte /\ Low(a) \in Byte /\ Low(b) \in Byte /\ Low(c) \in Byte
      /\ v = Low(v) + 256 * a /\ a = Low(a) + 256 * b
  BY <1>1, Halves
<1>3. CASE v < 251
  <2>1. IntLenEncode(v) = <<v>>
    BY <1>3 DEF IntLenEncode
  <2>2. v \in Byte
    BY <1>3 DEF Byte
  <2>3. <<v>> \in Seq(Byte) /\ Len(<<v>>) = 1 /\ <<v>>[1] = v
    BY <2>2
  <2>4. (<<v>> \o rest)[1] = v
    BY <2>3, InFirst
  <2>5. IntLenDecode(<<v>> \o rest) = [result |-> v, used |-> 1]
    BY <1>3, <2>4 DEF IntLenDecode
  <2> QED BY <2>1, <2>3, <2>5
<1>4. CASE v >= 251 /\ v <= 65535
  <2>1. IntLenEncode(v) = <<252>> \o Le2(v)
    BY <1>4 DEF IntLenEncode
  <2>2. Le2(v) = <<Low(v), Low(a)>> /\ Le2(v) \in Seq(Byte) /\ Len(Le2(v)) = 2
    BY <1>2 DEF Le2
  <2>3. /\ bytes[1] = 252 /\ \A i \in 1..2 : bytes[i + 1] = Le2(v)[i]
        /\ IntLenEncode(v) \in Seq(Byte) /\ Len(IntLenEncode(v)) = 3
    BY <1>1, <2>1, <2>2, Behind
  <2>4. bytes[1 + 1] = Low(v) /\ bytes[2 + 1] = Low(a)
    BY <2>2, <2>3
  <2>5. Low(a) = a
    BY <1>1, <1>4, HighBelow, OneByte
  <2>6. bytes[1 + 1] + 256 * bytes[1 + 2] = v
    BY <1>2, <2>4, <2>5
  <2> HIDE DEF bytes
  <2>7. IntLenDecode(bytes) = [result |-> v, used |-> 3]
    BY <2>3, <2>6 DEF IntLenDecode, From2
  <2> QED BY <2>3, <2>7 DEF bytes
<1>5. CASE v >= 65536 /\ v <= 16777215
  <2>1. IntLenEncode(v) = <<253>> \o Le3(v)
    BY <1>5 DEF IntLenEncode
  <2>2. Le3(v) = <<Low(v), Low(a), Low(b)>> /\ Le3(v) \in Seq(Byte) /\ Len(Le3(v)) = 3
    BY <1>2 DEF Le3, Le2
  <2>3. /\ bytes[1] = 253 /\ \A i \in 1..3 : bytes[i + 1] = Le3(v)[i]
        /\ IntLenEncode(v) \in Seq(Byte) /\ Len(IntLenEncode(v)) = 4
    BY <1>1, <2>1, <2>2, Behind
  <2>4. bytes[1 + 1] = Low(v) /\ bytes[2 + 1] = Low(a) /\ bytes[3 + 1] = Low(b)
    BY <2>2, <2>3
  <2>5. Low(b) = b
    <3>1. a < 65536
      BY <1>5, HighBelow, v < 256 * 65536, 65536 \in Nat
    <3> QED BY <1>1, <3>1, HighBelow, OneByte
  <2>6. bytes[1 + 1] + 256 * (bytes[1 + 1 + 1] + 256 * bytes[1 + 1 + 2]) = v
    BY <1>2, <2>4, <2>5
  <2> HIDE DEF bytes
  <2>7. IntLenDecode(bytes) = [result |-> v, used |-> 4]
    BY <2>3, <2>6 DEF IntLenDecode, From2, From3
  <2> QED BY <2>3, <2>7 DEF bytes
<1>6. CASE v > 16777215
  <2> DEFINE h == High(c)
  <2>1. IntLenEncode(v) = <<254>> \o Le8(v)
    BY <1>6 DEF IntLenEncode
  <2>2. h \in Nat /\ h < 65536 * 65536
    <3>1. a < 256 * (65536 * 65536 * 65536)
      <4>1. v < 256 * (256 * (65536 * 65536 * 65536)) /\ 256 * (65536 * 65536 * 65536) \in Nat
        OBVIOUS
      <4> QED BY <4>1, HighBelow
    <3>2. b < 65536 * 65536 * 65536
      <4>1. 65536 * 65536 * 65536 \in Nat
        OBVIOUS
      <4> QED BY <1>1, <3>1, <4>1, HighBelow
    <3>3. c < 256 * (65536 * 65536)
      <4>1. b < 256 * (256 * (65536 * 65536)) /\ 256 * (65536 * 65536) \in Nat
        BY <3>2
      <4> QED BY <1>1, <4>1, HighBelow
    <3>4. h < 65536 * 65536
      <4>1. 65536 * 65536 \in Nat
        OBVIOUS
      <4> QED BY <1>1, <3>3, <4>1, HighBelow
    <3> QED BY <1>1, <3>4, Halves
  <2>3. /\ bytes[1] = 254 /\ \A i \in 1..8 : bytes[i + 1] = Le8(v)[i]
        /\ IntLenEncode(v) \in Seq(Byte) /\ Len(IntLenEncode(v)) = 9
    BY <1>1, <2>1, Behind, EightBytes
  <2>4. /\ \A i \in 1..4 : bytes[i + 1] = Le4(v)[i]
        /\ \A i \in 1..4 : bytes[4 + i + 1] = Le4(h)[i]
    BY <2>3, EightBytes
  <2> HIDE DEF bytes
  <2>5. From4(bytes, 5) = h
    <3>1. /\ bytes[6] = Low(h) /\ bytes[7] = Low(High(h))
          /\ bytes[8] = Low(High(High(h))) /\ bytes[9] = Low(High(High(High(h))))
      BY <2>2, <2>4, FourBytes
    <3>2. High(High(High(High(h)))) = 0
      <4>1. High(h) \in Nat /\ High(h) < 256 * 65536
        BY <2>2, Halves, HighBelow
      <4>2. High(High(h)) \in Nat /\ High(High(h)) < 65536
        BY <4>1, Halves, HighBelow
      <4>3. High(High(High(h))) \in Nat /\ High(High(High(h))) < 256
        BY <4>2, Halves, HighBelow
      <4> QED BY <4>3, OneByte
    <3>3. h = Low(h) + 256 * (Low(High(h)) + 256 * (Low(High(High(h)))
                + 256 * (Low(High(High(High(h)))) + 256 * 0)))
      BY <2>2, <3>2, FourMake
    <3>4. Low(High(High(High(h)))) \in Nat
      BY <2>2, Halves
    <3>5. h = bytes[6] + 256 * (bytes[7] + 256 * (bytes[8] + 256 * bytes[9]))
      BY <3>1, <3>3, <3>4
    <3> QED BY <3>5 DEF From4, From3, From2
  <2>6. v = bytes[2] + 256 * (bytes[3] + 256 * (bytes[4] + 256 * (bytes[5] + 256 * h)))
    <3>1. /\ bytes[2] = Low(v) /\ bytes[3] = Low(a)
          /\ bytes[4] = Low(b) /\ bytes[5] = Low(c)
      BY <2>4, FourBytes
    <3> QED BY <3>1, FourMake
  <2>7. From8(bytes, 1) = v
    BY <2>5, <2>6 DEF From8
  <2>8. IntLenDecode(bytes) = [result |-> v, used |-> 9]
    BY <2>3, <2>7 DEF IntLenDecode
  <2> QED BY <2>3, <2>8 DEF bytes
<1>7. v < 251 \/ (v >= 251 /\ v <= 65535) \/ (v >= 65536 /\ v <= 16777215) \/ v > 16777215
  OBVIOUS
<1> QED BY <1>3, <1>4, <1>5, <1>6, <1>7

\* What lies between two sequences.
LEMMA Between ==
    ASSUME NEW e \in Seq(Byte), NEW u \in Seq(Byte), NEW rest \in Seq(Byte)
    PROVE  SubSeq((e \o u) \o rest, Len(e) + 1, Len(e) + Len(u)) = u
<1> DEFINE b == (e \o u) \o rest
           m == Len(e) + 1
           n == Len(e) + Len(u)
<1>1. Len(e) \in Nat /\ Len(u) \in Nat /\ m \in Int /\ n \in Int
  OBVIOUS
<1>2. /\ e \o u \in Seq(Byte) /\ Len(e \o u) = n
      /\ \A i \in 1..n : (e \o u)[i] = IF i <= Len(e) THEN e[i] ELSE u[i - Len(e)]
  BY ConcatProperties
<1>3. \A i \in 1..n : b[i] = (e \o u)[i]
  BY <1>2, InFirst
<1>4. \A i \in m..n : b[i] = u[i - Len(e)]
  <2>1. \A i \in m..n : i \in 1..n /\ ~(i <= Len(e))
    BY <1>1
  <2> QED BY <1>2, <1>3, <2>1
<1>5. \A i \in m..n : b[i] \in Byte
  <2>1. \A i \in m..n : i - Len(e) \in 1..Len(u)
    BY <1>1
  <2>2. \A i \in 1..Len(u) : u[i] \in Byte
    OBVIOUS
  <2> QED BY <1>4, <2>1, <2>2
<1> HIDE DEF b
<1>6. /\ SubSeq(b, m, n) \in Seq(Byte)
      /\ Len(SubSeq(b, m, n)) = IF m <= n THEN (n - m) + 1 ELSE 0
      /\ \A i \in 1..((n - m) + 1) : SubSeq(b, m, n)[i] = b[(m + i) - 1]
  BY <1>1, <1>5, SubSeqProperties
<1>7. Len(SubSeq(b, m, n)) = Len(u)
  BY <1>1, <1>6
<1>8. \A i \in 1..Len(u) : SubSeq(b, m, n)[i] = u[i]
  <2>1. \A i \in 1..Len(u) :
            i \in 1..((n - m) + 1) /\ (m + i) - 1 \in m..n /\ ((m + i) - 1) - Len(e) = i
    BY <1>1
  <2> QED BY <1>4, <1>6, <2>1
<1>9. SubSeq(b, m, n) = u
  BY <1>6, <1>7, <1>8, SeqEqual
<1> QED BY <1>9 DEF b

\* StringLenEnc reads back the UTF-8 bytes it has written, as many as its length says,
\* whatever the text and whatever follows it.  They become characters one by one, so what
\* is read is the text itself only when each of its characters has one byte.
THEOREM TextsReadBack ==
    ASSUME NEW text, Utf8(text) \in Seq(Byte),
           Len(Utf8(text)) < 65536 * 65536 * 65536 * 65536, NEW rest \in Seq(Byte)
    PROVE  StringLenDecode(StringLenEncode(text) \o rest)
               = [result |-> Utf8(text), used |-> Len(StringLenEncode(text))]
<1> DEFINE u == Utf8(text)
           e == IntLenEncode(Len(u))
<1>1. u \in Seq(Byte) /\ Len(u) \in Nat /\ StringLenEncode(text) = e \o u
  BY DEF StringLenEncode
<1> HIDE DEF u
<1>2. Len(u) < 65536 * 65536 * 65536 * 65536
  BY DEF u
<1>3. u \o rest \in Seq(Byte)
  BY <1>1, ConcatProperties
<1>4. /\ e \in Seq(Byte)
      /\ IntLenDecode(e \o (u \o rest)) = [result |-> Len(u), used |-> Len(e)]
  BY <1>1, <1>2, <1>3, NumbersReadBack
<1> HIDE DEF e
<1>5. (e \o u) \o rest = e \o (u \o rest)
  BY <1>1, <1>4, ConcatAssociative
<1>6. IntLenDecode((e \o u) \o rest) = [result |-> Len(u), used |-> Len(e)]
  BY <1>4, <1>5
<1>7. SubSeq((e \o u) \o rest, Len(e) + 1, Len(e) + Len(u)) = u
  BY <1>1, <1>4, Between
<1>8. StringLenDecode((e \o u) \o rest) = [result |-> u, used |-> Len(e) + Len(u)]
  BY <1>6, <1>7 DEF StringLenDecode
<1>9. Len(e \o u) = Len(e) + Len(u)
  BY <1>1, <1>4, ConcatProperties
<1> QED BY <1>1, <1>8, <1>9 DEF u
-----------------------------------------------------------------------------
(* Induction and recursion, of sets and functions.                         *)

\* A set of naturals that is not empty has a least element.
LEMMA LeastNatural ==
    ASSUME NEW T, T \subseteq Nat, T # {}
    PROVE  \E n \in T : \A m \in T : n <= m
<1> DEFINE R == OpToRel(<, Nat)
<1>1. IsWellFoundedOn(R, Nat)
  BY NatLessThanWellFounded
<1> HIDE DEF R
<1>2. PICK x \in T : \A y \in T : <<y, x>> \notin R
  BY <1>1, WFMin
<1>3. \A y \in T : ~(y < x)
  BY <1>2 DEF R, OpToRel
<1> QED BY <1>2, <1>3

\* What holds of all numbers below one holds of it.
LEMMA Course ==
    ASSUME NEW S, NEW n \in Nat, \A i \in 1..n : (1..(i - 1)) \subseteq S => i \in S
    PROVE  1..n \subseteq S
<1> DEFINE T == {i \in 1..n : i \notin S}
<1>1. SUFFICES ASSUME T # {} PROVE FALSE
  OBVIOUS
<1>2. PICK k \in T : \A m \in T : k <= m
  <2>1. T \subseteq Nat
    OBVIOUS
  <2> HIDE DEF T
  <2> QED BY <1>1, <2>1, LeastNatural
<1>3. 1..(k - 1) \subseteq S
  <2>1. ASSUME NEW m \in 1..(k - 1) PROVE m \in S
    <3>1. m \in 1..n /\ ~(k <= m)
      BY <1>2
    <3>2. m \notin T
      BY <1>2, <3>1
    <3> QED BY <3>1, <3>2
  <2> QED BY <2>1
<1> QED BY <1>2, <1>3

\* What holds of 0, and of a number if of the one before, holds of all.
LEMMA Counting ==
    ASSUME NEW S, NEW n \in Nat, 0 \in S, \A i \in 1..n : i - 1 \in S => i \in S
    PROVE  0..n \subseteq S
<1>1. ASSUME NEW i \in 1..n, 1..(i - 1) \subseteq S PROVE i \in S
  <2>1. i - 1 = 0 \/ i - 1 \in 1..(i - 1)
    OBVIOUS
  <2> QED BY <1>1, <2>1
<1>2. 1..n \subseteq S
  BY <1>1, Course
<1>3. 0..n = {0} \cup 1..n
  OBVIOUS
<1> QED BY <1>2, <1>3

\* Two functions with the same start and the same step are the same.
SameSteps(f, g, n) ==
    f[0] = g[0] /\ \A i \in 1..n : f[i - 1] = g[i - 1] => f[i] = g[i]
Same(f, g, n) == \A i \in 0..n : f[i] = g[i]

LEMMA Determined ==
    ASSUME NEW n \in Nat, NEW f, NEW g, SameSteps(f, g, n)
    PROVE  Same(f, g, n)
<1> DEFINE S == {i \in 0..n : f[i] = g[i]}
<1>1. 0 \in S
  BY DEF SameSteps
<1>2. ASSUME NEW i \in 1..n, i - 1 \in S PROVE i \in S
  <2>1. i \in 0..n
    OBVIOUS
  <2> QED BY <1>2, <2>1 DEF SameSteps
<1>3. 0..n \subseteq S
  <2> HIDE DEF S
  <2> QED BY <1>1, <1>2, Counting
<1> QED BY <1>3 DEF Same

\* A function from its start and its steps.
Runs(f, D, init, step, n) ==
    /\ f \in [0..n -> D] /\ f[0] = init
    /\ \A i \in 1..n : f[i] = step[i][f[i - 1]]

LEMMA Recursion ==
    ASSUME NEW D, NEW n \in Nat, NEW init \in D, NEW step,
           \A i \in 1..n : \A d \in D : step[i][d] \in D
    PROVE  \E f : Runs(f, D, init, step, n)
<1> DEFINE S == {k \in 0..n : \E f : Runs(f, D, init, step, k)}
<1>1. 0 \in S
  <2> DEFINE h == [i \in 0..0 |-> init]
  <2>1. h \in [0..0 -> D] /\ h[0] = init /\ 1..0 = {}
    OBVIOUS
  <2> HIDE DEF h
  <2>2. Runs(h, D, init, step, 0)
    BY <2>1 DEF Runs
  <2> QED BY <2>2
<1>2. ASSUME NEW k \in 1..n, k - 1 \in S PROVE k \in S
  <2>1. PICK g : Runs(g, D, init, step, k - 1)
    BY <1>2
  <2> HIDE DEF S
  <2>2. /\ g \in [0..(k - 1) -> D] /\ g[0] = init
        /\ \A i \in 1..(k - 1) : g[i] = step[i][g[i - 1]]
    BY <2>1 DEF Runs
  <2> DEFINE last == step[k][g[k - 1]]
             h    == [i \in 0..k |-> IF i = k THEN last ELSE g[i]]
  <2>3. last \in D /\ \A i \in 0..(k - 1) : g[i] \in D
    BY <2>2
  <2>4. k # 0 /\ k \in Nat /\ \A i \in 0..k : i # k => i \in 0..(k - 1)
    OBVIOUS
  <2> HIDE DEF last
  <2>5. h \in [0..k -> D] /\ h[0] = init
    BY <2>2, <2>3, <2>4
  <2>6. h[k] = step[k][h[k - 1]]
    BY <2>4 DEF last
  <2>7. ASSUME NEW i \in 1..k PROVE h[i] = step[i][h[i - 1]]
    <3>1. i = k \/ (i \in 1..(k - 1) /\ h[i] = g[i] /\ h[i - 1] = g[i - 1])
      BY <2>4
    <3> HIDE DEF h
    <3> QED BY <2>2, <2>6, <3>1
  <2> HIDE DEF h
  <2>8. Runs(h, D, init, step, k)
    BY <2>5, <2>7 DEF Runs
  <2>9. k \in 0..n
    OBVIOUS
  <2> QED BY <2>8, <2>9 DEF S
<1>3. 0..n \subseteq S
  <2> HIDE DEF S
  <2> QED BY <1>1, <1>2, Counting
<1>4. n \in S
  BY <1>3
<1> QED BY <1>4
-----------------------------------------------------------------------------
(* Sequences of sequences, one behind the other.                           *)

Prefixes(pre, s, n) ==
    /\ pre \in [0..n -> Seq(Byte)] /\ pre[0] = <<>>
    /\ \A i \in 1..n : pre[i] = pre[i - 1] \o s[i]

Suffixes(suf, s, n) ==
    /\ suf \in [0..n -> Seq(Byte)] /\ suf[n] = <<>>
    /\ \A i \in 1..n : suf[i - 1] = s[i] \o suf[i]

LEMMA PrefixesExist ==
    ASSUME NEW n \in Nat, NEW s \in [1..n -> Seq(Byte)]
    PROVE  \E pre : Prefixes(pre, s, n)
<1> DEFINE D    == Seq(Byte)
           step == [i \in 1..n |-> [d \in D |-> d \o s[i]]]
<1>1. \A i \in 1..n : \A d \in D : step[i][d] = d \o s[i] /\ d \o s[i] \in D
  BY ConcatProperties
<1>2. <<>> \in D
  OBVIOUS
<1> HIDE DEF step, D
<1>3. PICK f : Runs(f, D, <<>>, step, n)
  BY <1>1, <1>2, Recursion
<1>4. f \in [0..n -> D] /\ f[0] = <<>> /\ \A i \in 1..n : f[i] = step[i][f[i - 1]]
  BY <1>3 DEF Runs
<1>5. ASSUME NEW i \in 1..n PROVE f[i] = f[i - 1] \o s[i]
  <2>1. f[i - 1] \in D
    BY <1>4
  <2> QED BY <1>1, <1>4, <2>1
<1>6. Prefixes(f, s, n)
  BY <1>4, <1>5 DEF Prefixes, D
<1> QED BY <1>6

\* FlattenSeq is the last of the prefixes.
LEMMA Flattened ==
    ASSUME NEW n \in Nat, NEW s \in [1..n -> Seq(Byte)], NEW pre, Prefixes(pre, s, n)
    PROVE  Seqs!FlattenSeq(s) = pre[n]
<1>1. s \in Seq(Seq(Byte)) /\ Len(s) = n
  BY IsASeq, LenProperties
<1>2. /\ pre \in [0..n -> Seq(Byte)] /\ pre[0] = <<>>
      /\ \A i \in 1..n : pre[i] = pre[i - 1] \o s[i]
  BY DEF Prefixes
<1>3. CASE n = 0
  <2>1. s = <<>>
    BY <1>1, <1>3
  <2>2. Seqs!FlattenSeq(s) = s
    BY <1>1, <1>3 DEF Seqs!FlattenSeq
  <2> QED BY <1>2, <1>3, <2>1, <2>2
<1>4. CASE n # 0
  <2> DEFINE Solves(f) == f = [i \in 1..n |-> IF i = 1 THEN s[i] ELSE f[i - 1] \o s[i]]
             flatten == CHOOSE f : Solves(f)
             g == [i \in 1..n |-> pre[i]]
  <2>1. Seqs!FlattenSeq(s) = flatten[n]
    BY <1>1, <1>4 DEF Seqs!FlattenSeq
  <2>2. pre[1] = s[1]
    <3>1. 1 \in 1..n /\ 1 - 1 = 0
      BY <1>4
    <3>2. pre[1] = <<>> \o s[1] /\ s[1] \in Seq(Byte)
      BY <1>2, <3>1
    <3> QED BY <3>2, ConcatEmptySeq
  <2>3. Solves(g)
    <3>1. \A i \in 1..n : i # 1 => i - 1 \in 1..n
      OBVIOUS
    <3>2. \A i \in 1..n : g[i] = IF i = 1 THEN s[i] ELSE g[i - 1] \o s[i]
      BY <1>2, <2>2, <3>1
    <3> QED BY <3>2
  <2> HIDE DEF g
  <2>4. Solves(flatten)
    <3> HIDE DEF Solves
    <3> QED BY <2>3
  <2>5. \A i \in 1..n : flatten[i] = IF i = 1 THEN s[i] ELSE flatten[i - 1] \o s[i]
    <3> HIDE DEF flatten
    <3> QED BY <2>4
  <2> HIDE DEF flatten
  <2> DEFINE S == {i \in 1..n : flatten[i] = pre[i]}
  <2>6. ASSUME NEW i \in 1..n, 1..(i - 1) \subseteq S PROVE i \in S
    <3>1. i # 1 => i - 1 \in S
      BY <2>6
    <3>2. flatten[i] = pre[i]
      BY <1>2, <2>2, <2>5, <3>1
    <3> QED BY <3>2
  <2>7. 1..n \subseteq S
    <3> HIDE DEF S
    <3> QED BY <2>6, Course
  <2>8. n \in 1..n
    BY <1>4
  <2> QED BY <2>1, <2>7, <2>8
<1> QED BY <1>3, <1>4
LEMMA SuffixesExist ==
    ASSUME NEW n \in Nat, NEW s \in [1..n -> Seq(Byte)]
    PROVE  \E suf : Suffixes(suf, s, n)
<1> DEFINE D    == Seq(Byte)
           step == [i \in 1..n |-> [d \in D |-> s[n - i + 1] \o d]]
<1>0. \A i \in 1..n : n - i + 1 \in 1..n
  OBVIOUS
<1>1. \A i \in 1..n : \A d \in D : step[i][d] = s[n - i + 1] \o d /\ s[n - i + 1] \o d \in D
  BY <1>0, ConcatProperties
<1>2. <<>> \in D
  OBVIOUS
<1> HIDE DEF step, D
<1>3. PICK f : Runs(f, D, <<>>, step, n)
  BY <1>1, <1>2, Recursion
<1>4. f \in [0..n -> D] /\ f[0] = <<>> /\ \A i \in 1..n : f[i] = step[i][f[i - 1]]
  BY <1>3 DEF Runs
<1> DEFINE suf == [k \in 0..n |-> f[n - k]]
<1>5. suf \in [0..n -> D] /\ suf[n] = <<>>
  <2>1. n - n = 0 /\ n \in 0..n /\ \A k \in 0..n : n - k \in 0..n
    OBVIOUS
  <2> QED BY <1>4, <2>1
<1>6. ASSUME NEW i \in 1..n PROVE suf[i - 1] = s[i] \o suf[i]
  <2> DEFINE j == n - i + 1
  <2>1. /\ j \in 1..n /\ j - 1 = n - i /\ n - (i - 1) = j /\ n - j + 1 = i
        /\ i - 1 \in 0..n /\ i \in 0..n /\ j - 1 \in 0..n
    OBVIOUS
  <2> HIDE DEF j
  <2>2. f[j] = s[n - j + 1] \o f[j - 1]
    BY <1>1, <1>4, <2>1
  <2> QED BY <2>1, <2>2
<1>7. Suffixes(suf, s, n)
  <2> HIDE DEF suf
  <2> QED BY <1>5, <1>6 DEF Suffixes, D
<1> QED BY <1>7

\* FlattenSeq is the first of the suffixes.
LEMMA FlattenedFromBehind ==
    ASSUME NEW n \in Nat, NEW s \in [1..n -> Seq(Byte)], NEW suf, Suffixes(suf, s, n)
    PROVE  Seqs!FlattenSeq(s) = suf[0]
<1>1. PICK pre : Prefixes(pre, s, n)
  BY PrefixesExist
<1>2. Seqs!FlattenSeq(s) = pre[n]
  BY <1>1, Flattened
<1>3. /\ pre \in [0..n -> Seq(Byte)] /\ pre[0] = <<>>
      /\ \A i \in 1..n : pre[i] = pre[i - 1] \o s[i]
  BY <1>1 DEF Prefixes
<1>4. /\ suf \in [0..n -> Seq(Byte)] /\ suf[n] = <<>>
      /\ \A i \in 1..n : suf[i - 1] = s[i] \o suf[i]
  BY DEF Suffixes
<1> DEFINE S == {k \in 0..n : pre[k] \o suf[k] = suf[0]}
<1>5. 0 \in S
  <2>1. suf[0] \in Seq(Byte) /\ pre[0] = <<>>
    BY <1>3, <1>4
  <2>2. <<>> \o suf[0] = suf[0]
    BY <2>1, ConcatEmptySeq
  <2>3. 0 \in 0..n
    OBVIOUS
  <2> QED BY <2>1, <2>2, <2>3
<1>6. ASSUME NEW i \in 1..n, i - 1 \in S PROVE i \in S
  <2>0. i \in 0..n /\ i - 1 \in 0..n
    OBVIOUS
  <2>1. i \in 0..n /\ i - 1 \in 0..n /\ pre[i - 1] \o suf[i - 1] = suf[0]
    BY <1>6, <2>0
  <2>2. pre[i - 1] \in Seq(Byte) /\ s[i] \in Seq(Byte) /\ suf[i] \in Seq(Byte)
    BY <1>3, <1>4, <2>1
  <2>3. (pre[i - 1] \o s[i]) \o suf[i] = pre[i - 1] \o (s[i] \o suf[i])
    <3> DEFINE a == pre[i - 1]
               b == s[i]
               c == suf[i]
    <3>1. a \in Seq(Byte) /\ b \in Seq(Byte) /\ c \in Seq(Byte)
      BY <2>2
    <3> HIDE DEF a, b, c
    <3>2. (a \o b) \o c = a \o (b \o c)
      BY <3>1, ConcatAssociative
    <3> QED BY <3>2 DEF a, b, c
  <2>4. pre[i] \o suf[i] = suf[0]
    BY <1>3, <1>4, <2>1, <2>3
  <2> QED BY <2>1, <2>4
<1>7. 0..n \subseteq S
  <2> HIDE DEF S
  <2> QED BY <1>5, <1>6, Counting
<1>8. pre[n] \o <<>> = suf[0] /\ pre[n] \in Seq(Byte)
  <2>1. n \in 0..n
    OBVIOUS
  <2>2. n \in S
    BY <1>7, <2>1
  <2> QED BY <1>3, <1>4, <2>1, <2>2
<1> QED BY <1>2, <1>8, ConcatEmptySeq

\* A character has one byte or two.
LEMMA CharBytes ==
    ASSUME NEW c \in Byte
    PROVE  Utf8Char(c) \in Seq(Byte) /\ Len(Utf8Char(c)) <= 2
<1>1. CASE c < 128
  BY <1>1 DEF Utf8Char
<1>2. CASE c >= 128
  <2>1. 192 + (c \div 64) \in Byte /\ 128 + (c % 64) \in Byte
    BY <1>2 DEF Byte
  <2>2. Utf8Char(c) = <<192 + (c \div 64), 128 + (c % 64)>>
    BY <1>2 DEF Utf8Char, Byte
  <2> QED BY <2>1, <2>2
<1> QED BY <1>1, <1>2 DEF Byte

\* A text of ASCII characters is its UTF-8 bytes.
LEMMA AsciiAsItIs ==
    ASSUME NEW text \in Seq(Byte), \A i \in DOMAIN text : text[i] < 128
    PROVE  Utf8(text) = text
BY DEF Utf8

LEMMA TwoMore ==
    ASSUME NEW a \in Nat, NEW b \in Nat, NEW i \in Nat, a <= 2 * (i - 1), b <= 2
    PROVE  a + b <= 2 * i
OBVIOUS

LEMMA Utf8Bytes ==
    ASSUME NEW text \in Seq(Byte)
    PROVE  Utf8(text) \in Seq(Byte) /\ Len(Utf8(text)) <= 2 * Len(text)
<1>1. CASE \A i \in 1..Len(text) : text[i] < 128
  <2>1. Utf8(text) = text
    BY <1>1 DEF Utf8
  <2>2. Len(text) \in Nat
    OBVIOUS
  <2> QED BY <2>1, <2>2
<1>2. CASE ~ \A i \in 1..Len(text) : text[i] < 128
  <2> DEFINE n == Len(text)
             s == [i \in 1..n |-> Utf8Char(text[i])]
  <2>1. n \in Nat /\ \A i \in 1..n : text[i] \in Byte
    OBVIOUS
  <2>2. Utf8(text) = Seqs!FlattenSeq(s)
    BY <1>2 DEF Utf8
  <2>3. \A i \in 1..n : s[i] \in Seq(Byte) /\ Len(s[i]) <= 2
    BY <2>1, CharBytes
  <2>4. s \in [1..n -> Seq(Byte)]
    BY <2>3
  <2> HIDE DEF s
  <2>5. PICK pre : Prefixes(pre, s, n)
    BY <2>1, <2>4, PrefixesExist
  <2>6. /\ pre \in [0..n -> Seq(Byte)] /\ pre[0] = <<>>
        /\ \A i \in 1..n : pre[i] = pre[i - 1] \o s[i]
    BY <2>5 DEF Prefixes
  <2> HIDE DEF n
  <2> DEFINE S == {k \in 0..n : Len(pre[k]) <= 2 * k}
  <2>7. 0 \in S
    BY <2>1, <2>6
  <2>8. ASSUME NEW i \in 1..n, i - 1 \in S PROVE i \in S
    <3>1. i \in 0..n /\ i - 1 \in 0..n /\ Len(pre[i - 1]) <= 2 * (i - 1)
      BY <2>1, <2>8
    <3>2. pre[i - 1] \in Seq(Byte) /\ s[i] \in Seq(Byte) /\ Len(s[i]) <= 2
      BY <2>3, <2>6, <3>1
    <3>3. Len(pre[i]) = Len(pre[i - 1]) + Len(s[i])
      <4> DEFINE a == pre[i - 1]
                 b == s[i]
      <4>1. a \in Seq(Byte) /\ b \in Seq(Byte) /\ pre[i] = a \o b
        BY <2>6, <3>2
      <4> HIDE DEF a, b
      <4>2. Len(a \o b) = Len(a) + Len(b)
        BY <4>1, ConcatProperties
      <4> QED BY <4>1, <4>2 DEF a, b
    <3>4. Len(pre[i - 1]) \in Nat /\ Len(s[i]) \in Nat /\ Len(s[i]) <= 2 /\ i \in Nat
      BY <2>1, <3>2, LenProperties
    <3>5. Len(pre[i]) <= 2 * i
      BY <3>1, <3>3, <3>4, TwoMore
    <3> QED BY <3>1, <3>5
  <2>9. 0..n \subseteq S
    <3> HIDE DEF S
    <3> QED BY <2>1, <2>7, <2>8, Counting
  <2>10. Seqs!FlattenSeq(s) = pre[n]
    BY <2>1, <2>4, <2>5, Flattened
  <2>11. n \in 0..n
    BY <2>1
  <2>12. pre[n] \in Seq(Byte) /\ Len(pre[n]) <= 2 * n
    BY <2>6, <2>9, <2>11
  <2> QED BY <2>2, <2>10, <2>12 DEF n
<1> QED BY <1>1, <1>2
-----------------------------------------------------------------------------
(* Fields.                                                                 *)

\* A text whose UTF-8 bytes can be counted; what a field holds, and what comes out of it
\* again.
IsShort(text)  == text \in Seq(Byte) /\ Len(text) < 65536 * 65536
Stored(value)  == value = Null \/ (value = Some(value[1]) /\ IsShort(value[1]))
Decoded(value) == IF value = Null THEN Null ELSE Some(Utf8(value[1]))

LEMMA TwiceBelow ==
    ASSUME NEW a \in Nat, NEW b \in Nat, a < 65536 * 65536, b <= 2 * a
    PROVE  b < 65536 * 65536 * 65536 * 65536
<1> DEFINE c == 65536 * 65536
           d == c * 65536
<1>1. c \in Nat /\ a < c
  BY SMT
<1> HIDE DEF c
<1>2. d \in Nat /\ 2 * c < d
  BY <1>1, SMT
<1>3. b < d
  BY <1>1, <1>2, SMT
<1> HIDE DEF d
<1>4. d * 65536 \in Nat /\ b < d * 65536
  BY <1>2, <1>3, SMT
<1> QED BY <1>4, SMT DEF c, d

\* The UTF-8 bytes of a text and their number, one of 64 bits.
LEMMA LengthsFit ==
    ASSUME NEW text, IsShort(text)
    PROVE  /\ Utf8(text) \in Seq(Byte) /\ Len(Utf8(text)) \in Nat
           /\ Len(Utf8(text)) < 65536 * 65536 * 65536 * 65536
<1>1. text \in Seq(Byte)
  BY SMT DEF IsShort
<1>2. Len(text) < 65536 * 65536 /\ Len(text) \in Nat
  BY SMT DEF IsShort
<1>3. Utf8(text) \in Seq(Byte) /\ Len(Utf8(text)) <= 2 * Len(text)
  BY <1>1, Utf8Bytes
<1>4. Len(Utf8(text)) \in Nat
  BY <1>3
<1>5. Len(Utf8(text)) < 65536 * 65536 * 65536 * 65536
  <2> DEFINE a == Len(text)
             b == Len(Utf8(text))
  <2>1. a \in Nat /\ b \in Nat /\ a < 65536 * 65536 /\ b <= 2 * a
    BY <1>2, <1>3, <1>4, SMT
  <2> HIDE DEF a, b
  <2>2. b < 65536 * 65536 * 65536 * 65536
    BY <2>1, TwiceBelow, SMT
  <2> QED BY <2>2 DEF b
<1> QED BY <1>3, <1>4, <1>5, SMT

\* What a packet brings is stored, and so is what becomes of it when it is read.
LEMMA TextsStored ==
    ASSUME NEW text, IsText(text)
    PROVE  IsShort(text) /\ IsShort(Utf8(text))
<1>1. text \in Seq(Byte) /\ Len(text) \in Nat /\ Len(text) < 16777216
  BY SMT DEF IsText
<1>2. Utf8(text) \in Seq(Byte) /\ Len(Utf8(text)) <= 2 * Len(text)
  BY <1>1, Utf8Bytes, SMT
<1>3. Len(Utf8(text)) \in Nat
  BY <1>2, SMT
<1>4. Len(text) < 65536 * 65536
  BY <1>1, SMT
<1>5. Len(Utf8(text)) < 65536 * 65536
  BY <1>1, <1>2, <1>3, SMT
<1> QED BY <1>1, <1>2, <1>4, <1>5, SMT DEF IsShort

LEMMA ValuesStored ==
    ASSUME NEW value \in Values
    PROVE  Stored(value) /\ Stored(Decoded(value))
<1>1. value = Null \/ (value = Some(value[1]) /\ IsText(value[1]))
  BY RowOverrideAssumption, Zenon
<1>2. CASE value = Null
  BY <1>2 DEF Stored, Decoded
<1>3. CASE value # Null
  <2>1. value = Some(value[1]) /\ IsText(value[1])
    BY <1>1, <1>3, Zenon
  <2>2. IsShort(value[1]) /\ IsShort(Utf8(value[1]))
    BY <2>1, TextsStored, Zenon
  <2>3. Decoded(value) = Some(Utf8(value[1]))
    BY <1>3 DEF Decoded
  <2>4. Decoded(value)[1] = Utf8(value[1])
    BY <2>3 DEF Some
  <2> QED BY <2>1, <2>2, <2>3, <2>4, Zenon DEF Stored
<1> QED BY <1>2, <1>3

\* A length is never taken for a NULL.
LEMMA HeaderByte ==
    ASSUME NEW v \in Nat, NEW rest \in Seq(Byte)
    PROVE  (IntLenEncode(v) \o rest)[1] # 251
<1> DEFINE bytes == IntLenEncode(v) \o rest
           one   == v < 251
           three == v >= 251 /\ v <= 65535
           four  == v > 65535 /\ v <= 16777215
           nine  == v > 16777215
<1>0. one \/ three \/ four \/ nine
  BY SMT
<1>1. /\ Low(v) \in Byte /\ Low(High(v)) \in Byte /\ Low(High(High(v))) \in Byte
      /\ 252 \in Byte /\ 253 \in Byte /\ 254 \in Byte
  <2>1. Low(v) \in Byte /\ High(v) \in Nat
    BY Halves
  <2>2. Low(High(v)) \in Byte /\ High(High(v)) \in Nat
    BY <2>1, Halves
  <2>3. Low(High(High(v))) \in Byte
    BY <2>2, Halves
  <2> QED BY <2>1, <2>2, <2>3 DEF Byte
<1>2. CASE one
  <2>1. IntLenEncode(v) = <<v>> /\ <<v>> \in Seq(Byte) /\ Len(<<v>>) = 1
    BY <1>2 DEF IntLenEncode, Byte
  <2>2. bytes[1] = v
    BY <2>1, InFirst
  <2> QED BY <1>2, <2>2
<1>3. CASE three
  <2>1. IntLenEncode(v) = <<252>> \o Le2(v) /\ Le2(v) \in Seq(Byte)
    BY <1>1, <1>3 DEF IntLenEncode, Le2
  <2> QED BY <1>1, <2>1, Behind
<1>4. CASE four
  <2>1. IntLenEncode(v) = <<253>> \o Le3(v) /\ Le3(v) \in Seq(Byte)
    BY <1>1, <1>4 DEF IntLenEncode, Le3, Le2
  <2> QED BY <1>1, <2>1, Behind
<1>5. CASE nine
  <2>1. IntLenEncode(v) = <<254>> \o Le8(v) /\ Le8(v) \in Seq(Byte)
    BY <1>5, EightBytes DEF IntLenEncode
  <2> QED BY <1>1, <2>1, Behind
<1> HIDE DEF one, three, four, nine
<1> QED BY <1>0, <1>2, <1>3, <1>4, <1>5, Zenon

\* A text fits in what it was written to.
LEMMA WrittenFits ==
    ASSUME NEW text, IsShort(text), NEW rest \in Seq(Byte)
    PROVE  /\ StringLenEncode(text) \in Seq(Byte) /\ Len(StringLenEncode(text)) > 0
           /\ (StringLenEncode(text) \o rest)[1] # 251
           /\ Fits(StringLenEncode(text) \o rest)
<1> DEFINE u == Utf8(text)
           e == IntLenEncode(Len(u))
           b == e \o (u \o rest)
<1>1. u \in Seq(Byte) /\ Len(u) \in Nat /\ Len(u) < 65536 * 65536 * 65536 * 65536
  BY LengthsFit
<1>2. StringLenEncode(text) = e \o u
  BY DEF StringLenEncode
<1> HIDE DEF u
<1>3. u \o rest \in Seq(Byte) /\ Len(u \o rest) = Len(u) + Len(rest) /\ Len(rest) \in Nat
  BY <1>1, ConcatProperties, LenProperties
<1>4. /\ e \in Seq(Byte) /\ IntLenDecode(b) = [result |-> Len(u), used |-> Len(e)]
      /\ b[1] # 251
  BY <1>1, <1>3, NumbersReadBack, HeaderByte
<1>5. IntLenDecode(b).used \in 1..9
  BY DEF IntLenDecode
<1> HIDE DEF e
<1>6. b \in Seq(Byte) /\ Len(b) = Len(e) + Len(u) + Len(rest) /\ Len(e) \in 1..9
  BY <1>1, <1>3, <1>4, <1>5, ConcatProperties
<1>7. (e \o u) \o rest = b /\ e \o u \in Seq(Byte) /\ Len(e \o u) = Len(e) + Len(u)
  BY <1>1, <1>4, ConcatAssociative, ConcatProperties
<1> HIDE DEF b
<1>8. Fits(b)
  <2>1. IntLenDecode(b).used = CASE b[1] = 252 -> 3 [] b[1] = 253 -> 4
                                 [] b[1] = 254 -> 9 [] OTHER -> 1
    BY DEF IntLenDecode
  <2>2. Len(b) >= IntLenDecode(b).used
    BY <1>1, <1>3, <1>4, <1>6
  <2>3. Len(b) >= IntLenDecode(b).used + IntLenDecode(b).result
    BY <1>1, <1>3, <1>4, <1>6
  <2> QED BY <2>1, <2>2, <2>3 DEF Fits
<1>9. Len(e \o u) > 0
  BY <1>1, <1>6, <1>7
<1> QED BY <1>2, <1>4, <1>7, <1>8, <1>9

\* What is behind a sequence.
LEMMA Rest ==
    ASSUME NEW e \in Seq(Byte), NEW rest \in Seq(Byte)
    PROVE  SubSeq(e \o rest, Len(e) + 1, Len(e \o rest)) = rest
<1>1. <<>> \in Seq(Byte) /\ e \o rest \in Seq(Byte) /\ Len(e \o rest) = Len(e) + Len(rest)
  BY ConcatProperties, EmptySeq
<1>2. SubSeq((e \o rest) \o <<>>, Len(e) + 1, Len(e) + Len(rest)) = rest
  BY <1>1, Between
<1>3. (e \o rest) \o <<>> = e \o rest
  BY <1>1, ConcatEmptySeq
<1> QED BY <1>1, <1>2, <1>3

\* One pass of the loop takes one field.
LEMMA OneField ==
    ASSUME NEW value, Stored(value), NEW rest \in Seq(Byte), NEW fields
    PROVE  /\ EncodeField(value) \in Seq(Byte)
           /\ NextField([fields |-> fields, rest |-> EncodeField(value) \o rest])
                  = [fields |-> Append(fields, Decoded(value)), rest |-> rest]
<1> DEFINE e    == EncodeField(value)
           b    == e \o rest
           read == [fields |-> fields, rest |-> b]
<1>1. CASE value = Null
  <2>1. e = <<251>> /\ e \in Seq(Byte) /\ Len(e) = 1 /\ e[1] = 251
    BY <1>1 DEF EncodeField, Byte
  <2>2. Decoded(value) = Null
    BY <1>1 DEF Decoded
  <2> HIDE DEF e
  <2>3. b \in Seq(Byte) /\ b # <<>> /\ b[1] = 251
    BY <2>1, InFirst, ConcatProperties
  <2>4. Tail(b) = rest
    <3>1. Tail(b) = SubSeq(b, 2, Len(b))
      BY <2>3, TailIsSubSeq
    <3>2. SubSeq(b, Len(e) + 1, Len(b)) = rest
      BY <2>1, Rest
    <3>3. Len(e) + 1 = 2
      BY <2>1
    <3> QED BY <3>1, <3>2, <3>3
  <2> HIDE DEF b
  <2>5. NextField(read) = [fields |-> Append(fields, Null), rest |-> Tail(b)]
    BY <2>3 DEF NextField
  <2> QED BY <2>1, <2>2, <2>4, <2>5 DEF b, e
<1>2. CASE value # Null
  <2> DEFINE text == value[1]
  <2>1. IsShort(text) /\ e = StringLenEncode(text) /\ Decoded(value) = Some(Utf8(text))
    BY <1>2 DEF Stored, EncodeField, Decoded
  <2> HIDE DEF text, e
  <2>2. e \in Seq(Byte) /\ Len(e) > 0 /\ b[1] # 251 /\ Fits(b)
    BY <2>1, WrittenFits
  <2>3. b # <<>>
    BY <2>2, ConcatProperties
  <2>4. StringLenDecode(b) = [result |-> Utf8(text), used |-> Len(e)]
    <3>1. /\ Utf8(text) \in Seq(Byte)
          /\ Len(Utf8(text)) < 65536 * 65536 * 65536 * 65536
      BY <2>1, LengthsFit
    <3> QED BY <2>1, <3>1, TextsReadBack
  <2>5. SubSeq(b, Len(e) + 1, Len(b)) = rest
    BY <2>2, Rest
  <2> HIDE DEF b
  <2>6. NextField(read) = [fields |-> Append(fields, Some(StringLenDecode(b).result)),
                           rest   |-> SubSeq(b, StringLenDecode(b).used + 1, Len(b))]
    BY <2>2, <2>3 DEF NextField
  <2>7. NextField(read) = [fields |-> Append(fields, Decoded(value)), rest |-> rest]
    <3>1. StringLenDecode(b).result = Utf8(text) /\ StringLenDecode(b).used = Len(e)
      BY <2>4
    <3> HIDE DEF read
    <3> QED BY <2>1, <2>5, <2>6, <3>1, Zenon
  <2> QED BY <2>2, <2>7 DEF b, e
<1> QED BY <1>1, <1>2
\* The first fields of a row.
FirstFields(v, k) == [i \in 1..k |-> Decoded(v[i])]

LEMMA FieldAfterField ==
    ASSUME NEW v, NEW k \in Nat \ {0}
    PROVE  Append(FirstFields(v, k - 1), Decoded(v[k])) = FirstFields(v, k)
<1> DEFINE S == {Decoded(v[i]) : i \in 1..k}
           s == FirstFields(v, k - 1)
           t == FirstFields(v, k)
           d == Decoded(v[k])
<1>1. s = [i \in 1..(k - 1) |-> Decoded(v[i])] /\ t = [i \in 1..k |-> Decoded(v[i])]
  BY DEF FirstFields
<1>2. k - 1 \in Nat /\ k \in 1..k /\ \A i \in 1..(k - 1) : i \in 1..k
  OBVIOUS
<1>3. d \in S /\ \A i \in 1..k : Decoded(v[i]) \in S
  BY <1>2
<1> HIDE DEF S, d
<1>4. s \in Seq(S) /\ Len(s) = k - 1 /\ \A i \in 1..(k - 1) : s[i] = Decoded(v[i])
  BY <1>1, <1>2, <1>3
<1>5. t \in Seq(S) /\ Len(t) = k /\ \A i \in 1..k : t[i] = Decoded(v[i])
  BY <1>1, <1>2, <1>3
<1> HIDE DEF s, t
<1>6. /\ Append(s, d) \in Seq(S) /\ Len(Append(s, d)) = Len(s) + 1
      /\ \A i \in 1..Len(s) : Append(s, d)[i] = s[i]
      /\ Append(s, d)[Len(s) + 1] = d
  BY <1>3, <1>4, AppendProperties
<1>7. Len(Append(s, d)) = k /\ Append(s, d)[k] = d
  BY <1>4, <1>6
<1>8. \A i \in 1..k : Append(s, d)[i] = t[i]
  <2>1. ASSUME NEW i \in 1..k PROVE Append(s, d)[i] = t[i]
    <3>1. CASE i = k
      BY <1>5, <1>7, <3>1 DEF d
    <3>2. CASE i # k
      <4>1. i \in 1..(k - 1)
        BY <3>2
      <4> QED BY <1>4, <1>5, <1>6, <4>1
    <3> QED BY <3>1, <3>2
  <2> QED BY <2>1
<1>9. Append(s, d) = t
  BY <1>5, <1>6, <1>7, <1>8, SeqEqual
<1> QED BY <1>9 DEF s, t, d

\* The loop of parse_row reads as many fields as were written, in their order, and what
\* each was written from.
THEOREM WrittenFields ==
    ASSUME NEW n \in Nat, Len(columns) \in Nat, n <= Len(columns),
           NEW v, DOMAIN v = 1..n, \A i \in 1..n : Stored(v[i])
    PROVE  /\ RowBytes(v) \in Seq(Byte)
           /\ Fields(RowBytes(v)) = FirstFields(v, n)
<1> DEFINE s == [i \in 1..n |-> EncodeField(v[i])]
<1>1. \A i \in 1..n : EncodeField(v[i]) \in Seq(Byte)
  BY OneField, EmptySeq
<1>2. s \in [1..n -> Seq(Byte)] /\ \A i \in 1..n : s[i] = EncodeField(v[i])
  BY <1>1
<1>3. RowBytes(v) = Seqs!FlattenSeq(s)
  BY DEF RowBytes
<1> HIDE DEF s
<1>4. PICK suf : Suffixes(suf, s, n)
  BY <1>2, SuffixesExist
<1>5. /\ suf \in [0..n -> Seq(Byte)] /\ suf[n] = <<>>
      /\ \A i \in 1..n : suf[i - 1] = s[i] \o suf[i]
  BY <1>4 DEF Suffixes
<1>6. RowBytes(v) = suf[0]
  BY <1>2, <1>3, <1>4, FlattenedFromBehind
<1> DEFINE m     == Len(columns) + 1
           bytes == RowBytes(v)
           start == [fields |-> <<>>, rest |-> bytes]
           Solves(f) == f = [k \in 0..m |-> IF k = 0 THEN start ELSE NextField(f[k - 1])]
           read == CHOOSE f : Solves(f)
           g    == [k \in 0..m |-> IF k <= n THEN [fields |-> FirstFields(v, k), rest |-> suf[k]]
                                   ELSE [fields |-> FirstFields(v, n), rest |-> <<>>]]
<1>7. Fields(bytes) = read[m].fields
  BY DEF Fields
<1>8. m \in Nat /\ n < m
  OBVIOUS
<1> HIDE DEF m, bytes
<1>9. g[0] = start
  <2>1. FirstFields(v, 0) = <<>>
    BY DEF FirstFields
  <2>2. 0 \in 0..m /\ 0 <= n
    BY <1>8
  <2> QED BY <1>6, <2>1, <2>2 DEF bytes
<1>10. ASSUME NEW k \in 1..m PROVE g[k] = NextField(g[k - 1])
  <2>1. k \in 0..m /\ k - 1 \in 0..m /\ k \in Nat \ {0}
    BY <1>8
  <2>2. CASE k <= n
    <3>1. k \in 1..n /\ k - 1 <= n /\ k \in 0..n
      BY <1>8, <2>1, <2>2
    <3>2. g[k] = [fields |-> FirstFields(v, k), rest |-> suf[k]]
      BY <2>1, <2>2
    <3>3. g[k - 1] = [fields |-> FirstFields(v, k - 1), rest |-> suf[k - 1]]
      BY <2>1, <3>1
    <3>4. suf[k - 1] = EncodeField(v[k]) \o suf[k] /\ suf[k] \in Seq(Byte)
      BY <1>2, <1>5, <3>1
    <3> DEFINE F == FirstFields(v, k - 1)
               r == suf[k]
               x == v[k]
    <3>5. r \in Seq(Byte) /\ Stored(x)
      BY <3>1, <3>4
    <3>6. Append(F, Decoded(x)) = FirstFields(v, k)
      BY <2>1, FieldAfterField
    <3> HIDE DEF g, F, r, x
    <3>7. NextField([fields |-> F, rest |-> EncodeField(x) \o r])
              = [fields |-> Append(F, Decoded(x)), rest |-> r]
      BY <3>5, OneField
    <3>8. g[k - 1] = [fields |-> F, rest |-> EncodeField(x) \o r]
      BY <3>3, <3>4 DEF F, r, x
    <3>9. g[k] = [fields |-> Append(F, Decoded(x)), rest |-> r]
      BY <3>2, <3>6 DEF r
    <3> QED BY <3>7, <3>8, <3>9
  <2>3. CASE k > n
    <3>1. g[k] = [fields |-> FirstFields(v, n), rest |-> <<>>]
      BY <1>8, <2>1, <2>3
    <3>2. g[k - 1] = [fields |-> FirstFields(v, n), rest |-> <<>>]
      <4>1. CASE k - 1 <= n
        <5>1. k - 1 = n
          BY <1>8, <2>1, <2>3, <4>1
        <5>2. g[n] = [fields |-> FirstFields(v, n), rest |-> suf[n]]
          BY <2>1, <5>1
        <5> QED BY <1>5, <5>1, <5>2
      <4>2. CASE ~(k - 1 <= n)
        BY <2>1, <4>2
      <4> QED BY <4>1, <4>2
    <3> HIDE DEF g
    <3>3. NextField(g[k - 1]) = g[k - 1]
      BY <3>2 DEF NextField
    <3> QED BY <3>1, <3>2, <3>3
  <2>4. k <= n \/ k > n
    BY <1>8, <2>1
  <2> QED BY <2>2, <2>3, <2>4
<1>11. Solves(g)
  <2>1. g = [k \in 0..m |-> g[k]]
    OBVIOUS
  <2>2. \A k \in 0..m : g[k] = IF k = 0 THEN start ELSE NextField(g[k - 1])
    <3>1. \A k \in 0..m : k = 0 \/ k \in 1..m
      BY <1>8
    <3> HIDE DEF g
    <3> QED BY <1>9, <1>10, <3>1
  <2> HIDE DEF g, start
  <2> QED BY <2>1, <2>2
<1>12. g[m] = [fields |-> FirstFields(v, n), rest |-> <<>>]
  BY <1>8
<1> HIDE DEF g
<1>13. Solves(read)
  <2> HIDE DEF Solves
  <2> QED BY <1>11
<1> HIDE DEF read, start
<1>14. read[0] = start /\ \A k \in 1..m : read[k] = NextField(read[k - 1])
  <2>1. 0 \in 0..m /\ \A k \in 1..m : k \in 0..m /\ k # 0
    BY <1>8
  <2>2. \A k \in 0..m : read[k] = IF k = 0 THEN start ELSE NextField(read[k - 1])
    BY <1>13
  <2> QED BY <2>1, <2>2
<1>15. \A k \in 0..m : read[k] = g[k]
  <2>1. \A k \in 1..m : read[k - 1] = g[k - 1] => read[k] = g[k]
    BY <1>10, <1>14
  <2>2. m \in Nat /\ SameSteps(read, g, m)
    BY <1>8, <1>9, <1>14, <2>1 DEF SameSteps
  <2>3. Same(read, g, m)
    BY <2>2, Determined
  <2> QED BY <2>3 DEF Same
<1>16. read[m] = g[m]
  BY <1>8, <1>15
<1>17. bytes \in Seq(Byte)
  <2>1. 0 \in 0..n
    OBVIOUS
  <2> QED BY <1>5, <1>6, <2>1 DEF bytes
<1> QED BY <1>7, <1>12, <1>16, <1>17 DEF bytes
-----------------------------------------------------------------------------
(* Rows.                                                                   *)

\* The greatest of a set of places.
LEMMA Greatest ==
    ASSUME NEW n \in Nat, NEW S, S \subseteq 1..n, S # {}
    PROVE  Sets!Max(S) \in S /\ \A y \in S : y <= Sets!Max(S)
<1> DEFINE T == {n - x : x \in S}
<1>1. T \subseteq Nat /\ T # {}
  <2>1. \A x \in S : x \in 1..n
    OBVIOUS
  <2>2. \A x \in 1..n : n - x \in Nat
    OBVIOUS
  <2> QED BY <2>1, <2>2
<1> HIDE DEF T
<1>2. PICK k \in T : \A m \in T : k <= m
  BY <1>1, LeastNatural
<1>3. PICK x \in S : k = n - x
  BY DEF T
<1>4. \A y \in S : x >= y
  <2>1. ASSUME NEW y \in S PROVE x >= y
    <3>1. n - y \in T
      BY DEF T
    <3>2. n - x <= n - y /\ x \in Int /\ y \in Int
      BY <1>2, <1>3, <3>1
    <3> QED BY <3>2
  <2> QED BY <2>1
<1> DEFINE P(z) == \A y \in S : z >= y
           m == CHOOSE z \in S : P(z)
<1>5. m \in S /\ P(m)
  <2> HIDE DEF P
  <2>1. P(x)
    BY <1>4 DEF P
  <2> QED BY <2>1
<1>6. Sets!Max(S) = m
  BY DEF Sets!Max
<1>7. \A y \in S : y <= m
  <2> HIDE DEF m
  <2>1. m \in Int /\ \A y \in S : y \in Int
    BY <1>5
  <2> QED BY <1>5, <2>1
<1> HIDE DEF m
<1> QED BY <1>5, <1>6, <1>7

ColumnsOK == Len(columns) \in Nat \ {0} /\ DOMAIN columns = 1..Len(columns)

\* There are not more names than columns, and as many only if they differ.
LEMMA NamesCounted ==
    ASSUME ColumnsOK
    PROVE  /\ Cardinality(Names(columns)) \in 0..Len(columns)
           /\ Distinct => \A i, j \in 1..Len(columns) : columns[i].name = columns[j].name => i = j
<1> DEFINE n == Len(columns)
           S == 1..n
           T == Names(columns)
           f == [i \in S |-> columns[i].name]
<1>1. n \in Nat \ {0} /\ DOMAIN columns = S
  BY DEF ColumnsOK
<1>2. IsFiniteSet(S) /\ Cardinality(S) = n
  BY <1>1, FS_Interval
<1>3. T = {columns[i].name : i \in S}
  BY <1>1 DEF Names
<1> HIDE DEF n, S, T
<1>4. f \in Surjection(S, T)
  BY <1>3 DEF Surjection
<1>5. \A i \in S : f[i] = columns[i].name
  OBVIOUS
<1> HIDE DEF f
<1>6. /\ IsFiniteSet(T) /\ Cardinality(T) <= Cardinality(S)
      /\ Cardinality(T) = Cardinality(S) <=> f \in Injection(S, T)
  BY <1>2, <1>4, FS_Surjection
<1>7. Cardinality(T) \in Nat
  BY <1>6, FS_CardinalityType
<1>8. Cardinality(T) \in 0..n
  BY <1>1, <1>2, <1>6, <1>7
<1>9. ASSUME Distinct, NEW i \in S, NEW j \in S, columns[i].name = columns[j].name
      PROVE  i = j
  <2>1. f \in Injection(S, T)
    BY <1>2, <1>6, <1>9 DEF Distinct, n, T
  <2>2. f \in [S -> T] /\ \A a, b \in DOMAIN f : f[a] = f[b] => a = b
    BY <2>1 DEF Injection, IsInjective
  <2> QED BY <1>5, <1>9, <2>2
<1> QED BY <1>8, <1>9 DEF n, S, T

\* A value for each name.
RowOK(row) == DOMAIN row = Names(columns) /\ \A c \in Names(columns) : Stored(row[c])

\* The row parse_row makes of what the server sends.
ParsedFrom(row, values) ==
    /\ DOMAIN row = Names(columns)
    /\ \A c \in Names(columns) : \E i \in DOMAIN columns :
           columns[i].name = c /\ row[c] = Decoded(values[i])

LEMMA RowsParsed ==
    ASSUME ColumnsOK, NEW values, DOMAIN values = DOMAIN columns,
           \A i \in DOMAIN columns : Stored(values[i])
    PROVE  /\ RowBytes(values) \in Seq(Byte)
           /\ Fields(RowBytes(values)) = FirstFields(values, Len(columns))
           /\ ~ParsePanics(Fields(RowBytes(values)))
           /\ ParsedFrom(ParseRow(Fields(RowBytes(values))), values)
<1> DEFINE n == Len(columns)
           F == FirstFields(values, n)
<1>1. n \in Nat \ {0} /\ DOMAIN columns = 1..n
  BY DEF ColumnsOK
<1>2. RowBytes(values) \in Seq(Byte) /\ Fields(RowBytes(values)) = F
  BY <1>1, WrittenFields
<1>3. F = [i \in 1..n |-> Decoded(values[i])]
  BY DEF FirstFields
<1>4. DOMAIN F = 1..n /\ Len(F) = n /\ \A i \in 1..n : F[i] = Decoded(values[i])
  BY <1>1, <1>3
<1> HIDE DEF F, n
<1>5. ~ParsePanics(F)
  <2>1. \A value : Decoded(value) # Undecodable
    BY DEF Decoded, Undecodable, Null, Some
  <2>2. ~(Len(F) > Len(columns))
    BY <1>1, <1>4 DEF n
  <2> QED BY <1>4, <2>1, <2>2 DEF ParsePanics
<1>6. ParsedFrom(ParseRow(F), values)
  <2> DEFINE named(c) == {i \in DOMAIN F : columns[i].name = c}
             row == ParseRow(F)
  <2>1. row = [c \in Names(columns) |-> F[Sets!Max(named(c))]]
    BY <1>1, <1>4 DEF ParseRow, Names
  <2>2. ASSUME NEW c \in Names(columns)
        PROVE  \E i \in DOMAIN columns : columns[i].name = c /\ row[c] = Decoded(values[i])
    <3> DEFINE S == named(c)
    <3>1. S \subseteq 1..n /\ S # {}
      BY <1>1, <1>4 DEF Names
    <3>2. row[c] = F[Sets!Max(S)]
      BY <2>1
    <3>3. \A i \in S : i \in DOMAIN columns /\ columns[i].name = c /\ i \in 1..n
      BY <1>1, <1>4
    <3> HIDE DEF S, named
    <3>4. Sets!Max(S) \in S
      BY <1>1, <3>1, Greatest
    <3> QED BY <1>4, <3>2, <3>3, <3>4
  <2> QED BY <2>1, <2>2 DEF ParsedFrom
<1> QED BY <1>2, <1>5, <1>6 DEF n, F

\* What an update sets is stored.
LEMMA Assignments ==
    ASSUME NEW u \in Updates, NEW c \in DOMAIN u.set
    PROVE  Stored(Assigned(u.set[c]))
<1>1. IsText(u.set[c].text)
  BY RowOverrideAssumption, Zenon
<1>2. IsShort(u.set[c].text)
  BY <1>1, TextsStored, Zenon
<1> DEFINE text == u.set[c].text
<1>3. Assigned(u.set[c]) = Some(text) \/ Assigned(u.set[c]) = Null
  BY DEF Assigned
<1> HIDE DEF text
<1>4. Stored(Some(text)) /\ Stored(Null)
  BY <1>2 DEF Stored, Some, text
<1> QED BY <1>3, <1>4

\* Rewriting keeps the columns.
LEMMA RewrittenOK ==
    ASSUME live \in Seq(Updates), NEW row, RowOK(row)
    PROVE  RowOK(Rewritten(row))
<1> DEFINE new     == Applied(row)
           visited == {columns[i].name : i \in 1..Cardinality(DOMAIN row)}
<1>1. Rewritten(row) =
          [n \in DOMAIN row |-> IF n \in visited \cap DOMAIN new THEN Assigned(new[n]) ELSE row[n]]
  BY DEF Rewritten
<1>2. ASSUME NEW c \in DOMAIN new PROVE Stored(Assigned(new[c]))
  <2> DEFINE M == Matching(row)
             k == Sets!Max(M)
  <2>1. Len(live) \in Nat /\ M \subseteq 1..Len(live)
    <3>1. Len(live) \in Nat /\ DOMAIN live = 1..Len(live)
      BY LenProperties
    <3>2. M \subseteq DOMAIN live
      BY Zenon DEF Matching, Found
    <3> QED BY <3>1, <3>2
  <2>2. CASE M = {}
    <3>1. new = <<>>
      BY <2>2 DEF Applied
    <3> QED BY <1>2, <3>1
  <2>3. CASE M # {}
    <3>1. new = live[k].set
      BY <2>3 DEF Applied
    <3>2. k \in M
      <4> HIDE DEF M
      <4> QED BY <2>1, <2>3, Greatest
    <3>3. live[k] \in Updates
      <4> HIDE DEF M, k
      <4> QED BY <2>1, <3>2
    <3> HIDE DEF new, k, M
    <3> QED BY <1>2, <3>1, <3>3, Assignments
  <2> QED BY <2>2, <2>3
<1> HIDE DEF new, visited
<1> QED BY <1>1, <1>2 DEF RowOK

\* The row that is passed on has its fields, all of them if the names differ.
LEMMA Bodies ==
    ASSUME ColumnsOK, NEW row, RowOK(row)
    PROVE  /\ Body(row) \in Seq(Byte)
           /\ Distinct => \E v : Fields(Body(row)) = FirstFields(v, Len(columns))
<1> DEFINE n == Cardinality(Names(columns))
           v == [i \in 1..n |-> row[columns[i].name]]
<1>1. Len(columns) \in Nat \ {0} /\ DOMAIN columns = 1..Len(columns) /\ n \in 0..Len(columns)
  BY NamesCounted DEF ColumnsOK
<1>2. Body(row) = RowBytes(v)
  BY DEF Body, RowOK
<1>3. Distinct => n = Len(columns)
  BY DEF Distinct
<1> HIDE DEF n
<1>4. ASSUME NEW i \in 1..n PROVE Stored(v[i])
  <2>1. i \in DOMAIN columns
    BY <1>1
  <2>2. columns[i].name \in Names(columns)
    BY <2>1 DEF Names
  <2> QED BY <2>2 DEF RowOK
<1>5. DOMAIN v = 1..n /\ n \in Nat /\ n <= Len(columns) /\ Len(columns) \in Nat
  BY <1>1
<1> HIDE DEF v
<1>6. RowBytes(v) \in Seq(Byte) /\ Fields(RowBytes(v)) = FirstFields(v, n)
  BY <1>4, <1>5, WrittenFields
<1> QED BY <1>2, <1>3, <1>6
-----------------------------------------------------------------------------
(* Expressions.                                                            *)

\* The nodes with operands, one by one.
LEMMA NodeCases ==
    ASSUME NEW row, NEW node, NEW f
    PROVE  /\ node.op \in Conjunctions =>
                  NodeValue(row, node, f) = Conjunction(node.op, f[node.left], f[node.right])
           /\ node.op \in Comparisons =>
                  NodeValue(row, node, f) = Condition(node.op, f[node.left], f[node.right])
<1> DEFINE left  == f[node.left]
           right == f[node.right]
           con   == Conjunction(node.op, left, right)
           cond  == Condition(node.op, left, right)
<1>1. CASE node.op \in Conjunctions
  <2>1. node.op \notin Comparisons
    BY <1>1 DEF Conjunctions, Comparisons
  <2> HIDE DEF con, cond
  <2>2. NodeValue(row, node, f) = con
    <3>1. /\ node.op # "arithmetic" /\ node.op # "value" /\ node.op # "column"
          /\ node.op \notin Tests /\ node.op # "nested" /\ node.op # "other"
      BY <1>1 DEF Conjunctions, Tests
    <3> QED BY <1>1, <2>1, <3>1 DEF NodeValue, con
  <2> QED BY <2>1, <2>2 DEF con
<1>2. CASE node.op \in Comparisons
  <2>1. node.op \notin Conjunctions
    BY <1>2 DEF Conjunctions, Comparisons
  <2> HIDE DEF con, cond
  <2>2. NodeValue(row, node, f) = cond
    <3>1. /\ node.op # "arithmetic" /\ node.op # "value" /\ node.op # "column"
          /\ node.op \notin Tests /\ node.op # "nested" /\ node.op # "other"
      BY <1>2 DEF Comparisons, Tests
    <3> QED BY <1>2, <2>1, <3>1 DEF NodeValue, cond
  <2> QED BY <2>1, <2>2 DEF cond
<1> QED BY <1>1, <1>2

\* A node is worth what those in front of it make it.
LEMMA NodeAgree ==
    ASSUME NEW row, NEW node, NEW i \in Nat, IsNode(node, i), NEW f, NEW g,
           \A j \in 1..(i - 1) : f[j] = g[j]
    PROVE  NodeValue(row, node, f) = NodeValue(row, node, g)
<1>1. CASE node.op \in Conjunctions
  <2>1. node.left \in 1..(i - 1) /\ node.right \in 1..(i - 1)
    BY <1>1 DEF IsNode, IsLiteral, Conjunctions, Tests
  <2>2. f[node.left] = g[node.left] /\ f[node.right] = g[node.right]
    BY <2>1
  <2> QED BY <1>1, <2>2, NodeCases
<1>2. CASE node.op \in Comparisons
  <2>1. node.left \in 1..(i - 1) /\ node.right \in 1..(i - 1)
    BY <1>2 DEF IsNode, IsLiteral, Comparisons, Tests
  <2>2. f[node.left] = g[node.left] /\ f[node.right] = g[node.right]
    BY <2>1
  <2> QED BY <1>2, <2>2, NodeCases
<1>3. CASE node.op \in Tests \cup {"nested"}
  <2>1. node.expr \in 1..(i - 1)
    BY <1>3 DEF IsNode, IsLiteral, Conjunctions, Comparisons, Tests
  <2> QED BY <1>3, <2>1 DEF NodeValue, Comparisons, Conjunctions, Tests
<1>4. CASE node.op \in {"column", "arithmetic", "other", "value"}
  BY <1>4 DEF NodeValue, Comparisons, Conjunctions, Tests
<1> QED BY <1>1, <1>2, <1>3, <1>4 DEF IsNode, IsLiteral

\* The values of the nodes.
AllValues(row, expr, n, f) == f = [i \in 1..n |-> NodeValue(row, expr[i], f)]

LEMMA ValuesExist ==
    ASSUME NEW row, NEW expr, IsExpression(expr)
    PROVE  \E f : AllValues(row, expr, Len(expr), f)
<1> DEFINE n == Len(expr)
           S == {k \in 0..n : \E f : AllValues(row, expr, k, f)}
<1>1. n \in Nat /\ \A i \in 1..n : IsNode(expr[i], i)
  BY DEF IsExpression
<1> HIDE DEF n
<1>2. 0 \in S
  <2> DEFINE h == [i \in 1..0 |-> <<>>]
  <2>1. h = [i \in 1..0 |-> NodeValue(row, expr[i], h)]
    OBVIOUS
  <2> HIDE DEF h
  <2>2. AllValues(row, expr, 0, h)
    BY <2>1 DEF AllValues
  <2> QED BY <1>1, <2>2
<1>3. ASSUME NEW k \in 1..n, k - 1 \in S PROVE k \in S
  <2>1. PICK g : AllValues(row, expr, k - 1, g)
    BY <1>3
  <2> HIDE DEF S
  <2> DEFINE last == NodeValue(row, expr[k], g)
             h    == [i \in 1..k |-> IF i = k THEN last ELSE g[i]]
  <2>2. \A i \in 1..(k - 1) : g[i] = NodeValue(row, expr[i], g)
    BY <2>1 DEF AllValues
  <2>3. k \in Nat /\ \A i \in 1..k : i = k \/ i \in 1..(k - 1)
    BY <1>1
  <2>4. \A i \in 1..(k - 1) : h[i] = g[i]
    BY <2>3
  <2>5. h[k] = last
    BY <1>1
  <2>6. h = [i \in 1..k |-> h[i]]
    OBVIOUS
  <2> HIDE DEF h
  <2>7. ASSUME NEW i \in 1..k PROVE h[i] = NodeValue(row, expr[i], h)
    <3>1. i \in Nat /\ IsNode(expr[i], i) /\ \A j \in 1..(i - 1) : j \in 1..(k - 1)
      BY <1>1, <2>3
    <3>2. \A j \in 1..(i - 1) : h[j] = g[j]
      BY <2>4, <3>1
    <3>3. NodeValue(row, expr[i], h) = NodeValue(row, expr[i], g)
      BY <3>1, <3>2, NodeAgree
    <3> QED BY <2>2, <2>3, <2>4, <2>5, <3>3
  <2>8. AllValues(row, expr, k, h)
    BY <2>6, <2>7 DEF AllValues
  <2> QED BY <1>1, <2>8 DEF S
<1>4. 0..n \subseteq S
  <2> HIDE DEF S
  <2> QED BY <1>1, <1>2, <1>3, Counting
<1>5. n \in S
  BY <1>1, <1>4
<1> QED BY <1>5 DEF n

\* What evaluate returns is the value of the root.
Valued(row, expr, f) ==
    /\ \A i \in 1..Len(expr) : f[i] = NodeValue(row, expr[i], f)
    /\ Evaluate(row, expr) = f[Len(expr)]

LEMMA Evaluated ==
    ASSUME NEW row, NEW expr, IsExpression(expr)
    PROVE  \E f : Valued(row, expr, f)
<1> DEFINE n == Len(expr)
           f == CHOOSE g : AllValues(row, expr, n, g)
<1>1. Evaluate(row, expr) = f[n]
  BY DEF Evaluate, AllValues
<1>2. AllValues(row, expr, n, f)
  BY ValuesExist
<1> HIDE DEF f
<1>3. \A i \in 1..n : f[i] = NodeValue(row, expr[i], f)
  BY <1>2 DEF AllValues
<1>4. Valued(row, expr, f)
  BY <1>1, <1>3 DEF Valued
<1> QED BY <1>4

\* The same for the truth of conditions.
LEMMA TruthAgree ==
    ASSUME NEW row, NEW expr, NEW node, NEW i \in Nat, IsNode(node, i), NEW f, NEW g,
           \A j \in 1..(i - 1) : f[j] = g[j]
    PROVE  NodeTruth(row, expr, node, f) = NodeTruth(row, expr, node, g)
<1>1. CASE node.op \in Conjunctions
  <2>1. node.left \in 1..(i - 1) /\ node.right \in 1..(i - 1)
    BY <1>1 DEF IsNode, IsLiteral, Conjunctions, Tests
  <2> QED BY <1>1, <2>1 DEF NodeTruth, Conjunctions
<1>2. CASE node.op = "nested"
  <2>1. node.expr \in 1..(i - 1)
    BY <1>2 DEF IsNode, IsLiteral, Conjunctions, Comparisons, Tests
  <2> QED BY <1>2, <2>1 DEF NodeTruth
<1>3. CASE node.op \notin Conjunctions \cup {"nested"}
  <2>1. node.op # "and" /\ node.op # "or" /\ node.op # "nested"
    BY <1>3 DEF Conjunctions
  <2> QED BY <2>1 DEF NodeTruth
<1> QED BY <1>1, <1>2, <1>3

AllTruths(row, expr, n, f) == f = [i \in 1..n |-> NodeTruth(row, expr, expr[i], f)]

LEMMA TruthsExist ==
    ASSUME NEW row, NEW expr, IsExpression(expr)
    PROVE  \E f : AllTruths(row, expr, Len(expr), f)
<1> DEFINE n == Len(expr)
           S == {k \in 0..n : \E f : AllTruths(row, expr, k, f)}
<1>1. n \in Nat /\ \A i \in 1..n : IsNode(expr[i], i)
  BY DEF IsExpression
<1> HIDE DEF n
<1>2. 0 \in S
  <2> DEFINE h == [i \in 1..0 |-> <<>>]
  <2>1. h = [i \in 1..0 |-> NodeTruth(row, expr, expr[i], h)]
    OBVIOUS
  <2> HIDE DEF h
  <2>2. AllTruths(row, expr, 0, h)
    BY <2>1 DEF AllTruths
  <2> QED BY <1>1, <2>2
<1>3. ASSUME NEW k \in 1..n, k - 1 \in S PROVE k \in S
  <2>1. PICK g : AllTruths(row, expr, k - 1, g)
    BY <1>3
  <2> HIDE DEF S
  <2> DEFINE last == NodeTruth(row, expr, expr[k], g)
             h    == [i \in 1..k |-> IF i = k THEN last ELSE g[i]]
  <2>2. \A i \in 1..(k - 1) : g[i] = NodeTruth(row, expr, expr[i], g)
    BY <2>1 DEF AllTruths
  <2>3. k \in Nat /\ \A i \in 1..k : i = k \/ i \in 1..(k - 1)
    BY <1>1
  <2>4. \A i \in 1..(k - 1) : h[i] = g[i]
    BY <2>3
  <2>5. h[k] = last
    BY <1>1
  <2>6. h = [i \in 1..k |-> h[i]]
    OBVIOUS
  <2> HIDE DEF h
  <2>7. ASSUME NEW i \in 1..k PROVE h[i] = NodeTruth(row, expr, expr[i], h)
    <3>1. i \in Nat /\ IsNode(expr[i], i) /\ \A j \in 1..(i - 1) : j \in 1..(k - 1)
      BY <1>1, <2>3
    <3>2. \A j \in 1..(i - 1) : h[j] = g[j]
      BY <2>4, <3>1
    <3>3. NodeTruth(row, expr, expr[i], h) = NodeTruth(row, expr, expr[i], g)
      BY <3>1, <3>2, TruthAgree
    <3> QED BY <2>2, <2>3, <2>4, <2>5, <3>3
  <2>8. AllTruths(row, expr, k, h)
    BY <2>6, <2>7 DEF AllTruths
  <2> QED BY <1>1, <2>8 DEF S
<1>4. 0..n \subseteq S
  <2> HIDE DEF S
  <2> QED BY <1>1, <1>2, <1>3, Counting
<1>5. n \in S
  BY <1>1, <1>4
<1> QED BY <1>5 DEF n

Judges(row, expr, f) ==
    /\ \A i \in 1..Len(expr) : f[i] = NodeTruth(row, expr, expr[i], f)
    /\ SqlTruth(row, expr) = f[Len(expr)]

LEMMA TruthsJudge ==
    ASSUME NEW row, NEW expr, IsExpression(expr)
    PROVE  \E f : Judges(row, expr, f)
<1> DEFINE n == Len(expr)
           f == CHOOSE g : AllTruths(row, expr, n, g)
<1>1. SqlTruth(row, expr) = f[n]
  BY DEF SqlTruth, AllTruths
<1>2. AllTruths(row, expr, n, f)
  BY TruthsExist
<1> HIDE DEF f
<1>3. \A i \in 1..n : f[i] = NodeTruth(row, expr, expr[i], f)
  BY <1>2 DEF AllTruths
<1>4. Judges(row, expr, f)
  BY <1>1, <1>3 DEF Judges
<1> QED BY <1>4
\* What IS NULL and IS NOT NULL make of their operand.
TestValue(op, r) ==
    IF Fails(r) THEN r
    ELSE IF r.type = "boolean" THEN Boolean(FALSE)
    ELSE Boolean((r.value = Null) = (op = "isNull"))

LEMMA OtherCases ==
    ASSUME NEW row, NEW node, NEW f
    PROVE  /\ node.op \in Tests => NodeValue(row, node, f) = TestValue(node.op, f[node.expr])
           /\ node.op = "nested" => NodeValue(row, node, f) = f[node.expr]
           /\ node.op = "value" => NodeValue(row, node, f) = Value(node)
           /\ node.op = "column" /\ node.name \in DOMAIN row =>
                  NodeValue(row, node, f) = Text(row[node.name])
<1>1. node.op \in Tests => NodeValue(row, node, f) = TestValue(node.op, f[node.expr])
  <2>1. SUFFICES ASSUME node.op \in Tests
                 PROVE  NodeValue(row, node, f) = TestValue(node.op, f[node.expr])
    OBVIOUS
  <2>2. /\ node.op \notin Conjunctions /\ node.op \notin Comparisons
        /\ node.op # "arithmetic" /\ node.op # "value" /\ node.op # "column"
        /\ node.op # "nested" /\ node.op # "other"
    BY <2>1 DEF Tests, Conjunctions, Comparisons
  <2>3. NodeValue(row, node, f) =
            LET r == f[node.expr] IN
            IF Fails(r) THEN r
            ELSE IF r.type = "boolean" THEN Boolean(FALSE)
            ELSE Boolean((r.value = Null) = (node.op = "isNull"))
    BY <2>1, <2>2 DEF NodeValue
  <2> QED BY <2>3 DEF TestValue
<1>2. node.op = "nested" => NodeValue(row, node, f) = f[node.expr]
  BY DEF NodeValue, Tests, Conjunctions, Comparisons
<1>3. node.op = "value" => NodeValue(row, node, f) = Value(node)
  BY DEF NodeValue, Tests, Conjunctions, Comparisons
<1>4. node.op = "column" /\ node.name \in DOMAIN row =>
          NodeValue(row, node, f) = Text(row[node.name])
  BY DEF NodeValue, Tests, Conjunctions, Comparisons
<1> QED BY <1>1, <1>2, <1>3, <1>4

IsTruthValue(r) == r = Boolean(TRUE) \/ r = Boolean(FALSE)

LEMMA FormulaJudged ==
    ASSUME NEW b \in BOOLEAN
    PROVE  IsTruthValue(Boolean(b)) /\ ~Fails(Boolean(b))
BY DEF IsTruthValue, Boolean, Fails

\* AND and OR of two truth values.
LEMMA ConjunctionJudged ==
    ASSUME NEW a \in BOOLEAN, NEW b \in BOOLEAN
    PROVE  /\ Conjunction("and", Boolean(a), Boolean(b)) = Boolean(a /\ b)
           /\ Conjunction("or", Boolean(a), Boolean(b)) = Boolean(a \/ b)
BY DEF Conjunction, Boolean, Fails, IsTrue, IsFalse

LEMMA ConjunctionTruth ==
    ASSUME NEW op \in Conjunctions, NEW left, NEW right, IsTruthValue(left), IsTruthValue(right)
    PROVE  IsTruthValue(Conjunction(op, left, right))
<1>1. PICK a \in BOOLEAN : left = Boolean(a)
  BY DEF IsTruthValue
<1>2. PICK b \in BOOLEAN : right = Boolean(b)
  BY DEF IsTruthValue
<1>3. op = "and" \/ op = "or"
  BY DEF Conjunctions
<1>4. (a /\ b) \in BOOLEAN /\ (a \/ b) \in BOOLEAN
  OBVIOUS
<1>5. IsTruthValue(Boolean(a /\ b)) /\ IsTruthValue(Boolean(a \/ b))
  BY <1>4, FormulaJudged
<1> QED BY <1>1, <1>2, <1>3, <1>5, ConjunctionJudged

\* A comparison of what is not a failure is true or false.
LEMMA ComparisonTruth ==
    ASSUME NEW op \in Comparisons, NEW left, NEW right, ~Fails(left), ~Fails(right)
    PROVE  IsTruthValue(Condition(op, left, right))
<1>1. op \in {"=", "<>", "<", "<=", ">", ">="}
  BY DEF Comparisons
<1> DEFINE same == left.type = right.type
           eq   == IF same THEN left.value = right.value ELSE FALSE
           ne   == IF same THEN left.value # right.value ELSE TRUE
           ord  == Ordered(op, left.value[1], right.value[1])
<1>2. CASE op = "="
  <2>1. Condition(op, left, right) = Boolean(eq) /\ eq \in BOOLEAN
    BY <1>2 DEF Condition
  <2> QED BY <2>1, FormulaJudged
<1>3. CASE op = "<>"
  <2>1. Condition(op, left, right) = Boolean(ne) /\ ne \in BOOLEAN
    BY <1>3 DEF Condition
  <2> QED BY <2>1, FormulaJudged
<1>4. CASE op # "=" /\ op # "<>"
  <2>1. ord \in BOOLEAN
    <3>1. \A s, t : Before(s, t) \in BOOLEAN
      BY DEF Before
    <3> QED BY <1>1, <1>4, <3>1 DEF Ordered
  <2>2. \/ Condition(op, left, right) = Boolean(FALSE)
        \/ Condition(op, left, right) = Boolean(ord)
    BY <1>4 DEF Condition
  <2> QED BY <2>1, <2>2, FormulaJudged DEF IsTruthValue
<1> QED BY <1>2, <1>3, <1>4

\* What an operand of a comparison is worth.
LEMMA OperandFails ==
    ASSUME NEW row, NEW node, NEW f, node.op \in {"column", "value"},
           node.op = "column" => node.name \in DOMAIN row,
           node.op = "value" => IsLiteral(node)
    PROVE  ~Fails(NodeValue(row, node, f))
<1>1. CASE node.op = "column"
  <2>1. NodeValue(row, node, f) = Text(row[node.name])
    BY <1>1, OtherCases
  <2> QED BY <2>1 DEF Text, Fails
<1>2. CASE node.op = "value"
  <2>1. NodeValue(row, node, f) = Value(node)
    BY <1>2, OtherCases
  <2>2. node.kind \in {"boolean", "null", "string", "number"}
    BY <1>2 DEF IsLiteral
  <2>3. Value(node).type \in {"boolean", "text"}
    BY <2>2 DEF Value, Boolean, Text
  <2> QED BY <2>1, <2>3 DEF Fails
<1> QED BY <1>1, <1>2

\* What is known of the nodes of a supported expression over a row's columns.
LEMMA NodesKnown ==
    ASSUME NEW expr, IsExpression(expr), Supported(expr), NEW cols, Mentions(expr) \subseteq cols,
           NEW i \in 1..Len(expr)
    PROVE  /\ i \in DOMAIN expr /\ IsNode(expr[i], i)
           /\ expr[i].op = "column" => expr[i].name \in cols
           /\ expr[i].op = "value" => IsLiteral(expr[i])
           /\ expr[i].op \in Conjunctions \cup Comparisons =>
                  expr[i].left \in 1..(i - 1) /\ expr[i].right \in 1..(i - 1)
           /\ expr[i].op \in Tests \cup {"nested"} => expr[i].expr \in 1..(i - 1)
           /\ expr[i].op \in Conjunctions =>
                  IsCondition(expr[expr[i].left]) /\ IsCondition(expr[expr[i].right])
           /\ expr[i].op = "nested" => IsCondition(expr[expr[i].expr])
           /\ expr[i].op \in Tests => expr[expr[i].expr].op = "column"
           /\ expr[i].op \in Comparisons =>
                  /\ expr[expr[i].left].op \in {"column", "value"}
                  /\ expr[expr[i].right].op \in {"column", "value"}
<1>1. i \in DOMAIN expr /\ IsNode(expr[i], i)
  BY DEF IsExpression
<1>2. expr[i].op = "column" => expr[i].name \in cols
  BY <1>1 DEF Mentions
<1> DEFINE node == expr[i]
<1>3. /\ node.op \in Conjunctions => IsCondition(expr[node.left]) /\ IsCondition(expr[node.right])
      /\ node.op = "nested" => IsCondition(expr[node.expr])
      /\ node.op \in Tests => expr[node.expr].op = "column"
      /\ node.op \in Comparisons =>
             {expr[node.left].op, expr[node.right].op} \subseteq {"column", "value"}
  BY <1>1 DEF Supported
<1>4. /\ node.op = "value" => IsLiteral(node)
      /\ node.op \in Conjunctions \cup Comparisons =>
             node.left \in 1..(i - 1) /\ node.right \in 1..(i - 1)
      /\ node.op \in Tests \cup {"nested"} => node.expr \in 1..(i - 1)
  <2> HIDE DEF node
  <2>1. IsNode(node, i)
    BY <1>1 DEF node
  <2> QED BY <2>1 DEF IsNode, IsLiteral, Conjunctions, Comparisons, Tests
<1> QED BY <1>1, <1>2, <1>3, <1>4

\* A condition on columns of the row is true or false, whatever the row holds.
LEMMA ConditionsJudged ==
    ASSUME NEW expr, IsExpression(expr), Supported(expr), NEW row,
           Mentions(expr) \subseteq DOMAIN row
    PROVE  IsTruthValue(Evaluate(row, expr))
<1>1. PICK f : Valued(row, expr, f)
  BY Evaluated
<1> DEFINE n == Len(expr)
           S == {i \in 1..n : IsCondition(expr[i]) => IsTruthValue(f[i])}
<1>2. n \in Nat \ {0}
  BY DEF IsExpression
<1>3. ASSUME NEW i \in 1..n, 1..(i - 1) \subseteq S PROVE i \in S
  <2> DEFINE node == expr[i]
  <2>1. f[i] = NodeValue(row, node, f)
    BY <1>1 DEF Valued
  <2>2. SUFFICES ASSUME IsCondition(node) PROVE IsTruthValue(f[i])
    OBVIOUS
  <2>3. \A j \in 1..(i - 1) : j \in 1..n /\ (IsCondition(expr[j]) => IsTruthValue(f[j]))
    BY <1>3
  <2>4. \A j \in 1..n : expr[j].op \in {"column", "value"} => ~Fails(f[j])
    <3>1. SUFFICES ASSUME NEW j \in 1..n, expr[j].op \in {"column", "value"}
                   PROVE  ~Fails(f[j])
      OBVIOUS
    <3>2. f[j] = NodeValue(row, expr[j], f)
      BY <1>1 DEF Valued
    <3>3. /\ expr[j].op = "column" => expr[j].name \in DOMAIN row
          /\ expr[j].op = "value" => IsLiteral(expr[j])
      BY NodesKnown
    <3> QED BY <3>1, <3>2, <3>3, OperandFails
  <2>5. CASE node.op \in Conjunctions
    <3>1. /\ node.left \in 1..(i - 1) /\ IsCondition(expr[node.left])
          /\ node.right \in 1..(i - 1) /\ IsCondition(expr[node.right])
      BY <2>5, NodesKnown
    <3>2. IsTruthValue(f[node.left]) /\ IsTruthValue(f[node.right])
      BY <2>3, <3>1
    <3>3. f[i] = Conjunction(node.op, f[node.left], f[node.right])
      BY <2>1, <2>5, NodeCases
    <3> QED BY <2>5, <3>2, <3>3, ConjunctionTruth
  <2>6. CASE node.op \in Comparisons
    <3>1. /\ node.left \in 1..(i - 1) /\ expr[node.left].op \in {"column", "value"}
          /\ node.right \in 1..(i - 1) /\ expr[node.right].op \in {"column", "value"}
      BY <2>6, NodesKnown
    <3>2. ~Fails(f[node.left]) /\ ~Fails(f[node.right])
      BY <2>3, <2>4, <3>1
    <3>3. f[i] = Condition(node.op, f[node.left], f[node.right])
      BY <2>1, <2>6, NodeCases
    <3> QED BY <2>6, <3>2, <3>3, ComparisonTruth
  <2>7. CASE node.op \in Tests
    <3>1. node.expr \in 1..(i - 1) /\ expr[node.expr].op = "column"
      BY <2>7, NodesKnown
    <3>2. ~Fails(f[node.expr])
      BY <2>3, <2>4, <3>1
    <3>3. f[i] = TestValue(node.op, f[node.expr])
      BY <2>1, <2>7, OtherCases
    <3> DEFINE r == f[node.expr]
               b == (r.value = Null) = (node.op = "isNull")
    <3>4. f[i] = Boolean(FALSE) \/ f[i] = Boolean(b)
      BY <3>2, <3>3 DEF TestValue
    <3>5. b \in BOOLEAN
      OBVIOUS
    <3> QED BY <3>4, <3>5, FormulaJudged DEF IsTruthValue
  <2>8. CASE node.op = "nested"
    <3>1. node.expr \in 1..(i - 1) /\ IsCondition(expr[node.expr])
      BY <2>8, NodesKnown
    <3>2. f[i] = f[node.expr]
      BY <2>1, <2>8, OtherCases
    <3> QED BY <2>3, <3>1, <3>2
  <2> QED BY <2>2, <2>5, <2>6, <2>7, <2>8 DEF IsCondition
<1>4. 1..n \subseteq S
  <2> HIDE DEF S, n
  <2> QED BY <1>2, <1>3, Course
<1>5. n \in S /\ IsCondition(expr[n])
  BY <1>2, <1>4 DEF Supported
<1>6. Evaluate(row, expr) = f[n]
  BY <1>1 DEF Valued
<1> QED BY <1>5, <1>6

\* A row whose columns hold a text or NULL.
Holding(row, cols) == \A c \in cols : row[c] = Null \/ row[c] = Some(row[c][1])

IsThird(t) == t \in {"true", "false", "unknown"}

\* What evaluation makes of a node, and what SQL does.
Agrees(r, t) == IsThird(t) /\ r = Boolean(t = "true")

LEMMA ConjunctionAgrees ==
    ASSUME NEW r, NEW s, NEW t, NEW u, Agrees(r, t), Agrees(s, u)
    PROVE  /\ Agrees(Conjunction("and", r, s), SqlAnd(t, u))
           /\ Agrees(Conjunction("or", r, s), SqlOr(t, u))
<1> DEFINE a == t = "true"
           b == u = "true"
<1>1. a \in BOOLEAN /\ b \in BOOLEAN /\ r = Boolean(a) /\ s = Boolean(b)
  BY DEF Agrees
<1>2. IsThird(t) /\ IsThird(u)
  BY DEF Agrees
<1>3. IsThird(SqlAnd(t, u)) /\ (SqlAnd(t, u) = "true" <=> a /\ b)
  BY <1>2 DEF IsThird, SqlAnd
<1>4. IsThird(SqlOr(t, u)) /\ (SqlOr(t, u) = "true" <=> a \/ b)
  BY <1>2 DEF IsThird, SqlOr, SqlAnd, SqlNot
<1>5. (SqlAnd(t, u) = "true") = (a /\ b) /\ (SqlOr(t, u) = "true") = (a \/ b)
  BY <1>3, <1>4
<1> HIDE DEF a, b
<1>6. /\ Conjunction("and", r, s) = Boolean(a /\ b)
      /\ Conjunction("or", r, s) = Boolean(a \/ b)
  BY <1>1, ConjunctionJudged
<1> QED BY <1>3, <1>4, <1>5, <1>6 DEF Agrees

\* Two texts or NULLs, compared: where evaluation says TRUE of a NULL, SQL does not, so
\* those are excluded.
LEMMA ComparisonAgrees ==
    ASSUME NEW op \in Comparisons, NEW v, NEW w,
           v = Null \/ v = Some(v[1]), w = Null \/ w = Some(w[1]),
           op = "=" => v # Null \/ w # Null, op = "<>" => v # Null /\ w # Null
    PROVE  Agrees(Condition(op, Text(v), Text(w)), SqlCompare(op, v, w))
<1>1. /\ Text(v).type = Text(w).type /\ Text(v).type = "text"
      /\ Text(v).value = v /\ Text(w).value = w
      /\ ~Fails(Text(v)) /\ ~Fails(Text(w))
  BY DEF Text, Fails
<1>2. \A b \in BOOLEAN : Agrees(Boolean(b), Truth(b))
  BY DEF Agrees, Truth, IsThird
<1>3. CASE op = "="
  <2>1. Condition(op, Text(v), Text(w)) = Boolean(v = w)
    BY <1>1, <1>3 DEF Condition
  <2>2. CASE v = Null \/ w = Null
    <3>1. (v = w) = FALSE
      BY <1>3, <2>2
    <3>2. SqlCompare(op, v, w) = "unknown"
      BY <2>2 DEF SqlCompare
    <3> QED BY <2>1, <3>1, <3>2 DEF Agrees, IsThird
  <2>3. CASE v # Null /\ w # Null
    <3>1. (v = w) = (v[1] = w[1])
      <4>1. v = Some(v[1]) /\ w = Some(w[1])
        BY <2>3
      <4> QED BY <4>1 DEF Some
    <3>2. SqlCompare(op, v, w) = Truth(v[1] = w[1])
      BY <1>3, <2>3 DEF SqlCompare
    <3> QED BY <1>2, <2>1, <3>1, <3>2
  <2> QED BY <2>2, <2>3
<1>4. CASE op = "<>"
  <2>1. Condition(op, Text(v), Text(w)) = Boolean(v # w)
    BY <1>1, <1>4 DEF Condition
  <2>2. (v # w) = (v[1] # w[1])
    <3>1. v = Some(v[1]) /\ w = Some(w[1])
      BY <1>4
    <3> QED BY <3>1 DEF Some
  <2>3. SqlCompare(op, v, w) = Truth(v[1] # w[1])
    BY <1>4 DEF SqlCompare
  <2> QED BY <1>2, <2>1, <2>2, <2>3
<1>5. CASE op # "=" /\ op # "<>"
  <2> DEFINE ord == Ordered(op, v[1], w[1])
  <2>1. ord \in BOOLEAN
    <3>1. \A s, t : Before(s, t) \in BOOLEAN
      BY DEF Before
    <3> QED BY <1>5, <3>1 DEF Ordered, Comparisons
  <2>2. Condition(op, Text(v), Text(w)) =
            Boolean(IF v = Null \/ w = Null THEN FALSE ELSE ord)
    BY <1>1, <1>5 DEF Condition
  <2>3. SqlCompare(op, v, w) = IF v = Null \/ w = Null THEN "unknown" ELSE Truth(ord)
    BY <1>5 DEF SqlCompare
  <2> HIDE DEF ord
  <2>4. CASE v = Null \/ w = Null
    BY <2>2, <2>3, <2>4 DEF Agrees, IsThird
  <2>5. CASE ~(v = Null \/ w = Null)
    BY <1>2, <2>1, <2>2, <2>3, <2>5
  <2> QED BY <2>4, <2>5
<1> QED BY <1>3, <1>4, <1>5

\* An operand of a comparison is the same in both.
LEMMA OperandAgrees ==
    ASSUME NEW row, NEW node, NEW f, node.op \in {"column", "value"},
           node.op = "column" => node.name \in DOMAIN row,
           node.op = "value" => IsLiteral(node) /\ node.kind # "boolean",
           Holding(row, DOMAIN row)
    PROVE  /\ NodeValue(row, node, f) = Text(SqlValue(row, node))
           /\ SqlValue(row, node) = Null \/ SqlValue(row, node) = Some(SqlValue(row, node)[1])
<1>1. CASE node.op = "column"
  <2>1. NodeValue(row, node, f) = Text(row[node.name])
    BY <1>1, OtherCases
  <2>2. SqlValue(row, node) = row[node.name]
    BY <1>1 DEF SqlValue
  <2> QED BY <1>1, <2>1, <2>2 DEF Holding
<1>2. CASE node.op = "value"
  <2>1. NodeValue(row, node, f) = Value(node)
    BY <1>2, OtherCases
  <2>2. node.kind \in {"null", "string", "number"}
    BY <1>2 DEF IsLiteral
  <2>3. Value(node) = IF node.kind = "null" THEN Text(Null) ELSE Text(Some(node.text))
    BY <2>2 DEF Value
  <2>4. SqlValue(row, node) = IF node.kind = "null" THEN Null ELSE Some(node.text)
    BY <1>2 DEF SqlValue
  <2>5. Some(node.text)[1] = node.text
    BY DEF Some
  <2> QED BY <2>1, <2>3, <2>4, <2>5
<1> QED BY <1>1, <1>2

\* A supported condition is true to the evaluator where it is to SQL, and false to it
\* where it is false or unknown to SQL.
THEOREM EvaluationAgrees ==
    ASSUME NEW expr, IsExpression(expr), Supported(expr), NEW row,
           Mentions(expr) \subseteq DOMAIN row, Holding(row, DOMAIN row), SameInSql(row, expr)
    PROVE  Agrees(Evaluate(row, expr), SqlTruth(row, expr))
<1>1. PICK f : Valued(row, expr, f)
  BY Evaluated
<1>2. PICK t : Judges(row, expr, t)
  BY TruthsJudge
<1> DEFINE n == Len(expr)
           S == {i \in 1..n : IsCondition(expr[i]) => Agrees(f[i], t[i])}
<1>3. n \in Nat \ {0}
  BY DEF IsExpression
<1>4. ASSUME NEW j \in 1..n, expr[j].op \in {"column", "value"}
      PROVE  /\ f[j] = Text(SqlValue(row, expr[j]))
             /\ \/ SqlValue(row, expr[j]) = Null
                \/ SqlValue(row, expr[j]) = Some(SqlValue(row, expr[j])[1])
  <2> DEFINE node == expr[j]
  <2>1. f[j] = NodeValue(row, node, f)
    BY <1>1 DEF Valued
  <2>2. /\ node.op = "column" => node.name \in DOMAIN row
        /\ node.op = "value" => IsLiteral(node)
        /\ j \in DOMAIN expr
    BY NodesKnown
  <2>3. node.op = "value" => node.kind # "boolean"
    BY <2>2 DEF SameInSql
  <2>4. node.op \in {"column", "value"}
    BY <1>4
  <2> HIDE DEF node
  <2>5. /\ NodeValue(row, node, f) = Text(SqlValue(row, node))
        /\ SqlValue(row, node) = Null \/ SqlValue(row, node) = Some(SqlValue(row, node)[1])
    BY <2>2, <2>3, <2>4, OperandAgrees
  <2> QED BY <2>1, <2>5 DEF node
<1>5. ASSUME NEW i \in 1..n, 1..(i - 1) \subseteq S PROVE i \in S
  <2> DEFINE node == expr[i]
  <2>1. f[i] = NodeValue(row, node, f) /\ t[i] = NodeTruth(row, expr, node, t)
    BY <1>1, <1>2 DEF Valued, Judges
  <2>2. SUFFICES ASSUME IsCondition(node) PROVE Agrees(f[i], t[i])
    OBVIOUS
  <2>3. \A j \in 1..(i - 1) : j \in 1..n /\ (IsCondition(expr[j]) => Agrees(f[j], t[j]))
    BY <1>5
  <2>4. CASE node.op \in Conjunctions
    <3>1. /\ node.left \in 1..(i - 1) /\ IsCondition(expr[node.left])
          /\ node.right \in 1..(i - 1) /\ IsCondition(expr[node.right])
      BY <2>4, NodesKnown
    <3>2. Agrees(f[node.left], t[node.left]) /\ Agrees(f[node.right], t[node.right])
      BY <2>3, <3>1
    <3>3. f[i] = Conjunction(node.op, f[node.left], f[node.right])
      BY <2>1, <2>4, NodeCases
    <3>4. node.op = "and" \/ node.op = "or"
      BY <2>4 DEF Conjunctions
    <3>5. t[i] = IF node.op = "and" THEN SqlAnd(t[node.left], t[node.right])
                 ELSE SqlOr(t[node.left], t[node.right])
      BY <2>1, <3>4 DEF NodeTruth, Comparisons
    <3> QED BY <3>2, <3>3, <3>4, <3>5, ConjunctionAgrees
  <2>5. CASE node.op \in Comparisons
    <3>1. /\ node.left \in 1..(i - 1) /\ expr[node.left].op \in {"column", "value"}
          /\ node.right \in 1..(i - 1) /\ expr[node.right].op \in {"column", "value"}
      BY <2>5, NodesKnown
    <3> DEFINE v == SqlValue(row, expr[node.left])
               w == SqlValue(row, expr[node.right])
    <3>2. /\ f[node.left] = Text(v) /\ f[node.right] = Text(w)
          /\ (v = Null \/ v = Some(v[1])) /\ (w = Null \/ w = Some(w[1]))
      BY <1>4, <2>3, <3>1
    <3>3. f[i] = Condition(node.op, f[node.left], f[node.right])
      BY <2>1, <2>5, NodeCases
    <3>4. node.op = "=" => v # Null \/ w # Null
      BY NodesKnown DEF SameInSql
    <3>5. node.op = "<>" => v # Null /\ w # Null
      BY NodesKnown DEF SameInSql
    <3>6. t[i] = SqlCompare(node.op, v, w)
      <4>1. /\ node.op # "and" /\ node.op # "or" /\ node.op # "nested"
            /\ node.op # "isNull" /\ node.op # "isNotNull"
        BY <2>5 DEF Comparisons
      <4> QED BY <2>1, <2>5, <4>1 DEF NodeTruth
    <3> DEFINE op == node.op
    <3>7. op \in Comparisons
      BY <2>5
    <3> HIDE DEF v, w, op
    <3>8. Agrees(Condition(op, Text(v), Text(w)), SqlCompare(op, v, w))
      BY <3>2, <3>4, <3>5, <3>7, ComparisonAgrees DEF op
    <3> QED BY <3>2, <3>3, <3>6, <3>8 DEF op
  <2>6. CASE node.op \in Tests
    <3>1. node.expr \in 1..(i - 1) /\ expr[node.expr].op = "column"
      BY <2>6, NodesKnown
    <3> DEFINE v == SqlValue(row, expr[node.expr])
    <3>2. f[node.expr] = Text(v)
      BY <1>4, <2>3, <3>1
    <3>3. f[i] = TestValue(node.op, f[node.expr])
      BY <2>1, <2>6, OtherCases
    <3>4. node.op = "isNull" \/ node.op = "isNotNull"
      BY <2>6 DEF Tests
    <3>5. t[i] = IF node.op = "isNull" THEN Truth(v = Null) ELSE Truth(v # Null)
      BY <2>1, <3>4 DEF NodeTruth, Comparisons
    <3> HIDE DEF v
    <3>6. TestValue(node.op, Text(v)) = Boolean((v = Null) = (node.op = "isNull"))
      BY DEF TestValue, Text, Fails
    <3>7. \A b \in BOOLEAN : Agrees(Boolean(b), Truth(b))
      BY DEF Agrees, Truth, IsThird
    <3>8. CASE node.op = "isNull"
      <4>1. ((v = Null) = (node.op = "isNull")) = (v = Null)
        BY <3>8
      <4>2. (v = Null) \in BOOLEAN
        OBVIOUS
      <4> QED BY <3>2, <3>3, <3>5, <3>6, <3>7, <3>8, <4>1, <4>2
    <3>9. CASE node.op # "isNull"
      <4>1. ((v = Null) = (node.op = "isNull")) = (v # Null)
        BY <3>9
      <4>2. (v # Null) \in BOOLEAN
        OBVIOUS
      <4> QED BY <3>2, <3>3, <3>5, <3>6, <3>7, <3>9, <4>1, <4>2
    <3> QED BY <3>8, <3>9
  <2>7. CASE node.op = "nested"
    <3>1. node.expr \in 1..(i - 1) /\ IsCondition(expr[node.expr])
      BY <2>7, NodesKnown
    <3>2. f[i] = f[node.expr]
      BY <2>1, <2>7, OtherCases
    <3>3. t[i] = t[node.expr]
      BY <2>1, <2>7 DEF NodeTruth, Comparisons
    <3> QED BY <2>3, <3>1, <3>2, <3>3
  <2> QED BY <2>2, <2>4, <2>5, <2>6, <2>7 DEF IsCondition
<1>6. 1..n \subseteq S
  <2> HIDE DEF S, n
  <2> QED BY <1>3, <1>5, Course
<1>7. n \in S /\ IsCondition(expr[n])
  BY <1>3, <1>6 DEF Supported
<1>8. Evaluate(row, expr) = f[n] /\ SqlTruth(row, expr) = t[n]
  BY <1>1, <1>2 DEF Valued, Judges
<1> QED BY <1>7, <1>8

\* Of a row, the truth of a condition needs the columns it mentions.
LEMMA TruthOfMentioned ==
    ASSUME NEW expr, IsExpression(expr), NEW row, NEW other,
           \A c \in Mentions(expr) : row[c] = other[c]
    PROVE  SqlTruth(row, expr) = SqlTruth(other, expr)
<1>1. PICK t : Judges(row, expr, t)
  BY TruthsJudge
<1>2. PICK u : Judges(other, expr, u)
  BY TruthsJudge
<1> DEFINE n == Len(expr)
           S == {i \in 1..n : t[i] = u[i]}
<1>3. n \in Nat \ {0} /\ DOMAIN expr = 1..n /\ \A i \in 1..n : IsNode(expr[i], i)
  BY DEF IsExpression
<1>4. ASSUME NEW j \in 1..n PROVE SqlValue(row, expr[j]) = SqlValue(other, expr[j])
  <2>1. expr[j].op = "column" => expr[j].name \in Mentions(expr)
    BY <1>3 DEF Mentions
  <2> QED BY <2>1 DEF SqlValue
<1>5. ASSUME NEW i \in 1..n, 1..(i - 1) \subseteq S PROVE i \in S
  <2> DEFINE node == expr[i]
  <2>1. t[i] = NodeTruth(row, expr, node, t) /\ u[i] = NodeTruth(other, expr, node, u)
    BY <1>1, <1>2 DEF Judges
  <2>2. IsNode(node, i) /\ i \in Nat /\ \A j \in 1..(i - 1) : j \in 1..n /\ t[j] = u[j]
    BY <1>3, <1>5
  <2>3. NodeTruth(row, expr, node, t) = NodeTruth(row, expr, node, u)
    BY <2>2, TruthAgree
  <2>4. NodeTruth(row, expr, node, u) = NodeTruth(other, expr, node, u)
    <3>1. CASE node.op \in Comparisons
      <4>1. node.left \in 1..n /\ node.right \in 1..n
        <5>1. node.left \in 1..(i - 1) /\ node.right \in 1..(i - 1)
          BY <2>2, <3>1 DEF IsNode, IsLiteral, Conjunctions, Comparisons, Tests
        <5> QED BY <2>2, <5>1
      <4>2. /\ SqlValue(row, expr[node.left]) = SqlValue(other, expr[node.left])
            /\ SqlValue(row, expr[node.right]) = SqlValue(other, expr[node.right])
        BY <1>4, <4>1
      <4>3. /\ node.op # "and" /\ node.op # "or" /\ node.op # "nested"
            /\ node.op # "isNull" /\ node.op # "isNotNull"
        BY <3>1 DEF Comparisons
      <4> QED BY <3>1, <4>2, <4>3 DEF NodeTruth
    <3>2. CASE node.op \in Tests
      <4>1. node.expr \in 1..n
        <5>1. node.expr \in 1..(i - 1)
          BY <2>2, <3>2 DEF IsNode, IsLiteral, Conjunctions, Comparisons, Tests
        <5> QED BY <2>2, <5>1
      <4>2. SqlValue(row, expr[node.expr]) = SqlValue(other, expr[node.expr])
        BY <1>4, <4>1
      <4>3. node.op = "isNull" \/ node.op = "isNotNull"
        BY <3>2 DEF Tests
      <4> QED BY <4>2, <4>3 DEF NodeTruth, Comparisons
    <3>3. CASE node.op \notin Comparisons \cup Tests
      <4>1. node.op \notin Comparisons /\ node.op # "isNull" /\ node.op # "isNotNull"
        BY <3>3 DEF Tests
      <4> QED BY <4>1 DEF NodeTruth
    <3> QED BY <3>1, <3>2, <3>3
  <2> QED BY <2>1, <2>3, <2>4
<1>6. 1..n \subseteq S
  <2> HIDE DEF S, n
  <2> QED BY <1>3, <1>5, Course
<1>7. n \in S
  BY <1>3, <1>6
<1>8. SqlTruth(row, expr) = t[n] /\ SqlTruth(other, expr) = u[n]
  BY <1>1, <1>2 DEF Judges
<1> QED BY <1>7, <1>8
-----------------------------------------------------------------------------
(* The updates, one after the other.                                       *)

\* The WHERE of an update or a query.
LEMMA WhereParts ==
    ASSUME NEW w, IsWhere(w), w # <<>>
    PROVE  IsExpression(w[1]) /\ w = <<w[1]>> /\ DOMAIN w = {1}
<1>1. IsExpression(w[1]) /\ w = <<w[1]>>
  BY DEF IsWhere
<1> DEFINE e == w[1]
<1>2. DOMAIN <<e>> = {1}
  OBVIOUS
<1> HIDE DEF e
<1>3. w = <<e>>
  BY <1>1 DEF e
<1> QED BY <1>1, <1>2, <1>3

Applies(after, row, table, updates) ==
    /\ after[0] = row
    /\ \A i \in 1..Len(updates) : after[i] = Updated(after[i - 1], table, updates[i])
    /\ AfterUpdates(row, table, updates) = after[Len(updates)]

\* What an update sets does not depend on the row.
LEMMA SetValues ==
    ASSUME NEW u \in Updates, NEW c \in DOMAIN u.set
    PROVE  /\ \A row, other : SqlValue(row, u.set[c]) = SqlValue(other, u.set[c])
           /\ \A row : SqlValue(row, u.set[c]) \in {Null} \cup {Some(t) : t \in Seq(Byte)}
<1> DEFINE node == u.set[c]
<1>1. IsLiteral(node) /\ IsText(node.text)
  BY RowOverrideAssumption, Zenon
<1> HIDE DEF node
<1>2. node.op = "value" /\ node.text \in Seq(Byte)
  BY <1>1, SMT DEF IsLiteral, IsText
<1>3. \A row : SqlValue(row, node) = IF node.kind = "null" THEN Null ELSE Some(node.text)
  BY <1>2 DEF SqlValue
<1>4. \A row, other : SqlValue(row, node) = SqlValue(other, node)
  BY <1>3
<1>5. \A row : SqlValue(row, node) \in {Null} \cup {Some(t) : t \in Seq(Byte)}
  BY <1>2, <1>3
<1> QED BY <1>4, <1>5 DEF node

LEMMA UpdatesApplied ==
    ASSUME NEW updates \in Seq(Updates), NEW table, NEW row, row = [c \in DOMAIN row |-> row[c]]
    PROVE  \E after : Applies(after, row, table, updates)
<1> DEFINE n == Len(updates)
           V == {row[c] : c \in DOMAIN row} \cup {Null} \cup {Some(t) : t \in Seq(Byte)}
           D == [DOMAIN row -> V]
           step == [i \in 1..n |-> [d \in D |-> Updated(d, table, updates[i])]]
           Solves(f) == f = [i \in 0..n |-> IF i = 0 THEN row
                                            ELSE Updated(f[i - 1], table, updates[i])]
<1>1. n \in Nat /\ \A i \in 1..n : updates[i] \in Updates
  OBVIOUS
<1>2. ASSUME NEW u \in Updates, NEW d \in D PROVE Updated(d, table, u) \in D
  <2> DEFINE e == [c \in DOMAIN d |-> IF c \in DOMAIN u.set THEN SqlValue(d, u.set[c]) ELSE d[c]]
  <2>1. Updated(d, table, u) = e \/ Updated(d, table, u) = d
    BY DEF Updated
  <2>2. DOMAIN d = DOMAIN row /\ \A c \in DOMAIN row : d[c] \in V
    OBVIOUS
  <2>3. \A c \in DOMAIN u.set : SqlValue(d, u.set[c]) \in V
    <3>1. ASSUME NEW c \in DOMAIN u.set PROVE SqlValue(d, u.set[c]) \in V
      <4>1. SqlValue(d, u.set[c]) \in {Null} \cup {Some(t) : t \in Seq(Byte)}
        BY SetValues
      <4> QED BY <4>1
    <3> QED BY <3>1
  <2>4. e \in D
    <3> HIDE DEF V
    <3> QED BY <2>2, <2>3
  <2> QED BY <2>1, <2>4
<1>3. row \in D
  OBVIOUS
<1> HIDE DEF n, D, V
<1>4. \A i \in 1..n : \A d \in D :
          step[i][d] = Updated(d, table, updates[i]) /\ step[i][d] \in D
  BY <1>1, <1>2
<1> HIDE DEF step
<1>5. PICK g : Runs(g, D, row, step, n)
  BY <1>1, <1>3, <1>4, Recursion
<1>6. g \in [0..n -> D] /\ g[0] = row /\ \A i \in 1..n : g[i] = step[i][g[i - 1]]
  BY <1>5 DEF Runs
<1>7. Solves(g)
  <2>1. g = [i \in 0..n |-> g[i]]
    BY <1>6
  <2>2. ASSUME NEW i \in 0..n
        PROVE  g[i] = IF i = 0 THEN row ELSE Updated(g[i - 1], table, updates[i])
    <3>1. CASE i = 0
      BY <1>6, <3>1
    <3>2. CASE i # 0
      <4>1. i \in 1..n /\ i - 1 \in 0..n
        BY <1>1, <3>2
      <4>2. g[i - 1] \in D
        BY <1>6, <4>1
      <4> QED BY <1>4, <1>6, <3>2, <4>1, <4>2
    <3> QED BY <3>1, <3>2
  <2> QED BY <2>1, <2>2
<1> DEFINE after == CHOOSE f : Solves(f)
<1>8. AfterUpdates(row, table, updates) = after[n]
  BY DEF AfterUpdates, n
<1>9. Solves(after)
  <2> HIDE DEF Solves
  <2> QED BY <1>7
<1> HIDE DEF after
<1>10. \A i \in 0..n : after[i] = IF i = 0 THEN row ELSE Updated(after[i - 1], table, updates[i])
  BY <1>9
<1>11. after[0] = row /\ \A i \in 1..n : after[i] = Updated(after[i - 1], table, updates[i])
  <2>1. 0 \in 0..n /\ \A i \in 1..n : i \in 0..n /\ i # 0
    BY <1>1
  <2> QED BY <1>10, <2>1
<1>12. Applies(after, row, table, updates)
  BY <1>8, <1>11 DEF Applies, n
<1> QED BY <1>12

\* A row as one of the live updates leaves it, or none.
With(row, m) ==
    IF m = 0 THEN row
    ELSE [c \in DOMAIN row |-> IF c \in DOMAIN live[m].set
                               THEN SqlValue(row, live[m].set[c]) ELSE row[c]]

\* The updates of the table that hold on a row, and the last of those up to one.
HoldOn(row) == {i \in OfTable : Holds(row, live[i].where)}
IsLast(row, m, k) ==
    /\ m = 0 \/ (m \in HoldOn(row) /\ m <= k)
    /\ \A j \in HoldOn(row) : j <= k => j <= m

\* An update holds on a row that an earlier one has left if it held before.
LEMMA HoldsStill ==
    ASSUME live \in Seq(Updates), Independent, NEW row, NEW k \in OfTable, NEW m,
           m = 0 \/ (m \in OfTable /\ m < k), IsWhere(live[k].where),
           \A x \in DOMAIN live[k].where : Mentions(live[k].where[x]) \subseteq DOMAIN row
    PROVE  Holds(With(row, m), live[k].where) <=> Holds(row, live[k].where)
<1> DEFINE w == live[k].where
<1>1. CASE m = 0
  BY <1>1 DEF With
<1>2. CASE w = <<>>
  BY <1>2 DEF Holds
<1>3. CASE m # 0 /\ w # <<>>
  <2>1. m \in OfTable /\ m < k /\ Mentions(w[1]) \cap DOMAIN live[m].set = {}
    BY <1>3 DEF Independent
  <2>2. IsExpression(w[1]) /\ DOMAIN w = {1}
    <3>1. IsWhere(w) /\ w # <<>>
      BY <1>3
    <3> HIDE DEF w
    <3> QED BY <3>1, WhereParts
  <2>3. \A c \in Mentions(w[1]) : With(row, m)[c] = row[c]
    BY <1>3, <2>1, <2>2 DEF With
  <2>4. SqlTruth(With(row, m), w[1]) = SqlTruth(row, w[1])
    <3> HIDE DEF w
    <3> QED BY <2>2, <2>3, TruthOfMentioned
  <2> QED BY <2>2, <2>4 DEF Holds
<1> QED BY <1>1, <1>2, <1>3

\* What a row is after updates none of which tests what an earlier one sets: what the last
\* that holds makes of it.
THEOREM LastHolds ==
    ASSUME live \in Seq(Updates), Independent, NEW row, row = [c \in DOMAIN row |-> row[c]],
           \A i \in OfTable :
               /\ IsWhere(live[i].where)
               /\ \A x \in DOMAIN live[i].where : Mentions(live[i].where[x]) \subseteq DOMAIN row
    PROVE  \E m \in 0..Len(live) :
               /\ AfterUpdates(row, columns[1].table, live) = With(row, m)
               /\ IsLast(row, m, Len(live))
<1> DEFINE table == columns[1].table
           n == Len(live)
<1>1. PICK after : Applies(after, row, table, live)
  BY UpdatesApplied
<1>2. /\ after[0] = row /\ AfterUpdates(row, table, live) = after[n]
      /\ \A i \in 1..n : after[i] = Updated(after[i - 1], table, live[i])
  BY <1>1 DEF Applies
<1>3. n \in Nat /\ DOMAIN live = 1..n /\ \A i \in 1..n : live[i] \in Updates
  OBVIOUS
<1>4. \A j \in HoldOn(row) : j \in 1..n /\ j \in OfTable
  BY <1>3 DEF HoldOn, OfTable
<1> HIDE DEF n
<1> DEFINE S == {k \in 0..n : \E m \in 0..n : after[k] = With(row, m) /\ IsLast(row, m, k)}
<1>5. 0 \in S
  <2>1. after[0] = With(row, 0)
    BY <1>2 DEF With
  <2>2. IsLast(row, 0, 0)
    BY <1>4 DEF IsLast
  <2>3. 0 \in 0..n
    BY <1>3
  <2> QED BY <2>1, <2>2, <2>3
<1>6. ASSUME NEW k \in 1..n, k - 1 \in S PROVE k \in S
  <2>1. PICK m \in 0..n : after[k - 1] = With(row, m) /\ IsLast(row, m, k - 1)
    BY <1>6
  <2> HIDE DEF S
  <2> DEFINE d == With(row, m)
             u == live[k]
  <2>2. after[k] = Updated(d, table, u) /\ k \in DOMAIN live /\ u \in Updates /\ k \in Nat
    BY <1>2, <1>3, <2>1
  <2>3. SUFFICES \E q \in 0..n : after[k] = With(row, q) /\ IsLast(row, q, k)
    <3>1. k \in 0..n
      BY <1>3
    <3> QED BY <3>1 DEF S
  <2>4. m = 0 \/ (m \in OfTable /\ m < k)
    <3>1. m = 0 \/ (m \in OfTable /\ m <= k - 1)
      BY <1>4, <2>1 DEF IsLast
    <3>2. m <= k - 1 => m < k
      BY <1>3
    <3> QED BY <3>1, <3>2
  <2>5. CASE ~(u.table = table /\ Holds(d, u.where))
    <3>1. after[k] = d
      BY <2>2, <2>5 DEF Updated
    <3>2. k \notin HoldOn(row)
      <4>1. SUFFICES ASSUME k \in HoldOn(row) PROVE FALSE
        OBVIOUS
      <4>2. k \in OfTable /\ Holds(row, live[k].where)
        BY <4>1 DEF HoldOn
      <4>3. Holds(d, live[k].where)
        BY <2>4, <4>2, HoldsStill
      <4> QED BY <2>5, <4>2, <4>3 DEF OfTable
    <3>3. IsLast(row, m, k)
      <4>1. m = 0 \/ (m \in HoldOn(row) /\ m <= k)
        BY <1>3, <2>1 DEF IsLast
      <4>2. ASSUME NEW j \in HoldOn(row), j <= k PROVE j <= m
        <5>1. j \in 1..n /\ j # k
          BY <1>4, <3>2
        <5>2. j <= k - 1
          BY <1>3, <4>2, <5>1
        <5> QED BY <2>1, <5>2 DEF IsLast
      <4> QED BY <4>1, <4>2 DEF IsLast
    <3> QED BY <3>1, <3>3
  <2>6. CASE u.table = table /\ Holds(d, u.where)
    <3>1. k \in OfTable
      BY <2>2, <2>6 DEF OfTable
    <3>2. Holds(row, u.where)
      BY <2>4, <2>6, <3>1, HoldsStill
    <3>3. IsLast(row, k, k)
      BY <1>4, <2>2, <3>1, <3>2 DEF IsLast, HoldOn
    <3>4. DOMAIN d = DOMAIN row
      BY DEF With
    <3>5. ASSUME NEW c \in DOMAIN row, c \notin DOMAIN u.set PROVE d[c] = row[c]
      <4>1. CASE m = 0
        BY <4>1 DEF With
      <4>2. CASE m # 0
        <5>1. DOMAIN live[m].set \subseteq DOMAIN u.set
          BY <2>4, <3>1, <4>2 DEF Independent
        <5>2. c \notin DOMAIN live[m].set
          BY <3>5, <5>1
        <5> QED BY <4>2, <5>2 DEF With
      <4> QED BY <4>1, <4>2
    <3>6. \A c \in DOMAIN u.set : SqlValue(d, u.set[c]) = SqlValue(row, u.set[c])
      BY <2>2, SetValues
    <3>7. after[k] = [c \in DOMAIN d |-> IF c \in DOMAIN u.set
                                         THEN SqlValue(d, u.set[c]) ELSE d[c]]
      BY <2>2, <2>6 DEF Updated
    <3>8. With(row, k) = [c \in DOMAIN row |-> IF c \in DOMAIN u.set
                                               THEN SqlValue(row, u.set[c]) ELSE row[c]]
      <4>1. k # 0
        BY <1>3
      <4> QED BY <4>1 DEF With
    <3> HIDE DEF d, u
    <3>9. after[k] = With(row, k)
      BY <3>4, <3>5, <3>6, <3>7, <3>8
    <3>10. k \in 0..n
      BY <1>3
    <3> QED BY <3>3, <3>9, <3>10
  <2> QED BY <2>5, <2>6
<1>7. 0..n \subseteq S
  <2> HIDE DEF S
  <2> QED BY <1>3, <1>5, <1>6, Counting
<1>8. n \in 0..n
  BY <1>3
<1>9. \E m \in 0..n : after[n] = With(row, m) /\ IsLast(row, m, n)
  BY <1>7, <1>8
<1> QED BY <1>2, <1>9 DEF n
-----------------------------------------------------------------------------
(* The invariant.                                                          *)

RowInv ==
    /\ entries \subseteq {Key(u.table, q) : u \in Updates, q \in BOOLEAN}
    /\ live \in Seq(Updates) /\ recorded \in Nat
    /\ Len(live) <= recorded /\ recorded <= MaxUpdates
    /\ columns \in ColumnLists \cup {<<>>}
    /\ where \in Wheres \cup {<<>>}
    /\ \A i \in DOMAIN live : KeyOf(live[i]) \in entries
    /\ shown # <<>> =>
           /\ columns # <<>>
           /\ \E values \in [DOMAIN columns -> Values] :
                  ServerSends(values) /\ shown = <<Handled(values)>>

\* A row is handled by what is recorded, the columns and the WHERE alone.
LEMMA HandledSame ==
    ASSUME UNCHANGED <<entries, live, columns, where>>, NEW values
    PROVE  Handled(values)' = Handled(values) /\ ServerSends(values)' = ServerSends(values)
<1>0. entries' = entries /\ live' = live /\ columns' = columns /\ where' = where
  OBVIOUS
<1>1. Found' = Found
  BY <1>0 DEF Found
<1>2. \A row : Matching(row)' = Matching(row)
  BY <1>0, <1>1 DEF Matching
<1>3. \A row : Applied(row)' = Applied(row)
  BY <1>0, <1>2 DEF Applied
<1>4. \A row : Rewritten(row)' = Rewritten(row)
  BY <1>0, <1>3 DEF Rewritten
<1>5. \A row : Body(row)' = Body(row)
  BY <1>0 DEF Body
<1>6. \A row : EvaluatePanics(row)' = EvaluatePanics(row)
  BY <1>0, <1>1, <1>4 DEF EvaluatePanics
<1>7. \A row : Skips(row)' = Skips(row)
  BY <1>0, <1>4 DEF Skips
<1>8. \A bytes : Fields(bytes)' = Fields(bytes)
  BY <1>0 DEF Fields
<1>9. \A fields : ParsePanics(fields)' = ParsePanics(fields)
  BY <1>0 DEF ParsePanics
<1>10. \A fields : ParseRow(fields)' = ParseRow(fields)
  BY <1>0 DEF ParseRow
<1>11. \A bytes : OverrideRow(bytes)' = OverrideRow(bytes)
  <2> TAKE bytes
  <2> DEFINE row == ParseRow(Fields(bytes))
  <2>1. row' = row
    BY <1>8, <1>10
  <2>2. EvaluatePanics(row)' = EvaluatePanics(row) /\ Skips(row)' = Skips(row)
    BY <2>1, <1>6, <1>7
  <2>3. Body(Rewritten(row))' = Body(Rewritten(row))
    BY <2>1, <1>4, <1>5
  <2>4. ParsePanics(Fields(bytes))' = ParsePanics(Fields(bytes))
    BY <1>8, <1>9
  <2>5. OverrideRow(bytes) =
            IF ParsePanics(Fields(bytes)) THEN Panicking
            ELSE IF EvaluatePanics(row) THEN Panicking
            ELSE [panic |-> FALSE, body |-> Body(Rewritten(row)), skip |-> Skips(row)]
    BY DEF OverrideRow
  <2>6. OverrideRow(bytes)' =
            IF ParsePanics(Fields(bytes))' THEN Panicking
            ELSE IF EvaluatePanics(row)' THEN Panicking
            ELSE [panic |-> FALSE, body |-> Body(Rewritten(row))', skip |-> Skips(row)']
    BY DEF OverrideRow
  <2> HIDE DEF row
  <2> QED BY <2>2, <2>3, <2>4, <2>5, <2>6
<1>12. Handled(values)' = Handled(values)
  <2> DEFINE o == IF ~TakenForOk(RowBytes(values)) /\ Key(columns[1].table, FALSE) \in entries
                  THEN OverrideRow(RowBytes(values)) ELSE Unchanged(RowBytes(values))
  <2>1. o' = o
    BY <1>0, <1>11
  <2>2. Handled(values) = [values |-> values, panic |-> o.panic, body |-> o.body, skip |-> o.skip]
    BY DEF Handled
  <2>3. Handled(values)' =
            [values |-> values, panic |-> o'.panic, body |-> o'.body, skip |-> o'.skip]
    BY DEF Handled
  <2> HIDE DEF o
  <2> QED BY <2>1, <2>2, <2>3
<1>13. ServerSends(values)' = ServerSends(values)
  <2>1. Distinct' = Distinct
    BY <1>0 DEF Distinct
  <2>2. \A expr : Judged(expr)' = Judged(expr)
    BY <1>0 DEF Judged
  <2>3. Original(values)' = Original(values)
    BY <1>0 DEF Original
  <2> QED BY <1>0, <2>1, <2>2, <2>3 DEF ServerSends
<1> QED BY <1>12, <1>13

\* What holds of the columns and the updates while a row is handled.
LEMMA Handling ==
    ASSUME RowInv, shown # <<>>
    PROVE  /\ columns \in ColumnLists /\ ColumnsOK
           /\ \E values \in [DOMAIN columns -> Values] :
                  ServerSends(values) /\ shown = <<Handled(values)>>
<1>1. columns \in ColumnLists
  BY DEF RowInv
<1>2. ColumnsOK
  BY <1>1, RowOverrideAssumption, Zenon DEF ColumnsOK
<1> QED BY <1>1, <1>2 DEF RowInv

LEMMA InvInit == Init => RowInv
BY RowOverrideAssumption DEF Init, RowInv

LEMMA InvNext == RowInv /\ [Next]_vars => RowInv'
<1>1. SUFFICES ASSUME RowInv, [Next]_vars PROVE RowInv'
  OBVIOUS
<1>2. MaxUpdates \in Nat
  BY RowOverrideAssumption
<1>3. CASE RecordUpdate
  <2>1. PICK u \in Updates : entries' = entries \cup {KeyOf(u)} /\ live' = Append(live, u)
    BY <1>3 DEF RecordUpdate
  <2>2. /\ shown = <<>> /\ recorded < MaxUpdates /\ recorded' = recorded + 1
        /\ columns' = columns /\ where' = where /\ shown' = shown
    BY <1>3 DEF RecordUpdate
  <2>3. live \in Seq(Updates) /\ Len(live) \in Nat /\ Len(live) <= recorded /\ recorded \in Nat
    BY <1>1 DEF RowInv
  <2>4. /\ live' \in Seq(Updates) /\ Len(live') = Len(live) + 1
        /\ \A i \in 1..Len(live) : live'[i] = live[i]
        /\ live'[Len(live) + 1] = u
    BY <2>1, <2>3, AppendProperties
  <2>5. entries' \subseteq {Key(v.table, q) : v \in Updates, q \in BOOLEAN}
    <3>1. u.quoted \in BOOLEAN
      BY RowOverrideAssumption, Zenon
    <3>2. KeyOf(u) \in {Key(v.table, q) : v \in Updates, q \in BOOLEAN}
      BY <3>1 DEF KeyOf
    <3> QED BY <1>1, <2>1, <3>2 DEF RowInv
  <2>6. ASSUME NEW i \in DOMAIN live' PROVE KeyOf(live'[i]) \in entries'
    <3>1. i \in 1..(Len(live) + 1)
      BY <2>4
    <3>2. CASE i = Len(live) + 1
      BY <2>1, <2>4, <3>2
    <3>3. CASE i # Len(live) + 1
      <4>1. i \in 1..Len(live) /\ i \in DOMAIN live
        BY <2>3, <3>1, <3>3
      <4>2. KeyOf(live[i]) \in entries
        BY <1>1, <4>1 DEF RowInv
      <4> QED BY <2>1, <2>4, <4>1, <4>2
    <3> QED BY <3>2, <3>3
  <2>7. recorded' \in Nat /\ Len(live') <= recorded' /\ recorded' <= MaxUpdates
    BY <1>2, <2>2, <2>3, <2>4
  <2> QED BY <1>1, <2>2, <2>4, <2>5, <2>6, <2>7 DEF RowInv
<1>4. CASE ExpireOldest
  <2>1. /\ shown = <<>> /\ live # <<>> /\ live' = Tail(live) /\ entries' = entries
        /\ recorded' = recorded /\ columns' = columns /\ where' = where /\ shown' = shown
    BY <1>4 DEF ExpireOldest
  <2>2. live \in Seq(Updates) /\ Len(live) \in Nat /\ Len(live) <= recorded /\ recorded \in Nat
    BY <1>1 DEF RowInv
  <2>3. /\ live' \in Seq(Updates) /\ Len(live') = Len(live) - 1
        /\ \A i \in 1..Len(live') : live'[i] = live[i + 1]
    BY <2>1, <2>2, HeadTailProperties
  <2>4. ASSUME NEW i \in DOMAIN live' PROVE KeyOf(live'[i]) \in entries'
    <3>1. i \in 1..Len(live') /\ i + 1 \in DOMAIN live
      BY <2>2, <2>3
    <3>2. KeyOf(live[i + 1]) \in entries
      BY <1>1, <3>1 DEF RowInv
    <3> QED BY <2>1, <2>3, <3>1, <3>2
  <2>5. Len(live') <= recorded'
    BY <2>1, <2>2, <2>3
  <2> QED BY <1>1, <2>1, <2>3, <2>4, <2>5 DEF RowInv
<1>5. CASE Ask
  BY <1>1, <1>5 DEF Ask, RowInv
<1>6. CASE NextRow
  <2>1. PICK values \in [DOMAIN columns -> Values] :
            ServerSends(values) /\ shown' = <<Handled(values)>>
    BY <1>6 DEF NextRow
  <2>2. /\ columns # <<>>
        /\ UNCHANGED <<entries, live, columns, where>> /\ UNCHANGED recorded
    BY <1>6 DEF NextRow
  <2>3. ServerSends(values)' /\ shown' = <<Handled(values)'>>
    BY <2>1, <2>2, HandledSame
  <2>4. \E v \in [DOMAIN columns -> Values]' :
            ServerSends(v)' /\ shown' = <<Handled(v)'>>
    BY <2>1, <2>2, <2>3
  <2> QED BY <1>1, <2>2, <2>4 DEF RowInv
<1>7. CASE RowDone
  BY <1>1, <1>7 DEF RowDone, RowInv
<1>8. CASE UNCHANGED vars
  <2>1. /\ UNCHANGED <<entries, live, columns, where>> /\ UNCHANGED recorded
        /\ UNCHANGED shown
    BY <1>8 DEF vars
  <2>2. CASE shown = <<>>
    BY <1>1, <2>1, <2>2 DEF RowInv
  <2>3. CASE shown # <<>>
    <3>1. PICK values \in [DOMAIN columns -> Values] :
              ServerSends(values) /\ shown = <<Handled(values)>>
      BY <1>1, <2>3 DEF RowInv
    <3>2. ServerSends(values)' /\ shown' = <<Handled(values)'>>
      BY <2>1, <3>1, HandledSame
    <3>3. \E v \in [DOMAIN columns -> Values]' :
              ServerSends(v)' /\ shown' = <<Handled(v)'>>
      BY <2>1, <3>1, <3>2
    <3> QED BY <1>1, <2>1, <2>3, <3>3 DEF RowInv
  <2> QED BY <2>2, <2>3
<1> QED BY <1>1, <1>3, <1>4, <1>5, <1>6, <1>7, <1>8 DEF Next

LEMMA Invariant == Spec => []RowInv
BY InvInit, InvNext, PTL DEF Spec
-----------------------------------------------------------------------------
(* What is passed on.                                                      *)

ServerRow(values) == ParseRow(Fields(RowBytes(values)))

\* What becomes of a row, once it is known that it can be read.
LEMMA Outcome ==
    ASSUME ColumnsOK, NEW values \in [DOMAIN columns -> Values]
    PROVE  /\ RowBytes(values) \in Seq(Byte)
           /\ Fields(RowBytes(values)) = FirstFields(values, Len(columns))
           /\ ParsedFrom(ServerRow(values), values) /\ RowOK(ServerRow(values))
           /\ OverrideRow(RowBytes(values)) =
                  IF EvaluatePanics(ServerRow(values)) THEN Panicking
                  ELSE [panic |-> FALSE, body |-> Body(Rewritten(ServerRow(values))),
                        skip |-> Skips(ServerRow(values))]
<1>1. \A i \in DOMAIN columns : Stored(values[i]) /\ Stored(Decoded(values[i]))
  BY ValuesStored
<1>2. /\ RowBytes(values) \in Seq(Byte)
      /\ Fields(RowBytes(values)) = FirstFields(values, Len(columns))
      /\ ~ParsePanics(Fields(RowBytes(values)))
      /\ ParsedFrom(ServerRow(values), values)
  <2>1. DOMAIN values = DOMAIN columns
    OBVIOUS
  <2> QED BY <1>1, <2>1, RowsParsed DEF ServerRow
<1>3. RowOK(ServerRow(values))
  BY <1>1, <1>2 DEF RowOK, ParsedFrom
<1>4. OverrideRow(RowBytes(values)) =
          IF EvaluatePanics(ServerRow(values)) THEN Panicking
          ELSE [panic |-> FALSE, body |-> Body(Rewritten(ServerRow(values))),
                skip |-> Skips(ServerRow(values))]
  BY <1>2 DEF OverrideRow, ServerRow
<1> QED BY <1>2, <1>3, <1>4

\* What was handled is a row, with all fields of the columns if their names differ.
HandledOK(row) ==
    /\ row.panic \in BOOLEAN /\ row.skip \in BOOLEAN /\ row.body \in Seq(Byte)
    /\ Distinct /\ ~row.panic => \E v : Fields(row.body) = FirstFields(v, Len(columns))

LEMMA HandledRows ==
    ASSUME ColumnsOK, live \in Seq(Updates), NEW values \in [DOMAIN columns -> Values]
    PROVE  Handled(values).values = values /\ HandledOK(Handled(values))
<1> DEFINE bytes == RowBytes(values)
           row   == ServerRow(values)
           o     == IF ~TakenForOk(bytes) /\ Key(columns[1].table, FALSE) \in entries
                    THEN OverrideRow(bytes) ELSE Unchanged(bytes)
<1>1. Handled(values) = [values |-> values, panic |-> o.panic, body |-> o.body, skip |-> o.skip]
  BY DEF Handled
<1>2. /\ bytes \in Seq(Byte) /\ Fields(bytes) = FirstFields(values, Len(columns)) /\ RowOK(row)
      /\ OverrideRow(bytes) =
             IF EvaluatePanics(row) THEN Panicking
             ELSE [panic |-> FALSE, body |-> Body(Rewritten(row)), skip |-> Skips(row)]
  BY Outcome
<1>3. /\ Body(Rewritten(row)) \in Seq(Byte)
      /\ Distinct => \E v : Fields(Body(Rewritten(row))) = FirstFields(v, Len(columns))
  <2>1. RowOK(Rewritten(row))
    BY <1>2, RewrittenOK
  <2> QED BY <2>1, Bodies
<1> HIDE DEF bytes, row
<1>4. o = Unchanged(bytes) \/ o = Panicking
      \/ o = [panic |-> FALSE, body |-> Body(Rewritten(row)), skip |-> Skips(row)]
  BY <1>2
<1>5. Skips(row) \in BOOLEAN /\ <<>> \in Seq(Byte)
  BY DEF Skips
<1> HIDE DEF o
<1>6. HandledOK(o)
  <2>1. CASE o = Unchanged(bytes)
    BY <1>2, <2>1 DEF HandledOK, Unchanged
  <2>2. CASE o = Panicking
    BY <1>5, <2>2 DEF HandledOK, Panicking
  <2>3. CASE o = [panic |-> FALSE, body |-> Body(Rewritten(row)), skip |-> Skips(row)]
    BY <1>3, <1>5, <2>3 DEF HandledOK
  <2> QED BY <1>4, <2>1, <2>2, <2>3
<1> QED BY <1>1, <1>6 DEF HandledOK

LEMMA InvTypes == RowInv => TypeOK
<1>1. SUFFICES ASSUME RowInv PROVE TypeOK
  OBVIOUS
<1>2. CASE shown = <<>>
  BY <1>1, <1>2 DEF RowInv, TypeOK
<1>3. CASE shown # <<>>
  <2>1. ColumnsOK /\ live \in Seq(Updates)
    BY <1>1, <1>3, Handling DEF RowInv
  <2>2. PICK values \in [DOMAIN columns -> Values] : shown = <<Handled(values)>>
    BY <1>1, <1>3, Handling
  <2> DEFINE row == Handled(values)
  <2>3. row.values = values /\ HandledOK(row)
    BY <2>1, <2>2, HandledRows
  <2> HIDE DEF row
  <2>4. shown = <<row>>
    BY <2>2 DEF row
  <2>5. Len(shown) <= 1 /\ DOMAIN shown = {1} /\ shown[1] = row
    BY <2>4
  <2>6. \A k \in DOMAIN row.body : row.body[k] \in Byte
    BY <2>3 DEF HandledOK
  <2> QED BY <1>1, <2>2, <2>3, <2>5, <2>6 DEF RowInv, TypeOK, HandledOK
<1> QED BY <1>2, <1>3

\* Whatever the updates, columns and values: the differences kept are recorded updates, no
\* more than there were, and a row that is handled has the values of its columns and is
\* passed on as bytes.
THEOREM TypeCorrect == Spec => []TypeOK
BY Invariant, InvTypes, PTL

LEMMA InvFields == RowInv => FieldsAsAnnounced
<1>1. SUFFICES ASSUME RowInv, NEW i \in DOMAIN shown, Distinct, ~shown[i].panic
      PROVE  LET fields == Fields(shown[i].body) IN
             Len(fields) = Len(columns) /\ \A k \in DOMAIN fields : fields[k] # Undecodable
  BY DEF FieldsAsAnnounced
<1>2. shown # <<>>
  BY <1>1
<1>3. ColumnsOK /\ live \in Seq(Updates)
  BY <1>1, <1>2, Handling DEF RowInv
<1>4. PICK values \in [DOMAIN columns -> Values] : shown = <<Handled(values)>>
  BY <1>1, <1>2, Handling
<1> DEFINE row == Handled(values)
<1>5. HandledOK(row)
  BY <1>3, <1>4, HandledRows
<1> HIDE DEF row
<1>6. shown = <<row>>
  BY <1>4 DEF row
<1>7. shown[i] = row
  BY <1>1, <1>6
<1>8. PICK v : Fields(row.body) = FirstFields(v, Len(columns))
  BY <1>1, <1>5, <1>7 DEF HandledOK
<1>9. Len(columns) \in Nat
  BY <1>3 DEF ColumnsOK
<1> DEFINE n == Len(columns)
<1>10. FirstFields(v, n) = [k \in 1..n |-> Decoded(v[k])]
  BY DEF FirstFields
<1>11. Len(FirstFields(v, n)) = n /\ DOMAIN FirstFields(v, n) = 1..n
  BY <1>9, <1>10
<1>12. \A k \in 1..n : FirstFields(v, n)[k] # Undecodable
  <2>1. \A value : Decoded(value) # Undecodable
    BY DEF Decoded, Undecodable, Null, Some
  <2> QED BY <1>10, <2>1
<1> QED BY <1>7, <1>8, <1>11, <1>12

\* Whatever a row, the updates and the query's WHERE hold, a row that is passed on has a
\* field for each column announced, if their names differ: what StringLenEnc writes for
\* one field is what parse_row reads for it.
THEOREM KeepsFields == Spec => []FieldsAsAnnounced
BY Invariant, InvFields, PTL

LEMMA JudgedNeverPanics ==
    ASSUME NEW expr, IsExpression(expr), Judged(expr), NEW row, DOMAIN row = Names(columns)
    PROVE  Evaluate(row, expr) # Panics
<1>1. IsTruthValue(Evaluate(row, expr))
  BY ConditionsJudged DEF Judged
<1> QED BY <1>1 DEF IsTruthValue, Boolean, Panics

\* The updates and the query's WHERE are what was assumed of them.
LEMMA WheresKnown ==
    ASSUME RowInv
    PROVE  /\ IsWhere(where)
           /\ \A u \in DOMAIN live : live[u] \in Updates /\ IsWhere(live[u].where)
<1>1. IsWhere(where)
  <2>1. where \in Wheres \/ where = <<>>
    BY DEF RowInv
  <2>2. IsWhere(<<>>)
    BY DEF IsWhere
  <2> QED BY <2>1, <2>2, RowOverrideAssumption, Zenon
<1>2. ASSUME NEW u \in DOMAIN live PROVE live[u] \in Updates
  <2>1. live \in Seq(Updates)
    BY DEF RowInv
  <2> QED BY <1>2, <2>1
<1>3. \A x \in Updates : IsWhere(x.where)
  BY RowOverrideAssumption, Zenon
<1> QED BY <1>1, <1>2, <1>3

\* Evaluation of a row of the columns panics only for an expression that is not judged.
LEMMA PanicsUnjudged ==
    ASSUME RowInv, NEW row, RowOK(row), RowOK(Rewritten(row)), EvaluatePanics(row)
    PROVE  \/ \E k \in DOMAIN where : ~Judged(where[k])
           \/ \E u \in Found : \E k \in DOMAIN live[u].where : ~Judged(live[u].where[k])
<1>1. CASE \E i \in Found :
               live[i].where # <<>> /\ Evaluate(row, live[i].where[1]) = Panics
  <2>1. PICK i \in Found : live[i].where # <<>> /\ Evaluate(row, live[i].where[1]) = Panics
    BY <1>1
  <2>2. i \in DOMAIN live
    BY DEF Found
  <2> DEFINE w == live[i].where
  <2>3. IsWhere(w) /\ w # <<>>
    BY <2>1, <2>2, WheresKnown
  <2> HIDE DEF w
  <2>4. IsExpression(w[1]) /\ 1 \in DOMAIN w
    BY <2>3, WhereParts
  <2>5. ~Judged(w[1])
    BY <2>1, <2>4, JudgedNeverPanics DEF RowOK, w
  <2> QED BY <2>4, <2>5 DEF w
<1>2. CASE where # <<>> /\ Evaluate(Rewritten(row), where[1]) = Panics
  <2>1. IsExpression(where[1]) /\ 1 \in DOMAIN where
    BY <1>2, WheresKnown, WhereParts
  <2>2. ~Judged(where[1])
    BY <1>2, <2>1, JudgedNeverPanics DEF RowOK
  <2> QED BY <2>1, <2>2
<1> QED BY <1>1, <1>2 DEF EvaluatePanics

LEMMA InvPanics == RowInv => PanicsOnlyIfUnsupported
<1>1. SUFFICES ASSUME RowInv, NEW i \in DOMAIN shown, shown[i].panic
      PROVE  \/ \E k \in DOMAIN where : ~Judged(where[k])
             \/ \E u \in Found : \E k \in DOMAIN live[u].where : ~Judged(live[u].where[k])
  BY DEF PanicsOnlyIfUnsupported
<1>2. shown # <<>>
  BY <1>1
<1>3. ColumnsOK /\ live \in Seq(Updates)
  BY <1>1, <1>2, Handling DEF RowInv
<1>4. PICK values \in [DOMAIN columns -> Values] : shown = <<Handled(values)>>
  BY <1>1, <1>2, Handling
<1> DEFINE h   == Handled(values)
           row == ServerRow(values)
<1>5. /\ RowOK(row)
      /\ OverrideRow(RowBytes(values)) =
             IF EvaluatePanics(row) THEN Panicking
             ELSE [panic |-> FALSE, body |-> Body(Rewritten(row)), skip |-> Skips(row)]
  BY <1>3, <1>4, Outcome
<1> HIDE DEF row
<1>6. RowOK(Rewritten(row))
  BY <1>3, <1>5, RewrittenOK
<1>7. h.panic => EvaluatePanics(row)
  <2> DEFINE o == IF ~TakenForOk(RowBytes(values)) /\ Key(columns[1].table, FALSE) \in entries
                  THEN OverrideRow(RowBytes(values)) ELSE Unchanged(RowBytes(values))
  <2>1. h.panic = o.panic
    BY DEF Handled
  <2>2. Unchanged(RowBytes(values)).panic = FALSE
    BY DEF Unchanged
  <2>3. ~EvaluatePanics(row) => OverrideRow(RowBytes(values)).panic = FALSE
    BY <1>5
  <2> QED BY <2>1, <2>2, <2>3
<1> HIDE DEF h
<1>8. shown = <<h>>
  BY <1>4 DEF h
<1>9. shown[i] = h
  BY <1>1, <1>8
<1>10. EvaluatePanics(row)
  BY <1>1, <1>7, <1>9
<1> QED BY <1>1, <1>5, <1>6, <1>10, PanicsUnjudged

\* Whatever a row holds, a worker panics on it only for the WHERE of an update of its
\* table, or of the query, that is no condition on columns selected: no text breaks
\* parse_row, and no NULL or boolean breaks Parse::evaluate.
THEOREM PanicsOnlyOnUnsupported == Spec => []PanicsOnlyIfUnsupported
BY Invariant, InvPanics, PTL
-----------------------------------------------------------------------------
(* The row as the table has it.                                            *)

\* The evaluator decides as SQL does.
LEMMA WhereAgrees ==
    ASSUME NEW w, IsWhere(w), NEW row, DOMAIN row = Names(columns), Holding(row, DOMAIN row),
           \A k \in DOMAIN w : Judged(w[k]) /\ SameInSql(row, w[k])
    PROVE  /\ (w = <<>> \/ IsTrue(Evaluate(row, w[1]))) <=> Holds(row, w)
           /\ (w # <<>> /\ IsFalse(Evaluate(row, w[1]))) <=> ~Holds(row, w)
<1>1. CASE w = <<>>
  <2>1. Holds(row, w)
    BY <1>1 DEF Holds
  <2> QED BY <1>1, <2>1
<1>2. CASE w # <<>>
  <2>1. IsExpression(w[1]) /\ DOMAIN w = {1}
    BY <1>2, WhereParts
  <2> DEFINE e == w[1]
             t == SqlTruth(row, e)
             v == Evaluate(row, e)
  <2>2. Judged(e) /\ SameInSql(row, e) /\ IsExpression(e)
    BY <2>1
  <2>3. Holds(row, w) <=> t = "true"
    BY <2>1 DEF Holds
  <2> HIDE DEF e
  <2>4. Agrees(v, t)
    BY <2>2, EvaluationAgrees DEF Judged
  <2> HIDE DEF v, t
  <2>5. v = Boolean(t = "true")
    BY <2>4 DEF Agrees
  <2>6. (IsTrue(v) <=> t = "true") /\ (IsFalse(v) <=> t # "true")
    BY <2>5 DEF IsTrue, IsFalse, Boolean
  <2> QED BY <1>2, <2>3, <2>6 DEF v, e
<1> QED BY <1>1, <1>2

\* The server's row under the names of its columns.
LEMMA OriginalValues ==
    ASSUME ColumnsOK, Distinct, NEW values \in [DOMAIN columns -> Values]
    PROVE  /\ DOMAIN Original(values) = Names(columns)
           /\ Original(values) = [c \in DOMAIN Original(values) |-> Original(values)[c]]
           /\ \A i \in DOMAIN columns : Original(values)[columns[i].name] = values[i]
           /\ Holding(Original(values), Names(columns))
<1> DEFINE row == Original(values)
           place(c) == CHOOSE i \in DOMAIN columns : columns[i].name = c
<1>1. row = [c \in Names(columns) |-> values[place(c)]]
  BY DEF Original
<1>2. \A i, j \in DOMAIN columns : columns[i].name = columns[j].name => i = j
  BY NamesCounted DEF ColumnsOK
<1>3. ASSUME NEW i \in DOMAIN columns
      PROVE  columns[i].name \in Names(columns) /\ place(columns[i].name) = i
  <2>1. columns[i].name \in Names(columns)
    BY DEF Names
  <2>2. /\ place(columns[i].name) \in DOMAIN columns
        /\ columns[place(columns[i].name)].name = columns[i].name
    OBVIOUS
  <2> HIDE DEF place
  <2> QED BY <1>2, <2>1, <2>2
<1> HIDE DEF row, place
<1>4. \A i \in DOMAIN columns : row[columns[i].name] = values[i]
  BY <1>1, <1>3
<1>5. Holding(row, Names(columns))
  <2>1. ASSUME NEW c \in Names(columns) PROVE row[c] = Null \/ row[c] = Some(row[c][1])
    <3>1. PICK i \in DOMAIN columns : c = columns[i].name
      BY DEF Names
    <3>2. row[c] = values[i] /\ values[i] \in Values
      BY <1>4, <3>1
    <3> QED BY <3>2, RowOverrideAssumption, Zenon
  <2> QED BY <2>1 DEF Holding
<1> QED BY <1>1, <1>4, <1>5 DEF row

\* A row of ASCII texts is read as the server holds it.
LEMMA ReadAsHeld ==
    ASSUME ColumnsOK, Distinct, NEW values \in [DOMAIN columns -> Values],
           \A i \in DOMAIN columns : Ascii(values[i])
    PROVE  ServerRow(values) = Original(values)
<1> DEFINE row == ServerRow(values)
<1>1. ASSUME NEW i \in DOMAIN columns PROVE Decoded(values[i]) = values[i]
  <2> DEFINE v == values[i]
  <2>1. Stored(v) /\ Ascii(v)
    BY ValuesStored
  <2> HIDE DEF v
  <2>2. CASE v = Null
    BY <2>2 DEF Decoded, v
  <2>3. CASE v # Null
    <3>1. v = Some(v[1]) /\ v[1] \in Seq(Byte) /\ \A j \in DOMAIN v[1] : v[1][j] < 128
      BY <2>1, <2>3, SMT DEF Stored, IsShort, Ascii
    <3>2. Utf8(v[1]) = v[1]
      BY <3>1, AsciiAsItIs
    <3>3. Decoded(v) = Some(v[1])
      BY <2>3, <3>2 DEF Decoded
    <3> QED BY <3>1, <3>3 DEF v
  <2> QED BY <2>2, <2>3
<1>2. ParsedFrom(row, values)
  BY Outcome
<1>3. row = [c \in DOMAIN row |-> row[c]]
  BY DEF ServerRow, ParseRow
<1>4. ASSUME NEW c \in Names(columns) PROVE row[c] = Original(values)[c]
  <2>1. PICK i \in DOMAIN columns : columns[i].name = c /\ row[c] = Decoded(values[i])
    BY <1>2 DEF ParsedFrom
  <2> QED BY <1>1, <2>1, OriginalValues
<1>5. DOMAIN row = Names(columns)
  BY <1>2 DEF ParsedFrom
<1> HIDE DEF row
<1>6. row = Original(values)
  BY <1>3, <1>4, <1>5, OriginalValues
<1> QED BY <1>6 DEF row

\* A row that is not rewritten is passed on as it came.
LEMMA OriginalBody ==
    ASSUME ColumnsOK, Distinct, NEW values \in [DOMAIN columns -> Values]
    PROVE  Body(Original(values)) = RowBytes(values)
<1> DEFINE row == Original(values)
           n   == Len(columns)
           v   == [i \in 1..Cardinality(DOMAIN row) |-> row[columns[i].name]]
<1>1. n \in Nat /\ DOMAIN columns = 1..n
  BY DEF ColumnsOK
<1>2. Cardinality(DOMAIN row) = n
  BY OriginalValues DEF Distinct
<1>3. \A i \in 1..n : row[columns[i].name] = values[i]
  BY <1>1, OriginalValues
<1>4. v = values
  BY <1>1, <1>2, <1>3
<1>5. Body(row) = RowBytes(v)
  BY DEF Body
<1> HIDE DEF v
<1> QED BY <1>4, <1>5

\* What is put in a row are the values the last update that holds on it sets.
LEMMA RewrittenAsTable ==
    ASSUME RowInv, ColumnsOK, NEW values \in [DOMAIN columns -> Values], Simple(values),
           NEW m \in 0..Len(live), IsLast(Original(values), m, Len(live))
    PROVE  /\ Found = OfTable
           /\ Rewritten(Original(values)) = With(Original(values), m)
<1> DEFINE row == Original(values)
<1>1. /\ Distinct
      /\ \A i \in OfTable :
             /\ Recordable(live[i])
             /\ \A k \in DOMAIN live[i].where :
                    Judged(live[i].where[k]) /\ SameInSql(row, live[i].where[k])
  BY DEF Simple
<1>2. /\ DOMAIN row = Names(columns) /\ Holding(row, Names(columns))
      /\ row = [c \in DOMAIN row |-> row[c]]
  BY <1>1, OriginalValues
<1> HIDE DEF row
<1>3. live \in Seq(Updates) /\ Len(live) \in Nat /\ DOMAIN live = 1..Len(live)
  BY DEF RowInv
<1>4. Found = OfTable
  <2>1. ASSUME NEW i \in DOMAIN live
        PROVE  KeyOf(live[i]) = Key(columns[1].table, FALSE) => live[i].table = columns[1].table
    BY DEF KeyOf, Key
  <2>2. ASSUME NEW i \in OfTable PROVE KeyOf(live[i]) = Key(columns[1].table, FALSE)
    <3>1. live[i].table = columns[1].table /\ i \in DOMAIN live
      BY DEF OfTable
    <3>2. live[i] \in Updates /\ ~live[i].quoted
      BY <1>1, <3>1, WheresKnown DEF Recordable
    <3>3. live[i].quoted \in BOOLEAN
      BY <3>2, RowOverrideAssumption, Zenon
    <3>4. live[i].quoted = FALSE
      BY <3>2, <3>3
    <3> QED BY <3>1, <3>4 DEF KeyOf, Key
  <2> QED BY <2>1, <2>2 DEF Found, OfTable
<1>5. Matching(row) = HoldOn(row)
  <2>1. ASSUME NEW i \in OfTable
        PROVE  (live[i].where = <<>> \/ IsTrue(Evaluate(row, live[i].where[1])))
                   <=> Holds(row, live[i].where)
    <3> DEFINE w == live[i].where
    <3>1. i \in DOMAIN live
      BY DEF OfTable
    <3>2. IsWhere(w) /\ \A k \in DOMAIN w : Judged(w[k]) /\ SameInSql(row, w[k])
      BY <1>1, <3>1, WheresKnown
    <3> HIDE DEF w
    <3>3. (w = <<>> \/ IsTrue(Evaluate(row, w[1]))) <=> Holds(row, w)
      BY <1>2, <3>2, WhereAgrees
    <3> QED BY <3>3 DEF w
  <2> QED BY <1>4, <2>1 DEF Matching, HoldOn
<1>6. \A j \in HoldOn(row) : j \in 1..Len(live) /\ j \in OfTable
  BY <1>3 DEF HoldOn, OfTable
<1>7. /\ m = 0 \/ m \in HoldOn(row)
      /\ \A j \in HoldOn(row) : j <= m
  BY <1>3, <1>6 DEF IsLast, row
<1> DEFINE new     == Applied(row)
           visited == {columns[i].name : i \in 1..Cardinality(DOMAIN row)}
<1>8. visited = Names(columns)
  <2>1. Cardinality(DOMAIN row) = Len(columns)
    BY <1>1, <1>2 DEF Distinct
  <2> QED BY <2>1 DEF Names, ColumnsOK
<1>9. Rewritten(row) =
          [c \in DOMAIN row |-> IF c \in visited \cap DOMAIN new THEN Assigned(new[c]) ELSE row[c]]
  BY DEF Rewritten
<1> HIDE DEF visited, new
<1>10. CASE m = 0
  <2>1. HoldOn(row) = {}
    <3>1. \A j \in HoldOn(row) : j \in 1..Len(live) /\ j <= 0
      BY <1>6, <1>7, <1>10
    <3> QED BY <1>3, <3>1
  <2>2. new = <<>>
    BY <1>5, <2>1 DEF new, Applied
  <2>3. DOMAIN new = {}
    BY <2>2
  <2>4. Rewritten(row) = row
    BY <1>2, <1>9, <2>3
  <2> QED BY <1>4, <1>10, <2>4 DEF With, row
<1>11. CASE m # 0
  <2>1. m \in HoldOn(row) /\ HoldOn(row) # {} /\ HoldOn(row) \subseteq 1..Len(live)
    BY <1>6, <1>7, <1>11
  <2> DEFINE M == HoldOn(row)
             x == Sets!Max(M)
  <2>2. x \in M /\ \A j \in M : j <= x
    <3> HIDE DEF M
    <3>1. M \subseteq 1..Len(live) /\ M # {}
      BY <2>1 DEF M
    <3> QED BY <1>3, <3>1, Greatest
  <2> HIDE DEF x
  <2>3. x = m
    <3>1. x <= m /\ m <= x /\ x \in 1..Len(live) /\ m \in 1..Len(live)
      BY <1>6, <1>7, <2>1, <2>2
    <3> QED BY <1>3, <3>1
  <2>4. new = live[m].set
    BY <1>5, <2>1, <2>3 DEF new, Applied, x
  <2>5. m \in OfTable /\ m \in DOMAIN live
    BY <1>6, <2>1 DEF OfTable
  <2>6. \A c \in DOMAIN live[m].set : Assigned(live[m].set[c]) = SqlValue(row, live[m].set[c])
    <3>1. ASSUME NEW c \in DOMAIN live[m].set
          PROVE  Assigned(live[m].set[c]) = SqlValue(row, live[m].set[c])
      <4> DEFINE node == live[m].set[c]
                 u == live[m]
      <4>1. node.kind \in {"string", "null"}
        BY <1>1, <2>5 DEF Recordable
      <4>2. IsLiteral(node)
        <5>1. u \in Updates
          BY <2>5, WheresKnown
        <5>2. c \in DOMAIN u.set
          OBVIOUS
        <5> HIDE DEF u
        <5>3. IsLiteral(u.set[c])
          BY <5>1, <5>2, RowOverrideAssumption, Zenon
        <5> QED BY <5>3 DEF u
      <4> HIDE DEF node
      <4>3. node.op = "value"
        BY <4>2 DEF IsLiteral
      <4>4. Assigned(node) = SqlValue(row, node)
        BY <4>1, <4>3 DEF Assigned, SqlValue
      <4> QED BY <4>4 DEF node
    <3> QED BY <3>1
  <2>7. Rewritten(row) = [c \in DOMAIN row |-> IF c \in DOMAIN live[m].set
                                               THEN SqlValue(row, live[m].set[c]) ELSE row[c]]
    BY <1>2, <1>8, <1>9, <2>4, <2>6
  <2>8. Rewritten(row) = With(row, m)
    BY <1>11, <2>7 DEF With
  <2> QED BY <1>4, <2>8 DEF row
<1> QED BY <1>10, <1>11

\* What becomes of a row that the premise covers: what the table would hold, as the code
\* rewrites it, and no panic.
LEMMA RowFollows ==
    ASSUME RowInv, ColumnsOK, NEW values \in [DOMAIN columns -> Values], Simple(values),
           ServerSends(values)
    PROVE  /\ ~Handled(values).panic
           /\ Handled(values).body = Body(Current(values))
           /\ Handled(values).skip = ~Holds(Current(values), where)
<1> DEFINE row   == Original(values)
           after == Current(values)
           bytes == RowBytes(values)
           inLog == Key(columns[1].table, FALSE) \in entries
           o     == IF ~TakenForOk(bytes) /\ inLog THEN OverrideRow(bytes) ELSE Unchanged(bytes)
<1>1. /\ Distinct /\ Independent /\ ~TakenForOk(bytes)
      /\ \A i \in DOMAIN columns : Ascii(values[i])
      /\ \A i \in OfTable : Recordable(live[i])
      /\ \A i \in OfTable : \A k \in DOMAIN live[i].where : Judged(live[i].where[k])
      /\ \A k \in DOMAIN where : Judged(where[k]) /\ SameInSql(after, where[k])
  BY DEF Simple
<1>2. /\ live \in Seq(Updates) /\ Len(live) \in Nat /\ DOMAIN live = 1..Len(live)
      /\ \A i \in DOMAIN live : KeyOf(live[i]) \in entries
  BY DEF RowInv
<1>3. /\ DOMAIN row = Names(columns)
      /\ row = [c \in DOMAIN row |-> row[c]]
      /\ Body(row) = bytes
  BY <1>1, OriginalValues, OriginalBody
<1>4. Handled(values) = [values |-> values, panic |-> o.panic, body |-> o.body, skip |-> o.skip]
  BY DEF Handled
<1>5. ServerRow(values) = row
  BY <1>1, ReadAsHeld
<1>6. /\ RowOK(row)
      /\ OverrideRow(bytes) =
             IF EvaluatePanics(row) THEN Panicking
             ELSE [panic |-> FALSE, body |-> Body(Rewritten(row)), skip |-> Skips(row)]
  BY <1>5, Outcome
<1>7. RowOK(Rewritten(row))
  BY <1>2, <1>6, RewrittenOK
<1>8. ASSUME NEW i \in OfTable
      PROVE  /\ IsWhere(live[i].where)
             /\ \A k \in DOMAIN live[i].where : Mentions(live[i].where[k]) \subseteq DOMAIN row
  <2>1. i \in DOMAIN live
    BY DEF OfTable
  <2>2. IsWhere(live[i].where)
    BY <2>1, WheresKnown
  <2>3. \A k \in DOMAIN live[i].where : Mentions(live[i].where[k]) \subseteq Names(columns)
    BY <1>1 DEF Judged
  <2> QED BY <1>3, <2>2, <2>3
<1>9. PICK m \in 0..Len(live) : after = With(row, m) /\ IsLast(row, m, Len(live))
  <2>1. \E m \in 0..Len(live) :
            /\ AfterUpdates(row, columns[1].table, live) = With(row, m)
            /\ IsLast(row, m, Len(live))
    <3> HIDE DEF row
    <3> QED BY <1>1, <1>2, <1>3, <1>8, LastHolds
  <2> QED BY <2>1 DEF Current
<1>10. Found = OfTable /\ Rewritten(row) = after
  BY <1>9, RewrittenAsTable
<1> HIDE DEF row, after, bytes
<1>11. CASE inLog
  <2>1. ~EvaluatePanics(row)
    <3>1. SUFFICES ASSUME EvaluatePanics(row) PROVE FALSE
      OBVIOUS
    <3>2. \/ \E k \in DOMAIN where : ~Judged(where[k])
          \/ \E u \in Found : \E k \in DOMAIN live[u].where : ~Judged(live[u].where[k])
      BY <1>6, <1>7, <3>1, PanicsUnjudged
    <3> QED BY <1>1, <1>10, <3>2
  <2>2. o = [panic |-> FALSE, body |-> Body(after), skip |-> Skips(row)]
    BY <1>1, <1>6, <1>10, <1>11, <2>1
  <2>3. Skips(row) = ~Holds(after, where)
    <3>1. IsWhere(where)
      BY WheresKnown
    <3>2. DOMAIN after = Names(columns) /\ Holding(after, DOMAIN after)
      BY <1>7, <1>10 DEF RowOK, Stored, Holding
    <3>3. (where # <<>> /\ IsFalse(Evaluate(after, where[1]))) <=> ~Holds(after, where)
      BY <1>1, <3>1, <3>2, WhereAgrees
    <3>4. Skips(row) = (where # <<>> /\ IsFalse(Evaluate(after, where[1])))
      BY <1>10 DEF Skips
    <3> QED BY <3>3, <3>4
  <2> HIDE DEF o
  <2> QED BY <1>4, <2>2, <2>3 DEF after
<1>12. CASE ~inLog
  <2>1. OfTable = {}
    <3>1. ASSUME NEW i \in OfTable PROVE FALSE
      <4>1. i \in Found /\ i \in DOMAIN live
        BY <1>10 DEF OfTable
      <4>2. KeyOf(live[i]) = Key(columns[1].table, FALSE)
        BY <4>1 DEF Found
      <4>3. KeyOf(live[i]) \in entries
        BY <1>2, <4>1
      <4> QED BY <1>12, <4>2, <4>3
    <3> QED BY <3>1
  <2>2. after = row
    <3>1. m = 0
      BY <1>9, <2>1 DEF IsLast, HoldOn
    <3> QED BY <1>9, <3>1 DEF With
  <2>3. Holds(after, where)
    BY <1>1, <2>2 DEF ServerSends, row
  <2>4. o = [panic |-> FALSE, body |-> Body(after), skip |-> FALSE]
    BY <1>3, <1>12, <2>2 DEF Unchanged
  <2>5. FALSE = ~Holds(after, where)
    BY <2>3
  <2> HIDE DEF o
  <2>6. Handled(values) =
            [values |-> values, panic |-> FALSE, body |-> Body(after), skip |-> FALSE]
    BY <1>4, <2>4
  <2>7. Handled(values).panic = FALSE /\ Handled(values).body = Body(after)
        /\ Handled(values).skip = FALSE
    BY <2>6
  <2>8. ~Handled(values).panic /\ Handled(values).body = Body(Current(values))
    BY <2>7 DEF after
  <2>9. Handled(values).skip = ~Holds(after, where)
    BY <2>5, <2>7, Zenon
  <2> QED BY <2>8, <2>9 DEF after
<1> QED BY <1>11, <1>12

LEMMA InvFollows == RowInv => RowsFollowTable
<1>1. SUFFICES ASSUME RowInv, NEW i \in DOMAIN shown, Simple(shown[i].values)
      PROVE  LET after == Current(shown[i].values) IN
             /\ ~shown[i].panic
             /\ shown[i].body = Body(after)
             /\ shown[i].skip = ~Holds(after, where)
  BY DEF RowsFollowTable
<1>2. shown # <<>>
  BY <1>1
<1>3. ColumnsOK /\ live \in Seq(Updates)
  BY <1>1, <1>2, Handling DEF RowInv
<1>4. PICK values \in [DOMAIN columns -> Values] :
          ServerSends(values) /\ shown = <<Handled(values)>>
  BY <1>1, <1>2, Handling
<1> DEFINE h == Handled(values)
<1>5. h.values = values
  BY <1>3, HandledRows
<1> HIDE DEF h
<1>6. shown = <<h>>
  BY <1>4 DEF h
<1>7. shown[i] = h
  BY <1>1, <1>6
<1>8. Simple(values)
  BY <1>1, <1>5, <1>7
<1>9. ~h.panic /\ h.body = Body(Current(values)) /\ h.skip = ~Holds(Current(values), where)
  BY <1>1, <1>3, <1>4, <1>8, RowFollows DEF h
<1> QED BY <1>5, <1>7, <1>9

\* Whatever the tables, updates, queries and values: a row the server sends reaches the
\* client with the bytes an SQL server would send after the live updates, or is left out
\* if the query's WHERE no longer holds, without a panic; where Simple holds, which names
\* what the code does not do (quoted names, values that are no texts, updates that build
\* on one another, NULLs compared by =, texts beyond ASCII, rows taken for OK packets).
THEOREM FollowsTable == Spec => []RowsFollowTable
BY Invariant, InvFollows, PTL
=============================================================================
