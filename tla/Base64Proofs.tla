---------------------------- MODULE Base64Proofs ----------------------------
(***************************************************************************)
(* Proofs about Base64: for every set of chars and every length.           *)
(***************************************************************************)
EXTENDS Base64, TLAPS

\* What TypeOK says, with the types the induction needs.
TypeInv ==
    /\ pSrcBuff \in Seq(Byte)
    /\ pBuff64 \in Seq(0..Pad)
    /\ done \in BOOLEAN
    /\ TypeOK

\* Sequences over any set.
LEMMA ElementType == ASSUME NEW S, NEW s \in Seq(S), NEW k \in 1..Len(s) PROVE s[k] \in S
    OBVIOUS

LEMMA OneElement == ASSUME NEW S, NEW x \in S PROVE <<x>> \in Seq(S) /\ Len(<<x>>) = 1
    OBVIOUS

LEMMA Widening ==
    ASSUME NEW S, NEW T, S \subseteq T, NEW s \in Seq(S) PROVE s \in Seq(T)
    OBVIOUS

LEMMA InitType == Init => TypeInv
<1> SUFFICES ASSUME Init PROVE TypeInv
    OBVIOUS
<1>1. PICK len \in 0..MaxLen : pSrcBuff \in [1..len -> Byte]
    BY DEF Init
<1>2. len \in Nat
    BY ByteAssumption
<1>3. pSrcBuff \in Seq(Byte) /\ iLen = len
    BY <1>1, <1>2 DEF iLen
<1>4. pBuff64 = << >> /\ i = 0 /\ point = 2 /\ n = 0 /\ done = FALSE
    BY DEF Init
<1>5. \A k \in 1..iLen : pSrcBuff[k] \in Byte
    BY <1>1, <1>3
<1>6. pBuff64 \in Seq(0..Pad) /\ Len(pBuff64) = 0
    BY <1>4
<1>7. \A k \in 1..Len(pBuff64) : pBuff64[k] \in 0..Pad /\ pBuff64[k] # Pad
    BY <1>6
<1>8. (4 * i) \div 3 = 0 /\ 2 + 2 * (i % 3) = point /\ i \in 0..iLen /\ n \in 0..63
    BY <1>2, <1>3, <1>4
<1>9. (point = 2 => n = 0) /\ point # 4 /\ point # 6
    BY <1>4
<1>10. done \in BOOLEAN
    BY <1>4
<1> QED BY <1>3, <1>5, <1>6, <1>7, <1>8, <1>9, <1>10 DEF TypeInv, TypeOK

\* The bytes taken, the position in the group and the bits left go together.
LEMMA EncodeType == TypeInv /\ Encode => TypeInv'
<1> SUFFICES ASSUME TypeInv, Encode PROVE TypeInv'
    OBVIOUS
<1> DEFINE Step(a, p, l) ==
       /\ a \in Seq(0..63) /\ pBuff64' = pBuff64 \o a
       /\ (4 * (i + 1)) \div 3 = (4 * i) \div 3 + Len(a)
       /\ point' = p /\ p = 2 + 2 * ((i + 1) % 3)
       /\ n' = l /\ l \in 0..63
       /\ (p = 2 => l = 0) /\ (p = 4 => l % 16 = 0) /\ (p = 6 => l % 4 = 0)
<1>1. /\ pSrcBuff \in Seq(Byte) /\ iLen = Len(pSrcBuff) /\ i \in 0..iLen /\ i < iLen
      /\ point = 2 + 2 * (i % 3) /\ n \in 0..63
      /\ (point = 2 => n = 0) /\ (point = 4 => n % 16 = 0) /\ (point = 6 => n % 4 = 0)
      /\ pBuff64 \in Seq(0..Pad) /\ Len(pBuff64) = (4 * i) \div 3
      /\ \A k \in 1..Len(pBuff64) : pBuff64[k] # Pad
      /\ ~done /\ done \in BOOLEAN
      /\ i' = i + 1 /\ pSrcBuff' = pSrcBuff /\ done' = done
    BY DEF TypeInv, TypeOK, Encode, iLen
<1>2. pSrcBuff[i + 1] \in Byte
    BY <1>1
<1>3. PICK c \in -128..127 : c = pSrcBuff[i + 1]
    BY <1>2, ByteAssumption
<1>4. i \in Nat
    BY <1>1
<1>5. ASSUME NEW x \in 0..63 PROVE <<x>> \in Seq(0..63) /\ Len(<<x>>) = 1
    OBVIOUS
<1>6. ASSUME i % 3 = 0 PROVE \E a, p, l : Step(a, p, l)
  <2>1. point = 2 /\ n = 0
    BY <1>1, <1>6
  <2>2. /\ pBuff64' = Append(pBuff64, ((c \div 4) % 64) + n)
        /\ n' = (c * 16) % 64 /\ point' = 4
    BY <2>1, <1>3 DEF Encode, iIndex, Left
  <2>3. ((c \div 4) % 64) + n \in 0..63
    BY <2>1
  <2>4. (c * 16) % 64 \in 0..63 /\ ((c * 16) % 64) % 16 = 0
    OBVIOUS
  <2>5. (i + 1) % 3 = 1 /\ (4 * (i + 1)) \div 3 = (4 * i) \div 3 + 1
    BY <1>4, <1>6
  <2>6. pBuff64' = pBuff64 \o <<((c \div 4) % 64) + n>>
    BY <1>1, <2>2, <2>3 DEF Pad
  <2>7. Step(<<((c \div 4) % 64) + n>>, 4, (c * 16) % 64)
    BY <1>5, <2>2, <2>3, <2>4, <2>5, <2>6
  <2> QED BY <2>7
<1>7. ASSUME i % 3 = 1 PROVE \E a, p, l : Step(a, p, l)
  <2>1. point = 4 /\ n % 16 = 0
    BY <1>1, <1>7
  <2>2. /\ pBuff64' = Append(pBuff64, ((c \div 16) % 16) + n)
        /\ n' = (c * 4) % 64 /\ point' = 6
    BY <2>1, <1>3 DEF Encode, iIndex, Left
  <2>3. ((c \div 16) % 16) + n \in 0..63
    BY <1>1, <2>1
  <2>4. (c * 4) % 64 \in 0..63 /\ ((c * 4) % 64) % 4 = 0
    OBVIOUS
  <2>5. (i + 1) % 3 = 2 /\ (4 * (i + 1)) \div 3 = (4 * i) \div 3 + 1
    BY <1>4, <1>7
  <2>6. pBuff64' = pBuff64 \o <<((c \div 16) % 16) + n>>
    BY <1>1, <2>2, <2>3 DEF Pad
  <2>7. Step(<<((c \div 16) % 16) + n>>, 6, (c * 4) % 64)
    BY <1>5, <2>2, <2>3, <2>4, <2>5, <2>6
  <2> QED BY <2>7
<1>8. ASSUME i % 3 = 2 PROVE \E a, p, l : Step(a, p, l)
  <2>1. point = 6 /\ n % 4 = 0
    BY <1>1, <1>8
  <2>2. /\ pBuff64' = pBuff64 \o <<((c \div 64) % 4) + n, c % 64>>
        /\ n' = 0 /\ point' = 2
    BY <2>1, <1>3 DEF Encode, iIndex
  <2>3. ((c \div 64) % 4) + n \in 0..63 /\ c % 64 \in 0..63
    BY <1>1, <2>1
  <2>4. /\ <<((c \div 64) % 4) + n, c % 64>> \in Seq(0..63)
        /\ Len(<<((c \div 64) % 4) + n, c % 64>>) = 2
    BY <2>3
  <2>5. (i + 1) % 3 = 0 /\ (4 * (i + 1)) \div 3 = (4 * i) \div 3 + 2
    BY <1>4, <1>8
  <2>6. Step(<<((c \div 64) % 4) + n, c % 64>>, 2, 0)
    BY <2>2, <2>4, <2>5
  <2> QED BY <2>6
<1>9. PICK a, p, l : Step(a, p, l)
  <2>1. i % 3 = 0 \/ i % 3 = 1 \/ i % 3 = 2
    BY <1>4
  <2> HIDE DEF Step
  <2> QED BY <2>1, <1>6, <1>7, <1>8
<1>10. /\ pBuff64' \in Seq(0..Pad)
       /\ Len(pBuff64') = Len(pBuff64) + Len(a)
       /\ \A k \in 1..Len(pBuff64') : pBuff64'[k] \in 0..Pad /\ pBuff64'[k] # Pad
  <2>1. a \in Seq(0..63) /\ pBuff64' = pBuff64 \o a
    BY <1>9
  <2>2. /\ pBuff64 \in Seq(0..64) /\ a \in Seq(0..64)
        /\ \A k \in 1..Len(a) : a[k] # 64
    <3>1. 0..63 \subseteq 0..64 /\ ~(64 \in 0..63)
      OBVIOUS
    <3>2. \A k \in 1..Len(a) : a[k] \in 0..63
      BY <2>1, ElementType
    <3>3. pBuff64 \in Seq(0..64)
      BY <1>1 DEF Pad
    <3>4. a \in Seq(0..64)
      BY <2>1, <3>1, Widening
    <3> QED BY <3>1, <3>2, <3>3, <3>4
  <2>3. pBuff64' \in Seq(0..64) /\ Len(pBuff64') = Len(pBuff64) + Len(a)
    BY <2>1, <2>2
  <2>4. \A k \in 1..Len(pBuff64') :
           pBuff64'[k] = IF k <= Len(pBuff64) THEN pBuff64[k] ELSE a[k - Len(pBuff64)]
    BY <2>1, <2>2
  <2>5. \A k \in 1..Len(pBuff64') : pBuff64'[k] # 64
    BY <1>1, <2>2, <2>3, <2>4 DEF Pad
  <2>6. \A k \in 1..Len(pBuff64') : pBuff64'[k] \in 0..64
    BY <2>3, ElementType
  <2> QED BY <2>3, <2>5, <2>6 DEF Pad
<1>11. Len(pBuff64') = (4 * i') \div 3 /\ point' = 2 + 2 * (i' % 3)
    BY <1>1, <1>9, <1>10
<1>12. i' \in 0..iLen' /\ iLen' = iLen
    BY <1>1 DEF iLen
<1>13. /\ n' \in 0..63
       /\ (point' = 2 => n' = 0) /\ (point' = 4 => n' % 16 = 0) /\ (point' = 6 => n' % 4 = 0)
    BY <1>9
<1>14. \A k \in 1..iLen' : pSrcBuff'[k] \in Byte
    BY <1>1, <1>12
<1> QED BY <1>1, <1>10, <1>11, <1>12, <1>13, <1>14 DEF TypeInv, TypeOK

LEMMA FinishType == TypeInv /\ Finish => TypeInv'
<1> SUFFICES ASSUME TypeInv, Finish PROVE TypeInv'
    OBVIOUS
<1> DEFINE left == IF n # 0 THEN <<n>> ELSE << >>
           fill == CASE iLen % 3 = 0 -> << >>
                     [] iLen % 3 = 1 -> <<Pad, Pad>>
                     [] iLen % 3 = 2 -> <<Pad>>
<1>1. /\ pBuff64 \in Seq(0..Pad) /\ n \in 0..63 /\ pSrcBuff \in Seq(Byte)
      /\ pBuff64' = pBuff64 \o left \o fill
      /\ done' = TRUE /\ UNCHANGED <<pSrcBuff, i, point, n>>
    BY DEF TypeInv, TypeOK, Finish
<1>2. left \in Seq(0..Pad)
  <2>1. n \in 0..Pad
    BY <1>1 DEF Pad
  <2>2. <<n>> \in Seq(0..Pad) /\ << >> \in Seq(0..Pad)
    BY <2>1, OneElement
  <2> QED BY <2>2
<1>3. fill \in Seq(0..Pad)
  <2>1. iLen % 3 = 0 \/ iLen % 3 = 1 \/ iLen % 3 = 2
    BY <1>1 DEF iLen
  <2>2. /\ (iLen % 3 = 0 => fill = << >>) /\ (iLen % 3 = 1 => fill = <<Pad, Pad>>)
        /\ (iLen % 3 = 2 => fill = <<Pad>>)
    OBVIOUS
  <2>3. << >> \in Seq(0..Pad) /\ <<Pad, Pad>> \in Seq(0..Pad) /\ <<Pad>> \in Seq(0..Pad)
    BY DEF Pad
  <2> HIDE DEF fill
  <2> QED BY <2>1, <2>2, <2>3
<1> HIDE DEF left, fill
<1>4. pBuff64' \in Seq(0..Pad)
    BY <1>1, <1>2, <1>3
<1>5. ASSUME NEW k \in 1..Len(pBuff64') PROVE pBuff64'[k] \in 0..Pad
    BY <1>4, ElementType
<1> QED BY <1>1, <1>4, <1>5 DEF TypeInv, TypeOK, iLen

\* Whatever the chars, signed ones included, and whatever the length: every
\* index Char2Base64 looks up is in Base64Encode, and the symbols written
\* follow from the chars taken.
THEOREM IndexInTable == Spec => []TypeOK
<1>1. TypeInv /\ [Next]_vars => TypeInv'
  <2> SUFFICES ASSUME TypeInv, [Next]_vars PROVE TypeInv'
    OBVIOUS
  <2>1. CASE UNCHANGED vars
    BY <2>1 DEF vars, TypeInv, TypeOK, iLen
  <2> QED BY <2>1, EncodeType, FinishType DEF Next
<1> QED BY <1>1, InitType, PTL DEF Spec, TypeInv
-----------------------------------------------------------------------------
(* What is written is what RFC 4648 asks for.  The symbols depend on the   *)
(* bits left of the byte before, so the induction says which these are.    *)

\* The bits left in n are the lower two of the first byte of a group, or the
\* lower four of the second, moved to the upper end of a symbol.
LeftInv ==
    /\ i % 3 = 0 => n = 0
    /\ i % 3 = 1 => n = (ByteAt(pSrcBuff, i) % 4) * 16
    /\ i % 3 = 2 => n = (ByteAt(pSrcBuff, i) % 16) * 4

EncodingInv == TypeInv /\ LeftInv /\ WrittenSoFar /\ ExactUnlessZerosLeft

\* Masking a signed char after the shift is shifting the byte it stands for.
LEMMA SignMasked ==
    ASSUME NEW c \in -128..127
    PROVE  /\ c % 256 \in 0..255
           /\ (c \div 4) % 64 = (c % 256) \div 4
           /\ (c \div 16) % 16 = (c % 256) \div 16
           /\ (c \div 64) % 4 = (c % 256) \div 64
           /\ (c * 16) % 64 = ((c % 256) % 4) * 16
           /\ (c * 4) % 64 = ((c % 256) % 16) * 4
           /\ c % 64 = (c % 256) % 64
<1>1. CASE c >= 0
  <2>1. c % 256 = c
    BY <1>1
  <2> QED BY <1>1, <2>1
<1>2. CASE c < 0
  <2>1. c % 256 = c + 256
    BY <1>2
  <2>2. c + 256 \in 128..255
    BY <1>2
  <2>3. (c \div 4) % 64 = (c + 256) \div 4
    BY <1>2
  <2>4. (c \div 16) % 16 = (c + 256) \div 16
    BY <1>2
  <2>5. (c \div 64) % 4 = (c + 256) \div 64
    BY <1>2
  <2>6. (c * 16) % 64 = ((c + 256) % 4) * 16
    BY <1>2
  <2>7. (c * 4) % 64 = ((c + 256) % 16) * 4
    BY <1>2
  <2>8. c % 64 = (c + 256) % 64
    BY <1>2
  <2> QED BY <2>1, <2>2, <2>3, <2>4, <2>5, <2>6, <2>7, <2>8
<1> QED BY <1>1, <1>2

LEMMA Quotient64 ==
    ASSUME NEW g \in Nat, NEW w \in 0..63, NEW G, G = 64 * g + w
    PROVE  G \div 64 = g /\ G % 64 = w
    OBVIOUS

\* The four symbols of a group, by the bytes that give them their bits.
Number(a, b, c) == a * 65536 + b * 256 + c

CutAs(G, a, b, c) ==
    /\ G \div 262144 = a \div 4
    /\ (G \div 4096) % 64 = (a % 4) * 16 + b \div 16
    /\ (G \div 64) % 64 = (b % 16) * 4 + c \div 64
    /\ G % 64 = c % 64

LEMMA Sextets ==
    ASSUME NEW a \in 0..255, NEW b \in 0..255, NEW c \in 0..255
    PROVE  CutAs(Number(a, b, c), a, b, c)
<1>0. PICK G : G = Number(a, b, c)
    OBVIOUS
<1>1. PICK q \in 0..63, r \in 0..3 : a = 4 * q + r /\ q = a \div 4 /\ r = a % 4
    <2>1. a \div 4 \in 0..63
        OBVIOUS
    <2>2. a % 4 \in 0..3
        OBVIOUS
    <2>3. a % 4 = a - 4 * (a \div 4)
        OBVIOUS
    <2> QED BY <2>1, <2>2, <2>3
<1>2. PICK u \in 0..15, v \in 0..15 : b = 16 * u + v /\ u = b \div 16 /\ v = b % 16
    <2>1. b \div 16 \in 0..15
        OBVIOUS
    <2>2. b % 16 \in 0..15
        OBVIOUS
    <2>3. b % 16 = b - 16 * (b \div 16)
        OBVIOUS
    <2> QED BY <2>1, <2>2, <2>3
<1>3. PICK x \in 0..3, y \in 0..63 : c = 64 * x + y /\ x = c \div 64 /\ y = c % 64
    <2>1. c \div 64 \in 0..3
        OBVIOUS
    <2>2. c % 64 \in 0..63
        OBVIOUS
    <2>3. c % 64 = c - 64 * (c \div 64)
        OBVIOUS
    <2> QED BY <2>1, <2>2, <2>3
<1>4. G = 262144 * q + 4096 * (r * 16 + u) + 64 * (v * 4 + x) + y /\ G \in Nat
    BY <1>0, <1>1, <1>2, <1>3 DEF Number
<1>5. G \div 262144 = q
    BY <1>4
<1>6. (G \div 4096) % 64 = r * 16 + u
    <2>1. PICK w \in 0..4095 : w = 64 * (v * 4 + x) + y
        OBVIOUS
    <2>2. PICK z \in 0..63 : z = r * 16 + u
        OBVIOUS
    <2>3. G = 4096 * (64 * q + z) + w
        BY <1>4, <2>1, <2>2
    <2>4. G \div 4096 = 64 * q + z
        <3>1. PICK g \in Nat : g = 64 * q + z
            OBVIOUS
        <3>2. G = 4096 * g + w
            BY <2>3, <3>1
        <3>3. G \div 4096 = g
            BY <3>2
        <3> QED BY <3>1, <3>3
    <2> QED BY <2>2, <2>4
<1>7. (G \div 64) % 64 = v * 4 + x
    <2>1. PICK z \in 0..63 : z = v * 4 + x
        OBVIOUS
    <2>2. PICK w \in Nat : w = 64 * q + (r * 16 + u)
        OBVIOUS
    <2>3. G = 64 * (64 * w + z) + y
        BY <1>4, <2>1, <2>2
    <2>4. G \div 64 = 64 * w + z
        BY <2>3, Quotient64
    <2> QED BY <2>1, <2>4
<1>8. G % 64 = y
    <2>1. PICK w \in Nat : w = 4096 * q + 64 * (r * 16 + u) + (v * 4 + x)
        OBVIOUS
    <2>2. G = 64 * w + y
        BY <1>4, <2>1
    <2> QED BY <2>2, Quotient64
<1>9. q = a \div 4 /\ r = a % 4 /\ u = b \div 16 /\ v = b % 16 /\ x = c \div 64 /\ y = c % 64
    BY <1>1, <1>2, <1>3
<1>10. G \div 262144 = a \div 4
    BY <1>5, <1>9
<1>11. (G \div 4096) % 64 = (a % 4) * 16 + b \div 16
    BY <1>6, <1>9
<1>12. (G \div 64) % 64 = (b % 16) * 4 + c \div 64
    BY <1>7, <1>9
<1>13. G % 64 = c % 64
    BY <1>8, <1>9
<1>14. CutAs(G, a, b, c)
    BY <1>10, <1>11, <1>12, <1>13 DEF CutAs
<1> QED BY <1>0, <1>14, Zenon

\* The number of the group the three bytes from 3g + 1 on are in.
LEMMA GroupBytes ==
    ASSUME NEW s \in Seq(-128..127), NEW g \in Nat
    PROVE  LET a == ByteAt(s, 3 * g + 1)  b == ByteAt(s, 3 * g + 2)  c == ByteAt(s, 3 * g + 3)
           IN  /\ Sextet(s, g, 0) = a \div 4
               /\ Sextet(s, g, 1) = (a % 4) * 16 + b \div 16
               /\ Sextet(s, g, 2) = (b % 16) * 4 + c \div 64
               /\ Sextet(s, g, 3) = c % 64
<1>1. ASSUME NEW k \in Nat PROVE ByteAt(s, k) \in 0..255
  <2>1. CASE k \in 1..Len(s)
    <3>1. s[k] \in -128..127
        BY <2>1, ElementType
    <3> QED BY <2>1, <3>1, SignMasked DEF ByteAt
  <2> QED BY <2>1 DEF ByteAt
<1>2. PICK a \in 0..255 : a = ByteAt(s, 3 * g + 1)
  <2>1. PICK k \in Nat : k = 3 * g + 1
    OBVIOUS
  <2> QED BY <1>1, <2>1
<1>3. PICK b \in 0..255 : b = ByteAt(s, 3 * g + 2)
  <2>1. PICK k \in Nat : k = 3 * g + 2
    OBVIOUS
  <2> QED BY <1>1, <2>1
<1>4. PICK c \in 0..255 : c = ByteAt(s, 3 * g + 3)
  <2>1. PICK k \in Nat : k = 3 * g + 3
    OBVIOUS
  <2> QED BY <1>1, <2>1
<1>5. Group(s, g) = Number(a, b, c)
    BY <1>2, <1>3, <1>4 DEF Group, Number
<1>6. CutAs(Group(s, g), a, b, c)
    BY <1>5, Sextets, Zenon
<1>7. /\ Sextet(s, g, 0) = Group(s, g) \div 262144
      /\ Sextet(s, g, 1) = (Group(s, g) \div 4096) % 64
      /\ Sextet(s, g, 2) = (Group(s, g) \div 64) % 64
      /\ Sextet(s, g, 3) = Group(s, g) % 64
    BY DEF Sextet
<1> QED BY <1>2, <1>3, <1>4, <1>6, <1>7 DEF CutAs

\* A symbol of the reference, by the group it is in.
LEMMA SymbolOf ==
    ASSUME NEW s \in Seq(-128..127), NEW g \in Nat, NEW j \in 0..3,
           4 * g + j + 1 <= Symbols(s)
    PROVE  RFC4648(s)[4 * g + j + 1] = Sextet(s, g, j)
<1>1. PICK k \in Nat : k = 4 * g + j + 1
    OBVIOUS
<1>2. (k - 1) \div 4 = g /\ (k - 1) % 4 = j
    BY <1>1
<1>3. Len(s) \in Nat
    OBVIOUS
<1>4. Symbols(s) <= 4 * Groups(s)
    BY <1>3 DEF Symbols, Groups
<1>5. Symbols(s) \in Int /\ Groups(s) \in Int
    BY <1>3 DEF Symbols, Groups
<1>6. k \in 1..(4 * Groups(s)) /\ k <= Symbols(s)
    BY <1>1, <1>4, <1>5
<1>7. RFC4648(s)[k] = Sextet(s, (k - 1) \div 4, (k - 1) % 4)
    BY <1>6 DEF RFC4648
<1> QED BY <1>1, <1>2, <1>7

LEMMA PaddingOf ==
    ASSUME NEW s \in Seq(-128..127), NEW k \in Nat, k > Symbols(s), k <= 4 * Groups(s)
    PROVE  RFC4648(s)[k] = Pad
<1>1. Len(s) \in Nat
    OBVIOUS
<1>2. Symbols(s) \in Nat /\ Groups(s) \in Nat
    BY <1>1 DEF Symbols, Groups
<1>3. k \in 1..(4 * Groups(s)) /\ ~(k <= Symbols(s))
    BY <1>2
<1> QED BY <1>3 DEF RFC4648

LEMMA InitEncoding == Init => EncodingInv
<1> SUFFICES ASSUME Init PROVE EncodingInv
    OBVIOUS
<1>1. TypeInv
    BY InitType
<1>2. i = 0 /\ n = 0 /\ pBuff64 = << >> /\ done = FALSE
    BY DEF Init
<1>3. Len(pBuff64) = 0
    BY <1>2
<1> QED BY <1>1, <1>2, <1>3 DEF EncodingInv, LeftInv, WrittenSoFar, ExactUnlessZerosLeft

\* One more symbol that agrees with f, after symbols that agree with f.
LEMMA OneMore ==
    ASSUME NEW f, NEW s \in Seq(0..Pad), NEW x \in 0..Pad,
           \A k \in 1..Len(s) : s[k] = f[k], x = f[Len(s) + 1]
    PROVE  /\ Append(s, x) \in Seq(0..Pad) /\ Len(Append(s, x)) = Len(s) + 1
           /\ \A k \in 1..Len(Append(s, x)) : Append(s, x)[k] = f[k]
<1>1. Append(s, x) \in Seq(0..Pad) /\ Len(Append(s, x)) = Len(s) + 1
    OBVIOUS
<1>2. ASSUME NEW k \in 1..Len(Append(s, x)) PROVE Append(s, x)[k] = f[k]
  <2>1. CASE k <= Len(s)
    <3>1. Append(s, x)[k] = s[k] /\ k \in 1..Len(s)
        BY <1>1, <2>1
    <3> QED BY <3>1
  <2>2. CASE k = Len(s) + 1
    <3>1. Append(s, x)[k] = x
        BY <1>1, <2>2
    <3> QED BY <2>2, <3>1
  <2> QED BY <1>1, <2>1, <2>2
<1> QED BY <1>1, <1>2

\* What the invariant says of the chars and of the length written.
LEMMA SourceTyped ==
    TypeInv => /\ pSrcBuff \in Seq(-128..127) /\ iLen = Len(pSrcBuff) /\ i \in 0..iLen
               /\ pBuff64 \in Seq(0..Pad) /\ n \in 0..63 /\ point = 2 + 2 * (i % 3)
               /\ ~done => Len(pBuff64) = (4 * i) \div 3
               /\ done \in BOOLEAN
<1> SUFFICES ASSUME TypeInv
             PROVE  /\ pSrcBuff \in Seq(-128..127) /\ iLen = Len(pSrcBuff) /\ i \in 0..iLen
                    /\ pBuff64 \in Seq(0..Pad) /\ n \in 0..63 /\ point = 2 + 2 * (i % 3)
                    /\ ~done => Len(pBuff64) = (4 * i) \div 3
                    /\ done \in BOOLEAN
    OBVIOUS
<1>1. pSrcBuff \in Seq(Byte) /\ Byte \subseteq -128..127
    BY ByteAssumption DEF TypeInv
<1>2. pSrcBuff \in Seq(-128..127)
    BY <1>1, Widening
<1> QED BY <1>2 DEF TypeInv, TypeOK, iLen

\* What a turn of the loop starts from: the char c, which the byte b stands
\* for, and the g groups that are complete.
TurnAt(c, b, g) ==
    /\ c = pSrcBuff[i + 1] /\ b = c % 256 /\ b = ByteAt(pSrcBuff, i + 1)
    /\ g = i \div 3

LEMMA TurnStarts ==
    ASSUME TypeInv, Encode
    PROVE  \E c \in -128..127, b \in 0..255, g \in Nat : TurnAt(c, b, g)
<1>1. pSrcBuff \in Seq(-128..127) /\ i + 1 \in 1..Len(pSrcBuff) /\ i \in Nat
    BY SourceTyped DEF Encode
<1>2. PICK c \in -128..127 : c = pSrcBuff[i + 1]
    BY <1>1, ElementType
<1>3. PICK b \in 0..255 : b = c % 256
    BY SignMasked
<1>4. b = ByteAt(pSrcBuff, i + 1)
    BY <1>1, <1>2, <1>3 DEF ByteAt
<1>5. i \div 3 \in Nat
    BY <1>1
<1> QED BY <1>2, <1>3, <1>4, <1>5 DEF TurnAt

\* The first byte of a group gives a symbol, and two bits are left.
LEMMA FirstByte ==
    ASSUME EncodingInv, Encode, i % 3 = 0
    PROVE  LeftInv' /\ WrittenSoFar'
<1>1. PICK c \in -128..127, b \in 0..255, g \in Nat : TurnAt(c, b, g)
    BY TurnStarts, Zenon DEF EncodingInv
<1>2. /\ pSrcBuff \in Seq(-128..127) /\ iLen = Len(pSrcBuff) /\ i \in Nat /\ i < Len(pSrcBuff)
      /\ pBuff64 \in Seq(0..Pad) /\ point = 2 /\ n = 0 /\ ~done
      /\ Len(pBuff64) = (4 * i) \div 3
      /\ i' = i + 1 /\ pSrcBuff' = pSrcBuff /\ ~done'
    BY SourceTyped DEF EncodingInv, LeftInv, Encode
<1>3. i = 3 * g /\ Len(pBuff64) = 4 * g
  <2>1. g = i \div 3
    BY <1>1 DEF TurnAt
  <2> QED BY <1>2, <2>1
<1>4. /\ pBuff64' = Append(pBuff64, ((c \div 4) % 64) + 0)
      /\ n' = (c * 16) % 64
    BY <1>1, <1>2 DEF Encode, iIndex, Left, TurnAt
<1>5. (c \div 4) % 64 = b \div 4 /\ (c * 16) % 64 = (b % 4) * 16
  <2>1. b = c % 256
    BY <1>1 DEF TurnAt
  <2> QED BY <2>1, SignMasked
<1>6. b = ByteAt(pSrcBuff, 3 * g + 1)
  <2>1. i + 1 = 3 * g + 1
    BY <1>3
  <2> QED BY <1>1, <2>1, Zenon DEF TurnAt
<1>7. RFC4648(pSrcBuff)[4 * g + 1] = b \div 4
  <2>1. 4 * g + 0 + 1 <= Symbols(pSrcBuff)
    BY <1>2, <1>3 DEF Symbols
  <2>2. RFC4648(pSrcBuff)[4 * g + 0 + 1] = Sextet(pSrcBuff, g, 0)
    BY <1>2, <2>1, SymbolOf
  <2>3. Sextet(pSrcBuff, g, 0) = b \div 4
    BY <1>2, <1>6, GroupBytes
  <2>4. 4 * g + 0 + 1 = 4 * g + 1
    OBVIOUS
  <2> QED BY <2>2, <2>3, <2>4
<1>8. PICK x \in 0..Pad : x = b \div 4
  <2>1. b \div 4 \in 0..63
    OBVIOUS
  <2> QED BY <2>1 DEF Pad
<1>9. pBuff64' = Append(pBuff64, x)
    BY <1>4, <1>5, <1>8
<1>10. \A k \in 1..Len(pBuff64) : pBuff64[k] = RFC4648(pSrcBuff)[k]
    BY <1>2 DEF EncodingInv, WrittenSoFar
<1>11. \A k \in 1..Len(pBuff64') : pBuff64'[k] = RFC4648(pSrcBuff)[k]
  <2>1. x = RFC4648(pSrcBuff)[Len(pBuff64) + 1]
    BY <1>3, <1>7, <1>8
  <2> QED BY <1>2, <1>9, <1>10, <2>1, OneMore
<1>12. WrittenSoFar'
    BY <1>2, <1>11 DEF WrittenSoFar
<1>13. LeftInv'
  <2>1. i' % 3 = 1
    BY <1>2, <1>3
  <2>2. n' = (ByteAt(pSrcBuff', i') % 4) * 16
    BY <1>1, <1>2, <1>4, <1>5 DEF TurnAt
  <2> QED BY <2>1, <2>2 DEF LeftInv
<1> QED BY <1>12, <1>13

\* The second byte completes a symbol, and four bits are left.
LEMMA SecondByte ==
    ASSUME EncodingInv, Encode, i % 3 = 1
    PROVE  LeftInv' /\ WrittenSoFar'
<1>1. PICK c \in -128..127, b \in 0..255, g \in Nat : TurnAt(c, b, g)
    BY TurnStarts, Zenon DEF EncodingInv
<1>2. /\ pSrcBuff \in Seq(-128..127) /\ iLen = Len(pSrcBuff) /\ i \in Nat /\ i < Len(pSrcBuff)
      /\ pBuff64 \in Seq(0..Pad) /\ point = 4 /\ n \in 0..63 /\ ~done
      /\ Len(pBuff64) = (4 * i) \div 3
      /\ i' = i + 1 /\ pSrcBuff' = pSrcBuff /\ ~done'
    BY SourceTyped DEF EncodingInv, Encode
<1>3. i = 3 * g + 1 /\ Len(pBuff64) = 4 * g + 1
  <2>1. g = i \div 3
    BY <1>1 DEF TurnAt
  <2> QED BY <1>2, <2>1
<1>4. /\ pBuff64' = Append(pBuff64, ((c \div 16) % 16) + n)
      /\ n' = (c * 4) % 64
    BY <1>1, <1>2 DEF Encode, iIndex, Left, TurnAt
<1>5. (c \div 16) % 16 = b \div 16 /\ (c * 4) % 64 = (b % 16) * 4
  <2>1. b = c % 256
    BY <1>1 DEF TurnAt
  <2> QED BY <2>1, SignMasked
<1>6. b = ByteAt(pSrcBuff, 3 * g + 2)
  <2>1. i + 1 = 3 * g + 2
    BY <1>3
  <2> QED BY <1>1, <2>1, Zenon DEF TurnAt
<1>7. n = (ByteAt(pSrcBuff, 3 * g + 1) % 4) * 16
    BY <1>3 DEF EncodingInv, LeftInv
<1>8. RFC4648(pSrcBuff)[4 * g + 2] = n + b \div 16
  <2>1. 4 * g + 1 + 1 <= Symbols(pSrcBuff)
    BY <1>2, <1>3 DEF Symbols
  <2>2. RFC4648(pSrcBuff)[4 * g + 1 + 1] = Sextet(pSrcBuff, g, 1)
    BY <1>2, <2>1, SymbolOf
  <2>3. Sextet(pSrcBuff, g, 1) = (ByteAt(pSrcBuff, 3 * g + 1) % 4) * 16 + b \div 16
    BY <1>2, <1>6, GroupBytes
  <2>4. 4 * g + 1 + 1 = 4 * g + 2
    OBVIOUS
  <2> QED BY <1>7, <2>2, <2>3, <2>4
<1>9. PICK x \in 0..Pad : x = n + b \div 16
  <2>1. n % 16 = 0
    BY <1>2 DEF EncodingInv, TypeInv, TypeOK
  <2>2. b \div 16 \in 0..15
    OBVIOUS
  <2>3. n \in 0..48
    <3>1. n \in 0..63
        BY <1>2
    <3> QED BY <2>1, <3>1
  <2>4. n + b \div 16 \in 0..63
    BY <2>2, <2>3
  <2> QED BY <2>4 DEF Pad
<1>10. pBuff64' = Append(pBuff64, x)
  <2>1. ((c \div 16) % 16) + n = x
    <3>1. b \div 16 \in Int
        OBVIOUS
    <3> QED BY <1>2, <1>5, <1>9, <3>1
  <2> QED BY <1>4, <2>1, Zenon
<1>11. \A k \in 1..Len(pBuff64) : pBuff64[k] = RFC4648(pSrcBuff)[k]
    BY <1>2 DEF EncodingInv, WrittenSoFar
<1>12. \A k \in 1..Len(pBuff64') : pBuff64'[k] = RFC4648(pSrcBuff)[k]
  <2>1. x = RFC4648(pSrcBuff)[Len(pBuff64) + 1]
    BY <1>3, <1>8, <1>9
  <2> QED BY <1>2, <1>10, <1>11, <2>1, OneMore
<1>13. WrittenSoFar'
    BY <1>2, <1>12 DEF WrittenSoFar
<1>14. LeftInv'
  <2>1. i' % 3 = 2
    BY <1>2, <1>3
  <2>2. n' = (ByteAt(pSrcBuff', i') % 16) * 4
    BY <1>1, <1>2, <1>4, <1>5 DEF TurnAt
  <2> QED BY <2>1, <2>2 DEF LeftInv
<1> QED BY <1>13, <1>14

\* The third byte completes a symbol, and its lower six bits are another.
LEMMA ThirdByte ==
    ASSUME EncodingInv, Encode, i % 3 = 2
    PROVE  LeftInv' /\ WrittenSoFar'
<1>1. PICK c \in -128..127, b \in 0..255, g \in Nat : TurnAt(c, b, g)
    BY TurnStarts, Zenon DEF EncodingInv
<1>2. /\ pSrcBuff \in Seq(-128..127) /\ iLen = Len(pSrcBuff) /\ i \in Nat /\ i < Len(pSrcBuff)
      /\ pBuff64 \in Seq(0..Pad) /\ point = 6 /\ n \in 0..63 /\ ~done
      /\ Len(pBuff64) = (4 * i) \div 3
      /\ i' = i + 1 /\ pSrcBuff' = pSrcBuff /\ ~done'
    BY SourceTyped DEF EncodingInv, Encode
<1>3. i = 3 * g + 2 /\ Len(pBuff64) = 4 * g + 2
  <2>1. g = i \div 3
    BY <1>1 DEF TurnAt
  <2> QED BY <1>2, <2>1
<1>4. /\ pBuff64' = pBuff64 \o <<((c \div 64) % 4) + n, c % 64>>
      /\ n' = 0
  <2>1. LET e == pSrcBuff[i + 1]
        IN  pBuff64' = pBuff64 \o <<iIndex(e), e % 64>> /\ n' = 0
    BY <1>2 DEF Encode
  <2>2. iIndex(c) = ((c \div 64) % 4) + n
    BY <1>2 DEF iIndex
  <2>3. c = pSrcBuff[i + 1]
    BY <1>1 DEF TurnAt
  <2> QED BY <2>1, <2>2, <2>3, Zenon
<1>5. (c \div 64) % 4 = b \div 64 /\ c % 64 = b % 64
  <2>1. b = c % 256
    BY <1>1 DEF TurnAt
  <2> QED BY <2>1, SignMasked
<1>6. b = ByteAt(pSrcBuff, 3 * g + 3)
  <2>1. i + 1 = 3 * g + 3
    BY <1>3
  <2> QED BY <1>1, <2>1, Zenon DEF TurnAt
<1>7. n = (ByteAt(pSrcBuff, 3 * g + 2) % 16) * 4
  <2>1. i = 3 * g + 2
    BY <1>3
  <2>2. n = (ByteAt(pSrcBuff, i) % 16) * 4
    BY DEF EncodingInv, LeftInv
  <2> QED BY <2>1, <2>2, Zenon
<1>8. RFC4648(pSrcBuff)[4 * g + 3] = n + b \div 64
  <2>1. 4 * g + 2 + 1 <= Symbols(pSrcBuff)
    BY <1>2, <1>3 DEF Symbols
  <2>2. RFC4648(pSrcBuff)[4 * g + 2 + 1] = Sextet(pSrcBuff, g, 2)
    BY <1>2, <2>1, SymbolOf
  <2>3. Sextet(pSrcBuff, g, 2) = (ByteAt(pSrcBuff, 3 * g + 2) % 16) * 4 + b \div 64
    BY <1>2, <1>6, GroupBytes
  <2>4. 4 * g + 2 + 1 = 4 * g + 3
    OBVIOUS
  <2> QED BY <1>7, <2>2, <2>3, <2>4
<1>9. RFC4648(pSrcBuff)[4 * g + 4] = b % 64
  <2>1. 4 * g + 3 + 1 <= Symbols(pSrcBuff)
    BY <1>2, <1>3 DEF Symbols
  <2>2. RFC4648(pSrcBuff)[4 * g + 3 + 1] = Sextet(pSrcBuff, g, 3)
    BY <1>2, <2>1, SymbolOf
  <2>3. Sextet(pSrcBuff, g, 3) = b % 64
    BY <1>2, <1>6, GroupBytes
  <2>4. 4 * g + 3 + 1 = 4 * g + 4
    OBVIOUS
  <2> QED BY <2>2, <2>3, <2>4
<1>10. PICK x \in 0..Pad : x = n + b \div 64
  <2>1. n % 4 = 0
    BY <1>2 DEF EncodingInv, TypeInv, TypeOK
  <2>2. b \div 64 \in 0..3
    OBVIOUS
  <2>3. n \in 0..60
    <3>1. n \in 0..63
        BY <1>2
    <3> QED BY <2>1, <3>1
  <2>4. n + b \div 64 \in 0..63
    BY <2>2, <2>3
  <2> QED BY <2>4 DEF Pad
<1>11. PICK y \in 0..Pad : y = b % 64
  <2>1. b % 64 \in 0..63
    OBVIOUS
  <2> QED BY <2>1 DEF Pad
<1>12. pBuff64' = Append(Append(pBuff64, x), y)
  <2>1. ((c \div 64) % 4) + n = x
    <3>1. b \div 64 \in Int
        OBVIOUS
    <3> QED BY <1>2, <1>5, <1>10, <3>1
  <2>2. c % 64 = y
    BY <1>5, <1>11
  <2>3. pBuff64' = pBuff64 \o <<x, y>>
    BY <1>4, <2>1, <2>2, Zenon
  <2>4. pBuff64 \o <<x, y>> = Append(Append(pBuff64, x), y)
    BY <1>2
  <2> QED BY <2>3, <2>4
<1>13. \A k \in 1..Len(pBuff64) : pBuff64[k] = RFC4648(pSrcBuff)[k]
    BY <1>2 DEF EncodingInv, WrittenSoFar
<1>14. PICK s : s = Append(pBuff64, x)
    OBVIOUS
<1>15. /\ s \in Seq(0..Pad) /\ Len(s) = Len(pBuff64) + 1
       /\ \A k \in 1..Len(s) : s[k] = RFC4648(pSrcBuff)[k]
  <2>1. x = RFC4648(pSrcBuff)[Len(pBuff64) + 1]
    BY <1>3, <1>8, <1>10
  <2> QED BY <1>2, <1>13, <1>14, <2>1, OneMore
<1>16. \A k \in 1..Len(pBuff64') : pBuff64'[k] = RFC4648(pSrcBuff)[k]
  <2>1. y = RFC4648(pSrcBuff)[Len(s) + 1]
    BY <1>3, <1>9, <1>11, <1>15
  <2>2. pBuff64' = Append(s, y)
    BY <1>12, <1>14
  <2> QED BY <1>15, <2>1, <2>2, OneMore
<1>17. WrittenSoFar'
    BY <1>2, <1>16 DEF WrittenSoFar
<1>18. LeftInv'
  <2>1. i' % 3 = 0
    BY <1>2, <1>3
  <2> QED BY <1>4, <2>1 DEF LeftInv
<1> QED BY <1>17, <1>18

LEMMA EncodeEncoding == EncodingInv /\ Encode => EncodingInv'
<1> SUFFICES ASSUME EncodingInv, Encode PROVE EncodingInv'
    OBVIOUS
<1>1. TypeInv'
    BY EncodeType DEF EncodingInv
<1>2. i \in Nat
    BY SourceTyped DEF EncodingInv
<1>3. i % 3 = 0 \/ i % 3 = 1 \/ i % 3 = 2
    BY <1>2
<1>4. LeftInv' /\ WrittenSoFar'
    BY <1>3, FirstByte, SecondByte, ThirdByte
<1>5. ExactUnlessZerosLeft'
    BY DEF ExactUnlessZerosLeft, Encode
<1> QED BY <1>1, <1>4, <1>5 DEF EncodingInv

\* Symbols that agree with the reference, and are as many, are the reference.
LEMMA AllOfIt ==
    ASSUME NEW t, NEW s \in Seq(0..Pad), Groups(t) \in Nat, Len(s) = 4 * Groups(t),
           \A k \in 1..Len(s) : s[k] = RFC4648(t)[k]
    PROVE  s = RFC4648(t)
<1>1. s = [k \in 1..Len(s) |-> s[k]]
    OBVIOUS
<1>2. PICK R : R = RFC4648(t)
    OBVIOUS
<1>3. R = [k \in 1..(4 * Groups(t)) |-> R[k]]
    BY <1>2 DEF RFC4648
<1>4. PICK m \in Nat : m = 4 * Groups(t)
    OBVIOUS
<1>5. \A k \in 1..m : s[k] = R[k]
    BY <1>2, <1>4
<1>6. s = [k \in 1..m |-> s[k]] /\ R = [k \in 1..m |-> R[k]]
    BY <1>1, <1>3, <1>4
<1>7. [k \in 1..m |-> s[k]] = [k \in 1..m |-> R[k]]
    BY <1>5
<1> QED BY <1>2, <1>6, <1>7, Zenon

\* What Finish starts from, with the g groups that are complete.
LEMMA FinishStarts ==
    ASSUME EncodingInv, Finish
    PROVE  /\ pSrcBuff \in Seq(-128..127) /\ iLen = Len(pSrcBuff) /\ Len(pSrcBuff) \in Nat
           /\ i = Len(pSrcBuff) /\ pBuff64 \in Seq(0..Pad) /\ n \in 0..Pad
           /\ Len(pBuff64) = (4 * Len(pSrcBuff)) \div 3
           /\ \A k \in 1..Len(pBuff64) : pBuff64[k] = RFC4648(pSrcBuff)[k]
           /\ pSrcBuff' = pSrcBuff /\ n' = n /\ i' = i
<1>1. n \in 0..Pad
  <2>1. n \in 0..63
    BY SourceTyped DEF EncodingInv
  <2> QED BY <2>1 DEF Pad
<1>2. ~done /\ i = iLen /\ pSrcBuff' = pSrcBuff /\ n' = n /\ i' = i
    BY DEF Finish
<1>3. /\ pSrcBuff \in Seq(-128..127) /\ iLen = Len(pSrcBuff) /\ pBuff64 \in Seq(0..Pad)
      /\ Len(pBuff64) = (4 * i) \div 3
    BY <1>2, SourceTyped DEF EncodingInv
<1>4. \A k \in 1..Len(pBuff64) : pBuff64[k] = RFC4648(pSrcBuff)[k]
    BY <1>2 DEF EncodingInv, WrittenSoFar
<1>5. i = Len(pSrcBuff)
    BY <1>2, <1>3
<1>6. Len(pBuff64) = (4 * Len(pSrcBuff)) \div 3
    BY <1>3, <1>5, Zenon
<1>7. Len(pSrcBuff) \in Nat
    BY <1>3
<1> QED BY <1>1, <1>2, <1>3, <1>4, <1>5, <1>6, <1>7, Zenon

\* What Finish appends: the bits left and the padding.
Remainder == IF n # 0 THEN <<n>> ELSE << >>

Filling ==
    CASE iLen % 3 = 0 -> << >>
      [] iLen % 3 = 1 -> <<Pad, Pad>>
      [] iLen % 3 = 2 -> <<Pad>>

LEMMA FinishWrites ==
    ASSUME Finish
    PROVE  pBuff64' = pBuff64 \o Remainder \o Filling
    BY DEF Finish, Remainder, Filling

LEMMA FillingOf ==
    /\ iLen % 3 = 0 => Filling = << >>
    /\ iLen % 3 = 1 => Filling = <<Pad, Pad>>
    /\ iLen % 3 = 2 => Filling = <<Pad>>
<1>1. PICK r : r = iLen % 3
    OBVIOUS
<1>2. Filling = CASE r = 0 -> << >> [] r = 1 -> <<Pad, Pad>> [] r = 2 -> <<Pad>>
    BY <1>1, Zenon DEF Filling
<1> QED BY <1>1, <1>2

\* No byte is over.
LEMMA WholeGroups ==
    ASSUME EncodingInv, Finish, Len(pSrcBuff) % 3 = 0
    PROVE  pBuff64' = RFC4648(pSrcBuff)
<1>1. n = 0
    BY FinishStarts DEF EncodingInv, LeftInv
<1>2. pBuff64' = pBuff64
  <2>1. pBuff64' = pBuff64 \o << >> \o << >>
    BY <1>1, FinishWrites, FillingOf, Zenon DEF Remainder, iLen
  <2> QED BY <2>1, FinishStarts
<1>3. Groups(pSrcBuff) \in Nat /\ Len(pBuff64) = 4 * Groups(pSrcBuff)
  <2>1. PICK L \in Nat : L = Len(pSrcBuff)
    BY FinishStarts
  <2>2. (L + 2) \div 3 = L \div 3 /\ (4 * L) \div 3 = 4 * (L \div 3) /\ L \div 3 \in Nat
    BY <2>1
  <2>3. Len(pBuff64) = (4 * L) \div 3
    BY <2>1, FinishStarts
  <2> QED BY <2>1, <2>2, <2>3 DEF Groups
<1> QED BY <1>2, <1>3, FinishStarts, AllOfIt

\* The byte of a group that the source does not have is zero.
LEMMA NoSuchByte ==
    ASSUME NEW s \in Seq(-128..127), NEW k \in Nat, k > Len(s)
    PROVE  ByteAt(s, k) = 0
    BY DEF ByteAt

\* One byte is over.
LEMMA OneByteOver ==
    ASSUME EncodingInv, Finish, Len(pSrcBuff) % 3 = 1, n # 0
    PROVE  pBuff64' = RFC4648(pSrcBuff)
<1> DEFINE R == RFC4648(pSrcBuff)
<1>1. PICK g \in Nat : Len(pSrcBuff) = 3 * g + 1
  <2>1. PICK L \in Nat : L = Len(pSrcBuff)
    BY FinishStarts
  <2>2. L = 3 * (L \div 3) + 1 /\ L \div 3 \in Nat
    BY <2>1
  <2> QED BY <2>1, <2>2
<1>2. Len(pBuff64) = 4 * g + 1
    BY <1>1, FinishStarts
<1>3. Groups(pSrcBuff) = g + 1 /\ Symbols(pSrcBuff) = 4 * g + 2
    BY <1>1 DEF Groups, Symbols
<1>4. R[4 * g + 2] = n
  <2>1. n = (ByteAt(pSrcBuff, 3 * g + 1) % 4) * 16
    <3>1. i = 3 * g + 1
        BY <1>1, FinishStarts
    <3>2. i % 3 = 1
        BY <3>1
    <3> QED BY <3>1, <3>2, Zenon DEF EncodingInv, LeftInv
  <2>2. ByteAt(pSrcBuff, 3 * g + 2) = 0
    BY <1>1, FinishStarts, NoSuchByte
  <2>3. Sextet(pSrcBuff, g, 1)
           = (ByteAt(pSrcBuff, 3 * g + 1) % 4) * 16 + ByteAt(pSrcBuff, 3 * g + 2) \div 16
    BY FinishStarts, GroupBytes
  <2>4. Sextet(pSrcBuff, g, 1) = n + 0
    BY <2>1, <2>2, <2>3
  <2>5. R[4 * g + 1 + 1] = Sextet(pSrcBuff, g, 1)
    BY <1>3, FinishStarts, SymbolOf
  <2>6. 4 * g + 1 + 1 = 4 * g + 2
    OBVIOUS
  <2> QED BY <2>4, <2>5, <2>6, FinishStarts
<1>5. R[4 * g + 3] = Pad /\ R[4 * g + 4] = Pad
    BY <1>3, FinishStarts, PaddingOf
<1> HIDE DEF R
<1>6. PICK s : s = Append(pBuff64, n)
    OBVIOUS
<1>7. s \in Seq(0..Pad) /\ Len(s) = 4 * g + 2 /\ \A k \in 1..Len(s) : s[k] = R[k]
  <2>1. n = R[Len(pBuff64) + 1]
    BY <1>2, <1>4
  <2> QED BY <1>2, <1>6, <2>1, FinishStarts, OneMore DEF R
<1>8. PICK p \in 0..Pad : p = Pad
    BY DEF Pad
<1>9. PICK t : t = Append(s, p)
    OBVIOUS
<1>10. t \in Seq(0..Pad) /\ Len(t) = 4 * g + 3 /\ \A k \in 1..Len(t) : t[k] = R[k]
  <2>1. p = R[Len(s) + 1]
    BY <1>5, <1>7, <1>8
  <2> QED BY <1>7, <1>9, <2>1, OneMore
<1>11. PICK u : u = Append(t, p)
    OBVIOUS
<1>12. u \in Seq(0..Pad) /\ Len(u) = 4 * g + 4 /\ \A k \in 1..Len(u) : u[k] = R[k]
  <2>1. p = R[Len(t) + 1]
    BY <1>5, <1>8, <1>10
  <2>2. Append(t, p) \in Seq(0..Pad) /\ Len(Append(t, p)) = Len(t) + 1
    BY <1>10
  <2>3. \A k \in 1..Len(Append(t, p)) : Append(t, p)[k] = R[k]
    BY <1>10, <2>1, OneMore
  <2> QED BY <1>10, <1>11, <2>2, <2>3
<1>13. pBuff64' = u
  <2>1. pBuff64' = pBuff64 \o <<n>> \o <<Pad, Pad>>
    BY FinishWrites, FillingOf, Zenon DEF Remainder, iLen
  <2>2. pBuff64 \o <<n>> = s
    BY <1>6, FinishStarts
  <2>3. s \o <<p, p>> = Append(Append(s, p), p)
    BY <1>7
  <2> QED BY <1>8, <1>9, <1>11, <2>1, <2>2, <2>3, Zenon
<1>14. Groups(pSrcBuff) \in Nat /\ Len(u) = 4 * Groups(pSrcBuff)
    BY <1>3, <1>12
<1> QED BY <1>12, <1>13, <1>14, AllOfIt DEF R

\* Two bytes are over.
LEMMA TwoBytesOver ==
    ASSUME EncodingInv, Finish, Len(pSrcBuff) % 3 = 2, n # 0
    PROVE  pBuff64' = RFC4648(pSrcBuff)
<1> DEFINE R == RFC4648(pSrcBuff)
<1>1. PICK g \in Nat : Len(pSrcBuff) = 3 * g + 2
  <2>1. PICK L \in Nat : L = Len(pSrcBuff)
    BY FinishStarts
  <2>2. L = 3 * (L \div 3) + 2 /\ L \div 3 \in Nat
    BY <2>1
  <2> QED BY <2>1, <2>2
<1>2. Len(pBuff64) = 4 * g + 2
    BY <1>1, FinishStarts
<1>3. Groups(pSrcBuff) = g + 1 /\ Symbols(pSrcBuff) = 4 * g + 3
    BY <1>1 DEF Groups, Symbols
<1>4. R[4 * g + 3] = n
  <2>1. n = (ByteAt(pSrcBuff, 3 * g + 2) % 16) * 4
    <3>1. i = 3 * g + 2
        BY <1>1, FinishStarts
    <3>2. i % 3 = 2
        BY <3>1
    <3> QED BY <3>1, <3>2, Zenon DEF EncodingInv, LeftInv
  <2>2. ByteAt(pSrcBuff, 3 * g + 3) = 0
    BY <1>1, FinishStarts, NoSuchByte
  <2>3. Sextet(pSrcBuff, g, 2)
           = (ByteAt(pSrcBuff, 3 * g + 2) % 16) * 4 + ByteAt(pSrcBuff, 3 * g + 3) \div 64
    BY FinishStarts, GroupBytes
  <2>4. Sextet(pSrcBuff, g, 2) = n + 0
    BY <2>1, <2>2, <2>3
  <2>5. R[4 * g + 2 + 1] = Sextet(pSrcBuff, g, 2)
    BY <1>3, FinishStarts, SymbolOf
  <2>6. 4 * g + 2 + 1 = 4 * g + 3
    OBVIOUS
  <2> QED BY <2>4, <2>5, <2>6, FinishStarts
<1>5. R[4 * g + 4] = Pad
    BY <1>3, FinishStarts, PaddingOf
<1> HIDE DEF R
<1>6. PICK s : s = Append(pBuff64, n)
    OBVIOUS
<1>7. s \in Seq(0..Pad) /\ Len(s) = 4 * g + 3 /\ \A k \in 1..Len(s) : s[k] = R[k]
  <2>1. n = R[Len(pBuff64) + 1]
    BY <1>2, <1>4
  <2> QED BY <1>2, <1>6, <2>1, FinishStarts, OneMore DEF R
<1>8. PICK p \in 0..Pad : p = Pad
    BY DEF Pad
<1>9. PICK t : t = Append(s, p)
    OBVIOUS
<1>10. t \in Seq(0..Pad) /\ Len(t) = 4 * g + 4 /\ \A k \in 1..Len(t) : t[k] = R[k]
  <2>1. p = R[Len(s) + 1]
    BY <1>5, <1>7, <1>8
  <2>2. Append(s, p) \in Seq(0..Pad) /\ Len(Append(s, p)) = Len(s) + 1
    BY <1>7
  <2>3. \A k \in 1..Len(Append(s, p)) : Append(s, p)[k] = R[k]
    BY <1>7, <2>1, OneMore
  <2> QED BY <1>7, <1>9, <2>2, <2>3
<1>11. pBuff64' = t
  <2>1. pBuff64' = pBuff64 \o <<n>> \o <<Pad>>
    BY FinishWrites, FillingOf, Zenon DEF Remainder, iLen
  <2>2. pBuff64 \o <<n>> = s
    BY <1>6, FinishStarts
  <2>3. s \o <<p>> = Append(s, p)
    BY <1>7
  <2> QED BY <1>8, <1>9, <2>1, <2>2, <2>3, Zenon
<1>12. Groups(pSrcBuff) \in Nat /\ Len(t) = 4 * Groups(pSrcBuff)
    BY <1>3, <1>10
<1> QED BY <1>10, <1>11, <1>12, AllOfIt DEF R

LEMMA FinishEncoding == EncodingInv /\ Finish => EncodingInv'
<1> SUFFICES ASSUME EncodingInv, Finish PROVE EncodingInv'
    OBVIOUS
<1>1. TypeInv'
    BY FinishType DEF EncodingInv
<1>2. LeftInv'
    BY DEF EncodingInv, LeftInv, Finish
<1>3. WrittenSoFar'
    BY DEF WrittenSoFar, Finish
<1>4. ExactUnlessZerosLeft'
  <2>1. n' = n /\ pSrcBuff' = pSrcBuff /\ iLen' = Len(pSrcBuff)
    BY DEF Finish, iLen
  <2>2. PICK L \in Nat : L = Len(pSrcBuff)
    BY FinishStarts
  <2>3. L % 3 = 0 \/ L % 3 = 1 \/ L % 3 = 2
    BY <2>2
  <2>4. L % 3 = 0 \/ n # 0 => pBuff64' = RFC4648(pSrcBuff)
    BY <2>2, <2>3, WholeGroups, OneByteOver, TwoBytesOver, Zenon
  <2> QED BY <2>1, <2>2, <2>4, Zenon DEF ExactUnlessZerosLeft
<1> QED BY <1>1, <1>2, <1>3, <1>4 DEF EncodingInv

LEMMA EncodingInductive == EncodingInv /\ [Next]_vars => EncodingInv'
<1> SUFFICES ASSUME EncodingInv, [Next]_vars PROVE EncodingInv'
    OBVIOUS
<1>1. CASE UNCHANGED vars
  <2>1. TypeInv'
    BY <1>1 DEF EncodingInv, TypeInv, TypeOK, vars, iLen
  <2>2. LeftInv' /\ WrittenSoFar' /\ ExactUnlessZerosLeft'
    BY <1>1 DEF EncodingInv, LeftInv, WrittenSoFar, ExactUnlessZerosLeft, vars, iLen
  <2> QED BY <2>1, <2>2 DEF EncodingInv
<1> QED BY <1>1, EncodeEncoding, FinishEncoding DEF Next

\* Whatever the chars, signed ones included, and whatever the length: after
\* every turn of the loop of Char2Base64 the symbols written are the first
\* ones RFC 4648 asks for.
THEOREM EncodedSoFar == Spec => []WrittenSoFar
<1>1. EncodingInv => WrittenSoFar
    BY DEF EncodingInv
<1> QED BY <1>1, InitEncoding, EncodingInductive, PTL DEF Spec

\* The result is the encoding RFC 4648 asks for whenever no byte is over or
\* a bit that is left of the last byte is set: the omission of a last symbol
\* that is zero is the only mistake Char2Base64 makes.
THEOREM EncodedExactly == Spec => []ExactUnlessZerosLeft
<1>1. EncodingInv => ExactUnlessZerosLeft
    BY DEF EncodingInv
<1> QED BY <1>1, InitEncoding, EncodingInductive, PTL DEF Spec
=============================================================================
