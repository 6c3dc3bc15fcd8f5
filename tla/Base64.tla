------------------------------- MODULE Base64 -------------------------------
(***************************************************************************)
(* CSendMail::Char2Base64 (src/MonitorZSoftWare/sendmail.cpp), which       *)
(* encodes the user name and the password Logon sends.  It takes one byte  *)
(* per turn and cuts it after its upper 8 - point bits; what is left, n,   *)
(* is combined with the next byte.  A symbol of Base64Encode is            *)
(* represented by its index, 0..63, and 64 stands for "=".                 *)
(***************************************************************************)
EXTENDS Integers, Sequences

CONSTANTS
    Byte,   \* the bytes that occur; a char is signed
    MaxLen  \* bound: length of the source

ASSUME ByteAssumption == Byte \subseteq -128..127 /\ MaxLen \in Nat

VARIABLES
    pSrcBuff,   \* the bytes to encode
    i,          \* bytes taken
    point,      \* where the next byte is cut: 2, 4 or 6
    n,          \* what is left of the byte before, shifted into place
    pBuff64,    \* the symbols written
    done        \* has the function returned?

vars == <<pSrcBuff, i, point, n, pBuff64, done>>

Pad == 64
iLen == Len(pSrcBuff)
-----------------------------------------------------------------------------
Init ==
    /\ \E len \in 0..MaxLen : pSrcBuff \in [1..len -> Byte]
    /\ i = 0 /\ point = 2 /\ n = 0
    /\ pBuff64 = << >>
    /\ done = FALSE

\* Mutant: the sign of the char is not masked off.
iIndexSigned(c) ==
    (CASE point = 2 -> c \div 4 [] point = 4 -> c \div 16 [] point = 6 -> c \div 64) + n

\* The symbol a byte completes: its upper 8 - point bits under the bits left.
\* A negative char is shifted arithmetically, which the mask undoes.
iIndex(c) ==
    (CASE point = 2 -> (c \div 4) % 64
       [] point = 4 -> (c \div 16) % 16
       [] point = 6 -> (c \div 64) % 4) + n

\* Mutant: the bits of a second byte are kept where they are.
LeftUnmoved(c) == IF point = 2 THEN (c * 16) % 64 ELSE c % 16

\* What is left of a byte, moved to the upper end of a six-bit symbol.
Left(c) == IF point = 2 THEN (c * 16) % 64 ELSE (c * 4) % 64

\* One turn of the loop.  A third byte leaves six bits, which are a symbol.
Encode ==
    /\ ~done /\ i < iLen
    /\ LET c == pSrcBuff[i + 1]
       IN  IF point = 6
           THEN /\ pBuff64' = pBuff64 \o <<iIndex(c), c % 64>>
                /\ n' = 0 /\ point' = 2
           ELSE /\ pBuff64' = Append(pBuff64, iIndex(c))
                /\ n' = Left(c) /\ point' = point + 2
    /\ i' = i + 1
    /\ UNCHANGED <<pSrcBuff, done>>

\* Mutant: the padding for one and for two bytes over are exchanged.
FinishSwapped ==
    /\ ~done /\ i = iLen
    /\ pBuff64' = pBuff64 \o (IF n # 0 THEN <<n>> ELSE << >>)
                          \o (CASE iLen % 3 = 0 -> << >>
                                [] iLen % 3 = 1 -> <<Pad>>
                                [] iLen % 3 = 2 -> <<Pad, Pad>>)
    /\ done' = TRUE
    /\ UNCHANGED <<pSrcBuff, i, point, n>>

\* After the loop: the bits left, unless they are all zero, and the padding.
Finish ==
    /\ ~done /\ i = iLen
    /\ pBuff64' = pBuff64 \o (IF n # 0 THEN <<n>> ELSE << >>)
                          \o (CASE iLen % 3 = 0 -> << >>
                                [] iLen % 3 = 1 -> <<Pad, Pad>>
                                [] iLen % 3 = 2 -> <<Pad>>)
    /\ done' = TRUE
    /\ UNCHANGED <<pSrcBuff, i, point, n>>

Next == Encode \/ Finish

Spec == Init /\ [][Next]_vars
-----------------------------------------------------------------------------
(* Base64 as RFC 4648 defines it: three bytes, filled up with zeros, are a *)
(* number of 24 bits, read as four symbols; symbols that hold no bit of    *)
(* the source are replaced with the padding.                               *)

ByteAt(s, k) == IF k \in 1..Len(s) THEN s[k] % 256 ELSE 0

\* Group g (from 0) as a number, and its symbol j (from 0).
Group(s, g) == ByteAt(s, 3*g + 1) * 65536 + ByteAt(s, 3*g + 2) * 256 + ByteAt(s, 3*g + 3)

Sextet(s, g, j) ==
    CASE j = 0 -> Group(s, g) \div 262144
      [] j = 1 -> (Group(s, g) \div 4096) % 64
      [] j = 2 -> (Group(s, g) \div 64) % 64
      [] j = 3 -> Group(s, g) % 64

\* The number of groups, and of symbols that hold a bit of the source.
Groups(s)  == (Len(s) + 2) \div 3
Symbols(s) == (4 * Len(s) + 2) \div 3

RFC4648(s) ==
    [k \in 1..(4 * Groups(s)) |->
        IF k <= Symbols(s) THEN Sextet(s, (k - 1) \div 4, (k - 1) % 4) ELSE Pad]
-----------------------------------------------------------------------------
\* Every symbol is in Base64Encode (an index is never outside its 64
\* characters, whatever is left of the byte before), and the position in the
\* group and the symbols written follow from the bytes taken.
TypeOK ==
    /\ \A k \in 1..iLen : pSrcBuff[k] \in Byte
    /\ i \in 0..iLen
    /\ point = 2 + 2 * (i % 3)
    /\ n \in 0..63
    /\ (point = 2 => n = 0) /\ (point = 4 => n % 16 = 0) /\ (point = 6 => n % 4 = 0)
    /\ \A k \in 1..Len(pBuff64) : pBuff64[k] \in 0..Pad
    /\ ~done => /\ Len(pBuff64) = (4 * i) \div 3
                /\ \A k \in 1..Len(pBuff64) : pBuff64[k] # Pad

\* What has been written so far is what RFC 4648 asks for, at every turn.
WrittenSoFar ==
    ~done => \A k \in 1..Len(pBuff64) : pBuff64[k] = RFC4648(pSrcBuff)[k]

\* The result is the encoding whenever the length is a multiple of three, as
\* the parts of 3000 bytes of SendFileBody are, or a bit that is left is set.
ExactUnlessZerosLeft ==
    done /\ (iLen % 3 = 0 \/ n # 0) => pBuff64 = RFC4648(pSrcBuff)

\* "if the length of the source is not a multiple of 3, it is to be filled up
\* with '='" (sendmail.cpp:70): the result is in whole groups of four.
FilledUp == done => Len(pBuff64) % 4 = 0
=============================================================================
