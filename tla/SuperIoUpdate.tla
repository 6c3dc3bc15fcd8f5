---------------------------- MODULE SuperIoUpdate ----------------------------
(***************************************************************************)
(* Update of W836XX.CPP, IT87XX.CPP and F718XX.CPP: take the mutex or      *)
(* leave the old values, read item after item (a voltage, a temperature, a *)
(* fan), keep what is plausible as a sensor, and on Winbond chips write    *)
(* back the fan divisors, one step up or down.                             *)
(*                                                                         *)
(* A byte is what the bus gives; what a voltage or a temperature is worth  *)
(* is not modelled, only whether it is kept.  Undefined behaviour is       *)
(* recorded; a program that has met it may die at any step or go on.       *)
(***************************************************************************)
EXTENDS LPCIO

VARIABLES
    items,   \* the items each program still has to read, the first in work
    bits,    \* the divisor registers as read: the positions of the ones
    newBits, \* the 32 bits that are to be written back
    sensors, \* m_sensorvalue up to m_sensorcount, with the reads behind each
    undef    \* the undefined behaviour each program has met

update == <<items, bits, newBits, sensors, undef>>

UpdateInit ==
    /\ items = [p \in Programs |-> << >>] /\ sensors = [p \in Programs |-> << >>]
    /\ bits = [p \in Programs |-> {}] /\ newBits = [p \in Programs |-> {}]
    /\ undef = [p \in Programs |-> {}]
-----------------------------------------------------------------------------
Item(type, n, reads) == [type |-> type, n |-> n, reads |-> reads]

\* The voltages of a Winbond chip; 51 in bank 5 is the battery.  The THF
\* chips have two ways to read the first one.
VoltageRegisters ==
    LET low(last) == [i \in 1..(last - \h1F) |-> <<0, \h1F + i>>]
    IN  CASE board.model \in THFChips -> low(\h24) \o <<<<5, \h50>>, <<5, \h51>>>>
          [] board.model \in DHGChips -> low(\h26) \o <<<<5, \h50>>, <<5, \h51>>>>
          [] OTHER -> low(\h26) \o <<<<5, \h50>>, <<5, \h51>>, <<5, \h52>>>>

W836Items ==
    [i \in DOMAIN VoltageRegisters |->
        CASE VoltageRegisters[i] = <<5, \h51>> -> Item("battery", i, <<<<0, \h5D>>>>)
          [] i = 1 /\ board.model \in THFChips -> Item("voltage", i, <<<<0, \h18>>, VoltageRegisters[i]>>)
          [] OTHER -> Item("voltage", i, <<VoltageRegisters[i]>>)]
    \o <<Item("temperature", 1, <<<<1, \h50>>, <<1, \h51>>>>), Item("temperature", 2, <<<<2, \h50>>, <<2, \h51>>>>),
         Item("temperature", 3, <<<<0, \h27>>>>), Item("bits", 0, [i \in Fans |-> <<0, WIN_FAN_BIT_REG[i]>>])>>
    \o [n \in Fans |-> Item("fan", n, <<WIN_FAN_TACHO[n]>>)]

ITE_FAN_TACHOMETER_REG     == <<\h0D, \h0E, \h0F>>
ITE_FAN_TACHOMETER_EXT_REG == <<\h18, \h19, \h1A>>
IT87Items ==
    [i \in 1..9 |-> Item("voltage", i, <<<<0, \h1F + i>>>>)]
    \o [i \in 1..5 |-> Item("temperature", i, <<<<0, \h28 + i>>>>)]
    \o [n \in 1..3 |-> Item("fan", n, <<<<0, ITE_FAN_TACHOMETER_REG[n]>>>>)]

F718_FAN_TACHOMETER_REG == <<\hA0, \hB0, \hC0, \hD0>>
F718Items ==
    [i \in 1..(IF board.model = "F71858" THEN 3 ELSE 9) |-> Item("voltage", i, <<<<0, \h1F + i>>>>)]
    \o [i \in 1..3 |-> Item("temperature", i,
            IF board.model = "F71858" THEN <<<<0, \h69>>, <<0, \h6E + 2 * i>>, <<0, \h6F + 2 * i>>>>
                                      ELSE <<<<0, \h70 + 2 * i>>>>)]
    \o [n \in 1..(IF board.model \in {"F71858", "F71882"} THEN 4 ELSE 3) |->
            Item("fan", n, <<<<0, F718_FAN_TACHOMETER_REG[n]>>, <<0, F718_FAN_TACHOMETER_REG[n] + 1>>>>)]

Items(kind) == CASE kind = "W836XX" -> W836Items [] kind = "IT87XX" -> IT87Items [] OTHER -> F718Items

ReadByteOf(kind, at) == CASE kind = "W836XX" -> ReadByte836(at)
                          [] kind = "IT87XX" -> ReadByte87(at)
                          [] OTHER -> ReadByte718(at)

\* One register after the other, each with the same number of accesses.
Accesses(kind, reads) ==
    LET n == CASE kind = "W836XX" -> 4 [] kind = "IT87XX" -> 3 [] OTHER -> 2
    IN  [j \in 1..(n * Len(reads)) |-> ReadByteOf(kind, reads[1 + ((j - 1) \div n)])[1 + ((j - 1) % n)]]

\* Mutant: what IT87XX::ReadByte says of the address is not looked at.
AlwaysValid(kind, g) == TRUE

\* IT87XX::ReadByte: the address port still has the register.
Valid(kind, g) == kind = "IT87XX" => \A k \in DOMAIN g : k % 2 = 0 => g[k].val = g[k].want[2]

\* What an item has still to read when g is what it got: the battery when its
\* voltage is valid, the high byte of a fan when the low one was.
More(kind, item, g) ==
    CASE item.type = "battery" /\ Len(g) = 1 /\ Bit(g[1].val, 0) = 1 -> <<<<5, \h51>>>>
      [] kind = "IT87XX" /\ item.type = "fan" /\ Len(g) = 2 /\ Valid(kind, g) ->
             <<<<0, ITE_FAN_TACHOMETER_EXT_REG[item.n]>>>>
      [] OTHER -> << >>

\* Whether the item is kept as a sensor.
Kept(kind, item, g) ==
    /\ item.type # "bits" /\ Valid(kind, g)
    /\ item.type = "temperature" => item.n \in board.temps
    /\ item.type = "fan" => CASE kind = "W836XX" -> g[1].val \notin {0, 255}
                              [] kind = "IT87XX" -> board.fans[item.n] # 0
                              [] OTHER -> TRUE

\* Writes past fans of a THF chip, reads past ITE_TemperDescription.
Overrun(kind, item) ==
    CASE kind = "W836XX" /\ board.model \in THFChips /\ item.type = "fan" /\ item.n > 3 -> {"fans"}
      [] kind = "IT87XX" /\ item.type = "temperature" /\ item.n > 3 -> {"description"}
      [] OTHER -> {}
-----------------------------------------------------------------------------
\* Mutant: the thresholds are swapped.
StepTurned(count, d) == CASE count > 192 /\ d > 0 -> d - 1
                          [] count < 96 /\ d < 7 -> d + 1
                          [] OTHER -> d

\* One step towards a count between 96 and 192.
Step(count, d) == CASE count > 192 /\ d < 7 -> d + 1
                    [] count < 96 /\ d > 0 -> d - 1
                    [] OTHER -> d

\* A shift of a 32-bit 1 by 32 or more is undefined: the processor takes the
\* count modulo 32, or the compiler has made the mask 0.
SetBit(target, b, v) ==
    LET mask == CASE b < 32 -> {b} [] b >= 32 /\ board.shift = "masked" -> {b - 32} [] OTHER -> {}
    IN  IF v = 1 THEN target \cup mask ELSE target \ mask

\* Mutant: the middle bit is written where the low one is.
SetDivisorTwice(target, n, d) ==
    SetBit(SetBit(SetBit(target, WIN_FAN_DIV_BIT2[n], Bit(d, 2)), WIN_FAN_DIV_BIT0[n], Bit(d, 1)),
           WIN_FAN_DIV_BIT0[n], Bit(d, 0))

SetDivisor(target, n, d) ==
    SetBit(SetBit(SetBit(target, WIN_FAN_DIV_BIT2[n], Bit(d, 2)), WIN_FAN_DIV_BIT1[n], Bit(d, 1)),
           WIN_FAN_DIV_BIT0[n], Bit(d, 0))

ByteOf(set, i) ==
    LET On(b, weight) == IF 8 * (5 - i) + b \in set THEN weight ELSE 0
    IN  On(0, 1) + On(1, 2) + On(2, 4) + On(3, 8) + On(4, 16) + On(5, 32) + On(6, 64) + On(7, 128)

\* The registers whose byte has changed are written, the last one first.
WriteBack(old, new) ==
    LET Changed(i) == IF ByteOf(old, i) = ByteOf(new, i) THEN << >>
                      ELSE WriteByte836(<<0, WIN_FAN_BIT_REG[i]>>, ByteOf(new, i))
    IN  Changed(5) \o Changed(4) \o Changed(3) \o Changed(2) \o Changed(1)
-----------------------------------------------------------------------------
Update(p) ==
    /\ At(p, "update")
    /\ LET all == Items(obj[p].kind)
       IN  \/ /\ WaitIsaBusMutex(p) /\ Goto(p, "reading")
              /\ items' = [items EXCEPT ![p] = all] /\ sensors' = [sensors EXCEPT ![p] = << >>]
              /\ script' = [script EXCEPT ![p] = Accesses(obj[p].kind, all[1].reads)]
              /\ got' = [got EXCEPT ![p] = << >>]
              /\ undef' = IF obj[p].inited \/ obj[p].kind = "IT87XX" THEN undef
                          ELSE [undef EXCEPT ![p] = @ \cup {"object"}]
              /\ UNCHANGED <<service, handles, starts, killed, shared, bits, newBits>>
           \/ WaitTimesOut(p) /\ Goto(p, "updated") /\ UNCHANGED <<os, script, got, update>>
    /\ UNCHANGED <<hardware, port, obj>>

ReadMore(p) ==
    /\ At(p, "reading")
    /\ LET more == More(obj[p].kind, items[p][1], got[p])
       IN  more # << >> /\ script' = [script EXCEPT ![p] = Accesses(obj[p].kind, more)]
    /\ UNCHANGED <<hardware, pc, os, got, port, obj, update>>

\* The item is complete: keep it, or assemble the divisors; then the next one.
ItemRead(p) ==
    LET kind == obj[p].kind
        item == items[p][1]
        g    == got[p]
        rest == Tail(items[p])
        kept == Kept(kind, item, g)
        d    == DivOf(bits[p], item.n)
    IN  /\ At(p, "reading") /\ More(kind, item, g) = << >>
        /\ sensors' = IF kept THEN [sensors EXCEPT ![p] = Append(@, [type |-> item.type, n |-> item.n, reads |-> g])]
                      ELSE sensors
        /\ undef' = IF kept THEN [undef EXCEPT ![p] = @ \cup Overrun(kind, item)] ELSE undef
        /\ bits' = IF item.type # "bits" THEN bits
                   ELSE [bits EXCEPT ![p] = BitsOf([i \in Fans |-> g[i].val])]
        /\ newBits' = CASE item.type = "bits" -> [newBits EXCEPT ![p] = bits'[p] \cap 0..31]
                        [] item.type = "fan" /\ kind = "W836XX" ->
                               [newBits EXCEPT ![p] = SetDivisor(@, item.n, Step(g[1].val, d))]
                        [] OTHER -> newBits
        /\ items' = [items EXCEPT ![p] = rest]
        /\ Goto(p, IF rest = << >> THEN "writing" ELSE "reading")
        /\ script' = [script EXCEPT ![p] = IF rest = << >> THEN WriteBack(bits[p], newBits'[p])
                                           ELSE Accesses(kind, rest[1].reads)]
        /\ got' = [got EXCEPT ![p] = << >>]
        /\ UNCHANGED <<hardware, os, port, obj>>

UpdateDone(p) ==
    /\ At(p, "writing") /\ Goto(p, "updated")
    /\ ReleaseIsaBusMutex(p)
    /\ bits' = [bits EXCEPT ![p] = {}] /\ newBits' = [newBits EXCEPT ![p] = {}]
    /\ UNCHANGED <<hardware, service, handles, starts, killed, shared, lpc, items, sensors, undef>>

UpdateNext(p) == Update(p) \/ ReadMore(p) \/ ItemRead(p) \/ UpdateDone(p)
-----------------------------------------------------------------------------
(* Properties *)

\* W836XX.CPP:7-17, IT87XX.CPP:9-15, F718XX.CPP:22-28: every byte behind a
\* sensor comes from the bank and register it was meant to come from, also
\* after a program was killed between two accesses.  Software that does not
\* know the mutex can break this on Winbond and Fintek chips; on ITE chips it
\* cannot, because the address is read back.
RightRegister ==
    \A p \in Programs : \A i \in DOMAIN sensors[p] :
        (board.family = "ite" \/ intruded = 0) =>
            \A k \in DOMAIN sensors[p][i].reads :
                LET r == sensors[p][i].reads[k] IN r.want = r.from

\* W836XX.CPP:103-147: when the divisors have been written back, those of fans
\* 3 to 5 have made the step that the count read with the old divisor calls
\* for, and the other bits of the last four registers are what they were.
\* Bit 4 is excepted: the mask of bit 36 may be that of bit 4.  The bits above
\* 31, the lower two of fans 1 and 2 and four others, do not survive in a
\* newBits of 32: register 47 is left with zeros, whatever these fans count.
DivisorBits == UNION {{WIN_FAN_DIV_BIT0[n], WIN_FAN_DIV_BIT1[n], WIN_FAN_DIV_BIT2[n]} : n \in Fans}
FanDivisors ==
    \A p \in Programs : At(p, "writing") /\ obj[p].kind = "W836XX" /\ intruded = 0 =>
        LET now == BitsOf(fanreg)
        IN  /\ \A n \in 3..5 : LET d == DivOf(bits[p], n) IN DivOf(now, n) = Step(CountAt(n, d), d)
            /\ \A b \in 0..31 \ (DivisorBits \cup {4}) : b \in now <=> b \in bits[p]
            /\ now \cap 32..39 = {}

\* The same: a fan whose divisor is stepped at every update comes to rest with
\* a count from 96 to 192, or at the end of the scale.
AtRest(n) == LET d == DivOf(BitsOf(fanreg), n)
             IN  (CountAt(n, d) > 192 => d = 7) /\ (CountAt(n, d) < 96 => d = 0)
=============================================================================
