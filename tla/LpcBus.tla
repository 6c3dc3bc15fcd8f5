------------------------------- MODULE LpcBus --------------------------------
(***************************************************************************)
(* The hardware behind Ring0::ReadIoPort and WriteIoPort: one Super-I/O    *)
(* chip with its configuration ports and its hardware monitor.  External:  *)
(* what it does is taken from how LPCIO.cpp, W836XX.CPP, IT87XX.CPP and    *)
(* F718XX.CPP use it.                                                      *)
(*                                                                         *)
(* The chip is unlocked by writing its keys to the index port.  A          *)
(* configuration register is named by the index port and read or written   *)
(* through the value port; one register stands for both bytes of a word.   *)
(* The monitor has an address and a data port; its registers lie in banks  *)
(* on Winbond chips.                                                       *)
(***************************************************************************)
EXTENDS Naturals, Sequences, FiniteSets

CONSTANT Boards \* the boards: the chip, where it is, its sensors, the
                \* programs run with the right to manage services, the
                \* calls that may fail and, as bounds, the faults

\* Of the driver: opening the device, extracting the file, creating and
\* starting the service.  Of its requests: binding the thread to a core, a
\* valid machine register, PCI configuration space.
Failures == {"open", "extract", "create", "start"} \cup {"pin", "msr", "pci"}

VARIABLES
    board,    \* the board
    unlock,   \* keys of the sequence the chip has seen
    cindex,   \* configuration register selected
    ldn,      \* logical device selected
    hindex,   \* monitor register selected
    bank,     \* monitor bank selected
    fanreg,   \* the five registers with the fan divisors
    intruded  \* times software without the mutex has moved hindex

hardware == <<board, unlock, cindex, ldn, hindex, bank, fanreg, intruded>>

ASSUME BoardsAssumption ==
    \A b \in Boards :
        /\ b.at \in 1..2 /\ b.intrusions \in Nat /\ b.kills \in Nat
        /\ b.cpu \in {"intel", "amd0f", "amd10", "other", "mismatch"}
        /\ b.fails \subseteq Failures
        /\ b.fanreg \in [1..5 -> 0..255]
-----------------------------------------------------------------------------
Bit(v, b) == (v \div 2^b) % 2

\* The bits of a divisor: low, middle and high; bits 39..32 are those of the
\* first register, 7..0 those of the last.
WIN_FAN_DIV_BIT0 == <<36, 38, 30, 8, 10>>
WIN_FAN_DIV_BIT1 == <<37, 39, 31, 9, 11>>
WIN_FAN_DIV_BIT2 == <<5, 6, 7, 23, 15>>
WIN_FAN_BIT_REG  == <<\h47, \h4B, \h4C, \h59, \h5D>>
WIN_FAN_TACHO    == <<<<0, \h28>>, <<0, \h29>>, <<0, \h2A>>, <<0, \h3F>>, <<5, \h53>>>>
Fans == 1..5

BitsOf(bytes) == {b \in 0..39 : Bit(bytes[5 - b \div 8], b % 8) = 1}
DivOf(bits, n) == LET At(b) == IF b \in bits THEN 1 ELSE 0
                  IN  4 * At(WIN_FAN_DIV_BIT2[n]) + 2 * At(WIN_FAN_DIV_BIT1[n]) + At(WIN_FAN_DIV_BIT0[n])

\* The counter of fan n at divisor 2^d; board.fans[n] is what it would count
\* with 2^0, without end, and 0 for a fan that stands still.
CountAt(n, d) == LET c == board.fans[n] \div 2^d
                 IN  IF board.fans[n] = 0 \/ c > 255 THEN 255 ELSE c

Keys == CASE board.family \in {"winbond", "fintek"} -> <<\h87, \h87>>
          [] board.family = "ite" -> <<\h87, \h01, \h55, \h55>>
          [] OTHER -> <<\h55>>
InConfig == unlock = Len(Keys)

ConfigValue ==
    CASE ~InConfig -> "none"
      [] InConfig /\ cindex \in {\h20, \h21} -> board.model
      [] InConfig /\ cindex = \h60 -> IF ldn = board.ldn THEN board.addr ELSE "none"
      [] InConfig /\ cindex = \h62 -> IF ldn = 7 THEN board.gpio ELSE "none"
      [] InConfig /\ cindex = \h23 -> IF board.vendor THEN "1934" ELSE "none"
      [] OTHER -> "other"

\* The byte at <<bank, register>> of the monitor.
MonitorValue(at) ==
    CASE board.family = "winbond" /\ \E i \in Fans : at = <<0, WIN_FAN_BIT_REG[i]>> ->
             fanreg[CHOOSE i \in Fans : at = <<0, WIN_FAN_BIT_REG[i]>>]
      [] board.family = "winbond" /\ \E n \in Fans : at = WIN_FAN_TACHO[n] ->
             LET n == CHOOSE m \in Fans : at = WIN_FAN_TACHO[m]
             IN  CountAt(n, DivOf(BitsOf(fanreg), n))
      [] board.family = "winbond" /\ at = <<\h80, \h4F>> -> IF board.vendor THEN \h5C ELSE 0
      [] board.family = "winbond" /\ at = <<0, \h4F>> -> IF board.vendor THEN \hA3 ELSE 0
      [] board.family = "ite" /\ at[2] = \h58 -> IF board.vendor THEN \h90 ELSE 0
      [] OTHER -> \h10

BusInit ==
    /\ board \in Boards
    /\ unlock = 0 /\ cindex = 0 /\ ldn = 0 /\ hindex = 0 /\ bank = 0
    /\ fanreg = board.fanreg /\ intruded = 0
-----------------------------------------------------------------------------
Out(port, v) == [dir |-> "out", port |-> port, v |-> v]
In(port, want) == [dir |-> "in", port |-> port, v |-> want]

\* A byte that does not go on with the key sequence may begin it again.
KeySeen(v) == CASE v = Keys[unlock + 1] -> unlock + 1
                [] v # Keys[unlock + 1] /\ v = Keys[1] -> 1
                [] OTHER -> 0

WriteIndex(n, v) ==
    /\ \/ n # board.at /\ UNCHANGED <<unlock, cindex>>
       \/ n = board.at /\ ~InConfig /\ unlock' = KeySeen(v) /\ UNCHANGED cindex
       \/ n = board.at /\ InConfig /\ v = \hAA /\ board.family # "ite"
             /\ unlock' = 0 /\ UNCHANGED cindex
       \/ n = board.at /\ InConfig /\ ~(v = \hAA /\ board.family # "ite")
             /\ cindex' = v /\ UNCHANGED unlock
    /\ UNCHANGED <<board, ldn, hindex, bank, fanreg, intruded>>

WriteValue(n, v) ==
    /\ ldn' = IF n = board.at /\ InConfig /\ cindex = 7 THEN v ELSE ldn
    /\ unlock' = IF n = board.at /\ InConfig /\ cindex = 2 /\ v = 2 /\ board.family = "ite"
                 THEN 0 ELSE unlock
    /\ UNCHANGED <<board, cindex, hindex, bank, fanreg, intruded>>

WriteMonitor(port, v) ==
    /\ hindex' = IF port = "addr" THEN v ELSE hindex
    /\ bank' = IF port = "data" /\ hindex = \h4E /\ board.family = "winbond" THEN v ELSE bank
    /\ fanreg' = [i \in Fans |->
           IF port = "data" /\ board.family = "winbond" /\ bank = 0 /\ hindex = WIN_FAN_BIT_REG[i]
           THEN v ELSE fanreg[i]]
    /\ UNCHANGED <<board, unlock, cindex, ldn, intruded>>

\* One access; result is what an input gives.
Access(op) ==
    CASE op.dir = "in" -> UNCHANGED hardware
      [] op.dir = "out" /\ op.port[1] = "index" -> WriteIndex(op.port[2], op.v)
      [] op.dir = "out" /\ op.port[1] = "value" -> WriteValue(op.port[2], op.v)
      [] OTHER -> WriteMonitor(op.port[1], op.v)

ResultOf(op) ==
    CASE op.port[1] = "value" -> IF op.port[2] = board.at THEN ConfigValue ELSE "none"
      [] op.port[1] = "addr"  -> [want |-> op.v, from |-> <<bank, hindex>>, val |-> hindex]
      [] OTHER -> [want |-> op.v, from |-> <<bank, hindex>>, val |-> MonitorValue(<<bank, hindex>>)]

\* Firmware that does not know the mutex uses the address port.
Intrude ==
    /\ intruded < board.intrusions
    /\ intruded' = intruded + 1 /\ hindex' = 1
    /\ UNCHANGED <<board, unlock, cindex, ldn, bank, fanreg>>
=============================================================================
