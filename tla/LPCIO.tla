-------------------------------- MODULE LPCIO --------------------------------
(***************************************************************************)
(* LPCIO.cpp: find the Super-I/O chip behind one of two pairs of ports and *)
(* make the object that reads its sensors, with the part of the            *)
(* constructors in W836XX.h and IT87XX.CPP that asks the chip's monitor.   *)
(*                                                                         *)
(* A program works through a script of port accesses, one step each, and   *)
(* decides at its end with the bytes it got.                               *)
(***************************************************************************)
EXTENDS Ring0

VARIABLES
    script, \* the accesses each program still has to do before it decides
    got,    \* what the inputs of the script have given
    port,   \* registerPort and valueport: the first or the second pair
    obj     \* pSuperIO: "null", or the kind of the object and whether the
            \* constructor has set it up

lpc == <<script, got, port, obj>>

NoObject == [kind |-> "null", inited |-> TRUE]

LpcInit ==
    /\ script = [p \in Programs |-> << >>] /\ got = [p \in Programs |-> << >>]
    /\ port = [p \in Programs |-> 1] /\ obj = [p \in Programs |-> NoObject]
-----------------------------------------------------------------------------
THFChips   == {"W83627HF", "W83627THF", "W83687THF"}
DHGChips   == {"W83627DHG", "W83627DHGP", "W83667HG", "W83667HGB"}
W836Chips  == THFChips \cup DHGChips \cup {"W83627EHF"}
NctChips   == {"NCT6771F", "NCT6776F"}
F718Chips  == {"F71858", "F71862", "F71869", "F71882", "F71889AD", "F71889ED", "F71889F"}
IT87Chips  == {"IT8712F", "IT8716F", "IT8718F", "IT8720F", "IT8721F", "IT8726F", "IT8728F", "IT8771E", "IT8772E"}

\* An id that is known is that of a chip of its family.
ASSUME FamiliesAssumption ==
    \A b \in Boards :
        /\ b.model \in W836Chips \cup NctChips => b.family = "winbond"
        /\ b.model \in F718Chips => b.family = "fintek"
        /\ b.model \in IT87Chips => b.family = "ite"
        /\ b.addr \in {"good", "bad"} /\ b.gpio \in {"good", "bad", "zero"}

HARDWARE_MONITOR_LDN(chip) == CASE chip \in W836Chips \cup NctChips -> 11
                                [] chip = "F71858" -> 2
                                [] OTHER -> 4

\* The monitor of a chip that is known is the device HARDWARE_MONITOR_LDN says;
\* an id is never what a port gives that nothing answers at.
ASSUME MonitorAssumption ==
    \A b \in Boards :
        /\ b.model # "none" /\ b.vendor \in BOOLEAN
        /\ b.model \in W836Chips \cup NctChips \cup F718Chips \cup IT87Chips =>
               b.ldn = HARDWARE_MONITOR_LDN(b.model)

ReadByte(n, register) == <<Out(<<"index", n>>, register), In(<<"value", n>>, register)>>
Select(n, device) == <<Out(<<"index", n>>, 7), Out(<<"value", n>>, device)>>
WinbondNuvotonFintekEnter(n) == <<Out(<<"index", n>>, \h87), Out(<<"index", n>>, \h87)>>

\* Mutant: the chip is not told to leave.
NoExit(n) == << >>

WinbondNuvotonFintekExit(n) == <<Out(<<"index", n>>, \hAA)>>

IT87Enter(n) == <<Out(<<"index", n>>, \h87), Out(<<"index", n>>, 1),
                  Out(<<"index", n>>, \h55), Out(<<"index", n>>, \h55)>>
IT87Exit(n) == <<Out(<<"index", n>>, 2), Out(<<"value", n>>, 2)>>
SMSCEnter(n) == <<Out(<<"index", n>>, \h55)>>
SMSCExit(n) == <<Out(<<"index", n>>, \hAA)>>

\* W836XX::ReadByte and WriteByte, IT87XX::ReadByte, F718XX::ReadByte.
Select836(b, register) == <<Out(<<"addr">>, \h4E), Out(<<"data">>, b), Out(<<"addr">>, register)>>
ReadByte836(at) == Select836(at[1], at[2]) \o <<In(<<"data">>, at)>>
WriteByte836(at, v) == Select836(at[1], at[2]) \o <<Out(<<"data">>, v)>>
ReadByte87(at) == <<Out(<<"addr">>, at[2]), In(<<"data">>, at), In(<<"addr">>, at)>>
ReadByte718(at) == <<Out(<<"addr">>, at[2]), In(<<"data">>, at)>>

\* The accesses of each stage of Detect on the ports n, once the chip is known.
Script(stage, n, chip) ==
    CASE stage = "wf id" -> WinbondNuvotonFintekEnter(n) \o ReadByte(n, \h20)
      [] stage = "wf exit" -> WinbondNuvotonFintekExit(n)
      [] stage = "wf address" ->
             Select(n, HARDWARE_MONITOR_LDN(chip)) \o ReadByte(n, \h60) \o ReadByte(n, \h60)
             \o ReadByte(n, \h23) \o WinbondNuvotonFintekExit(n)
      [] stage = "w vendor" -> ReadByte836(<<\h80, \h4F>>) \o ReadByte836(<<0, \h4F>>)
      [] stage = "w source" -> ReadByte836(<<0, \h49>>)
      [] stage = "it id" -> IT87Enter(n) \o ReadByte(n, \h20)
      [] stage = "it exit" -> IT87Exit(n)
      [] stage = "it address" ->
             Select(n, 4) \o ReadByte(n, \h60) \o ReadByte(n, \h60) \o ReadByte(n, \h22)
             \o Select(n, 7) \o ReadByte(n, \h62) \o ReadByte(n, \h62) \o IT87Exit(n)
      [] stage = "it vendor" -> ReadByte87(<<0, \h58>>)
      [] stage = "it config" -> ReadByte87(<<0, 0>>)
      [] stage = "smsc id" -> SMSCEnter(n) \o ReadByte(n, \h20)
      [] stage = "smsc exit" -> SMSCExit(n)
      [] OTHER -> << >>

\* One access of the program's script.
PortAccess(p) ==
    /\ Alive(p) /\ script[p] # << >>
    /\ LET op == Head(script[p])
       IN  /\ Access(op)
           /\ got' = IF op.dir = "in" THEN [got EXCEPT ![p] = Append(@, ResultOf(op))] ELSE got
    /\ script' = [script EXCEPT ![p] = Tail(@)]
    /\ UNCHANGED <<pc, os, port, obj>>

Stage(p, stage, n, chip) ==
    /\ Goto(p, stage)
    /\ script' = [script EXCEPT ![p] = Script(stage, n, chip)]
    /\ got' = [got EXCEPT ![p] = << >>]
    /\ UNCHANGED <<hardware, os>>

At(p, stage) == pc[p] = stage /\ script[p] = << >>
-----------------------------------------------------------------------------
\* The constructor, when the device is open.
CreateLPCIO(p) ==
    /\ At(p, "lpcio")
    /\ obj' = [obj EXCEPT ![p] = NoObject]
    /\ \/ /\ WaitIsaBusMutex(p) /\ Goto(p, "wf id")
          /\ port' = [port EXCEPT ![p] = 1]
          /\ script' = [script EXCEPT ![p] = Script("wf id", 1, "none")]
          /\ got' = [got EXCEPT ![p] = << >>]
          /\ UNCHANGED <<service, handles, starts, killed, shared>>
       \/ WaitTimesOut(p) /\ Goto(p, "created") /\ UNCHANGED <<os, script, got, port>>
    /\ UNCHANGED hardware

\* After one family has failed on these ports, and after one has succeeded.
TryIT87(p)  == Stage(p, IF port[p] = 1 THEN "it id" ELSE "smsc id", port[p], "none") /\ UNCHANGED <<port, obj>>
TrySMSC(p)  == Stage(p, "smsc id", port[p], "none") /\ UNCHANGED <<port, obj>>
NextPort(p) == /\ IF port[p] = 1 THEN Stage(p, "wf id", 2, "none") /\ port' = [port EXCEPT ![p] = 2]
                                 ELSE Stage(p, "detected", 2, "none") /\ UNCHANGED port

Detected(p, kind, inited) == obj' = [obj EXCEPT ![p] = [kind |-> kind, inited |-> inited]]

DetectWinbondFintek(p) ==
    /\ At(p, "wf id")
    /\ LET id == got[p][1]
       IN  \/ id \in W836Chips \cup NctChips \cup F718Chips
                /\ Stage(p, "wf address", port[p], id) /\ UNCHANGED <<port, obj>>
           \/ id \notin W836Chips \cup NctChips \cup F718Chips \cup {"none"}
                /\ Stage(p, "wf exit", port[p], id) /\ UNCHANGED <<port, obj>>
           \/ id = "none" /\ TryIT87(p)
WinbondUnknown(p) == At(p, "wf exit") /\ TryIT87(p)

\* The address was read twice; then new W836XX or new F718XX.
WinbondAddress(p) ==
    /\ At(p, "wf address")
    /\ LET good   == got[p][1] = got[p][2] /\ got[p][1] = "good"
           chip   == board.model
           vendor == got[p][3] = "1934"
       IN  \/ (~good \/ (chip \in F718Chips /\ ~vendor)) /\ TryIT87(p)
           \/ good /\ chip \in W836Chips /\ Stage(p, "w vendor", port[p], chip) /\ UNCHANGED <<port, obj>>
           \/ good /\ chip \in NctChips /\ NextPort(p) /\ UNCHANGED obj
           \/ good /\ chip \in F718Chips /\ vendor /\ NextPort(p) /\ Detected(p, "F718XX", TRUE)

\* Mutant: the bytes of the vendor id are swapped.
VendorSwapped(p) ==
    /\ At(p, "w vendor") /\ NextPort(p)
    /\ Detected(p, "W836XX", got[p][1].val = \hA3 /\ got[p][2].val = \h5C)

\* The constructor of W836XX returns early when the vendor id is not Winbond's.
WinbondVendor(p) ==
    /\ At(p, "w vendor")
    /\ LET isWinbond == got[p][1].val = \h5C /\ got[p][2].val = \hA3
       IN  \/ isWinbond /\ board.model \in DHGChips
                /\ Stage(p, "w source", port[p], board.model) /\ UNCHANGED <<port, obj>>
           \/ ~(isWinbond /\ board.model \in DHGChips)
                /\ NextPort(p) /\ Detected(p, "W836XX", isWinbond)

WinbondSource(p) == At(p, "w source") /\ NextPort(p) /\ Detected(p, "W836XX", TRUE)

DetectIT87(p) ==
    /\ At(p, "it id")
    /\ LET id == got[p][1]
       IN  \/ id \in IT87Chips /\ Stage(p, "it address", 1, id) /\ UNCHANGED <<port, obj>>
           \/ id \notin IT87Chips \cup {"none"} /\ Stage(p, "it exit", 1, id) /\ UNCHANGED <<port, obj>>
           \/ id = "none" /\ TrySMSC(p)
IT87Unknown(p) == At(p, "it exit") /\ TrySMSC(p)

\* A GPIO address of zero is replaced by a default.
IT87Address(p) ==
    /\ At(p, "it address")
    /\ LET good == /\ got[p][1] = got[p][2] /\ got[p][1] = "good"
                   /\ got[p][4] = "zero" \/ (got[p][4] = got[p][5] /\ got[p][4] = "good")
       IN  IF good THEN Stage(p, "it vendor", 1, board.model) /\ UNCHANGED <<port, obj>> ELSE TrySMSC(p)
IT87Vendor(p) ==
    /\ At(p, "it vendor")
    /\ IF got[p][1].val = \h90 /\ got[p][2].val = \h58
       THEN Stage(p, "it config", 1, board.model) /\ UNCHANGED <<port, obj>>
       ELSE NextPort(p) /\ Detected(p, "IT87XX", FALSE)
IT87Config(p) ==
    /\ At(p, "it config") /\ NextPort(p)
    /\ Detected(p, "IT87XX", Bit(got[p][1].val, 4) = 1 /\ got[p][2].val = 0)

\* No SMSC chip is known.
DetectSMSC(p) ==
    /\ At(p, "smsc id")
    /\ IF got[p][1] # "none" THEN Stage(p, "smsc exit", port[p], "none") /\ UNCHANGED <<port, obj>>
                             ELSE NextPort(p) /\ UNCHANGED obj
SMSCUnknown(p) == At(p, "smsc exit") /\ NextPort(p) /\ UNCHANGED obj

DetectionDone(p) ==
    /\ At(p, "detected") /\ Goto(p, "created")
    /\ ReleaseIsaBusMutex(p)
    /\ UNCHANGED <<hardware, service, handles, starts, killed, shared, lpc>>

LpcNext(p) ==
    \/ PortAccess(p) \/ CreateLPCIO(p) \/ DetectWinbondFintek(p) \/ WinbondUnknown(p)
    \/ WinbondAddress(p) \/ WinbondVendor(p) \/ WinbondSource(p) \/ DetectIT87(p)
    \/ IT87Unknown(p) \/ IT87Address(p) \/ IT87Vendor(p) \/ IT87Config(p)
    \/ DetectSMSC(p) \/ SMSCUnknown(p) \/ DetectionDone(p)
-----------------------------------------------------------------------------
(* Properties *)

\* What the board holds, as Detect ought to find it.
Present ==
    CASE board.model \in W836Chips /\ board.addr = "good" -> "W836XX"
      [] board.model \in F718Chips /\ board.addr = "good" /\ board.vendor -> "F718XX"
      [] board.model \in IT87Chips /\ board.at = 1 /\ board.addr = "good" /\ board.gpio # "bad" -> "IT87XX"
      [] OTHER -> "null"

\* LPCIO.cpp:25-407: probing with the keys of one family after the other, on
\* both pairs of ports, finds the chip of the board and no other, also when a
\* program was killed in the middle of it; and it leaves the chip locked.
DetectionSound ==
    \A p \in Programs : pc[p] = "detected" => obj[p].kind = Present /\ ~InConfig
=============================================================================
