------------------------------- MODULE Sensors -------------------------------
(***************************************************************************)
(* The programs that show the sensors: the console (GetSensorsInfo and     *)
(* SensorsRefresh of SensorsInfo.cpp, the same code in sysinfo.cpp) and    *)
(* the dialog (OnInitDialog, OnTimer and OnRefresh of SensorsTestDlg.cpp), *)
(* with GetCPUTemp of Sensors.cpp, over one driver and one Super-I/O chip. *)
(* The dialog is left by its user; the console ends after its refreshes.   *)
(*                                                                         *)
(* The sensors of disks (SmartReader.cpp) and the tree of the dialog are   *)
(* not here.                                                               *)
(***************************************************************************)
EXTENDS SuperIoUpdate

CONSTANT Refreshes \* refreshes of the console: 5 in SensorsInfo, 3 in GetSysInfo

Console == "console"
Dialog  == "dialog"
ASSUME ProgramsAssumption == Programs \subseteq {Console, Dialog}
ASSUME RefreshesAssumption == Refreshes \in Nat \ {0}

VARIABLES
    left,    \* refreshes the console still has to make
    updates, \* calls of Update in this refresh
    temps,   \* tempreture: the core each one is really of
    address, \* programs that have found the northbridge (miscellaneousControlAddress)
    coresel  \* the core selected in the northbridge

show == <<left, updates, temps, address>>
vars == <<hardware, pc, os, lpc, update, show, coresel>>

Init ==
    /\ BusInit /\ OsInit /\ LpcInit /\ UpdateInit
    /\ left = Refreshes /\ coresel = 0 /\ address = {}
    /\ updates = [p \in Programs |-> 0] /\ temps = [p \in Programs |-> << >>]

Cores == 0..1
Whole == 98 \* the temperature an AMD 10 processor has for all of its cores
Unset == 99 \* no temperature: the element of tempreture is not written
-----------------------------------------------------------------------------
\* A program that ends, however it ends, loses its memory.
Forget(p) ==
    /\ script' = [script EXCEPT ![p] = << >>] /\ got' = [got EXCEPT ![p] = << >>]
    /\ port' = [port EXCEPT ![p] = 1] /\ obj' = [obj EXCEPT ![p] = NoObject]
    /\ items' = [items EXCEPT ![p] = << >>] /\ sensors' = [sensors EXCEPT ![p] = << >>]
    /\ bits' = [bits EXCEPT ![p] = {}] /\ newBits' = [newBits EXCEPT ![p] = {}]
    /\ undef' = [undef EXCEPT ![p] = {}]
    /\ updates' = [updates EXCEPT ![p] = 0] /\ temps' = [temps EXCEPT ![p] = << >>]
    /\ left' = IF p = Console THEN Refreshes ELSE left
    /\ address' = address \ {p}
    /\ UNCHANGED <<hardware, coresel>>

Ends(p) == Exit(p) /\ Forget(p)
Killed(p) == Kill(p) /\ Forget(p)

\* Undefined behaviour may end the program.
Crashes(p) == undef[p] # {} /\ Ended(p) /\ UNCHANGED <<killed, shared>> /\ Forget(p)

\* Open has failed: the console returns, the dialog is shown all the same.
Leave(p) == pc[p] = "failed" /\ Ended(p) /\ UNCHANGED <<killed, shared>> /\ Forget(p)

\* A refresh of a dialog without the device: pSuperIO is whatever was on the
\* stack, and so are the temperatures, none of which can be read.
RefreshUnopened(p) ==
    /\ p = Dialog /\ pc[p] = "failed"
    /\ undef' = [undef EXCEPT ![p] = @ \cup {"pointer"}]
    /\ UNCHANGED <<hardware, pc, os, lpc, items, bits, newBits, sensors, show, coresel>>

AMD == {"amd0f", "amd10"}

\* InitCPUSenor, once the device is open: an AMD processor has its northbridge
\* looked for, one that is neither AMD's nor Intel's nothing at all.  When the
\* northbridge is not found the console gives up, the dialog stays without a
\* timer.
InitCPUSenor(p) ==
    /\ pc[p] = "cpu"
    /\ \/ /\ board.cpu # "mismatch"
          /\ address' = IF board.cpu \in AMD THEN address \cup {p} ELSE address
          /\ Goto(p, IF p = Dialog THEN "idle" ELSE "temps")
       \/ /\ board.cpu = "mismatch" \/ (board.cpu \in AMD /\ Fails("pci"))
          /\ UNCHANGED address
          /\ Goto(p, IF p = Dialog THEN "idle" ELSE "close")
    /\ UNCHANGED <<hardware, os, lpc, update, left, updates, temps, coresel>>

\* The timer or the button starts a refresh of the dialog; the user leaves it.
OnRefresh(p) ==
    /\ pc[p] = "idle" /\ Goto(p, "temps")
    /\ UNCHANGED <<hardware, os, lpc, update, show, coresel>>
OnCancel(p) ==
    /\ pc[p] = "idle" /\ Goto(p, "close")
    /\ UNCHANGED <<hardware, os, lpc, update, show, coresel>>

\* What GetCPUTemp gives is shown whether it succeeds or not.
NextCore(p, from) ==
    /\ temps' = [temps EXCEPT ![p] = Append(@, from)]
    /\ Goto(p, IF Len(temps'[p]) = Cardinality(Cores) THEN "lpcio" ELSE "temps")
    /\ UNCHANGED <<hardware, os, lpc, update, left, updates, address, coresel>>

\* GetCPUTemp of an AMD 0F processor: select the core in the northbridge, then
\* read.
Selects(p) == pc[p] = "temps" /\ board.cpu = "amd0f" /\ p \in address
Selected(p) ==
    /\ Goto(p, "temp")
    /\ coresel' = IF Len(temps[p]) > 0 THEN 1 ELSE 0
    /\ UNCHANGED <<hardware, os, lpc, update, show>>

\* Mutant: the core is read although it could not be selected.
SelectUnchecked(p) ==
    /\ Selects(p)
    /\ \/ Selected(p)
       \/ Fails("pci") /\ Goto(p, "temp") /\ UNCHANGED <<hardware, os, lpc, update, show, coresel>>

SelectCore(p) ==
    /\ Selects(p)
    /\ \/ Selected(p)
       \/ Fails("pci") /\ NextCore(p, Unset)

ReadSelectedTemp(p) ==
    /\ pc[p] = "temp"
    /\ \/ NextCore(p, coresel)
       \/ Fails("pci") /\ NextCore(p, Unset)

\* GetCPUTemp of other processors: a thread that is not bound to the core, as
\* nobody checks, reads any; nothing is read when the request fails or the
\* value is not valid, and without a northbridge or on other processors.
Readable(p) ==
    CASE board.cpu = "intel" ->
             {Len(temps[p])} \cup (IF Fails("pin") THEN Cores ELSE {}) \cup (IF Fails("msr") THEN {Unset} ELSE {})
      [] board.cpu = "amd10" /\ p \in address -> {Whole} \cup (IF Fails("pci") THEN {Unset} ELSE {})
      [] OTHER -> {Unset}
ReadTemp(p) ==
    /\ pc[p] = "temps" /\ ~Selects(p)
    /\ \E from \in Readable(p) : NextCore(p, from)

\* After the constructor; after Update, which the dialog calls twice.
Created(p) ==
    /\ pc[p] = "created" /\ Goto(p, IF obj[p].kind = "null" THEN "shown" ELSE "update")
    /\ UNCHANGED <<hardware, os, lpc, update, show, coresel>>
Updated(p) ==
    /\ pc[p] = "updated"
    /\ updates' = [updates EXCEPT ![p] = @ + 1]
    /\ Goto(p, IF p = Dialog /\ updates[p] = 0 THEN "update" ELSE "shown")
    /\ UNCHANGED <<hardware, os, lpc, update, left, temps, address, coresel>>

\* The values have been shown; m_lpcio goes, the object it made does not.
Shown(p) ==
    /\ pc[p] = "shown"
    /\ left' = IF p = Console THEN left - 1 ELSE left
    /\ Goto(p, CASE p = Dialog -> "idle" [] p = Console /\ left' = 0 -> "close" [] OTHER -> "temps")
    /\ updates' = [updates EXCEPT ![p] = 0] /\ temps' = [temps EXCEPT ![p] = << >>]
    /\ sensors' = [sensors EXCEPT ![p] = << >>] /\ got' = [got EXCEPT ![p] = << >>]
    /\ port' = [port EXCEPT ![p] = 1] /\ obj' = [obj EXCEPT ![p] = NoObject]
    /\ UNCHANGED <<hardware, os, script, items, bits, newBits, undef, address, coresel>>

Device(p) ==
    /\ \/ Begin(p) \/ Open(p) \/ RemoveStops(p) \/ RemoveWinIoDriver(p) \/ InstallWinIoDriver(p)
       \/ StartWinIoDriver(p) \/ Reopen(p) \/ Close(p)
    /\ UNCHANGED <<hardware, lpc, update, show, coresel>>
Detection(p) == LpcNext(p) /\ UNCHANGED <<update, show, coresel>>
Reading(p) == UpdateNext(p) /\ UNCHANGED <<show, coresel>>

\* What a running program does without its user.
Runs(p) ==
    \/ Detection(p) \/ Reading(p) \/ InitCPUSenor(p) \/ SelectCore(p) \/ ReadSelectedTemp(p)
    \/ ReadTemp(p) \/ Created(p) \/ Updated(p) \/ Shown(p)

Next ==
    \/ \E p \in Programs :
           \/ Device(p) \/ Runs(p) \/ Ends(p) \/ Killed(p) \/ Crashes(p)
           \/ Leave(p) \/ RefreshUnopened(p) \/ OnRefresh(p) \/ OnCancel(p)
    \/ Intrude /\ UNCHANGED <<pc, os, lpc, update, show, coresel>>

\* The system schedules a program that can run; every wait has a timeout.
Fairness == \A p \in Programs : WF_vars(Runs(p))
Spec == Init /\ [][Next]_vars /\ Fairness
-----------------------------------------------------------------------------
(* Properties *)

\* The sensors of one object fit into m_sensorvalue (ISuperIO.h:71); who reads
\* or detects holds the mutex; the device is open to who reads.
SensorsTypeOK ==
    /\ \A p \in Programs :
           /\ Len(sensors[p]) <= 30 /\ Len(temps[p]) <= Cardinality(Cores)
           /\ obj[p].kind \in {"null", "W836XX", "IT87XX", "F718XX"}
           /\ newBits[p] \subseteq 0..31 /\ bits[p] \subseteq 0..39
           /\ script[p] # << >> => owner = p /\ p \in handles
    /\ \A i \in Fans : fanreg[i] \in 0..255
    /\ left \in 0..Refreshes /\ handles \subseteq Programs /\ address \subseteq handles

\* LPCIO.cpp:409, W836XX.h:122, W836XX.CPP:121, IT87XX.CPP:118: the undefined
\* behaviour there is, and what it takes.  A wild pSuperIO is used only by a
\* dialog that could not open the device, and that only happens beside
\* another program, without the right to manage services, or where the system
\* refuses a call; an object that is not set up only when the vendor id of
\* its chip is wrong or was disturbed; fans 4 and 5 of a THF chip only when
\* one turns, or a byte of another register was taken for its count.
KnownUndefined ==
    \A p \in Programs :
        /\ "pointer" \in undef[p] => p = Dialog /\ p \notin handles /\ p \notin Able \ shared
        /\ "object" \in undef[p] => board.family = "winbond" /\ (~board.vendor \/ intruded > 0)
        /\ "fans" \in undef[p] =>
               /\ board.model \in THFChips
               /\ board.fans[4] # 0 \/ board.fans[5] # 0 \/ intruded > 0
        /\ "description" \in undef[p] => board.family = "ite" /\ board.temps \cap 4..5 # {}

\* The processor has no temperature that is known, or reading it may fail.
MayBeUnset ==
    \/ board.cpu \in {"other", "mismatch"}
    \/ board.cpu = "intel" /\ Fails("msr")
    \/ board.cpu \in AMD /\ Fails("pci")

\* Sensors.cpp:143-183: what a program with the device shows for a core is the
\* temperature of that core, or the one the processor has.  It is that of
\* another core only when a second program selects its own between selecting
\* and reading, which is not under the mutex, or when the thread cannot be
\* bound to the core; and nothing, an uninitialized value (SensorsInfo.cpp:29),
\* only on processors that are not known and when a read is refused.
CoreTempsOwn ==
    \A p \in Programs : \A i \in DOMAIN temps[p] :
        \/ temps[p][i] = i - 1
        \/ temps[p][i] = Whole /\ board.cpu = "amd10"
        \/ temps[p][i] = Unset /\ MayBeUnset
        \/ temps[p][i] \in Cores /\ board.cpu = "amd0f" /\ p \in shared
        \/ temps[p][i] \in Cores /\ board.cpu = "intel" /\ Fails("pin")

\* W836XX.CPP:128-147: a program that goes on reading brings the divisors of
\* fans 3 to 5 to rest, whatever those of fans 1 and 2 do: a step up is not
\* followed by a step down.
FansSettle ==
    (\E p \in Programs : []<>(pc[p] = "reading")) =>
        \A n \in 3..5 : <>[](board.family = "winbond" /\ intruded = 0 => AtRest(n))
=============================================================================
