---------------------------- MODULE SensorsProofs ----------------------------
(***************************************************************************)
(* Proofs about the programs that show the sensors, for any set of boards: *)
(* the driver that several programs install and remove beside each other,  *)
(* the mutex, the temperatures of the cores, the types, the register each  *)
(* byte is read from, the undefined behaviour, the chip that is found.     *)
(***************************************************************************)
EXTENDS Sensors, FiniteSetTheorems, SequenceTheorems, TLAPS
-----------------------------------------------------------------------------
(* The board stays what it is, and so do the programs that can bring the   *)
(* driver up.                                                              *)

LEMMA BoardSame == ASSUME [Next]_vars PROVE board' = board
<1>1. ASSUME NEW p \in Programs, PortAccess(p) PROVE board' = board
  <2>1. Access(Head(script[p]))
    BY <1>1 DEF PortAccess
  <2> QED BY <2>1 DEF Access, WriteIndex, WriteValue, WriteMonitor, hardware
<1>2. ASSUME NEW p \in Programs, NextPort(p) PROVE board' = board
  BY <1>2 DEF NextPort, Stage, hardware
<1>3. ASSUME NEW p \in Programs, TryIT87(p) \/ TrySMSC(p) PROVE board' = board
  BY <1>3 DEF TryIT87, TrySMSC, Stage, hardware
<1>4. ASSUME NEW p \in Programs, Detection(p) PROVE board' = board
  <2>1. CASE CreateLPCIO(p) \/ DetectionDone(p)
    BY <2>1 DEF CreateLPCIO, DetectionDone, hardware
  <2>2. CASE WinbondUnknown(p) \/ IT87Unknown(p) \/ DetectSMSC(p) \/ SMSCUnknown(p) \/ WinbondSource(p)
             \/ IT87Config(p)
    BY <1>2, <1>3, <2>2 DEF WinbondUnknown, IT87Unknown, DetectSMSC, SMSCUnknown, WinbondSource, IT87Config,
                            Stage, hardware
  <2>3. CASE DetectWinbondFintek(p) \/ WinbondAddress(p) \/ WinbondVendor(p)
    BY <1>2, <1>3, <2>3 DEF DetectWinbondFintek, WinbondAddress, WinbondVendor, Stage, hardware
  <2>4. CASE DetectIT87(p) \/ IT87Address(p) \/ IT87Vendor(p)
    BY <1>2, <1>3, <2>4 DEF DetectIT87, IT87Address, IT87Vendor, Stage, hardware
  <2> QED BY <1>1, <1>4, <2>1, <2>2, <2>3, <2>4 DEF Detection, LpcNext
<1>5. ASSUME NEW p \in Programs, Reading(p) PROVE board' = board
  BY <1>5 DEF Reading, UpdateNext, Update, ReadMore, ItemRead, UpdateDone, hardware
<1>6. ASSUME NEW p \in Programs, Device(p) PROVE board' = board
  BY <1>6 DEF Device, hardware
<1>7. ASSUME NEW p \in Programs, InitCPUSenor(p) \/ SelectCore(p) \/ ReadSelectedTemp(p) \/ ReadTemp(p)
      \/ Created(p) \/ Updated(p) \/ Shown(p) \/ RefreshUnopened(p) \/ OnRefresh(p) \/ OnCancel(p)
      PROVE board' = board
  <2>1. CASE SelectCore(p) \/ ReadSelectedTemp(p) \/ ReadTemp(p)
    BY <2>1 DEF SelectCore, Selected, ReadSelectedTemp, ReadTemp, NextCore, hardware
  <2> QED BY <1>7, <2>1 DEF InitCPUSenor, Created, Updated, Shown, RefreshUnopened, OnRefresh, OnCancel, hardware
<1>8. ASSUME NEW p \in Programs, Ends(p) \/ Killed(p) \/ Crashes(p) \/ Leave(p) PROVE board' = board
  BY <1>8 DEF Ends, Killed, Crashes, Leave, Forget, hardware
<1>9. CASE Intrude \/ UNCHANGED vars
  BY <1>9 DEF Intrude, vars, hardware
<1> QED BY <1>4, <1>5, <1>6, <1>7, <1>8, <1>9 DEF Next, Runs

LEMMA AbleIs ==
    /\ Able \subseteq Programs
    /\ \A p \in Able : p \in Managers /\ ~Fails("open") /\ ~Fails("extract") /\ ~Fails("create") /\ ~Fails("start")
BY DEF Able, Managers

LEMMA AbleSame == ASSUME board' = board PROVE Able' = Able
BY DEF Able, Managers, Fails
-----------------------------------------------------------------------------
(* The driver. *)

\* A program has no handle there.
Early == {"off", "failed", "open", "stop", "delete", "create", "start", "reopen"}

\* Where a program finds the driver stopped, or will not find it.
Removing == {"stop", "delete", "create", "start"}

\* A program at this place will get the device if no other program runs.
Fit(where, s) ==
    /\ where # "failed"
    /\ where \in {"stop", "delete"} => s.driver = "stopped"
    /\ where = "create" => s.entry = "none"
    /\ where = "start" => s.entry = "installed" /\ s.driver # "stopping"
    /\ where = "reopen" => s.driver = "running"

\* Two programs that install the driver beside each other.
Beside(a, b, s) ==
    /\ a \in Removing /\ b \in Removing => s.driver = "stopped"
    /\ a = "create" /\ b = "create" => s.entry = "none"
    /\ a = "reopen" /\ b = "create" => s.driver = "running" \/ s.entry = "none"
    /\ a \in {"start", "reopen"} /\ b = "start" => s.entry = "installed"
    /\ a = "reopen" /\ b = "reopen" => s.driver = "running"
    /\ b = "failed" => Fit(a, s)

ServiceOK ==
    /\ DOMAIN service = {"entry", "driver"}
    /\ service.entry \in {"none", "installed", "marked"}
    /\ service.driver \in {"stopped", "running", "stopping"}
    /\ service.entry = "none" => service.driver = "stopped"
    /\ service.entry = "marked" => service.driver # "stopped"
    /\ service.driver = "stopping" => handles # {}

DeviceInv ==
    /\ ServiceOK
    /\ DOMAIN pc = Programs
    /\ handles = {p \in Programs : pc[p] \notin Early}
    /\ \A p, q \in Able : p # q => Beside(pc[p], pc[q], service)
    /\ \A p \in Able : p \notin shared => Fit(pc[p], service)
    /\ \A p, q \in Programs : p # q /\ p \notin shared /\ Alive(p) => ~Alive(q)

LEMMA TwoPrograms ==
    ASSUME NEW p \in Programs, NEW q \in Programs, NEW r \in Programs, p # q, q # r PROVE p = r
BY ProgramsAssumption

LEMMA DeviceGoal ==
    ASSUME DeviceInv, board' = board, NEW p \in Programs, NEW w, Goto(p, w), ServiceOK',
           handles' = IF w \in Early THEN handles \ {p} ELSE handles \cup {p},
           p \in Able => \A q \in Able : q # p => Beside(w, pc[q], service') /\ Beside(pc[q], w, service'),
           p \in Able /\ p \notin shared' => Fit(w, service'),
           \A q \in Able : q # p /\ q \notin shared' => Fit(pc[q], service'),
           \A q \in Programs : q # p /\ w \notin Gone /\ Alive(q) => p \in shared' /\ q \in shared'
    PROVE  DeviceInv' /\ DOMAIN pc' = Programs /\ pc'[p] = w
<1>1. DOMAIN pc = Programs /\ handles = {q \in Programs : pc[q] \notin Early}
  BY DEF DeviceInv
<1>2. DOMAIN pc' = Programs /\ pc'[p] = w /\ \A q \in Programs : q # p => pc'[q] = pc[q]
  BY <1>1 DEF Goto
<1>3. handles' = {q \in Programs : pc'[q] \notin Early}
  BY <1>1, <1>2
<1>4. ASSUME NEW a \in Able, NEW b \in Able, a # b PROVE Beside(pc'[a], pc'[b], service')
  <2>1. a \in Programs /\ b \in Programs
    BY AbleIs
  <2>2. a = p \/ b = p
    BY <1>4, <2>1, TwoPrograms
  <2> QED BY <1>2, <1>4, <2>1, <2>2
<1>5. ASSUME NEW a \in Able, a \notin shared' PROVE Fit(pc'[a], service')
  BY <1>2, <1>5, AbleIs
<1>6. ASSUME NEW a \in Programs, NEW b \in Programs, a # b, a \notin shared', pc'[a] \notin Gone, pc'[b] \notin Gone
      PROVE  FALSE
  <2>1. a = p \/ b = p
    BY <1>6, TwoPrograms
  <2> QED BY <1>2, <1>6, <2>1 DEF Alive
<1> QED BY <1>2, <1>3, <1>4, <1>5, <1>6, AbleSame DEF DeviceInv, Alive

\* A step of a program between two places where it has the device, or an end.
LEMMA DeviceKept ==
    ASSUME DeviceInv, board' = board, NEW p \in Programs, NEW w, Goto(p, w), pc[p] \notin Early, w \notin Early,
           UNCHANGED <<service, handles, shared>>
    PROVE  DeviceInv'
<1>1. ServiceOK'
  BY DEF DeviceInv, ServiceOK
<1>2. p \in handles
  BY DEF DeviceInv
<1>3. ASSUME p \in Able, NEW q \in Able, q # p PROVE Beside(w, pc[q], service) /\ Beside(pc[q], w, service)
  <2>1. Beside(pc[p], pc[q], service)
    BY <1>3 DEF DeviceInv
  <2> QED BY <2>1 DEF Beside, Early, Removing, Fit
<1>4. Fit(w, service)
  BY DEF Fit, Early
<1>5. \A q \in Able : q # p /\ q \notin shared => Fit(pc[q], service)
  BY DEF DeviceInv
<1>6. \A q \in Programs : q # p /\ Alive(q) => p \in shared /\ q \in shared
  BY DEF DeviceInv, Alive, Early, Gone
<1> QED BY <1>1, <1>2, <1>3, <1>4, <1>5, <1>6, DeviceGoal

LEMMA DeviceBegin ==
    ASSUME DeviceInv, board' = board, NEW p \in Programs, Begin(p) PROVE DeviceInv'
<1>1. pc[p] = "off" /\ Goto(p, "open") /\ UNCHANGED <<service, handles>>
      /\ shared' = IF Others(p) = {} THEN shared \ {p} ELSE shared \cup {p} \cup Others(p)
  BY DEF Begin
<1>2. ServiceOK' /\ p \notin handles
  BY <1>1 DEF DeviceInv, ServiceOK, Early
<1>3. ASSUME NEW q \in Able, q # p PROVE Beside("open", pc[q], service) /\ Beside(pc[q], "open", service)
  BY DEF Beside, Removing, Fit
<1>4. Fit("open", service)
  BY DEF Fit
<1>5. \A q \in Able : q # p /\ q \notin shared' => Fit(pc[q], service)
  BY <1>1 DEF DeviceInv
<1>6. \A q \in Programs : q # p /\ Alive(q) => p \in shared' /\ q \in shared'
  BY <1>1 DEF Others
<1> QED BY <1>1, <1>2, <1>3, <1>4, <1>5, <1>6, DeviceGoal DEF Early

\* What every step of a program p of DeviceInv may use.
LEMMA Others1 ==
    ASSUME DeviceInv, NEW p \in Programs
    PROVE  /\ \A q \in Able : q # p => /\ p \in Able => Beside(pc[p], pc[q], service) /\ Beside(pc[q], pc[p], service)
                                       /\ q \notin shared => Fit(pc[q], service)
           /\ \A q \in Programs : q # p /\ Alive(p) /\ Alive(q) => p \in shared /\ q \in shared
           /\ p \in Able /\ p \notin shared => Fit(pc[p], service)
           /\ Able \subseteq Programs
           /\ ServiceOK /\ (p \in handles <=> pc[p] \notin Early)
           /\ \A q \in Programs : q \in handles <=> pc[q] \notin Early
           /\ \A q \in handles : q \in Programs
BY AbleIs DEF DeviceInv

\* One of the places where a program tells how the driver is.
LEMMA DeviceOpen ==
    ASSUME DeviceInv, board' = board, NEW p \in Able, Open(p) \/ Reopen(p) PROVE DeviceInv'
<1>1. /\ pc[p] \in {"open", "reopen"} /\ UNCHANGED <<service, shared>>
      /\ \/ service.driver = "running" /\ Goto(p, "cpu") /\ handles' = handles \cup {p}
         \/ pc[p] = "open" /\ service.driver # "running" /\ Goto(p, "stop") /\ handles' = handles
         \/ pc[p] = "reopen" /\ service.driver # "running" /\ Goto(p, "failed") /\ handles' = handles
  BY AbleIs DEF Open, Reopen, Opens, NotOpened
<1>2. p \in Programs /\ p \notin handles /\ Alive(p)
  BY <1>1, Others1, AbleIs DEF Early, Alive, Gone
<1>3. /\ ServiceOK /\ (p \notin shared => Fit(pc[p], service))
      /\ \A q \in Able : q # p => /\ Beside(pc[p], pc[q], service) /\ Beside(pc[q], pc[p], service)
                                  /\ (q \notin shared => Fit(pc[q], service))
      /\ \A q \in Programs : q # p /\ Alive(q) => p \in shared /\ q \in shared
      /\ Able \subseteq Programs
  BY <1>2, Others1
<1>4. CASE service.driver = "running" /\ Goto(p, "cpu") /\ handles' = handles \cup {p}
  <2>1. ServiceOK'
    BY <1>1, <1>3, <1>4 DEF ServiceOK
  <2>2. ASSUME NEW q \in Able, q # p PROVE Beside("cpu", pc[q], service) /\ Beside(pc[q], "cpu", service)
    BY DEF Beside, Removing, Fit
  <2>3. Fit("cpu", service)
    BY DEF Fit
  <2> QED BY <1>1, <1>3, <1>4, <2>1, <2>2, <2>3, DeviceGoal DEF Early
<1>5. CASE pc[p] = "open" /\ service.driver # "running" /\ Goto(p, "stop") /\ handles' = handles
  <2>1. ServiceOK'
    BY <1>1, <1>3, <1>5 DEF ServiceOK
  <2>2. ASSUME NEW q \in Able, q # p
        PROVE  /\ Beside("stop", pc[q], service) /\ Beside(pc[q], "stop", service)
    <3>1. pc[q] \in Removing \cup {"failed"} => service.driver = "stopped"
      <4>1. pc[q] \in Early /\ q # p => handles = {} \/ pc[q] \notin Removing \cup {"failed"}
        <5>1. SUFFICES ASSUME pc[q] \in Early, NEW r \in handles PROVE FALSE
          OBVIOUS
        <5>2. r \in Programs /\ r # p /\ r # q
          BY <1>2, <1>3, <2>2, <5>1, Others1
        <5> QED BY <1>2, <1>3, <2>2, <5>2, TwoPrograms
      <4> QED BY <1>3, <1>5, <2>2, <4>1 DEF ServiceOK, Early, Removing
    <3> QED BY <3>1 DEF Beside, Removing, Fit
  <2>3. p \notin shared => Fit("stop", service)
    <3>1. SUFFICES ASSUME p \notin shared PROVE service.driver = "stopped"
      BY DEF Fit
    <3>2. ASSUME NEW r \in handles PROVE FALSE
      BY <1>2, <1>3, <3>1, Others1 DEF Alive, Early, Gone
    <3> QED BY <1>3, <1>5, <3>2 DEF ServiceOK
  <2> QED BY <1>1, <1>2, <1>3, <1>5, <2>1, <2>2, <2>3, DeviceGoal DEF Early
<1>6. CASE pc[p] = "reopen" /\ service.driver # "running" /\ Goto(p, "failed") /\ handles' = handles
  <2>1. ServiceOK'
    BY <1>1, <1>3, <1>6 DEF ServiceOK
  <2>2. ASSUME NEW q \in Able, q # p
        PROVE  Beside("failed", pc[q], service) /\ Beside(pc[q], "failed", service)
    <3>1. pc[q] # "failed"
      BY <1>3, <1>6, <2>2 DEF Beside, Fit
    <3>2. Fit(pc[q], service)
      <4>1. pc[q] \in Early => service.driver = "stopped"
        <5>1. SUFFICES ASSUME pc[q] \in Early, NEW r \in handles PROVE FALSE
          BY <1>3, <1>6 DEF ServiceOK
        <5>2. r \in Programs /\ r # p /\ r # q
          BY <1>2, <1>3, <2>2, <5>1, Others1
        <5> QED BY <1>2, <1>3, <2>2, <5>2, TwoPrograms
      <4> QED BY <1>3, <1>6, <2>2, <3>1, <4>1 DEF Fit, Beside, Early, Removing
    <3> QED BY <3>1, <3>2 DEF Beside, Removing
  <2>3. p \in shared
    BY <1>3, <1>6 DEF Fit
  <2> QED BY <1>1, <1>2, <1>3, <1>6, <2>1, <2>2, <2>3, DeviceGoal DEF Early, Gone
<1> QED BY <1>1, <1>4, <1>5, <1>6

\* Two programs that both have no handle: nobody has one.
LEMMA NoHandle ==
    ASSUME DeviceInv, NEW p \in Programs, NEW q \in Programs, p # q, pc[p] \in Early, pc[q] \in Early
    PROVE  handles = {} /\ service.driver # "stopping"
<1>1. ASSUME NEW r \in handles PROVE FALSE
  <2>1. r \in Programs /\ r # p /\ r # q
    BY <1>1, Others1
  <2> QED BY <2>1, TwoPrograms
<1> QED BY <1>1, Others1 DEF ServiceOK

LEMMA DeviceRemoveStops ==
    ASSUME DeviceInv, board' = board, NEW p \in Able, RemoveStops(p) PROVE DeviceInv'
<1>1. /\ pc[p] = "stop" /\ Goto(p, "delete") /\ UNCHANGED <<handles, shared>> /\ StopWinIoDriver(p)
      /\ p \in Programs /\ p \notin handles /\ Alive(p) /\ pc[p] \in Early
  BY Others1, AbleIs DEF RemoveStops, Early, Alive, Gone
<1>2. /\ ServiceOK /\ (p \notin shared => Fit(pc[p], service))
      /\ \A q \in Able : q # p => /\ Beside(pc[p], pc[q], service) /\ Beside(pc[q], pc[p], service)
                                  /\ (q \notin shared => Fit(pc[q], service))
      /\ \A q \in Programs : q # p /\ Alive(q) => p \in shared /\ q \in shared
      /\ Able \subseteq Programs
  BY <1>1, Others1
<1>3. CASE service' = service
  <2>1. ASSUME NEW q \in Able, q # p
        PROVE  Beside("delete", pc[q], service') /\ Beside(pc[q], "delete", service')
    <3>1. Beside(pc[p], pc[q], service) /\ Beside(pc[q], pc[p], service)
      BY <1>2, <2>1
    <3> QED BY <1>1, <1>3, <3>1 DEF Beside, Removing, Fit
  <2>2. p \notin shared => Fit("delete", service')
    BY <1>1, <1>2, <1>3 DEF Fit
  <2>3. ServiceOK'
    BY <1>1, <1>2, <1>3 DEF ServiceOK
  <2> QED BY <1>1, <1>2, <1>3, <2>1, <2>2, <2>3, DeviceGoal DEF Early
<1>4. CASE service.entry # "none" /\ service.driver = "running"
  <2>1. service' = Settled([service EXCEPT !.driver = "stopping"], handles)
    BY <1>1, <1>4, AbleIs DEF StopWinIoDriver
  <2>2. DOMAIN service = {"entry", "driver"}
    BY <1>2 DEF ServiceOK
  <2>3. /\ DOMAIN service' = {"entry", "driver"}
        /\ handles = {} => service'.driver = "stopped" /\ service'.entry \in {"none", "installed"}
        /\ handles # {} => service'.driver = "stopping" /\ service'.entry = service.entry
    BY <1>2, <2>1, <2>2 DEF Settled, ServiceOK
  <2>4. ServiceOK'
    BY <1>1, <1>2, <1>4, <2>3 DEF ServiceOK
  <2>5. ASSUME NEW q \in Able, q # p
        PROVE  /\ Beside("delete", pc[q], service') /\ Beside(pc[q], "delete", service')
               /\ q \notin shared => Fit(pc[q], service')
    <3>1. Beside(pc[p], pc[q], service) /\ pc[q] \notin Removing
      BY <1>1, <1>2, <1>4, <2>5 DEF Beside, Removing
    <3>2. pc[q] = "failed" => handles = {}
      BY <1>1, <1>2, <2>5, NoHandle DEF Early
    <3>3. q \notin shared => pc[q] \in {"off", "failed"} /\ Fit(pc[q], service)
      BY <1>2, <2>5 DEF Alive, Gone
    <3>4. q \notin shared => Fit(pc[q], service')
      BY <3>3 DEF Fit
    <3> QED BY <2>3, <3>1, <3>2, <3>4 DEF Beside, Removing, Fit
  <2>6. p \notin shared => Fit("delete", service')
    <3>1. SUFFICES ASSUME p \notin shared PROVE handles = {}
      BY <2>3 DEF Fit
    <3>2. ASSUME NEW r \in handles PROVE FALSE
      BY <1>1, <1>2, <3>1, Others1 DEF Alive, Early, Gone
    <3> QED BY <3>2
  <2> QED BY <1>1, <1>2, <2>4, <2>5, <2>6, DeviceGoal DEF Early
<1> QED BY <1>1, <1>3, <1>4, AbleIs DEF StopWinIoDriver

LEMMA DeviceRemove ==
    ASSUME DeviceInv, board' = board, NEW p \in Able, RemoveWinIoDriver(p) PROVE DeviceInv'
<1>1. /\ pc[p] = "delete" /\ Goto(p, "create") /\ UNCHANGED <<handles, shared>>
      /\ p \in Programs /\ p \notin handles /\ Alive(p) /\ pc[p] \in Early
  BY Others1, AbleIs DEF RemoveWinIoDriver, Early, Alive, Gone
<1>2. /\ ServiceOK /\ (p \notin shared => Fit(pc[p], service))
      /\ \A q \in Able : q # p => /\ Beside(pc[p], pc[q], service) /\ Beside(pc[q], pc[p], service)
                                  /\ (q \notin shared => Fit(pc[q], service))
      /\ \A q \in Programs : q # p /\ Alive(q) => p \in shared /\ q \in shared
      /\ Able \subseteq Programs
  BY <1>1, Others1
<1>3. /\ DOMAIN service' = {"entry", "driver"} /\ service'.driver = service.driver
      /\ service.entry = "none" \/ service.driver = "stopped" => service'.entry = "none"
      /\ service.entry # "none" /\ service.driver # "stopped" => service'.entry = "marked"
  BY <1>2, AbleIs DEF RemoveWinIoDriver, ServiceOK
<1>4. ServiceOK'
  BY <1>1, <1>2, <1>3 DEF ServiceOK
<1>5. ASSUME NEW q \in Able, q # p
      PROVE  /\ Beside("create", pc[q], service') /\ Beside(pc[q], "create", service')
             /\ q \notin shared => Fit(pc[q], service')
  <2>1. Beside(pc[p], pc[q], service) /\ Beside(pc[q], pc[p], service)
    BY <1>2, <1>5
  <2>2. pc[q] = "reopen" => service.driver # "stopping"
    BY <1>1, <1>2, <1>5, NoHandle DEF Early
  <2>3. q \notin shared => pc[q] \in {"off", "failed"} /\ Fit(pc[q], service)
    BY <1>2, <1>5 DEF Alive, Gone
  <2>4. q \notin shared => Fit(pc[q], service')
    BY <2>3 DEF Fit
  <2>5. Beside("create", pc[q], service')
    BY <1>1, <1>3, <2>1 DEF Beside, Removing, Fit
  <2>6. Beside(pc[q], "create", service')
    BY <1>1, <1>2, <1>3, <2>1, <2>2 DEF Beside, Removing, Fit, ServiceOK
  <2> QED BY <2>4, <2>5, <2>6
<1>6. p \notin shared => Fit("create", service')
  BY <1>1, <1>2, <1>3 DEF Fit
<1> QED BY <1>1, <1>2, <1>4, <1>5, <1>6, DeviceGoal DEF Early

LEMMA DeviceInstall ==
    ASSUME DeviceInv, board' = board, NEW p \in Able, InstallWinIoDriver(p) PROVE DeviceInv'
<1>1. /\ pc[p] = "create" /\ UNCHANGED <<handles, shared>>
      /\ p \in Programs /\ p \notin handles /\ Alive(p) /\ pc[p] \in Early
      /\ \/ service.entry = "none" /\ service' = [service EXCEPT !.entry = "installed"] /\ Goto(p, "start")
         \/ service.entry # "none" /\ service' = service /\ Goto(p, "failed")
  BY Others1, AbleIs DEF InstallWinIoDriver, Early, Alive, Gone
<1>2. /\ ServiceOK /\ (p \notin shared => Fit(pc[p], service))
      /\ \A q \in Able : q # p => /\ Beside(pc[p], pc[q], service) /\ Beside(pc[q], pc[p], service)
                                  /\ (q \notin shared => Fit(pc[q], service))
      /\ \A q \in Programs : q # p /\ Alive(q) => p \in shared /\ q \in shared
      /\ Able \subseteq Programs
  BY <1>1, Others1
<1>3. CASE service.entry = "none" /\ service' = [service EXCEPT !.entry = "installed"] /\ Goto(p, "start")
  <2>1. DOMAIN service' = {"entry", "driver"} /\ service'.entry = "installed" /\ service'.driver = "stopped"
        /\ service.driver = "stopped"
    BY <1>2, <1>3 DEF ServiceOK
  <2>2. ServiceOK'
    BY <1>1, <1>2, <2>1 DEF ServiceOK
  <2>3. ASSUME NEW q \in Able, q # p
        PROVE  /\ Beside("start", pc[q], service') /\ Beside(pc[q], "start", service')
               /\ q \notin shared => Fit(pc[q], service')
    <3>1. Beside(pc[p], pc[q], service) /\ Beside(pc[q], pc[p], service)
      BY <1>2, <2>3
    <3>3. q \notin shared => pc[q] \in {"off", "failed"} /\ Fit(pc[q], service)
      BY <1>2, <2>3 DEF Alive, Gone
    <3>4. q \notin shared => Fit(pc[q], service')
      BY <3>3 DEF Fit
    <3> QED BY <1>1, <2>1, <3>1, <3>4 DEF Beside, Removing, Fit
  <2>4. Fit("start", service')
    BY <2>1 DEF Fit
  <2> QED BY <1>1, <1>2, <1>3, <2>2, <2>3, <2>4, DeviceGoal DEF Early
<1>4. CASE service.entry # "none" /\ service' = service /\ Goto(p, "failed")
  <2>1. ServiceOK'
    BY <1>1, <1>2, <1>4 DEF ServiceOK
  <2>2. p \in shared
    BY <1>1, <1>2, <1>4 DEF Fit
  <2>3. ASSUME NEW q \in Able, q # p
        PROVE  Beside("failed", pc[q], service') /\ Beside(pc[q], "failed", service')
    <3>1. Beside(pc[p], pc[q], service) /\ Beside(pc[q], pc[p], service)
      BY <1>2, <2>3
    <3>2. pc[q] # "failed" /\ Fit(pc[q], service)
      BY <1>1, <1>2, <1>4, <3>1 DEF Beside, Removing, Fit, ServiceOK
    <3> QED BY <1>4, <3>2 DEF Beside, Removing
  <2> QED BY <1>1, <1>2, <1>4, <2>1, <2>2, <2>3, DeviceGoal DEF Early, Gone
<1> QED BY <1>1, <1>3, <1>4

LEMMA DeviceStart ==
    ASSUME DeviceInv, board' = board, NEW p \in Able, StartWinIoDriver(p) PROVE DeviceInv'
<1>1. /\ pc[p] = "start" /\ UNCHANGED <<handles, shared>>
      /\ p \in Programs /\ p \notin handles /\ Alive(p) /\ pc[p] \in Early
      /\ \/ Startable /\ service' = [service EXCEPT !.driver = "running"] /\ Goto(p, "reopen")
         \/ ~Startable /\ service' = service /\ Goto(p, "failed")
  BY Others1, AbleIs DEF StartWinIoDriver, Early, Alive, Gone
<1>2. /\ ServiceOK /\ (p \notin shared => Fit(pc[p], service))
      /\ \A q \in Able : q # p => /\ Beside(pc[p], pc[q], service) /\ Beside(pc[q], pc[p], service)
                                  /\ (q \notin shared => Fit(pc[q], service))
      /\ \A q \in Programs : q # p /\ Alive(q) => p \in shared /\ q \in shared
      /\ Able \subseteq Programs
  BY <1>1, Others1
<1>3. CASE Startable /\ service' = [service EXCEPT !.driver = "running"] /\ Goto(p, "reopen")
  <2>1. DOMAIN service' = {"entry", "driver"} /\ service'.entry = "installed" /\ service'.driver = "running"
    BY <1>2, <1>3 DEF ServiceOK, Startable
  <2>2. ServiceOK'
    BY <1>1, <1>2, <2>1 DEF ServiceOK, Startable
  <2>3. ASSUME NEW q \in Able, q # p
        PROVE  /\ Beside("reopen", pc[q], service') /\ Beside(pc[q], "reopen", service')
               /\ q \notin shared => Fit(pc[q], service')
    <3>1. Beside(pc[p], pc[q], service) /\ Beside(pc[q], pc[p], service)
      BY <1>2, <2>3
    <3>3. q \notin shared => pc[q] \in {"off", "failed"} /\ Fit(pc[q], service)
      BY <1>2, <2>3 DEF Alive, Gone
    <3>4. q \notin shared => Fit(pc[q], service')
      BY <3>3 DEF Fit
    <3> QED BY <1>1, <2>1, <3>1, <3>4 DEF Beside, Removing, Fit
  <2>4. Fit("reopen", service')
    BY <2>1 DEF Fit
  <2> QED BY <1>1, <1>2, <1>3, <2>2, <2>3, <2>4, DeviceGoal DEF Early
<1>4. CASE ~Startable /\ service' = service /\ Goto(p, "failed")
  <2>1. ServiceOK'
    BY <1>1, <1>2, <1>4 DEF ServiceOK, Startable
  <2>2. p \in shared
    BY <1>1, <1>2, <1>4 DEF Fit, ServiceOK, Startable
  <2>3. ASSUME NEW q \in Able, q # p
        PROVE  Beside("failed", pc[q], service') /\ Beside(pc[q], "failed", service')
    <3>1. Beside(pc[p], pc[q], service) /\ Beside(pc[q], pc[p], service)
      BY <1>2, <2>3
    <3>2. pc[q] = "reopen" => service.driver # "stopping"
      BY <1>1, <1>2, <2>3, NoHandle DEF Early
    <3>3. pc[q] # "failed"
      BY <1>1, <1>2, <1>4, <3>1 DEF Beside, Fit, ServiceOK, Startable
    <3>4. pc[q] \in Removing => service.driver = "stopped" /\ service.entry = "none"
      BY <1>1, <1>2, <1>4, <3>1 DEF Beside, Removing, ServiceOK, Startable
    <3>5. pc[q] \notin {"start", "reopen"}
      BY <1>1, <1>2, <1>4, <3>1, <3>2, <3>4 DEF Beside, Removing, ServiceOK, Startable
    <3>6. Fit(pc[q], service)
      BY <3>3, <3>4, <3>5 DEF Fit, Removing
    <3> QED BY <1>4, <3>3, <3>6 DEF Beside, Removing
  <2> QED BY <1>1, <1>2, <1>4, <2>1, <2>2, <2>3, DeviceGoal DEF Early, Gone
<1> QED BY <1>1, <1>3, <1>4

\* What else a program does there keeps the service in order.
LEMMA ServiceKept ==
    ASSUME DeviceInv, NEW p \in Programs,
           Open(p) \/ Reopen(p) \/ RemoveStops(p) \/ RemoveWinIoDriver(p) \/ InstallWinIoDriver(p)
             \/ StartWinIoDriver(p)
    PROVE  ServiceOK'
<1>1. ServiceOK
  BY DEF DeviceInv
<1>2. CASE Open(p) \/ Reopen(p)
  <2>1. service' = service /\ handles \subseteq handles'
    BY <1>2 DEF Open, Reopen, Opens, NotOpened
  <2> QED BY <1>1, <2>1 DEF ServiceOK
<1>3. CASE RemoveStops(p)
  <2>1. CASE service' = service
    BY <1>1, <1>3, <2>1 DEF RemoveStops, ServiceOK
  <2>2. CASE service.entry # "none" /\ service' = Settled([service EXCEPT !.driver = "stopping"], handles)
    BY <1>1, <1>3, <2>2 DEF RemoveStops, Settled, ServiceOK
  <2> QED BY <1>3, <2>1, <2>2 DEF RemoveStops, StopWinIoDriver
<1>4. CASE RemoveWinIoDriver(p)
  BY <1>1, <1>4 DEF RemoveWinIoDriver, ServiceOK
<1>5. CASE InstallWinIoDriver(p)
  BY <1>1, <1>5 DEF InstallWinIoDriver, ServiceOK
<1>6. CASE StartWinIoDriver(p)
  BY <1>1, <1>6 DEF StartWinIoDriver, Startable, ServiceOK
<1> QED BY <1>2, <1>3, <1>4, <1>5, <1>6

\* A program that may be refused what it calls: others that are without company
\* are not running.
LEMMA DeviceUnable ==
    ASSUME DeviceInv, board' = board, NEW p \in Programs, p \notin Able,
           Open(p) \/ Reopen(p) \/ RemoveStops(p) \/ RemoveWinIoDriver(p) \/ InstallWinIoDriver(p)
             \/ StartWinIoDriver(p)
    PROVE  DeviceInv'
<1>1. UNCHANGED shared /\ pc[p] \in Early \ Gone
  BY DEF Open, Reopen, RemoveStops, RemoveWinIoDriver, InstallWinIoDriver, StartWinIoDriver, Early, Gone
<1>2. p \notin handles /\ Alive(p)
  BY <1>1, Others1 DEF Alive
<1>3. \E w : Goto(p, w) /\ handles' = IF w \in Early THEN handles \ {p} ELSE handles \cup {p}
  <2>1. CASE Opens(p)
    BY <2>1 DEF Opens, Early
  <2>2. CASE handles' = handles /\ \E w \in Early : Goto(p, w)
    BY <1>2, <2>2
  <2> QED BY <2>1, <2>2 DEF Open, Reopen, NotOpened, RemoveStops, RemoveWinIoDriver, InstallWinIoDriver,
                            StartWinIoDriver, Early
<1>4. PICK w : Goto(p, w) /\ handles' = IF w \in Early THEN handles \ {p} ELSE handles \cup {p}
  BY <1>3
<1>5. ASSUME NEW q \in Able, q # p, q \notin shared PROVE Fit(pc[q], service')
  <2>1. Fit(pc[q], service) /\ pc[q] \in Gone
    BY <1>2, <1>5, Others1 DEF Alive
  <2> QED BY <2>1 DEF Fit, Gone
<1>6. \A q \in Programs : q # p /\ Alive(q) => p \in shared /\ q \in shared
  BY <1>2, Others1
<1> QED BY <1>1, <1>4, <1>5, <1>6, ServiceKept, DeviceGoal

LEMMA DeviceClose ==
    ASSUME DeviceInv, board' = board, NEW p \in Programs, Close(p) PROVE DeviceInv'
<1>1. /\ pc[p] = "close" /\ Goto(p, "exit") /\ UNCHANGED <<handles, shared>> /\ StopWinIoDriver(p)
      /\ p \in handles /\ Alive(p)
  BY Others1 DEF Close, Early, Alive, Gone
<1>2. /\ ServiceOK
      /\ \A q \in Able : q # p /\ q \notin shared => Fit(pc[q], service)
      /\ \A q \in Programs : q # p /\ Alive(q) => p \in shared /\ q \in shared
      /\ Able \subseteq Programs
  BY <1>1, Others1
<1>3. \/ service' = service
      \/ service.entry # "none" /\ service' = [service EXCEPT !.driver = "stopping"]
  BY <1>1 DEF StopWinIoDriver, Settled
<1>4. ServiceOK'
  BY <1>1, <1>2, <1>3 DEF ServiceOK
<1>5. ASSUME NEW q \in Able, q # p
      PROVE  /\ Beside("exit", pc[q], service') /\ Beside(pc[q], "exit", service')
             /\ q \notin shared => Fit(pc[q], service')
  <2>1. q \notin shared => pc[q] \in {"off", "failed"} /\ Fit(pc[q], service)
    BY <1>2, <1>5 DEF Alive, Gone
  <2>2. q \notin shared => Fit(pc[q], service')
    BY <2>1 DEF Fit
  <2> QED BY <2>2 DEF Beside, Removing, Fit
<1>6. Fit("exit", service')
  BY DEF Fit
<1> QED BY <1>1, <1>2, <1>4, <1>5, <1>6, DeviceGoal DEF Early

\* A program ends: by itself, killed, by undefined behaviour, or without the
\* device.
LEMMA DeviceEnded ==
    ASSUME DeviceInv, board' = board, NEW p \in Programs, Ended(p), UNCHANGED shared PROVE DeviceInv'
<1>1. Goto(p, "off") /\ handles' = handles \ {p} /\ service' = Settled(service, handles')
  BY DEF Ended
<1>2. /\ ServiceOK
      /\ \A q \in Able : q # p /\ q \notin shared => Fit(pc[q], service)
  BY Others1
<1>3. \/ service.driver = "stopping" /\ handles' = {} /\ service'.driver = "stopped"
            /\ service'.entry \in {"none", "installed"} /\ DOMAIN service' = {"entry", "driver"}
      \/ service' = service /\ (service.driver = "stopping" => handles' # {})
  BY <1>1, <1>2 DEF Settled, ServiceOK
<1>4. ServiceOK'
  BY <1>2, <1>3 DEF ServiceOK
<1>5. ASSUME NEW q \in Able, q # p
      PROVE  /\ Beside("off", pc[q], service') /\ Beside(pc[q], "off", service')
             /\ q \notin shared => Fit(pc[q], service')
  <2>1. ASSUME q \notin shared PROVE Fit(pc[q], service')
    <3>1. Fit(pc[q], service)
      BY <1>2, <1>5, <2>1
    <3>2. CASE service' = service
      BY <3>1, <3>2
    <3>3. CASE service.driver = "stopping" /\ handles' = {}
      <4>1. p \in handles
        BY <1>1, <1>2, <3>3 DEF ServiceOK
      <4>2. pc[q] \in {"off", "failed"}
        BY <1>5, <2>1, <4>1, Others1 DEF Early, Alive, Gone
      <4> QED BY <3>1, <4>2 DEF Fit
    <3> QED BY <1>3, <3>2, <3>3
  <2> QED BY <2>1 DEF Beside, Removing, Fit
<1>6. Fit("off", service')
  BY DEF Fit
<1> QED BY <1>1, <1>2, <1>4, <1>5, <1>6, DeviceGoal DEF Early, Gone

\* A step in which no program goes anywhere, and the device is left alone.
LEMMA DeviceSame ==
    ASSUME DeviceInv, UNCHANGED <<board, pc, service, handles, shared>> PROVE DeviceInv'
<1>1. ServiceOK'
  BY DEF DeviceInv, ServiceOK
<1> QED BY <1>1, AbleSame DEF DeviceInv, Alive

LEMMA DeviceInit == ASSUME Init PROVE DeviceInv
<1>1. /\ pc = [p \in Programs |-> "off"] /\ handles = {} /\ shared = {}
      /\ service = [entry |-> "none", driver |-> "stopped"]
  BY DEF Init, OsInit
<1>2. ServiceOK
  BY <1>1 DEF ServiceOK
<1> QED BY <1>1, <1>2, AbleIs DEF DeviceInv, Beside, Removing, Fit, Early, Alive, Gone
-----------------------------------------------------------------------------
(* What a program with the device open does to the system: it goes on, and *)
(* takes or gives the mutex.                                               *)

\* A program holds the mutex there.
Locked == {"wf id", "wf exit", "wf address", "w vendor", "w source", "it id", "it exit", "it address",
           "it vendor", "it config", "smsc id", "smsc exit", "detected", "reading", "writing"}

\* p has a handle and goes from one place to another; who comes to a place
\* that takes the mutex has waited for it, and who leaves one releases it.
TravelsTo(p, w) ==
    /\ pc[p] \notin Early /\ w \notin Early /\ Goto(p, w)
    /\ \/ pc[p] \in Locked /\ w \in Locked /\ UNCHANGED owner
       \/ pc[p] \notin Locked /\ w \notin Locked /\ UNCHANGED owner
       \/ pc[p] \notin Locked /\ w \in Locked /\ WaitIsaBusMutex(p)
       \/ pc[p] \in Locked /\ w \notin Locked /\ ReleaseIsaBusMutex(p)
Travels(p) ==
    /\ UNCHANGED <<service, handles, shared, starts, killed>>
    /\ UNCHANGED <<pc, owner>> \/ \E w : TravelsTo(p, w)

\* A program between its port accesses is at a place with the mutex.
Asks(p) == script[p] # << >> => pc[p] \in Locked

\* What p does to the scripts.
Scripts(p) ==
    /\ script' = script \/ \E s : script' = [script EXCEPT ![p] = s]
    /\ script'[p] # << >> => pc'[p] \in Locked

LEMMA StageTravels ==
    ASSUME NEW p \in Programs, DOMAIN pc = Programs, NEW stage \in Locked, NEW n, NEW chip,
           Stage(p, stage, n, chip), pc[p] \in Locked
    PROVE  Travels(p) /\ Scripts(p)
<1>1. Goto(p, stage) /\ UNCHANGED os /\ \E s : script' = [script EXCEPT ![p] = s]
  BY DEF Stage
<1>2. pc'[p] = stage /\ stage \notin Early /\ pc[p] \notin Early
  BY <1>1 DEF Goto, Locked, Early
<1>3. TravelsTo(p, stage)
  BY <1>1, <1>2 DEF TravelsTo, os
<1> QED BY <1>1, <1>2, <1>3 DEF Travels, Scripts, os

LEMMA NextPortTravels ==
    ASSUME NEW p \in Programs, DOMAIN pc = Programs, NextPort(p), pc[p] \in Locked
    PROVE  Travels(p) /\ Scripts(p)
<1>1. Stage(p, "wf id", 2, "none") \/ Stage(p, "detected", 2, "none")
  BY DEF NextPort
<1>2. "wf id" \in Locked /\ "detected" \in Locked
  BY DEF Locked
<1> QED BY <1>1, <1>2, StageTravels

LEMMA TryTravels ==
    ASSUME NEW p \in Programs, DOMAIN pc = Programs, TryIT87(p) \/ TrySMSC(p), pc[p] \in Locked
    PROVE  Travels(p) /\ Scripts(p)
<1>1. Stage(p, "it id", port[p], "none") \/ Stage(p, "smsc id", port[p], "none")
  BY DEF TryIT87, TrySMSC
<1>2. "it id" \in Locked /\ "smsc id" \in Locked
  BY DEF Locked
<1> QED BY <1>1, <1>2, StageTravels

LEMMA DetectionTravels ==
    ASSUME NEW p \in Programs, DOMAIN pc = Programs, DOMAIN script = Programs, Asks(p), LpcNext(p)
    PROVE  Travels(p) /\ Scripts(p)
<1> USE DEF At
<1>1. CASE PortAccess(p)
  BY <1>1 DEF PortAccess, Travels, Scripts, os, Asks
<1>2. CASE CreateLPCIO(p)
  <2>1. pc[p] = "lpcio" /\ script[p] = << >>
    BY <1>2 DEF CreateLPCIO
  <2>2. CASE WaitIsaBusMutex(p) /\ Goto(p, "wf id") /\ script' = [script EXCEPT ![p] = Script("wf id", 1, "none")]
             /\ UNCHANGED <<service, handles, starts, killed, shared>>
    <3>1. TravelsTo(p, "wf id") /\ pc'[p] \in Locked
      BY <2>1, <2>2 DEF TravelsTo, Goto, Locked, Early
    <3> QED BY <2>2, <3>1 DEF Travels, Scripts
  <2>3. CASE Goto(p, "created") /\ UNCHANGED <<os, script>>
    <3>1. TravelsTo(p, "created")
      BY <2>1, <2>3 DEF TravelsTo, Locked, Early, os
    <3> QED BY <2>1, <2>3, <3>1 DEF Travels, Scripts, os
  <2> QED BY <1>2, <2>2, <2>3 DEF CreateLPCIO
<1>3. CASE DetectWinbondFintek(p)
  <2>1. pc[p] \in Locked
    BY <1>3 DEF DetectWinbondFintek, Locked
  <2>2. \/ \E id : Stage(p, "wf address", port[p], id) \/ Stage(p, "wf exit", port[p], id)
        \/ TryIT87(p)
    BY <1>3 DEF DetectWinbondFintek
  <2>3. "wf address" \in Locked /\ "wf exit" \in Locked
    BY DEF Locked
  <2> QED BY <2>1, <2>2, <2>3, StageTravels, TryTravels
<1>4. CASE WinbondUnknown(p) \/ IT87Unknown(p)
  BY <1>4, TryTravels DEF WinbondUnknown, IT87Unknown, Locked
<1>5. CASE WinbondAddress(p)
  <2>1. pc[p] \in Locked /\ "w vendor" \in Locked
    BY <1>5 DEF WinbondAddress, Locked
  <2>2. \/ \E chip : Stage(p, "w vendor", port[p], chip)
        \/ TryIT87(p) \/ NextPort(p)
    BY <1>5 DEF WinbondAddress
  <2> QED BY <2>1, <2>2, StageTravels, TryTravels, NextPortTravels
<1>6. CASE WinbondVendor(p)
  <2>1. pc[p] \in Locked /\ "w source" \in Locked
    BY <1>6 DEF WinbondVendor, Locked
  <2>2. Stage(p, "w source", port[p], board.model) \/ NextPort(p)
    BY <1>6 DEF WinbondVendor
  <2> QED BY <2>1, <2>2, StageTravels, NextPortTravels
<1>7. CASE WinbondSource(p) \/ IT87Config(p) \/ SMSCUnknown(p)
  BY <1>7, NextPortTravels DEF WinbondSource, IT87Config, SMSCUnknown, Locked
<1>8. CASE DetectIT87(p)
  <2>1. pc[p] \in Locked
    BY <1>8 DEF DetectIT87, Locked
  <2>2. \/ \E id : Stage(p, "it address", 1, id) \/ Stage(p, "it exit", 1, id)
        \/ TrySMSC(p)
    BY <1>8 DEF DetectIT87
  <2>3. "it address" \in Locked /\ "it exit" \in Locked
    BY DEF Locked
  <2> QED BY <2>1, <2>2, <2>3, StageTravels, TryTravels
<1>9. CASE IT87Address(p)
  <2>1. pc[p] \in Locked /\ "it vendor" \in Locked
    BY <1>9 DEF IT87Address, Locked
  <2>2. Stage(p, "it vendor", 1, board.model) \/ TrySMSC(p)
    BY <1>9 DEF IT87Address
  <2> QED BY <2>1, <2>2, StageTravels, TryTravels
<1>10. CASE IT87Vendor(p)
  <2>1. pc[p] \in Locked /\ "it config" \in Locked
    BY <1>10 DEF IT87Vendor, Locked
  <2>2. Stage(p, "it config", 1, board.model) \/ NextPort(p)
    BY <1>10 DEF IT87Vendor
  <2> QED BY <2>1, <2>2, StageTravels, NextPortTravels
<1>11. CASE DetectSMSC(p)
  <2>1. pc[p] \in Locked /\ "smsc exit" \in Locked
    BY <1>11 DEF DetectSMSC, Locked
  <2>2. Stage(p, "smsc exit", port[p], "none") \/ NextPort(p)
    BY <1>11 DEF DetectSMSC
  <2> QED BY <2>1, <2>2, StageTravels, NextPortTravels
<1>12. CASE DetectionDone(p)
  <2>1. TravelsTo(p, "created") /\ script' = script /\ script[p] = << >>
    BY <1>12 DEF DetectionDone, lpc, TravelsTo, Locked, Early
  <2> QED BY <1>12, <2>1 DEF DetectionDone, Travels, Scripts
<1> QED BY <1>1, <1>2, <1>3, <1>4, <1>5, <1>6, <1>7, <1>8, <1>9, <1>10, <1>11, <1>12 DEF LpcNext

\* A step between two places without the mutex.
LEMMA PlainTravels ==
    ASSUME NEW p \in Programs, DOMAIN pc = Programs, Asks(p), NEW w, Goto(p, w), UNCHANGED <<os, script>>,
           pc[p] \notin Locked \cup Early, w \notin Locked \cup Early
    PROVE  Travels(p) /\ Scripts(p)
<1>1. TravelsTo(p, w)
  BY DEF TravelsTo, os
<1> QED BY <1>1 DEF Travels, Scripts, Asks, os

LEMMA ReadingTravels ==
    ASSUME NEW p \in Programs, DOMAIN pc = Programs, DOMAIN script = Programs, Asks(p), UpdateNext(p)
    PROVE  Travels(p) /\ Scripts(p)
<1> USE DEF At
<1>1. CASE Update(p)
  <2>1. pc[p] = "update" /\ script[p] = << >>
    BY <1>1 DEF Update
  <2>2. CASE WaitIsaBusMutex(p) /\ Goto(p, "reading") /\ (\E s : script' = [script EXCEPT ![p] = s])
             /\ UNCHANGED <<service, handles, starts, killed, shared>>
    <3>1. TravelsTo(p, "reading") /\ pc'[p] \in Locked
      BY <2>1, <2>2 DEF TravelsTo, Goto, Locked, Early
    <3> QED BY <2>2, <3>1 DEF Travels, Scripts
  <2>3. CASE Goto(p, "updated") /\ UNCHANGED <<os, script>>
    BY <2>1, <2>3, PlainTravels DEF Locked, Early
  <2> QED BY <1>1, <2>2, <2>3 DEF Update
<1>2. CASE ReadMore(p)
  BY <1>2 DEF ReadMore, Travels, Scripts, os, Locked
<1>3. CASE ItemRead(p)
  <2>1. /\ pc[p] = "reading" /\ UNCHANGED os
        /\ Goto(p, IF Tail(items[p]) = << >> THEN "writing" ELSE "reading")
        /\ \E s : script' = [script EXCEPT ![p] = s]
    BY <1>3 DEF ItemRead
  <2>2. PICK w \in {"writing", "reading"} : Goto(p, w)
    BY <2>1
  <2>3. TravelsTo(p, w) /\ pc'[p] \in Locked
    BY <2>1, <2>2 DEF TravelsTo, Goto, Locked, Early, os
  <2> QED BY <2>1, <2>3 DEF Travels, Scripts, os
<1>4. CASE UpdateDone(p)
  <2>1. TravelsTo(p, "updated") /\ script' = script /\ script[p] = << >>
    BY <1>4 DEF UpdateDone, lpc, TravelsTo, Locked, Early
  <2> QED BY <1>4, <2>1 DEF UpdateDone, Travels, Scripts
<1> QED BY <1>1, <1>2, <1>3, <1>4 DEF UpdateNext

\* Every step a program with the device makes of itself, or its user.
Goes(p) == Runs(p) \/ OnRefresh(p) \/ OnCancel(p) \/ RefreshUnopened(p)

LEMMA ProgramTravels ==
    ASSUME NEW p \in Programs, DOMAIN pc = Programs, DOMAIN script = Programs, Asks(p), Goes(p)
    PROVE  Travels(p) /\ Scripts(p)
<1>1. CASE Detection(p)
  BY <1>1, DetectionTravels DEF Detection
<1>2. CASE Reading(p)
  BY <1>2, ReadingTravels DEF Reading
<1>3. CASE RefreshUnopened(p)
  BY <1>3 DEF RefreshUnopened, Travels, Scripts, os, lpc, Asks
<1>4. CASE InitCPUSenor(p)
  <2>1. pc[p] = "cpu" /\ UNCHANGED <<os, script>> /\ \E w \in {"idle", "close", "temps"} : Goto(p, w)
    BY <1>4 DEF InitCPUSenor, lpc
  <2> QED BY <2>1, PlainTravels DEF Locked, Early
<1>5. CASE OnRefresh(p) \/ OnCancel(p)
  <2>1. pc[p] = "idle" /\ UNCHANGED <<os, script>> /\ \E w \in {"temps", "close"} : Goto(p, w)
    BY <1>5 DEF OnRefresh, OnCancel, lpc
  <2> QED BY <2>1, PlainTravels DEF Locked, Early
<1>6. CASE SelectCore(p) \/ ReadSelectedTemp(p) \/ ReadTemp(p)
  <2>1. pc[p] \in {"temps", "temp"} /\ UNCHANGED <<os, script>> /\ \E w \in {"temp", "lpcio", "temps"} : Goto(p, w)
    BY <1>6 DEF SelectCore, Selects, Selected, ReadSelectedTemp, ReadTemp, NextCore, lpc
  <2> QED BY <2>1, PlainTravels DEF Locked, Early
<1>7. CASE Created(p) \/ Updated(p)
  <2>1. pc[p] \in {"created", "updated"} /\ UNCHANGED <<os, script>> /\ \E w \in {"shown", "update"} : Goto(p, w)
    BY <1>7 DEF Created, Updated, lpc
  <2> QED BY <2>1, PlainTravels DEF Locked, Early
<1>8. CASE Shown(p)
  <2>1. pc[p] = "shown" /\ UNCHANGED <<os, script>> /\ \E w \in {"idle", "close", "temps"} : Goto(p, w)
    BY <1>8 DEF Shown
  <2> QED BY <2>1, PlainTravels DEF Locked, Early
<1> QED BY <1>1, <1>2, <1>3, <1>4, <1>5, <1>6, <1>7, <1>8 DEF Goes, Runs
-----------------------------------------------------------------------------
(* The mutex: one program at a time is where it takes it, and only there it *)
(* has port accesses to do.                                                 *)

MutexInv ==
    /\ DOMAIN script = Programs
    /\ \A p \in Programs : pc[p] \in Locked => owner = p
    /\ \A p \in Programs : Asks(p)

\* The steps of the system in terms of the device and the mutex.
LEMMA Steps ==
    ASSUME DeviceInv, MutexInv, Next
    PROVE  \/ \E p \in Programs : Device(p)
           \/ \E p \in Programs : Travels(p) /\ Scripts(p)
           \/ \E p \in Programs : Ended(p) /\ UNCHANGED shared /\ script' = [script EXCEPT ![p] = << >>]
           \/ UNCHANGED <<pc, os, lpc>>
<1>1. ASSUME NEW p \in Programs, Goes(p) PROVE Travels(p) /\ Scripts(p)
  BY <1>1, ProgramTravels DEF DeviceInv, MutexInv
<1>2. ASSUME NEW p \in Programs, Ends(p) \/ Killed(p) \/ Crashes(p) \/ Leave(p)
      PROVE  Ended(p) /\ UNCHANGED shared /\ script' = [script EXCEPT ![p] = << >>]
  BY <1>2 DEF Ends, Killed, Crashes, Leave, Exit, Kill, Forget
<1> QED BY <1>1, <1>2 DEF Next, Goes

LEMMA DeviceNext == ASSUME DeviceInv, MutexInv, [Next]_vars PROVE DeviceInv'
<1>0. board' = board
  BY BoardSame
<1>1. ASSUME NEW p \in Programs, Device(p) PROVE DeviceInv'
  <2>1. CASE Begin(p) \/ Close(p)
    BY <1>0, <2>1, DeviceBegin, DeviceClose
  <2>2. CASE p \in Able
    BY <1>0, <1>1, <2>1, <2>2, DeviceOpen, DeviceRemoveStops, DeviceRemove, DeviceInstall, DeviceStart DEF Device
  <2>3. CASE p \notin Able
    BY <1>0, <1>1, <2>1, <2>3, DeviceUnable DEF Device
  <2> QED BY <2>2, <2>3
<1>2. ASSUME NEW p \in Programs, Travels(p) PROVE DeviceInv'
  <2>1. ASSUME NEW w, TravelsTo(p, w) PROVE DeviceInv'
    BY <1>0, <1>2, <2>1, DeviceKept DEF Travels, TravelsTo
  <2> QED BY <1>0, <1>2, <2>1, DeviceSame DEF Travels
<1>3. ASSUME NEW p \in Programs, Ended(p), UNCHANGED shared PROVE DeviceInv'
  BY <1>0, <1>3, DeviceEnded
<1>4. CASE UNCHANGED vars \/ UNCHANGED <<pc, os, lpc>>
  BY <1>0, <1>4, DeviceSame DEF vars, os
<1> QED BY <1>1, <1>2, <1>3, <1>4, Steps

\* A step of p that leaves the mutex and the scripts of the others alone.
LEMMA MutexGoal ==
    ASSUME MutexInv, DOMAIN pc = Programs, NEW p \in Programs, NEW w, Goto(p, w),
           script' = script \/ \E s : script' = [script EXCEPT ![p] = s],
           w \in Locked => owner' = p,
           \A q \in Programs : q # p /\ owner = q => owner' = q \/ pc[q] \notin Locked,
           script'[p] # << >> => w \in Locked
    PROVE  MutexInv'
<1>1. DOMAIN script' = Programs /\ \A q \in Programs : q # p => script'[q] = script[q] /\ pc'[q] = pc[q]
  BY DEF MutexInv, Goto
<1>2. pc'[p] = w
  BY DEF Goto
<1>3. ASSUME NEW q \in Programs
      PROVE  (pc'[q] \in Locked => owner' = q) /\ (script'[q] # << >> => pc'[q] \in Locked)
  <2>1. CASE q = p
    BY <1>2, <2>1
  <2>2. CASE q # p
    BY <1>1, <2>2 DEF MutexInv, Asks
  <2> QED BY <2>1, <2>2
<1> QED BY <1>1, <1>3 DEF MutexInv, Asks

LEMMA MutexNext == ASSUME DeviceInv, MutexInv, [Next]_vars PROVE MutexInv'
<1>0. DOMAIN pc = Programs /\ DOMAIN script = Programs
  BY DEF DeviceInv, MutexInv
<1>1. ASSUME NEW p \in Programs, Device(p) PROVE MutexInv'
  <2>1. UNCHANGED <<owner, script>> /\ pc[p] \notin Locked
        /\ \E w \in {"open", "cpu", "stop", "delete", "create", "start", "failed", "reopen", "exit"} : Goto(p, w)
    BY <1>1 DEF Device, Begin, Open, RemoveStops, RemoveWinIoDriver, InstallWinIoDriver, StartWinIoDriver,
                Reopen, Opens, NotOpened, Close, lpc, Locked
  <2>2. PICK w \in {"open", "cpu", "stop", "delete", "create", "start", "failed", "reopen", "exit"} : Goto(p, w)
    BY <2>1
  <2>3. w \notin Locked /\ script'[p] = << >>
    BY <2>1 DEF Locked, MutexInv, Asks
  <2> QED BY <1>0, <2>1, <2>2, <2>3, MutexGoal
<1>2. ASSUME NEW p \in Programs, Travels(p), Scripts(p) PROVE MutexInv'
  <2>1. ASSUME NEW w, TravelsTo(p, w) PROVE MutexInv'
    <3>1. Goto(p, w) /\ pc'[p] = w
      BY <1>0, <2>1 DEF TravelsTo, Goto
    <3>2. w \in Locked => owner' = p
      BY <2>1 DEF TravelsTo, MutexInv, WaitIsaBusMutex
    <3>3. \A q \in Programs : q # p /\ owner = q => owner' = q \/ pc[q] \notin Locked
      BY <2>1, NobodyAssumption DEF TravelsTo, MutexInv, WaitIsaBusMutex, ReleaseIsaBusMutex
    <3> QED BY <1>0, <1>2, <3>1, <3>2, <3>3, MutexGoal DEF Scripts
  <2>2. CASE UNCHANGED <<pc, owner>>
    <3>1. DOMAIN script' = Programs /\ \A q \in Programs : q # p => script'[q] = script[q]
      BY <1>0, <1>2 DEF Scripts
    <3> QED BY <1>2, <2>2, <3>1 DEF MutexInv, Asks, Scripts
  <2> QED BY <1>2, <2>1, <2>2 DEF Travels
<1>3. ASSUME NEW p \in Programs, Ended(p), script' = [script EXCEPT ![p] = << >>] PROVE MutexInv'
  <2>1. Goto(p, "off") /\ owner' = (IF owner = p THEN Nobody ELSE owner)
    BY <1>3 DEF Ended
  <2>2. "off" \notin Locked /\ script'[p] = << >>
    BY <1>0, <1>3 DEF Locked
  <2>3. \A q \in Programs : q # p /\ owner = q => owner' = q
    BY <2>1
  <2> QED BY <1>0, <1>3, <2>1, <2>2, <2>3, MutexGoal
<1>4. CASE UNCHANGED vars \/ UNCHANGED <<pc, os, lpc>>
  BY <1>4 DEF vars, os, lpc, MutexInv, Asks
<1> QED BY <1>1, <1>2, <1>3, <1>4, Steps

LEMMA MutexInit == ASSUME Init PROVE MutexInv
BY DEF Init, OsInit, LpcInit, MutexInv, Asks, Locked
-----------------------------------------------------------------------------
SharedInv == DeviceInv /\ MutexInv

THEOREM SharedInvariant == Spec => []SharedInv
<1>1. Init => SharedInv
  BY DeviceInit, MutexInit DEF SharedInv
<1>2. SharedInv /\ [Next]_vars => SharedInv'
  BY DeviceNext, MutexNext DEF SharedInv
<1> QED BY <1>1, <1>2, PTL DEF Spec

LEMMA DeviceInvOpens == ASSUME DeviceInv PROVE DeviceOpens
<1>1. \A p \in Able : pc[p] = "failed" => p \in shared
  BY DEF DeviceInv, Fit
<1>2. ASSUME Able = Programs, NEW p \in Programs, NEW q \in Programs, q # p, pc[p] = "failed" PROVE pc[q] # "failed"
  <2>1. Beside(pc[q], pc[p], service)
    BY <1>2 DEF DeviceInv
  <2> QED BY <1>2, <2>1 DEF Beside, Fit
<1>3. CASE Able = Programs => \E p \in Programs : pc[p] # "failed"
  BY <1>1, <1>3 DEF DeviceOpens
<1>4. CASE Able = Programs /\ \A p \in Programs : pc[p] = "failed"
  <2>1. Programs = {} \/ \E p \in Programs : Programs = {p}
    BY <1>2, <1>4
  <2>2. Cardinality(Programs) \in {0, 1}
    BY <2>1, FS_EmptySet, FS_Singleton
  <2> QED BY <1>1, <2>2 DEF DeviceOpens
<1> QED BY <1>3, <1>4

\* Ring0.cpp:114-160, InstDrv.cpp:18-125: whatever state the programs before
\* it have left the service in, a program that may manage services, is refused
\* nothing and is alone opens the device, whoever without that right has been
\* there; and two such programs that install the driver beside each other do
\* not both fail.
THEOREM DeviceOpened == Spec => []DeviceOpens
<1>1. SharedInv => DeviceOpens
  BY DeviceInvOpens DEF SharedInv
<1> QED BY <1>1, SharedInvariant, PTL

\* LPCIO.cpp:25-407, W836XX.CPP:7-17: at any time at most one program is where
\* it uses the ports, with the device open, whoever was killed with the mutex.
PortsExclusive ==
    \A p \in Programs : script[p] # << >> =>
        /\ owner = p /\ p \in handles
        /\ \A q \in Programs \ {p} : script[q] = << >> /\ pc[q] \notin Locked

THEOREM PortsAreExclusive == Spec => []PortsExclusive
<1>1. ASSUME SharedInv PROVE PortsExclusive
  <2>1. DeviceInv /\ MutexInv
    BY <1>1 DEF SharedInv
  <2>2. \A p \in Programs : pc[p] \in Locked => owner = p /\ p \in handles
    BY <2>1 DEF DeviceInv, MutexInv, Locked, Early
  <2> QED BY <2>1, <2>2 DEF MutexInv, Asks, PortsExclusive
<1> QED BY <1>1, SharedInvariant, PTL
-----------------------------------------------------------------------------
(* The temperatures of the cores.                                           *)

Temps == Cores \cup {Whole, Unset}

\* Whether reading on the board b may give nothing.
Unread(b) ==
    \/ b.cpu \in {"other", "mismatch"}
    \/ b.cpu = "intel" /\ "msr" \in b.fails
    \/ b.cpu \in AMD /\ "pci" \in b.fails

\* What p may show for core n.
Shows(p, v, n, sh, b) ==
    \/ v = n
    \/ v = Whole /\ b.cpu = "amd10"
    \/ v = Unset /\ Unread(b)
    \/ v \in Cores /\ b.cpu = "amd0f" /\ p \in sh
    \/ v \in Cores /\ b.cpu = "intel" /\ "pin" \in b.fails

\* What p, at w, has got of its cores when the one selected is sel.
CoreOK(p, w, t, sel, sh, b) ==
    /\ Len(t) <= 2
    /\ w \in {"temps", "temp"} => Len(t) < 2
    /\ w \in Early \cup {"cpu", "idle"} => t = << >>
    /\ w = "temp" => b.cpu = "amd0f" /\ (p \notin sh => sel = Len(t))
    /\ \A i \in 1..Len(t) : Shows(p, t[i], i - 1, sh, b)

CoresInv ==
    /\ board \in Boards /\ temps \in [Programs -> Seq(Temps)] /\ coresel \in Cores
    /\ \A p \in Programs : CoreOK(p, pc[p], temps[p], coresel, shared, board)

\* A program that is past InitCPUSenor has found its northbridge, if there is
\* one and nothing was refused.
Initialised(p, w, b) == w \notin Early \cup {"cpu"} /\ b.cpu \in AMD /\ "pci" \notin b.fails
AddressInv ==
    /\ address \subseteq Programs
    /\ \A p \in Programs : pc[p] \in Early \cup {"cpu"} => p \notin address
    /\ \A p \in Programs : Initialised(p, pc[p], board) => p \in address

LEMMA CoreGoal ==
    ASSUME CoresInv, NEW p \in Programs, NEW w, NEW t, DOMAIN pc = Programs, Goto(p, w), board' = board,
           t \in Seq(Temps), temps' = [temps EXCEPT ![p] = t], coresel' \in Cores,
           CoreOK(p, w, t, coresel', shared', board),
           \A q \in Programs : q # p => (q \in shared => q \in shared'),
           \A q \in Programs : q # p /\ pc[q] = "temp" /\ q \notin shared => coresel' = coresel
    PROVE  CoresInv'
<1>1. ASSUME NEW q \in Programs PROVE CoreOK(q, pc'[q], temps'[q], coresel', shared', board')
  <2>1. CASE q = p
    BY <2>1 DEF CoresInv, Goto
  <2>2. CASE q # p
    <3>1. CoreOK(q, pc[q], temps[q], coresel, shared, board) /\ pc'[q] = pc[q] /\ temps'[q] = temps[q]
      BY <2>2 DEF CoresInv, Goto
    <3>2. \A v, n : Shows(q, v, n, shared, board) => Shows(q, v, n, shared', board)
      BY <2>2 DEF Shows
    <3> QED BY <2>2, <3>1, <3>2 DEF CoreOK
  <2> QED BY <2>1, <2>2
<1> QED BY <1>1 DEF CoresInv

\* A step of p with no core read or selected.
LEMMA CoreKept ==
    ASSUME CoresInv, NEW p \in Programs, NEW w, DOMAIN pc = Programs, Goto(p, w),
           UNCHANGED <<board, temps, coresel, shared>>, w # "temp",
           w \in Early \cup {"cpu", "idle", "temps"} => pc[p] \in Early \cup {"cpu", "idle"}
    PROVE  CoresInv'
<1>1. CoreOK(p, w, temps[p], coresel, shared, board)
  BY DEF CoresInv, CoreOK
<1>2. temps' = [temps EXCEPT ![p] = temps[p]]
  BY DEF CoresInv
<1> QED BY <1>1, <1>2, CoreGoal DEF CoresInv

LEMMA CoreBegin ==
    ASSUME CoresInv, DeviceInv, NEW p \in Programs, Begin(p), UNCHANGED <<board, temps, coresel>>
    PROVE  CoresInv'
<1>1. /\ pc[p] = "off" /\ Goto(p, "open")
      /\ shared' = IF Others(p) = {} THEN shared \ {p} ELSE shared \cup {p} \cup Others(p)
  BY DEF Begin
<1>2. temps[p] = << >>
  BY <1>1 DEF CoresInv, CoreOK, Early
<1>3. CoreOK(p, "open", << >>, coresel, shared', board)
  BY DEF CoreOK
<1>4. \A q \in Programs : q # p /\ q \in shared => q \in shared'
  BY <1>1
<1>5. << >> \in Seq(Temps) /\ temps' = [temps EXCEPT ![p] = << >>] /\ DOMAIN pc = Programs
  BY <1>2 DEF CoresInv, DeviceInv
<1> QED BY <1>1, <1>3, <1>4, <1>5, CoreGoal DEF CoresInv

LEMMA CoreEnded ==
    ASSUME CoresInv, DeviceInv, NEW p \in Programs, Goto(p, "off"), UNCHANGED <<board, shared, coresel>>,
           temps' = [temps EXCEPT ![p] = << >>]
    PROVE  CoresInv'
<1>1. CoreOK(p, "off", << >>, coresel, shared, board)
  BY DEF CoreOK
<1>2. << >> \in Seq(Temps) /\ DOMAIN pc = Programs
  BY DEF DeviceInv
<1> QED BY <1>1, <1>2, CoreGoal DEF CoresInv

LEMMA ShortSeq == ASSUME NEW S, NEW t \in Seq(S), Len(t) < 2 PROVE Len(t) \in {0, 1}
OBVIOUS

LEMMA TwoCores == Cardinality(Cores) = 2
<1>1. Cores = {0} \cup {1} /\ 1 \notin {0}
  BY DEF Cores
<1>2. IsFiniteSet({0}) /\ Cardinality({0}) = 1
  BY FS_Singleton
<1> QED BY <1>1, <1>2, FS_AddElement

LEMMA CoreNext ==
    ASSUME CoresInv, DeviceInv, NEW p \in Programs, pc[p] \in {"temps", "temp"}, NEW from, NextCore(p, from),
           from \in Temps, Shows(p, from, Len(temps[p]), shared, board)
    PROVE  CoresInv'
<1>1. /\ UNCHANGED <<board, shared, coresel>>
      /\ temps' = [temps EXCEPT ![p] = Append(temps[p], from)]
      /\ Goto(p, IF Len(temps'[p]) = 2 THEN "lpcio" ELSE "temps")
  BY TwoCores DEF NextCore, os, hardware
<1>2. CoreOK(p, pc[p], temps[p], coresel, shared, board) /\ temps[p] \in Seq(Temps)
  BY DEF CoresInv
<1>3. PICK n \in {0, 1} : n = Len(temps[p])
  <2>1. Len(temps[p]) < 2
    BY <1>2 DEF CoreOK
  <2> QED BY <1>2, <2>1, ShortSeq
<1>4. PICK t : t = Append(temps[p], from)
  OBVIOUS
<1>5. /\ t \in Seq(Temps) /\ Len(t) = n + 1 /\ t[n + 1] = from
      /\ \A i \in 1..n : t[i] = temps[p][i]
  BY <1>2, <1>3, <1>4
<1>6. temps'[p] = t /\ DOMAIN pc = Programs
  BY <1>1, <1>4 DEF CoresInv, DeviceInv
<1>7. PICK w : w = IF n = 1 THEN "lpcio" ELSE "temps"
  OBVIOUS
<1>8. Goto(p, w)
  <2>1. Len(temps'[p]) = n + 1 /\ (n + 1 = 2 <=> n = 1)
    BY <1>5, <1>6
  <2>2. w = IF Len(temps'[p]) = 2 THEN "lpcio" ELSE "temps"
    BY <1>7, <2>1
  <2> QED BY <1>1, <2>2
<1>9. ASSUME NEW i \in 1..(n + 1) PROVE Shows(p, t[i], i - 1, shared, board)
  <2>1. CASE i = n + 1
    <3>1. i - 1 = Len(temps[p]) /\ t[i] = from
      BY <1>3, <1>5, <2>1
    <3> QED BY <3>1
  <2>2. CASE i \in 1..n
    BY <1>2, <1>3, <1>5, <2>2 DEF CoreOK
  <2> QED BY <1>3, <2>1, <2>2
<1>10. CoreOK(p, w, t, coresel, shared, board)
  <2>1. Len(t) <= 2 /\ (w \in {"temps", "temp"} => Len(t) < 2)
    <3>1. CASE n = 0
      BY <1>5, <3>1
    <3>2. CASE n = 1
      BY <1>5, <1>7, <3>2
    <3> QED BY <1>3, <3>1, <3>2
  <2>2. w \notin Early \cup {"cpu", "idle", "temp"}
    BY <1>7 DEF Early
  <2> QED BY <1>5, <1>9, <2>1, <2>2 DEF CoreOK
<1> QED BY <1>1, <1>4, <1>5, <1>6, <1>8, <1>10, CoreGoal DEF CoresInv

\* A read that gives nothing, where that may happen.
LEMMA CoreUnset ==
    ASSUME CoresInv, DeviceInv, NEW p \in Programs, pc[p] \in {"temps", "temp"}, NextCore(p, Unset), Unread(board)
    PROVE  CoresInv'
<1>1. Unset \in Temps /\ Shows(p, Unset, Len(temps[p]), shared, board)
  BY DEF Temps, Shows
<1> QED BY <1>1, CoreNext

LEMMA CoreSelected ==
    ASSUME CoresInv, DeviceInv, NEW p \in Programs, SelectCore(p) PROVE CoresInv'
<1>0. pc[p] = "temps" /\ board.cpu = "amd0f"
  BY DEF SelectCore, Selects
<1>1. CASE Fails("pci") /\ NextCore(p, Unset)
  BY <1>0, <1>1, CoreUnset DEF Unread, AMD, Fails
<1>2. CASE Selected(p)
  <2>1. /\ Goto(p, "temp") /\ temps' = temps /\ UNCHANGED <<shared, board>>
        /\ coresel' = IF Len(temps[p]) > 0 THEN 1 ELSE 0
    BY <1>2 DEF Selected, os, show, hardware
  <2>2. CoreOK(p, "temps", temps[p], coresel, shared, board) /\ temps[p] \in Seq(Temps)
    BY <1>0 DEF CoresInv
  <2>3. Len(temps[p]) \in {0, 1}
    <3>1. Len(temps[p]) < 2
      BY <2>2 DEF CoreOK
    <3> QED BY <2>2, <3>1, ShortSeq
  <2>4. CoreOK(p, "temp", temps[p], coresel', shared, board) /\ coresel' \in Cores
    BY <1>0, <2>1, <2>2, <2>3 DEF CoreOK, Early, Cores
  <2>5. \A q \in Programs : q # p /\ pc[q] = "temp" => q \in shared
    BY <1>0 DEF DeviceInv, Alive, Gone
  <2>6. temps' = [temps EXCEPT ![p] = temps[p]] /\ DOMAIN pc = Programs
    BY <2>1 DEF CoresInv, DeviceInv
  <2> QED BY <2>1, <2>2, <2>4, <2>5, <2>6, CoreGoal
<1> QED BY <1>1, <1>2 DEF SelectCore

\* Of a processor whose cores are not selected.
LEMMA CoreRead ==
    ASSUME CoresInv, DeviceInv, AddressInv, BoardsAssumption, NEW p \in Programs, ReadTemp(p) PROVE CoresInv'
<1>1. PICK from \in Readable(p) : NextCore(p, from)
  BY DEF ReadTemp
<1>2. pc[p] = "temps" /\ ~Selects(p) /\ board \in Boards
  BY DEF ReadTemp, CoresInv
<1>3. board.cpu \in {"intel", "amd0f", "amd10", "other", "mismatch"}
  BY <1>2, BoardsAssumption
<1>4. Len(temps[p]) \in Cores
  <2>1. CoreOK(p, "temps", temps[p], coresel, shared, board) /\ temps[p] \in Seq(Temps)
    BY <1>2 DEF CoresInv
  <2>2. Len(temps[p]) < 2
    BY <2>1 DEF CoreOK
  <2> QED BY <2>1, <2>2, ShortSeq DEF Cores
<1>5. board.cpu \in AMD /\ p \notin address => "pci" \in board.fails
  <2>1. "temps" \notin Early \cup {"cpu"}
    BY DEF Early
  <2> QED BY <1>2, <2>1 DEF AddressInv, Initialised
<1>6. CASE from = Unset /\ Unread(board)
  BY <1>1, <1>2, <1>6, CoreUnset
<1>7. CASE board.cpu = "intel" /\ from # Unset
  <2>1. from = Len(temps[p]) \/ (from \in Cores /\ "pin" \in board.fails)
    BY <1>1, <1>7 DEF Readable, Fails
  <2>2. Shows(p, from, Len(temps[p]), shared, board) /\ from \in Temps
    BY <1>4, <1>7, <2>1 DEF Shows, Temps
  <2> QED BY <1>1, <1>2, <2>2, CoreNext
<1>8. CASE board.cpu = "amd10" /\ from = Whole
  <2>1. Shows(p, from, Len(temps[p]), shared, board) /\ from \in Temps
    BY <1>8 DEF Shows, Temps
  <2> QED BY <1>1, <1>2, <2>1, CoreNext
<1>9. CASE board.cpu = "intel" /\ from = Unset
  <2>0. Unset \notin Cores
    BY DEF Unset, Cores
  <2>1. Fails("msr")
    BY <1>1, <1>4, <1>9, <2>0 DEF Readable
  <2> QED BY <1>6, <1>9, <2>1 DEF Unread, Fails
<1>10. CASE board.cpu \in {"other", "mismatch"}
  BY <1>1, <1>6, <1>10 DEF Readable, Unread
<1>11. CASE board.cpu \in AMD
  <2>1. CASE p \notin address
    <3>1. from = Unset
      BY <1>1, <1>11, <2>1 DEF Readable, AMD
    <3> QED BY <1>5, <1>6, <1>11, <2>1, <3>1 DEF Unread
  <2>2. CASE p \in address
    <3>1. board.cpu = "amd10"
      BY <1>2, <1>11, <2>2 DEF Selects, AMD
    <3>2. from = Whole \/ (from = Unset /\ Fails("pci"))
      BY <1>1, <2>2, <3>1 DEF Readable
    <3> QED BY <1>6, <1>8, <1>11, <3>1, <3>2 DEF Unread, Fails
  <2> QED BY <2>1, <2>2
<1> QED BY <1>3, <1>7, <1>9, <1>10, <1>11 DEF AMD

\* Where detection and reading take a program.
LEMMA DetectionGoes ==
    ASSUME NEW p \in Programs, Detection(p) \/ Reading(p)
    PROVE  /\ UNCHANGED <<shared, temps, coresel>>
           /\ UNCHANGED pc \/ \E w \in Locked \cup {"created", "updated"} : Goto(p, w)
<1>1. ASSUME NEW stage \in Locked, NEW n, NEW chip, Stage(p, stage, n, chip)
      PROVE  UNCHANGED shared /\ \E w \in Locked : Goto(p, w)
  BY <1>1 DEF Stage, os
<1>2. {"wf id", "wf exit", "wf address", "w vendor", "w source", "it id", "it exit", "it address",
       "it vendor", "it config", "smsc id", "smsc exit", "detected", "reading", "writing"} \subseteq Locked
  BY DEF Locked
<1>3. ASSUME NextPort(p) \/ TryIT87(p) \/ TrySMSC(p)
      PROVE  UNCHANGED shared /\ \E w \in Locked : Goto(p, w)
  BY <1>1, <1>2, <1>3 DEF NextPort, TryIT87, TrySMSC
<1>4. CASE Detection(p)
  <2>1. UNCHANGED <<temps, coresel>>
    BY <1>4 DEF Detection, show
  <2>2. CASE PortAccess(p) \/ CreateLPCIO(p) \/ DetectionDone(p)
    BY <1>2, <2>1, <2>2 DEF PortAccess, CreateLPCIO, DetectionDone, os
  <2>3. CASE WinbondUnknown(p) \/ IT87Unknown(p) \/ DetectSMSC(p) \/ SMSCUnknown(p) \/ WinbondSource(p)
             \/ IT87Config(p)
    BY <1>1, <1>2, <1>3, <2>1, <2>3 DEF WinbondUnknown, IT87Unknown, DetectSMSC, SMSCUnknown, WinbondSource,
       IT87Config
  <2>4. CASE DetectWinbondFintek(p) \/ WinbondAddress(p) \/ WinbondVendor(p)
    <3>1. CASE DetectWinbondFintek(p)
      <4>1. (\E id : Stage(p, "wf address", port[p], id) \/ Stage(p, "wf exit", port[p], id)) \/ TryIT87(p)
        BY <3>1 DEF DetectWinbondFintek
      <4> QED BY <1>1, <1>2, <1>3, <2>1, <4>1
    <3>2. CASE WinbondAddress(p)
      <4>1. (\E chip : Stage(p, "w vendor", port[p], chip)) \/ TryIT87(p) \/ NextPort(p)
        BY <3>2 DEF WinbondAddress
      <4> QED BY <1>1, <1>2, <1>3, <2>1, <4>1
    <3>3. CASE WinbondVendor(p)
      <4>1. Stage(p, "w source", port[p], board.model) \/ NextPort(p)
        BY <3>3 DEF WinbondVendor
      <4> QED BY <1>1, <1>2, <1>3, <2>1, <4>1
    <3> QED BY <2>4, <3>1, <3>2, <3>3
  <2>5. CASE DetectIT87(p) \/ IT87Address(p) \/ IT87Vendor(p)
    <3>1. CASE DetectIT87(p)
      <4>1. (\E id : Stage(p, "it address", 1, id) \/ Stage(p, "it exit", 1, id)) \/ TrySMSC(p)
        BY <3>1 DEF DetectIT87
      <4> QED BY <1>1, <1>2, <1>3, <2>1, <4>1
    <3>2. CASE IT87Address(p)
      <4>1. Stage(p, "it vendor", 1, board.model) \/ TrySMSC(p)
        BY <3>2 DEF IT87Address
      <4> QED BY <1>1, <1>2, <1>3, <2>1, <4>1
    <3>3. CASE IT87Vendor(p)
      <4>1. Stage(p, "it config", 1, board.model) \/ NextPort(p)
        BY <3>3 DEF IT87Vendor
      <4> QED BY <1>1, <1>2, <1>3, <2>1, <4>1
    <3> QED BY <2>5, <3>1, <3>2, <3>3
  <2> QED BY <1>4, <2>2, <2>3, <2>4, <2>5 DEF Detection, LpcNext
<1>5. CASE Reading(p)
  BY <1>2, <1>5 DEF Reading, UpdateNext, Update, ReadMore, ItemRead, UpdateDone, os, show
<1> QED BY <1>4, <1>5

\* And where they take it from.
LEMMA DetectionFrom ==
    ASSUME NEW p \in Programs, Detection(p) \/ Reading(p)
    PROVE  UNCHANGED pc \/ pc[p] \notin Early \cup {"cpu"}
<1>1. CASE PortAccess(p) \/ ReadMore(p)
  BY <1>1 DEF PortAccess, ReadMore
<1>2. CASE WinbondUnknown(p) \/ WinbondAddress(p) \/ WinbondVendor(p) \/ WinbondSource(p) \/ DetectWinbondFintek(p)
           \/ CreateLPCIO(p)
  BY <1>2 DEF WinbondUnknown, WinbondAddress, WinbondVendor, WinbondSource, DetectWinbondFintek, CreateLPCIO, At, Early
<1>3. CASE IT87Unknown(p) \/ DetectIT87(p) \/ IT87Address(p) \/ IT87Vendor(p) \/ IT87Config(p) \/ DetectSMSC(p)
           \/ SMSCUnknown(p) \/ DetectionDone(p)
  BY <1>3 DEF IT87Unknown, DetectIT87, IT87Address, IT87Vendor, IT87Config, DetectSMSC, SMSCUnknown, DetectionDone,
              At, Early
<1>4. CASE Update(p) \/ ItemRead(p) \/ UpdateDone(p)
  BY <1>4 DEF Update, ItemRead, UpdateDone, At, Early
<1> QED BY <1>1, <1>2, <1>3, <1>4 DEF Detection, Reading, LpcNext, UpdateNext

LEMMA CoresNext ==
    ASSUME CoresInv, SharedInv, AddressInv, [Next]_vars, BoardsAssumption PROVE CoresInv'
<1>0. DeviceInv /\ MutexInv /\ DOMAIN pc = Programs /\ board' = board /\ board \in Boards
  BY BoardSame DEF SharedInv, DeviceInv, CoresInv
<1>1. ASSUME NEW p \in Programs, Device(p) PROVE CoresInv'
  <2>1. UNCHANGED <<board, temps, coresel>>
    BY <1>0, <1>1 DEF Device, show
  <2>2. CASE Begin(p)
    BY <1>0, <2>1, <2>2, CoreBegin
  <2>3. CASE ~Begin(p)
    <3>1. UNCHANGED shared /\ pc[p] \in Early \cup {"close"}
          /\ \E w \in {"cpu", "stop", "delete", "create", "start", "failed", "reopen", "exit"} :
                Goto(p, w) /\ (w # "exit" => pc[p] \in Early)
      BY <1>1, <2>3 DEF Device, Open, RemoveStops, RemoveWinIoDriver, InstallWinIoDriver, StartWinIoDriver,
                        Reopen, Opens, NotOpened, Close, Early
    <3>2. PICK w \in {"cpu", "stop", "delete", "create", "start", "failed", "reopen", "exit"} :
                Goto(p, w) /\ (w # "exit" => pc[p] \in Early)
      BY <3>1
    <3>3. w \in Early \cup {"cpu", "idle", "temps"} => pc[p] \in Early \cup {"cpu", "idle"}
      BY <3>2 DEF Early
    <3> QED BY <1>0, <2>1, <3>1, <3>2, <3>3, CoreKept
  <2> QED BY <2>2, <2>3
<1>2. ASSUME NEW p \in Programs, Detection(p) \/ Reading(p) PROVE CoresInv'
  <2>1. UNCHANGED <<board, shared, temps, coresel>>
        /\ (UNCHANGED pc \/ \E w \in Locked \cup {"created", "updated"} : Goto(p, w))
    BY <1>0, <1>2, DetectionGoes
  <2>2. CASE UNCHANGED pc
    BY <2>1, <2>2 DEF CoresInv
  <2>3. ASSUME NEW w \in Locked \cup {"created", "updated"}, Goto(p, w) PROVE CoresInv'
    <3>1. w \notin Early \cup {"cpu", "idle", "temps", "temp"}
      BY <2>3 DEF Locked, Early
    <3> QED BY <1>0, <2>1, <2>3, <3>1, CoreKept
  <2> QED BY <2>1, <2>2, <2>3
<1>3. ASSUME NEW p \in Programs, InitCPUSenor(p) \/ OnRefresh(p) \/ OnCancel(p) \/ Created(p) \/ Updated(p)
      PROVE  CoresInv'
  <2>1. UNCHANGED <<board, shared, temps, coresel>>
    BY <1>0, <1>3 DEF InitCPUSenor, OnRefresh, OnCancel, Created, Updated, os, show
  <2>2. \E w \in {"idle", "close", "temps", "shown", "update"} :
            Goto(p, w) /\ (w \in {"idle", "temps"} => pc[p] \in {"cpu", "idle"})
    BY <1>3 DEF InitCPUSenor, OnRefresh, OnCancel, Created, Updated
  <2>3. PICK w \in {"idle", "close", "temps", "shown", "update"} :
            Goto(p, w) /\ (w \in {"idle", "temps"} => pc[p] \in {"cpu", "idle"})
    BY <2>2
  <2>4. w \in Early \cup {"cpu", "idle", "temps"} => pc[p] \in Early \cup {"cpu", "idle"}
    BY <2>3 DEF Early
  <2> QED BY <1>0, <2>1, <2>3, <2>4, CoreKept
<1>4. ASSUME NEW p \in Programs, SelectCore(p) PROVE CoresInv'
  BY <1>0, <1>4, CoreSelected
<1>5. ASSUME NEW p \in Programs, ReadSelectedTemp(p) PROVE CoresInv'
  <2>1. pc[p] = "temp" /\ (NextCore(p, coresel) \/ (Fails("pci") /\ NextCore(p, Unset)))
    BY <1>5 DEF ReadSelectedTemp
  <2>2. coresel \in Cores /\ CoreOK(p, "temp", temps[p], coresel, shared, board)
    BY <2>1 DEF CoresInv
  <2>3. CASE NextCore(p, coresel)
    <3>1. coresel \in Temps /\ Shows(p, coresel, Len(temps[p]), shared, board)
      BY <2>2 DEF CoreOK, Shows, Temps
    <3>2. PICK c : c = coresel
      OBVIOUS
    <3> QED BY <1>0, <2>1, <2>3, <3>1, <3>2, CoreNext
  <2>4. CASE Fails("pci") /\ NextCore(p, Unset)
    <3>1. Unread(board)
      BY <2>2, <2>4 DEF CoreOK, Unread, AMD, Fails
    <3> QED BY <1>0, <2>1, <2>4, <3>1, CoreUnset
  <2> QED BY <2>1, <2>3, <2>4
<1>6. ASSUME NEW p \in Programs, ReadTemp(p) PROVE CoresInv'
  BY <1>0, <1>6, CoreRead, BoardsAssumption
<1>7. ASSUME NEW p \in Programs, Shown(p) PROVE CoresInv'
  <2>1. UNCHANGED <<board, shared, coresel>> /\ temps' = [temps EXCEPT ![p] = << >>]
        /\ \E w \in {"idle", "close", "temps"} : Goto(p, w)
    BY <1>0, <1>7 DEF Shown, os
  <2>2. PICK w \in {"idle", "close", "temps"} : Goto(p, w)
    BY <2>1
  <2>3. CoreOK(p, w, << >>, coresel, shared, board)
    BY <2>2 DEF CoreOK
  <2>4. << >> \in Seq(Temps)
    OBVIOUS
  <2> QED BY <1>0, <2>1, <2>2, <2>3, <2>4, CoreGoal DEF CoresInv
<1>8. ASSUME NEW p \in Programs, Ends(p) \/ Killed(p) \/ Crashes(p) \/ Leave(p) PROVE CoresInv'
  <2>1. UNCHANGED <<shared, coresel>> /\ temps' = [temps EXCEPT ![p] = << >>] /\ Goto(p, "off")
    BY <1>8 DEF Ends, Killed, Crashes, Leave, Exit, Kill, Ended, Forget
  <2> QED BY <1>0, <2>1, CoreEnded
<1>9. ASSUME UNCHANGED vars \/ UNCHANGED <<pc, os, lpc, update, show, coresel>>
             \/ \E p \in Programs : RefreshUnopened(p)
      PROVE  CoresInv'
  <2>1. UNCHANGED <<pc, shared, temps, coresel, board>>
    BY <1>0, <1>9 DEF vars, os, show, RefreshUnopened
  <2> QED BY <2>1 DEF CoresInv
<1>10. CASE Next
  <2>1. ASSUME NEW p \in Programs, Runs(p) PROVE CoresInv'
    BY <1>2, <1>3, <1>4, <1>5, <1>6, <1>7, <2>1 DEF Runs
  <2> QED BY <1>1, <1>3, <1>8, <1>9, <1>10, <2>1 DEF Next
<1> QED BY <1>9, <1>10

LEMMA AddressGoal ==
    ASSUME AddressInv, NEW p \in Programs, NEW w, DOMAIN pc = Programs, Goto(p, w), board' = board,
           address' \in SUBSET Programs, \A q \in Programs : q # p => (q \in address' <=> q \in address),
           w \in Early \cup {"cpu"} => p \notin address',
           Initialised(p, w, board) => p \in address'
    PROVE  AddressInv'
<1>1. pc'[p] = w /\ \A q \in Programs : q # p => pc'[q] = pc[q]
  BY DEF Goto
<1>2. ASSUME NEW q \in Programs
      PROVE  /\ pc'[q] \in Early \cup {"cpu"} => q \notin address'
             /\ Initialised(q, pc'[q], board') => q \in address'
  <2>1. CASE q = p
    BY <1>1, <2>1
  <2>2. CASE q # p
    BY <1>1, <2>2 DEF AddressInv
  <2> QED BY <2>1, <2>2
<1> QED BY <1>2 DEF AddressInv

LEMMA AddressNext == ASSUME AddressInv, SharedInv, [Next]_vars PROVE AddressInv'
<1>0. DeviceInv /\ MutexInv /\ DOMAIN pc = Programs /\ board' = board /\ address \in SUBSET Programs
  BY BoardSame DEF SharedInv, DeviceInv, AddressInv
<1>1. ASSUME NEW p \in Programs, NEW w, Goto(p, w), address' = address,
             pc[p] \in Early <=> w \in Early \cup {"cpu"}, pc[p] # "cpu"
      PROVE  AddressInv'
  <2>1. w \in Early \cup {"cpu"} => p \notin address'
    BY <1>1 DEF AddressInv
  <2>2. Initialised(p, w, board) => p \in address'
    BY <1>1 DEF AddressInv, Initialised
  <2> QED BY <1>0, <1>1, <2>1, <2>2, AddressGoal
<1>2. ASSUME NEW p \in Programs, Device(p) PROVE AddressInv'
  <2>1. address' = address
    BY <1>2 DEF Device, show
  <2>2. \/ pc[p] \in Early /\ \E w \in Early \cup {"cpu"} : Goto(p, w)
        \/ pc[p] = "close" /\ Goto(p, "exit")
    BY <1>2 DEF Device, Begin, Open, RemoveStops, RemoveWinIoDriver, InstallWinIoDriver, StartWinIoDriver,
                Reopen, Opens, NotOpened, Close, Early
  <2>3. CASE pc[p] \in Early /\ \E w \in Early \cup {"cpu"} : Goto(p, w)
    BY <1>1, <2>1, <2>3 DEF Early
  <2>4. CASE pc[p] = "close" /\ Goto(p, "exit")
    BY <1>1, <2>1, <2>4 DEF Early
  <2> QED BY <2>2, <2>3, <2>4
<1>3. ASSUME NEW p \in Programs, InitCPUSenor(p) PROVE AddressInv'
  <2>1. pc[p] = "cpu" /\ p \notin address
    BY <1>3 DEF InitCPUSenor, AddressInv
  <2>2. PICK w \in {"idle", "close", "temps"} :
            /\ Goto(p, w)
            /\ \/ board.cpu \in AMD /\ address' = address \cup {p}
               \/ (board.cpu \notin AMD \/ "pci" \in board.fails) /\ address' = address
    BY <1>3 DEF InitCPUSenor, AMD, Fails
  <2>3. w \notin Early \cup {"cpu"}
    BY <2>2 DEF Early
  <2>4. Initialised(p, w, board) => p \in address'
    BY <2>2 DEF Initialised
  <2> QED BY <1>0, <2>2, <2>3, <2>4, AddressGoal
<1>4. ASSUME NEW p \in Programs, Detection(p) \/ Reading(p) PROVE AddressInv'
  <2>1. address' = address
    BY <1>4 DEF Detection, Reading, show
  <2>2. CASE UNCHANGED pc
    BY <1>0, <2>1, <2>2 DEF AddressInv
  <2>3. ASSUME NEW w \in Locked \cup {"created", "updated"}, Goto(p, w), pc[p] \notin Early \cup {"cpu"}
        PROVE  AddressInv'
    <3>1. w \notin Early \cup {"cpu"}
      BY <2>3 DEF Locked, Early
    <3> QED BY <1>1, <2>1, <2>3, <3>1
  <2>4. UNCHANGED pc \/ pc[p] \notin Early \cup {"cpu"}
    BY <1>4, DetectionFrom
  <2> QED BY <1>4, <2>2, <2>3, <2>4, DetectionGoes
<1>5. ASSUME NEW p \in Programs,
             OnRefresh(p) \/ OnCancel(p) \/ Created(p) \/ Updated(p) \/ Shown(p) \/ SelectCore(p)
               \/ ReadSelectedTemp(p) \/ ReadTemp(p)
      PROVE  AddressInv'
  <2>1. /\ address' = address /\ pc[p] \in {"idle", "created", "updated", "shown", "temps", "temp"}
        /\ \E w \in {"idle", "close", "temps", "temp", "lpcio", "shown", "update"} : Goto(p, w)
    <3>1. CASE SelectCore(p) \/ ReadSelectedTemp(p) \/ ReadTemp(p)
      BY <3>1 DEF SelectCore, Selects, Selected, ReadSelectedTemp, ReadTemp, NextCore, show
    <3>2. CASE OnRefresh(p) \/ OnCancel(p) \/ Created(p) \/ Updated(p)
      BY <3>2 DEF OnRefresh, OnCancel, Created, Updated, show
    <3>3. CASE Shown(p)
      BY <3>3 DEF Shown
    <3> QED BY <1>5, <3>1, <3>2, <3>3
  <2> QED BY <1>1, <2>1 DEF Early
<1>6. ASSUME NEW p \in Programs, Ends(p) \/ Killed(p) \/ Crashes(p) \/ Leave(p) PROVE AddressInv'
  <2>1. address' = address \ {p} /\ Goto(p, "off")
    BY <1>6 DEF Ends, Killed, Crashes, Leave, Exit, Kill, Ended, Forget
  <2>2. ~Initialised(p, "off", board)
    BY DEF Initialised, Early
  <2> QED BY <1>0, <2>1, <2>2, AddressGoal
<1>7. ASSUME UNCHANGED vars \/ UNCHANGED <<pc, os, lpc, update, show, coresel>>
             \/ \E p \in Programs : RefreshUnopened(p)
      PROVE  AddressInv'
  <2>1. UNCHANGED <<pc, address, board>>
    BY <1>0, <1>7 DEF vars, show, RefreshUnopened
  <2> QED BY <2>1 DEF AddressInv
<1>8. CASE Next
  <2>1. ASSUME NEW p \in Programs, Runs(p) PROVE AddressInv'
    BY <1>3, <1>4, <1>5, <2>1 DEF Runs
  <2> QED BY <1>2, <1>5, <1>6, <1>7, <1>8, <2>1 DEF Next
<1> QED BY <1>7, <1>8

LEMMA AddressInit == ASSUME Init PROVE AddressInv
BY DEF Init, OsInit, AddressInv, Initialised, Early

LEMMA CoresInit == ASSUME Init PROVE CoresInv
<1>1. /\ board \in Boards /\ coresel \in Cores /\ temps = [p \in Programs |-> << >>]
      /\ \A p \in Programs : pc[p] = "off" /\ temps[p] = << >>
  BY DEF Init, BusInit, OsInit, Cores
<1>2. << >> \in Seq(Temps)
  OBVIOUS
<1> QED BY <1>1, <1>2 DEF CoresInv, CoreOK

LEMMA CoresInvOwn == ASSUME CoresInv PROVE CoreTempsOwn
<1>1. ASSUME NEW p \in Programs, NEW i \in DOMAIN temps[p] PROVE Shows(p, temps[p][i], i - 1, shared, board)
  <2>1. CoreOK(p, pc[p], temps[p], coresel, shared, board) /\ i \in 1..Len(temps[p])
    BY DEF CoresInv
  <2> QED BY <2>1 DEF CoreOK
<1> QED BY <1>1 DEF CoreTempsOwn, Shows, Unread, MayBeUnset, Fails

\* Sensors.cpp:137-189: on every board, a program without company shows for
\* each core its own temperature or the one of the processor, although
\* selecting a core and reading it is not under the mutex; and an uninitialized
\* value only for a processor that is not known or when a read is refused.
THEOREM CoreTempsAreOwn == Spec => []CoreTempsOwn
<1>1. Init => CoresInv /\ AddressInv
  BY CoresInit, AddressInit
<1>2. SharedInv /\ CoresInv /\ AddressInv /\ [Next]_vars => CoresInv' /\ AddressInv'
  BY CoresNext, AddressNext, BoardsAssumption
<1>3. CoresInv => CoreTempsOwn
  BY CoresInvOwn
<1> QED BY <1>1, <1>2, <1>3, SharedInvariant, PTL DEF Spec
-----------------------------------------------------------------------------
(* The port accesses.                                                       *)

Byte   == 0..255
Config == {<<"index", 1>>, <<"index", 2>>, <<"value", 1>>, <<"value", 2>>}
Ports  == Config \cup {<<"addr">>, <<"data">>}
Places == Byte \X Byte
Ops    == [dir : {"out"}, port : Ports, v : Byte] \cup [dir : {"in"}, port : Config, v : Byte]
          \cup [dir : {"in"}, port : {<<"addr">>, <<"data">>}, v : Places]
OpSeq  == Seq(Ops)

LEMMA OpIs ==
    /\ \A q \in Ports, v \in Byte : Out(q, v) \in Ops
    /\ \A q \in Config, v \in Byte : In(q, v) \in Ops
    /\ \A v \in Places : In(<<"addr">>, v) \in Ops /\ In(<<"data">>, v) \in Ops
    /\ << >> \in OpSeq
    /\ \A a \in Ops : <<a>> \in OpSeq
    /\ \A a, b \in Ops : <<a, b>> \in OpSeq
    /\ \A a, b, c \in Ops : <<a, b, c>> \in OpSeq
    /\ \A a, b, c, d \in Ops : <<a, b, c, d>> \in OpSeq
BY DEF Out, In, Ops, OpSeq

LEMMA OpConcat == ASSUME NEW s \in OpSeq, NEW t \in OpSeq PROVE s \o t \in OpSeq
BY DEF OpSeq

LEMMA ConfigOps ==
    ASSUME NEW n \in {1, 2}
    PROVE  /\ \A r \in Byte : ReadByte(n, r) \in OpSeq /\ Select(n, r) \in OpSeq
           /\ WinbondNuvotonFintekEnter(n) \in OpSeq /\ WinbondNuvotonFintekExit(n) \in OpSeq
           /\ IT87Enter(n) \in OpSeq /\ IT87Exit(n) \in OpSeq
           /\ SMSCEnter(n) \in OpSeq /\ SMSCExit(n) \in OpSeq
<1>1. {<<"index", n>>, <<"value", n>>} \subseteq Ports \cap Config
  BY DEF Ports, Config
<1>2. {\h87, \hAA, \h55, 1, 2, 7} \subseteq Byte
  BY DEF Byte
<1>3. /\ \A r \in Byte : Out(<<"index", n>>, r) \in Ops /\ Out(<<"value", n>>, r) \in Ops
      /\ \A r \in Byte : In(<<"value", n>>, r) \in Ops
  BY <1>1, OpIs
<1>4. \A r \in Byte : ReadByte(n, r) \in OpSeq /\ Select(n, r) \in OpSeq
  BY <1>2, <1>3, OpIs DEF ReadByte, Select
<1>5. WinbondNuvotonFintekEnter(n) \in OpSeq /\ WinbondNuvotonFintekExit(n) \in OpSeq
  BY <1>2, <1>3, OpIs DEF WinbondNuvotonFintekEnter, WinbondNuvotonFintekExit
<1>6. IT87Enter(n) \in OpSeq /\ IT87Exit(n) \in OpSeq
  BY <1>2, <1>3, OpIs DEF IT87Enter, IT87Exit
<1>7. SMSCEnter(n) \in OpSeq /\ SMSCExit(n) \in OpSeq
  BY <1>2, <1>3, OpIs DEF SMSCEnter, SMSCExit
<1> QED BY <1>4, <1>5, <1>6, <1>7

LEMMA MonitorOps ==
    ASSUME NEW at \in Places
    PROVE  /\ ReadByte836(at) \in OpSeq /\ Len(ReadByte836(at)) = 4
           /\ ReadByte87(at) \in OpSeq /\ Len(ReadByte87(at)) = 3
           /\ ReadByte718(at) \in OpSeq /\ Len(ReadByte718(at)) = 2
           /\ \A v \in Byte : WriteByte836(at, v) \in OpSeq
<1>1. <<"addr">> \in Ports /\ <<"data">> \in Ports /\ \h4E \in Byte
  BY DEF Ports, Byte
<1>2. at[1] \in Byte /\ at[2] \in Byte
  BY DEF Places
<1>3. /\ Out(<<"addr">>, \h4E) \in Ops /\ Out(<<"data">>, at[1]) \in Ops /\ Out(<<"addr">>, at[2]) \in Ops
      /\ In(<<"data">>, at) \in Ops /\ In(<<"addr">>, at) \in Ops
      /\ \A v \in Byte : Out(<<"data">>, v) \in Ops
  BY <1>1, <1>2, OpIs
<1>4. Select836(at[1], at[2]) \in OpSeq /\ Len(Select836(at[1], at[2])) = 3
  BY <1>3, OpIs DEF Select836
<1>5. <<In(<<"data">>, at)>> \in OpSeq /\ \A v \in Byte : <<Out(<<"data">>, v)>> \in OpSeq
  BY <1>3, OpIs
<1>6. ReadByte836(at) \in OpSeq /\ Len(ReadByte836(at)) = 4
  <2>1. PICK s \in Seq(Ops) : s = Select836(at[1], at[2]) /\ Len(s) = 3
    BY <1>4 DEF OpSeq
  <2>2. PICK t \in Seq(Ops) : t = <<In(<<"data">>, at)>> /\ Len(t) = 1
    BY <1>5 DEF OpSeq
  <2>3. ReadByte836(at) = s \o t
    BY <2>1, <2>2 DEF ReadByte836
  <2>4. s \o t \in Seq(Ops) /\ Len(s \o t) = Len(s) + Len(t)
    BY <2>1, <2>2, ConcatProperties
  <2>5. Len(s \o t) = 4
    BY <2>1, <2>2, <2>4
  <2> QED BY <2>3, <2>4, <2>5 DEF OpSeq
<1>7. \A v \in Byte : WriteByte836(at, v) \in OpSeq
  BY <1>4, <1>5, OpConcat DEF WriteByte836
<1>8. ReadByte87(at) \in OpSeq /\ ReadByte718(at) \in OpSeq
  BY <1>3, OpIs DEF ReadByte87, ReadByte718
<1>9. Len(ReadByte87(at)) = 3 /\ Len(ReadByte718(at)) = 2
  BY DEF ReadByte87, ReadByte718
<1> QED BY <1>6, <1>7, <1>8, <1>9

LEMMA ScriptOps ==
    ASSUME NEW n \in {1, 2}, NEW stage, NEW chip PROVE Script(stage, n, chip) \in OpSeq
<1>1. {\h20, \h21, \h22, \h23, \h60, \h62, 2, 4, 7, 11} \subseteq Byte
  BY DEF Byte
<1>2. HARDWARE_MONITOR_LDN(chip) \in Byte
  <2>1. HARDWARE_MONITOR_LDN(chip) \in {11, 2, 4}
    BY DEF HARDWARE_MONITOR_LDN
  <2> QED BY <1>1, <2>1
<1>3. {<<\h80, \h4F>>, <<0, \h4F>>, <<0, \h49>>, <<0, \h58>>, <<0, 0>>} \subseteq Places
  BY DEF Places, Byte
<1>4. WinbondNuvotonFintekEnter(n) \o ReadByte(n, \h20) \in OpSeq /\ WinbondNuvotonFintekExit(n) \in OpSeq
  BY <1>1, ConfigOps, OpConcat
<1>5. Select(n, HARDWARE_MONITOR_LDN(chip)) \o ReadByte(n, \h60) \o ReadByte(n, \h60)
      \o ReadByte(n, \h23) \o WinbondNuvotonFintekExit(n) \in OpSeq
  BY <1>1, <1>2, ConfigOps, OpConcat
<1>6. ReadByte836(<<\h80, \h4F>>) \o ReadByte836(<<0, \h4F>>) \in OpSeq /\ ReadByte836(<<0, \h49>>) \in OpSeq
  BY <1>3, MonitorOps, OpConcat
<1>7. IT87Enter(n) \o ReadByte(n, \h20) \in OpSeq /\ IT87Exit(n) \in OpSeq
  BY <1>1, ConfigOps, OpConcat
<1>8. Select(n, 4) \o ReadByte(n, \h60) \o ReadByte(n, \h60) \o ReadByte(n, \h22)
      \o Select(n, 7) \o ReadByte(n, \h62) \o ReadByte(n, \h62) \o IT87Exit(n) \in OpSeq
  BY <1>1, ConfigOps, OpConcat
<1>9. ReadByte87(<<0, \h58>>) \in OpSeq /\ ReadByte87(<<0, 0>>) \in OpSeq
  BY <1>3, MonitorOps
<1>10. SMSCEnter(n) \o ReadByte(n, \h20) \in OpSeq /\ SMSCExit(n) \in OpSeq
  BY <1>1, ConfigOps, OpConcat
<1> QED BY <1>4, <1>5, <1>6, <1>7, <1>8, <1>9, <1>10, OpIs DEF Script

\* The j-th access is one of those of the register 1 + (j - 1) \div n.
LEMMA Division ==
    ASSUME NEW n \in {2, 3, 4}, NEW m \in Nat, NEW j \in 1..(n * m)
    PROVE  1 + ((j - 1) \div n) \in 1..m /\ 1 + ((j - 1) % n) \in 1..n
<1>1. CASE n = 2
  BY <1>1
<1>2. CASE n = 3
  BY <1>2
<1>3. CASE n = 4
  BY <1>3
<1> QED BY <1>1, <1>2, <1>3

LEMMA AccessesOps ==
    ASSUME NEW kind, NEW reads \in Seq(Places) PROVE Accesses(kind, reads) \in OpSeq
<1>1. PICK n \in {2, 3, 4} : n = CASE kind = "W836XX" -> 4 [] kind = "IT87XX" -> 3 [] OTHER -> 2
  OBVIOUS
<1>2. ASSUME NEW at \in Places PROVE ReadByteOf(kind, at) \in OpSeq /\ Len(ReadByteOf(kind, at)) = n
  BY <1>1, MonitorOps DEF ReadByteOf
<1>3. PICK m \in Nat : m = Len(reads)
  OBVIOUS
<1>4. ASSUME NEW j \in 1..(n * m)
      PROVE  ReadByteOf(kind, reads[1 + ((j - 1) \div n)])[1 + ((j - 1) % n)] \in Ops
  <2>1. PICK i : i = 1 + ((j - 1) \div n)
    OBVIOUS
  <2>2. PICK k : k = 1 + ((j - 1) % n)
    OBVIOUS
  <2>3. i \in 1..m /\ k \in 1..n
    BY <1>4, <2>1, <2>2, Division
  <2>4. reads[i] \in Places
    BY <1>3, <2>3
  <2>5. PICK s \in Seq(Ops) : s = ReadByteOf(kind, reads[i]) /\ Len(s) = n
    BY <1>2, <2>4 DEF OpSeq
  <2>6. s[k] \in Ops
    BY <2>3, <2>5
  <2> QED BY <2>1, <2>2, <2>5, <2>6
<1>5. Accesses(kind, reads) = [j \in 1..(n * m) |-> ReadByteOf(kind, reads[1 + ((j - 1) \div n)])[1 + ((j - 1) % n)]]
  BY <1>1, <1>3 DEF Accesses
<1>6. n * m \in Nat
  OBVIOUS
<1> QED BY <1>4, <1>5, <1>6 DEF OpSeq

LEMMA ByteOfIs == ASSUME NEW set, NEW i PROVE ByteOf(set, i) \in Byte
BY DEF ByteOf, Byte

LEMMA WriteBackOps == ASSUME NEW old, NEW new PROVE WriteBack(old, new) \in OpSeq
<1> DEFINE Changed(i) == IF ByteOf(old, i) = ByteOf(new, i) THEN << >>
                         ELSE WriteByte836(<<0, WIN_FAN_BIT_REG[i]>>, ByteOf(new, i))
<1>1. ASSUME NEW i \in Fans PROVE Changed(i) \in OpSeq
  <2>1. WIN_FAN_BIT_REG[i] \in Byte
    BY <1>1 DEF WIN_FAN_BIT_REG, Fans, Byte
  <2>2. <<0, WIN_FAN_BIT_REG[i]>> \in Places
    BY <2>1 DEF Places, Byte
  <2> QED BY <2>2, MonitorOps, ByteOfIs, OpIs
<1>2. WriteBack(old, new) = Changed(5) \o Changed(4) \o Changed(3) \o Changed(2) \o Changed(1)
  BY DEF WriteBack
<1>3. {1, 2, 3, 4, 5} \subseteq Fans
  BY DEF Fans
<1> HIDE DEF Changed
<1> QED BY <1>1, <1>2, <1>3, OpConcat
-----------------------------------------------------------------------------
(* What Update reads.                                                       *)

Types == {"voltage", "battery", "temperature", "bits", "fan"}

\* Only Winbond chips have banks; firmware leaves the address at 1, which no
\* other object reads.
PlacesOf(kind) == IF kind = "W836XX" THEN Places ELSE {0} \X (Byte \ {1})

\* An item of the object of that kind.
GoodItem(kind, type, n, reads) ==
    /\ type = "battery" => kind = "W836XX"
    /\ type = "temperature" => n \in 1..5
    /\ type = "fan" => n \in IF kind = "IT87XX" THEN 1..3 ELSE Fans
    /\ type = "fan" /\ kind = "W836XX" => reads = <<WIN_FAN_TACHO[n]>>
GoodItems(kind) ==
    {it \in [type : Types, n : 0..10, reads : Seq(PlacesOf(kind))] : GoodItem(kind, it.type, it.n, it.reads)}

LEMMA ItemGood ==
    ASSUME NEW kind, NEW type \in Types, NEW n \in 0..10, NEW reads \in Seq(PlacesOf(kind)),
           GoodItem(kind, type, n, reads)
    PROVE  Item(type, n, reads) \in GoodItems(kind)
<1>1. PICK it : it = Item(type, n, reads)
  OBVIOUS
<1>2. /\ it \in [type : Types, n : 0..10, reads : Seq(PlacesOf(kind))]
      /\ it.type = type /\ it.n = n /\ it.reads = reads
  BY <1>1 DEF Item
<1> QED BY <1>1, <1>2 DEF GoodItems

LEMMA PlacesIn ==
    ASSUME NEW kind
    PROVE  PlacesOf(kind) \subseteq Places /\ \A it \in GoodItems(kind) : it.reads \in Seq(Places)
<1>1. PlacesOf(kind) \subseteq Places
  BY DEF PlacesOf, Places, Byte
<1>2. ASSUME NEW t \in Seq(PlacesOf(kind)) PROVE t \in Seq(Places)
  BY <1>1
<1> QED BY <1>1, <1>2 DEF GoodItems

LEMMA PlaceSeq ==
    ASSUME NEW S
    PROVE  /\ \A a \in S : <<a>> \in Seq(S)
           /\ \A a, b \in S : <<a, b>> \in Seq(S)
           /\ \A a, b, c \in S : <<a, b, c>> \in Seq(S)
OBVIOUS

LEMMA ConcatLen ==
    ASSUME NEW S, NEW s \in Seq(S), NEW t \in Seq(S) PROVE s \o t \in Seq(S) /\ Len(s \o t) = Len(s) + Len(t)
BY ConcatProperties

Low(last) == [i \in 1..(last - \h1F) |-> <<0, \h1F + i>>]

LEMMA VoltagesAre == VoltageRegisters \in Seq(Places) /\ Len(VoltageRegisters) \in 1..10
<1>0. Low(\h24) \in Seq(Places) /\ Len(Low(\h24)) = 5 /\ Low(\h26) \in Seq(Places) /\ Len(Low(\h26)) = 7
  BY DEF Low, Places, Byte
<1>1. PICK a \in Seq(Places) : a = Low(\h24) /\ Len(a) = 5
  BY <1>0
<1>2. PICK b \in Seq(Places) : b = Low(\h26) /\ Len(b) = 7
  BY <1>0
<1>3. {<<5, \h50>>, <<5, \h51>>, <<5, \h52>>} \subseteq Places
  BY DEF Places, Byte
<1>4. PICK s \in Seq(Places) : s = <<<<5, \h50>>, <<5, \h51>>>> /\ Len(s) = 2
  <2>1. <<<<5, \h50>>, <<5, \h51>>>> \in Seq(Places)
    BY <1>3, PlaceSeq
  <2> QED BY <2>1
<1>5. PICK t \in Seq(Places) : t = <<<<5, \h50>>, <<5, \h51>>, <<5, \h52>>>> /\ Len(t) = 3
  <2>1. <<<<5, \h50>>, <<5, \h51>>, <<5, \h52>>>> \in Seq(Places)
    BY <1>3, PlaceSeq
  <2> QED BY <2>1
<1>6. VoltageRegisters = a \o s \/ VoltageRegisters = b \o s \/ VoltageRegisters = b \o t
  BY <1>1, <1>2, <1>4, <1>5 DEF VoltageRegisters, Low
<1>7. /\ a \o s \in Seq(Places) /\ Len(a \o s) = Len(a) + Len(s)
      /\ b \o s \in Seq(Places) /\ Len(b \o s) = Len(b) + Len(s)
      /\ b \o t \in Seq(Places) /\ Len(b \o t) = Len(b) + Len(t)
  BY ConcatLen
<1>8. Len(a) = 5 /\ Len(b) = 7 /\ Len(s) = 2 /\ Len(t) = 3
  BY <1>1, <1>2, <1>4, <1>5
<1>9. Len(a \o s) = 7 /\ Len(b \o s) = 9
  BY <1>7, <1>8
<1>10. Len(b \o t) = 10
  BY <1>7, <1>8
<1>11. VoltageRegisters \in Seq(Places) /\ Len(VoltageRegisters) \in {7, 9, 10}
  BY <1>6, <1>7, <1>8, <1>9, <1>10
<1>12. {7, 9, 10} \subseteq 1..10
  OBVIOUS
<1> QED BY <1>11, <1>12

LEMMA W836ItemsAre == W836Items \in Seq(GoodItems("W836XX")) /\ Len(W836Items) \in 1..19
<1> DEFINE G == GoodItems("W836XX")
           E(i) == CASE VoltageRegisters[i] = <<5, \h51>> -> Item("battery", i, <<<<0, \h5D>>>>)
                     [] i = 1 /\ board.model \in THFChips ->
                            Item("voltage", i, <<<<0, \h18>>, VoltageRegisters[i]>>)
                     [] OTHER -> Item("voltage", i, <<VoltageRegisters[i]>>)
           T == <<Item("temperature", 1, <<<<1, \h50>>, <<1, \h51>>>>),
                  Item("temperature", 2, <<<<2, \h50>>, <<2, \h51>>>>),
                  Item("temperature", 3, <<<<0, \h27>>>>),
                  Item("bits", 0, [i \in Fans |-> <<0, WIN_FAN_BIT_REG[i]>>])>>
           F(n) == Item("fan", n, <<WIN_FAN_TACHO[n]>>)
<1>0. Places = PlacesOf("W836XX")
  BY DEF PlacesOf
<1>1. PICK m \in 1..10 : m = Len(VoltageRegisters)
  BY VoltagesAre
<1>2. ASSUME NEW i \in 1..m PROVE E(i) \in G
  <2>1. VoltageRegisters[i] \in Places /\ <<0, \h5D>> \in Places /\ <<0, \h18>> \in Places
    BY <1>1, <1>2, VoltagesAre DEF Places, Byte
  <2>2. /\ <<<<0, \h5D>>>> \in Seq(Places) /\ <<<<0, \h18>>, VoltageRegisters[i]>> \in Seq(Places)
        /\ <<VoltageRegisters[i]>> \in Seq(Places)
    BY <2>1, PlaceSeq
  <2>3. i \in 0..10 /\ "battery" \in Types /\ "voltage" \in Types
    BY <1>1, <1>2 DEF Types
  <2>4. /\ Item("battery", i, <<<<0, \h5D>>>>) \in G
        /\ Item("voltage", i, <<<<0, \h18>>, VoltageRegisters[i]>>) \in G
        /\ Item("voltage", i, <<VoltageRegisters[i]>>) \in G
    BY <1>0, <2>2, <2>3, ItemGood DEF GoodItem
  <2> QED BY <2>4
<1>3. T \in Seq(G) /\ Len(T) = 4
  <2>1. {<<1, \h50>>, <<1, \h51>>, <<2, \h50>>, <<2, \h51>>, <<0, \h27>>} \subseteq Places
        /\ \A i \in Fans : <<0, WIN_FAN_BIT_REG[i]>> \in Places
    BY DEF Places, Byte, Fans, WIN_FAN_BIT_REG
  <2>2. /\ <<<<1, \h50>>, <<1, \h51>>>> \in Seq(Places) /\ <<<<2, \h50>>, <<2, \h51>>>> \in Seq(Places)
        /\ <<<<0, \h27>>>> \in Seq(Places)
    BY <2>1, PlaceSeq
  <2>3. [i \in Fans |-> <<0, WIN_FAN_BIT_REG[i]>>] \in Seq(Places)
    BY <2>1 DEF Fans
  <2>4. {0, 1, 2, 3} \subseteq 0..10 /\ {"temperature", "bits"} \subseteq Types
    BY DEF Types
  <2>5. /\ Item("temperature", 1, <<<<1, \h50>>, <<1, \h51>>>>) \in G
        /\ Item("temperature", 2, <<<<2, \h50>>, <<2, \h51>>>>) \in G
        /\ Item("temperature", 3, <<<<0, \h27>>>>) \in G
    <3>1. \A n \in 1..3, t \in Seq(Places) : GoodItem("W836XX", "temperature", n, t)
      BY DEF GoodItem
    <3>2. \A n \in 1..3, t \in Seq(Places) : Item("temperature", n, t) \in G
      <4>1. \A n \in 1..3 : n \in 0..10
        OBVIOUS
      <4> QED BY <1>0, <2>4, <3>1, <4>1, ItemGood
    <3>3. PICK a \in Seq(Places), b \in Seq(Places), c \in Seq(Places) :
              a = <<<<1, \h50>>, <<1, \h51>>>> /\ b = <<<<2, \h50>>, <<2, \h51>>>> /\ c = <<<<0, \h27>>>>
      BY <2>2
    <3>4. Item("temperature", 1, a) \in G /\ Item("temperature", 2, b) \in G /\ Item("temperature", 3, c) \in G
      BY <3>2
    <3> QED BY <3>3, <3>4
  <2>6. Item("bits", 0, [i \in Fans |-> <<0, WIN_FAN_BIT_REG[i]>>]) \in G
    BY <1>0, <2>3, <2>4, ItemGood DEF GoodItem
  <2> HIDE DEF G
  <2> QED BY <2>5, <2>6
<1>4. ASSUME NEW n \in 1..5 PROVE F(n) \in G
  <2>1. WIN_FAN_TACHO[n] \in Places
    BY <1>4 DEF WIN_FAN_TACHO, Places, Byte
  <2>2. <<WIN_FAN_TACHO[n]>> \in Seq(Places)
    BY <2>1, PlaceSeq
  <2>3. n \in 0..10 /\ n \in Fans /\ "fan" \in Types
    BY <1>4 DEF Fans, Types
  <2> QED BY <1>0, <2>2, <2>3, ItemGood DEF GoodItem
<1>5. W836Items = [i \in 1..m |-> E(i)] \o T \o [n \in 1..5 |-> F(n)]
  <2>1. DOMAIN VoltageRegisters = 1..m
    BY <1>1, VoltagesAre
  <2> QED BY <2>1 DEF W836Items, Fans
<1> HIDE DEF G, E, T, F
<1>6. PICK s \in Seq(G) : s = [i \in 1..m |-> E(i)] /\ Len(s) = m
  <2>1. m \in Nat /\ \A i \in 1..m : E(i) \in G
    BY <1>1, <1>2
  <2>2. [i \in 1..m |-> E(i)] \in Seq(G)
    BY <2>1
  <2>3. Len([i \in 1..m |-> E(i)]) = m
    BY <2>1
  <2> QED BY <2>2, <2>3
<1>7. PICK f \in Seq(G) : f = [n \in 1..5 |-> F(n)] /\ Len(f) = 5
  <2>1. \A n \in 1..5 : F(n) \in G
    BY <1>4
  <2>2. [n \in 1..5 |-> F(n)] \in Seq(G)
    BY <2>1
  <2>3. Len([n \in 1..5 |-> F(n)]) = 5
    OBVIOUS
  <2> QED BY <2>2, <2>3
<1>8. s \o T \in Seq(G) /\ Len(s \o T) = Len(s) + Len(T)
  BY <1>3, <1>6, ConcatLen
<1>9. (s \o T) \o f \in Seq(G) /\ Len((s \o T) \o f) = Len(s \o T) + Len(f)
  BY <1>7, <1>8, ConcatLen
<1>10. Len((s \o T) \o f) = m + 4 + 5
  BY <1>3, <1>6, <1>7, <1>8, <1>9
<1>11. Len(W836Items) = m + 9 /\ W836Items \in Seq(G)
  BY <1>5, <1>6, <1>7, <1>9, <1>10
<1>12. m + 9 \in 1..19
  <2>1. m \in 1..10
    BY <1>1
  <2> QED BY <2>1
<1> QED BY <1>11, <1>12 DEF G

LEMMA IT87ItemsAre == IT87Items \in Seq(GoodItems("IT87XX")) /\ Len(IT87Items) \in 1..19
<1> DEFINE G == GoodItems("IT87XX")
           V(i) == Item("voltage", i, <<<<0, \h1F + i>>>>)
           T(i) == Item("temperature", i, <<<<0, \h28 + i>>>>)
           F(n) == Item("fan", n, <<<<0, ITE_FAN_TACHOMETER_REG[n]>>>>)
<1>1. {"voltage", "temperature", "fan"} \subseteq Types
  BY DEF Types
<1>0. {0} \X (Byte \ {1}) = PlacesOf("IT87XX")
  BY DEF PlacesOf
<1>2. ASSUME NEW i \in 1..9 PROVE V(i) \in G
  <2>1. <<0, \h1F + i>> \in {0} \X (Byte \ {1}) /\ i \in 0..10
    BY <1>2 DEF Byte
  <2>2. <<<<0, \h1F + i>>>> \in Seq(PlacesOf("IT87XX"))
    BY <1>0, <2>1, PlaceSeq
  <2> QED BY <1>1, <2>1, <2>2, ItemGood DEF GoodItem
<1>3. ASSUME NEW i \in 1..5 PROVE T(i) \in G
  <2>1. <<0, \h28 + i>> \in {0} \X (Byte \ {1}) /\ i \in 0..10
    BY <1>3 DEF Byte
  <2>2. <<<<0, \h28 + i>>>> \in Seq(PlacesOf("IT87XX"))
    BY <1>0, <2>1, PlaceSeq
  <2> QED BY <1>1, <2>1, <2>2, ItemGood DEF GoodItem
<1>4. ASSUME NEW n \in 1..3 PROVE F(n) \in G
  <2>1. <<0, ITE_FAN_TACHOMETER_REG[n]>> \in {0} \X (Byte \ {1}) /\ n \in 0..10
    BY <1>4 DEF ITE_FAN_TACHOMETER_REG, Byte
  <2>2. <<<<0, ITE_FAN_TACHOMETER_REG[n]>>>> \in Seq(PlacesOf("IT87XX"))
    BY <1>0, <2>1, PlaceSeq
  <2> QED BY <1>1, <1>4, <2>1, <2>2, ItemGood DEF GoodItem
<1>5. IT87Items = [i \in 1..9 |-> V(i)] \o [i \in 1..5 |-> T(i)] \o [n \in 1..3 |-> F(n)]
  BY DEF IT87Items
<1> HIDE DEF G, V, T, F
<1>6. [i \in 1..9 |-> V(i)] \in Seq(G) /\ [i \in 1..5 |-> T(i)] \in Seq(G) /\ [n \in 1..3 |-> F(n)] \in Seq(G)
  BY <1>2, <1>3, <1>4
<1>7. Len([i \in 1..9 |-> V(i)]) = 9 /\ Len([i \in 1..5 |-> T(i)]) = 5 /\ Len([n \in 1..3 |-> F(n)]) = 3
  OBVIOUS
<1>8. PICK v \in Seq(G), t \in Seq(G), f \in Seq(G) :
          /\ v = [i \in 1..9 |-> V(i)] /\ t = [i \in 1..5 |-> T(i)] /\ f = [n \in 1..3 |-> F(n)]
          /\ Len(v) = 9 /\ Len(t) = 5 /\ Len(f) = 3
  BY <1>6, <1>7
<1>9. Len(v) = 9 /\ Len(t) = 5 /\ Len(f) = 3
  BY <1>8
<1>10. v \o t \in Seq(G) /\ Len(v \o t) = Len(v) + Len(t)
  BY ConcatLen
<1>11. (v \o t) \o f \in Seq(G) /\ Len((v \o t) \o f) = Len(v \o t) + Len(f)
  BY <1>10, ConcatLen
<1>12. Len((v \o t) \o f) = 17
  BY <1>9, <1>10, <1>11
<1>13. IT87Items = (v \o t) \o f
  BY <1>5, <1>8
<1>14. IT87Items \in Seq(G) /\ Len(IT87Items) = 17 /\ 17 \in 1..19
  BY <1>11, <1>12, <1>13
<1> QED BY <1>14 DEF G

LEMMA F718Sizes ==
    \A a \in {3, 9}, b \in {3, 4} : a \in Nat /\ b \in Nat /\ 1..a \subseteq 1..9 /\ 1..b \subseteq 1..4
OBVIOUS

LEMMA F718ItemsAre ==
    ASSUME NEW kind, kind \notin {"W836XX", "IT87XX"} PROVE F718Items \in Seq(GoodItems(kind)) /\ Len(F718Items) \in 1..19
<1> DEFINE G == GoodItems(kind)
           V(i) == Item("voltage", i, <<<<0, \h1F + i>>>>)
           T(i) == Item("temperature", i,
                        IF board.model = "F71858" THEN <<<<0, \h69>>, <<0, \h6E + 2 * i>>, <<0, \h6F + 2 * i>>>>
                                                  ELSE <<<<0, \h70 + 2 * i>>>>)
           F(n) == Item("fan", n, <<<<0, F718_FAN_TACHOMETER_REG[n]>>, <<0, F718_FAN_TACHOMETER_REG[n] + 1>>>>)
<1>1. {"voltage", "temperature", "fan"} \subseteq Types
  BY DEF Types
<1>0. {0} \X (Byte \ {1}) = PlacesOf(kind)
  BY DEF PlacesOf
<1>2. ASSUME NEW i \in 1..9 PROVE V(i) \in G
  <2>1. <<0, \h1F + i>> \in {0} \X (Byte \ {1}) /\ i \in 0..10
    BY <1>2 DEF Byte
  <2>2. <<<<0, \h1F + i>>>> \in Seq(PlacesOf(kind))
    BY <1>0, <2>1, PlaceSeq
  <2> QED BY <1>1, <2>1, <2>2, ItemGood DEF GoodItem
<1>3. ASSUME NEW i \in 1..3 PROVE T(i) \in G
  <2>1. /\ {<<0, \h69>>, <<0, \h6E + 2 * i>>, <<0, \h6F + 2 * i>>, <<0, \h70 + 2 * i>>} \subseteq {0} \X (Byte \ {1})
        /\ i \in 0..10
    BY <1>3 DEF Byte
  <2>2. /\ <<<<0, \h70 + 2 * i>>>> \in Seq(PlacesOf(kind))
        /\ <<<<0, \h69>>, <<0, \h6E + 2 * i>>, <<0, \h6F + 2 * i>>>> \in Seq(PlacesOf(kind))
    BY <1>0, <2>1, PlaceSeq
  <2>3. \A t \in Seq(PlacesOf(kind)) : GoodItem(kind, "temperature", i, t)
    BY <1>3 DEF GoodItem
  <2>4. \A t \in Seq(PlacesOf(kind)) : Item("temperature", i, t) \in G
    BY <1>1, <2>1, <2>3, ItemGood
  <2> QED BY <2>2, <2>4
<1>4. ASSUME NEW n \in 1..4 PROVE F(n) \in G
  <2>1. F718_FAN_TACHOMETER_REG[n] \in 2..254 /\ n \in 0..10 /\ n \in Fans
    BY <1>4 DEF F718_FAN_TACHOMETER_REG, Fans
  <2>2. {<<0, F718_FAN_TACHOMETER_REG[n]>>, <<0, F718_FAN_TACHOMETER_REG[n] + 1>>} \subseteq {0} \X (Byte \ {1})
    BY <2>1 DEF Byte
  <2>3. <<<<0, F718_FAN_TACHOMETER_REG[n]>>, <<0, F718_FAN_TACHOMETER_REG[n] + 1>>>> \in Seq(PlacesOf(kind))
    BY <1>0, <2>2, PlaceSeq
  <2> QED BY <1>1, <2>1, <2>3, ItemGood DEF GoodItem
<1>5. PICK a \in {3, 9}, b \in {3, 4} :
          F718Items = [i \in 1..a |-> V(i)] \o [i \in 1..3 |-> T(i)] \o [n \in 1..b |-> F(n)]
  BY Zenon DEF F718Items
<1>6. a \in Nat /\ b \in Nat /\ 1..a \subseteq 1..9 /\ 1..b \subseteq 1..4
  BY F718Sizes
<1> HIDE DEF G, V, T, F
<1>7. (\A i \in 1..a : V(i) \in G) /\ \A n \in 1..b : F(n) \in G
  BY <1>2, <1>4, <1>6
<1>8. [i \in 1..a |-> V(i)] \in Seq(G) /\ [i \in 1..3 |-> T(i)] \in Seq(G) /\ [n \in 1..b |-> F(n)] \in Seq(G)
  BY <1>3, <1>6, <1>7
<1>9. Len([i \in 1..a |-> V(i)]) = a /\ Len([i \in 1..3 |-> T(i)]) = 3 /\ Len([n \in 1..b |-> F(n)]) = b
  BY <1>6
<1>10. PICK v \in Seq(G), t \in Seq(G), f \in Seq(G) :
          /\ v = [i \in 1..a |-> V(i)] /\ t = [i \in 1..3 |-> T(i)] /\ f = [n \in 1..b |-> F(n)]
          /\ Len(v) = a /\ Len(t) = 3 /\ Len(f) = b
  BY <1>8, <1>9
<1>11. Len(v) = a /\ Len(t) = 3 /\ Len(f) = b
  BY <1>10
<1>12. v \o t \in Seq(G) /\ Len(v \o t) = Len(v) + Len(t)
  BY ConcatLen
<1>13. (v \o t) \o f \in Seq(G) /\ Len((v \o t) \o f) = Len(v \o t) + Len(f)
  BY <1>12, ConcatLen
<1>14. Len((v \o t) \o f) = a + 3 + b
  BY <1>11, <1>12, <1>13
<1>15. F718Items = (v \o t) \o f
  BY <1>5, <1>10
<1>16. a + 3 + b \in 1..19
  OBVIOUS
<1>17. F718Items \in Seq(G) /\ Len(F718Items) = a + 3 + b
  BY <1>13, <1>14, <1>15
<1> QED BY <1>16, <1>17 DEF G

LEMMA ItemsAre == ASSUME NEW kind PROVE Items(kind) \in Seq(GoodItems(kind)) /\ Len(Items(kind)) \in 1..19
<1>1. CASE kind = "W836XX"
  BY <1>1, W836ItemsAre DEF Items
<1>2. CASE kind = "IT87XX"
  BY <1>2, IT87ItemsAre DEF Items
<1>3. CASE kind \notin {"W836XX", "IT87XX"}
  BY <1>3, F718ItemsAre DEF Items
<1> QED BY <1>1, <1>2, <1>3

LEMMA MoreIs ==
    ASSUME NEW kind, NEW it \in GoodItems(kind), NEW g
    PROVE  More(kind, it, g) \in Seq(PlacesOf(kind))
<1>1. <<5, \h51>> \in Places
  BY DEF Places, Byte
<1>2. ASSUME kind = "IT87XX", it.type = "fan"
      PROVE  <<0, ITE_FAN_TACHOMETER_EXT_REG[it.n]>> \in PlacesOf(kind)
  <2>1. it.n \in 1..3
    BY <1>2 DEF GoodItems, GoodItem
  <2> QED BY <1>2, <2>1 DEF ITE_FAN_TACHOMETER_EXT_REG, PlacesOf, Byte
<1>3. << >> \in Seq(PlacesOf(kind)) /\ <<<<5, \h51>>>> \in Seq(Places)
  BY <1>1, PlaceSeq
<1>4. kind = "IT87XX" /\ it.type = "fan" => <<<<0, ITE_FAN_TACHOMETER_EXT_REG[it.n]>>>> \in Seq(PlacesOf(kind))
  BY <1>2, PlaceSeq
<1>5. kind = "W836XX" => PlacesOf(kind) = Places
  BY DEF PlacesOf
<1>6. it.type = "battery" => kind = "W836XX"
  BY DEF GoodItems, GoodItem
<1> QED BY <1>3, <1>4, <1>5, <1>6 DEF More

LEMMA SetDivisorIs ==
    ASSUME NEW target \in SUBSET (0..31), NEW n \in Fans, NEW d PROVE SetDivisor(target, n, d) \in SUBSET (0..31)
<1>1. ASSUME NEW t \in SUBSET (0..31), NEW b \in 0..39, NEW v PROVE SetBit(t, b, v) \in SUBSET (0..31)
  BY <1>1 DEF SetBit
<1>2. WIN_FAN_DIV_BIT0[n] \in 0..39 /\ WIN_FAN_DIV_BIT1[n] \in 0..39 /\ WIN_FAN_DIV_BIT2[n] \in 0..39
  BY DEF WIN_FAN_DIV_BIT0, WIN_FAN_DIV_BIT1, WIN_FAN_DIV_BIT2, Fans
<1> QED BY <1>1, <1>2 DEF SetDivisor
-----------------------------------------------------------------------------
(* The types.                                                               *)

Objects == [kind : {"null", "W836XX", "IT87XX", "F718XX"}, inited : BOOLEAN]

IsSeq(s) == Len(s) \in Nat /\ s = [k \in 1..Len(s) |-> s[k]]

\* What a program at w still has to read, and what it has kept.
ReadingOK(w, kind, its, kept) ==
    /\ IsSeq(kept) /\ Len(kept) <= 30
    /\ w = "reading" => its \in Seq(GoodItems(kind)) /\ its # << >> /\ Len(kept) + Len(its) <= 30

\* The console has a refresh to make until it closes the device.
LeftOK(p, w, n) == p = Console /\ w \notin {"close", "exit"} => n # 0

ScriptsTyped == script \in [Programs -> OpSeq] /\ port \in [Programs -> {1, 2}]
ObjectsTyped == obj \in [Programs -> Objects]
BitsTyped    == bits \in [Programs -> SUBSET (0..39)] /\ newBits \in [Programs -> SUBSET (0..31)]
ReadingTyped ==
    /\ DOMAIN items = Programs /\ DOMAIN sensors = Programs
    /\ \A p \in Programs : ReadingOK(pc[p], obj[p].kind, items[p], sensors[p])
LeftTyped    == left \in 0..Refreshes /\ \A p \in Programs : LeftOK(p, pc[p], left)

TypeInv == ScriptsTyped /\ ObjectsTyped /\ BitsTyped /\ ReadingTyped /\ LeftTyped /\ fanreg \in [Fans -> Byte]

LEMMA StageScript ==
    ASSUME NEW p \in Programs, ScriptsTyped, NEW stage, NEW n \in {1, 2}, NEW chip, Stage(p, stage, n, chip)
    PROVE  script' \in [Programs -> OpSeq]
BY ScriptOps DEF Stage, ScriptsTyped

LEMMA NextPortScript ==
    ASSUME NEW p \in Programs, ScriptsTyped, NextPort(p) PROVE ScriptsTyped'
<1>1. \E stage : Stage(p, stage, 2, "none")
  BY DEF NextPort
<1>2. port' \in [Programs -> {1, 2}]
  BY DEF NextPort, ScriptsTyped
<1> QED BY <1>1, <1>2, StageScript DEF ScriptsTyped

LEMMA TryScript ==
    ASSUME NEW p \in Programs, ScriptsTyped, TryIT87(p) \/ TrySMSC(p) PROVE ScriptsTyped'
<1>1. port[p] \in {1, 2} /\ port' = port
  BY DEF ScriptsTyped, TryIT87, TrySMSC
<1>2. \E stage : Stage(p, stage, port[p], "none")
  BY DEF TryIT87, TrySMSC
<1> QED BY <1>1, <1>2, StageScript DEF ScriptsTyped

LEMMA DetectionScript ==
    ASSUME NEW p \in Programs, ScriptsTyped, LpcNext(p) PROVE ScriptsTyped'
<1>0. port[p] \in {1, 2}
  BY DEF ScriptsTyped
<1>1. ASSUME NEW stage, NEW n \in {1, 2}, NEW chip, Stage(p, stage, n, chip), port' = port
      PROVE  ScriptsTyped'
  BY <1>1, StageScript DEF ScriptsTyped
<1>2. CASE PortAccess(p)
  <2>1. script[p] \in Seq(Ops) /\ script[p] # << >> /\ script' = [script EXCEPT ![p] = Tail(script[p])] /\ port' = port
    BY <1>2 DEF PortAccess, ScriptsTyped, OpSeq
  <2>2. Tail(script[p]) \in Seq(Ops)
    BY <2>1
  <2> QED BY <2>1, <2>2 DEF ScriptsTyped, OpSeq
<1>3. CASE CreateLPCIO(p)
  <2>1. Script("wf id", 1, "none") \in OpSeq
    BY ScriptOps
  <2>2. \/ script' = [script EXCEPT ![p] = Script("wf id", 1, "none")] /\ port' = [port EXCEPT ![p] = 1]
        \/ UNCHANGED <<script, port>>
    BY <1>3 DEF CreateLPCIO
  <2> QED BY <2>1, <2>2 DEF ScriptsTyped
<1>4. CASE DetectWinbondFintek(p)
  <2>1. \/ \E id : Stage(p, "wf address", port[p], id) /\ UNCHANGED <<port, obj>>
        \/ \E id : Stage(p, "wf exit", port[p], id) /\ UNCHANGED <<port, obj>>
        \/ TryIT87(p)
    BY <1>4 DEF DetectWinbondFintek
  <2> QED BY <1>0, <1>1, <2>1, TryScript
<1>5. CASE WinbondUnknown(p) \/ IT87Unknown(p)
  BY <1>5, TryScript DEF WinbondUnknown, IT87Unknown
<1>6. CASE WinbondAddress(p)
  <2>1. \/ \E chip : Stage(p, "w vendor", port[p], chip) /\ UNCHANGED <<port, obj>>
        \/ TryIT87(p) \/ NextPort(p)
    BY <1>6 DEF WinbondAddress
  <2> QED BY <1>0, <1>1, <2>1, TryScript, NextPortScript
<1>7. CASE WinbondVendor(p)
  <2>1. (Stage(p, "w source", port[p], board.model) /\ UNCHANGED <<port, obj>>) \/ NextPort(p)
    BY <1>7 DEF WinbondVendor
  <2> QED BY <1>0, <1>1, <2>1, NextPortScript
<1>8. CASE WinbondSource(p) \/ IT87Config(p) \/ SMSCUnknown(p)
  BY <1>8, NextPortScript DEF WinbondSource, IT87Config, SMSCUnknown
<1>9. CASE DetectIT87(p)
  <2>1. \/ \E id : Stage(p, "it address", 1, id) /\ UNCHANGED <<port, obj>>
        \/ \E id : Stage(p, "it exit", 1, id) /\ UNCHANGED <<port, obj>>
        \/ TrySMSC(p)
    BY <1>9 DEF DetectIT87
  <2> QED BY <1>1, <2>1, TryScript
<1>10. CASE IT87Address(p)
  <2>1. (Stage(p, "it vendor", 1, board.model) /\ UNCHANGED <<port, obj>>) \/ TrySMSC(p)
    BY <1>10 DEF IT87Address
  <2> QED BY <1>1, <2>1, TryScript
<1>11. CASE IT87Vendor(p)
  <2>1. (Stage(p, "it config", 1, board.model) /\ UNCHANGED <<port, obj>>) \/ NextPort(p)
    BY <1>11 DEF IT87Vendor
  <2> QED BY <1>1, <2>1, NextPortScript
<1>12. CASE DetectSMSC(p)
  <2>1. (Stage(p, "smsc exit", port[p], "none") /\ UNCHANGED <<port, obj>>) \/ NextPort(p)
    BY <1>12 DEF DetectSMSC
  <2> QED BY <1>0, <1>1, <2>1, NextPortScript
<1>13. CASE DetectionDone(p)
  BY <1>13 DEF DetectionDone, lpc, ScriptsTyped
<1> QED BY <1>2, <1>3, <1>4, <1>5, <1>6, <1>7, <1>8, <1>9, <1>10, <1>11, <1>12, <1>13 DEF LpcNext

\* A step of p among the places where it looks for the chip.
Looks(p) ==
    /\ \A q \in Programs : q # p => obj'[q] = obj[q]
    /\ \/ UNCHANGED <<pc, obj>>
       \/ \E w : w # "reading" /\ Goto(p, w) /\ pc[p] \notin {"close", "exit"}

LEMMA StageLooks ==
    ASSUME NEW p \in Programs, ObjectsTyped, NEW stage, stage # "reading", NEW n, NEW chip,
           Stage(p, stage, n, chip), pc[p] \notin {"close", "exit"},
           \/ UNCHANGED obj
           \/ \E kind \in {"W836XX", "IT87XX", "F718XX"}, inited \in BOOLEAN : Detected(p, kind, inited)
    PROVE  ObjectsTyped' /\ Looks(p)
<1>1. ObjectsTyped' /\ \A q \in Programs : q # p => obj'[q] = obj[q]
  BY DEF ObjectsTyped, Objects, Detected
<1>2. Goto(p, stage)
  BY DEF Stage
<1> QED BY <1>1, <1>2 DEF Looks

LEMMA NextPortLooks ==
    ASSUME NEW p \in Programs, ObjectsTyped, NextPort(p), pc[p] \notin {"close", "exit"},
           \/ UNCHANGED obj
           \/ \E kind \in {"W836XX", "IT87XX", "F718XX"}, inited \in BOOLEAN : Detected(p, kind, inited)
    PROVE  ObjectsTyped' /\ Looks(p)
<1>1. Stage(p, "wf id", 2, "none") \/ Stage(p, "detected", 2, "none")
  BY DEF NextPort
<1> QED BY <1>1, StageLooks

LEMMA TryLooks ==
    ASSUME NEW p \in Programs, ObjectsTyped, TryIT87(p) \/ TrySMSC(p), pc[p] \notin {"close", "exit"}
    PROVE  ObjectsTyped' /\ Looks(p)
<1>1. UNCHANGED obj /\ (Stage(p, "it id", port[p], "none") \/ Stage(p, "smsc id", port[p], "none"))
  BY DEF TryIT87, TrySMSC
<1> QED BY <1>1, StageLooks

LEMMA DetectionLooks ==
    ASSUME NEW p \in Programs, ObjectsTyped, LpcNext(p) PROVE ObjectsTyped' /\ Looks(p)
<1> USE DEF At
<1>1. CASE PortAccess(p)
  BY <1>1 DEF PortAccess, ObjectsTyped, Looks
<1>2. CASE CreateLPCIO(p)
  <2>1. /\ obj' = [obj EXCEPT ![p] = NoObject] /\ pc[p] \notin {"close", "exit"}
        /\ Goto(p, "wf id") \/ Goto(p, "created")
    BY <1>2 DEF CreateLPCIO
  <2>2. NoObject \in Objects
    BY DEF NoObject, Objects
  <2> QED BY <2>1, <2>2 DEF ObjectsTyped, Looks
<1>3. CASE DetectWinbondFintek(p)
  <2>1. /\ pc[p] \notin {"close", "exit"}
        /\ \/ UNCHANGED obj /\ \E id : Stage(p, "wf address", port[p], id)
           \/ UNCHANGED obj /\ \E id : Stage(p, "wf exit", port[p], id)
           \/ TryIT87(p)
    BY <1>3 DEF DetectWinbondFintek
  <2> QED BY <2>1, StageLooks, TryLooks
<1>4. CASE WinbondUnknown(p) \/ IT87Unknown(p)
  BY <1>4, TryLooks DEF WinbondUnknown, IT87Unknown
<1>5. CASE WinbondAddress(p)
  <2>1. /\ pc[p] \notin {"close", "exit"}
        /\ \/ UNCHANGED obj /\ \E chip : Stage(p, "w vendor", port[p], chip)
           \/ TryIT87(p) \/ (NextPort(p) /\ UNCHANGED obj) \/ (NextPort(p) /\ Detected(p, "F718XX", TRUE))
    BY <1>5 DEF WinbondAddress
  <2> QED BY <2>1, StageLooks, TryLooks, NextPortLooks
<1>6. CASE WinbondVendor(p)
  <2>1. PICK b \in BOOLEAN : b <=> got[p][1].val = \h5C /\ got[p][2].val = \hA3
    OBVIOUS
  <2>2. pc[p] \notin {"close", "exit"}
    BY <1>6 DEF WinbondVendor
  <2>3. \/ UNCHANGED obj /\ Stage(p, "w source", port[p], board.model)
        \/ NextPort(p) /\ obj' = [obj EXCEPT ![p] = [kind |-> "W836XX", inited |-> b]]
    BY <1>6, <2>1 DEF WinbondVendor, Detected
  <2>4. Detected(p, "W836XX", b) <=> obj' = [obj EXCEPT ![p] = [kind |-> "W836XX", inited |-> b]]
    BY DEF Detected
  <2> QED BY <2>2, <2>3, <2>4, StageLooks, NextPortLooks
<1>7. CASE WinbondSource(p)
  BY <1>7, NextPortLooks DEF WinbondSource
<1>8. CASE SMSCUnknown(p)
  BY <1>8, NextPortLooks DEF SMSCUnknown
<1>9. CASE IT87Config(p)
  <2>1. PICK b \in BOOLEAN : b <=> Bit(got[p][1].val, 4) = 1 /\ got[p][2].val = 0
    OBVIOUS
  <2>2. pc[p] \notin {"close", "exit"} /\ NextPort(p)
        /\ obj' = [obj EXCEPT ![p] = [kind |-> "IT87XX", inited |-> b]]
    BY <1>9, <2>1 DEF IT87Config, Detected
  <2>3. Detected(p, "IT87XX", b)
    BY <2>2 DEF Detected
  <2> QED BY <2>2, <2>3, NextPortLooks
<1>10. CASE DetectIT87(p)
  <2>1. /\ pc[p] \notin {"close", "exit"}
        /\ \/ UNCHANGED obj /\ \E id : Stage(p, "it address", 1, id)
           \/ UNCHANGED obj /\ \E id : Stage(p, "it exit", 1, id)
           \/ TrySMSC(p)
    BY <1>10 DEF DetectIT87
  <2> QED BY <2>1, StageLooks, TryLooks
<1>11. CASE IT87Address(p)
  <2>1. /\ pc[p] \notin {"close", "exit"}
        /\ (UNCHANGED obj /\ Stage(p, "it vendor", 1, board.model)) \/ TrySMSC(p)
    BY <1>11 DEF IT87Address
  <2> QED BY <2>1, StageLooks, TryLooks
<1>12. CASE IT87Vendor(p)
  <2>1. /\ pc[p] \notin {"close", "exit"}
        /\ \/ UNCHANGED obj /\ Stage(p, "it config", 1, board.model)
           \/ NextPort(p) /\ Detected(p, "IT87XX", FALSE)
    BY <1>12 DEF IT87Vendor
  <2> QED BY <2>1, StageLooks, NextPortLooks
<1>13. CASE DetectSMSC(p)
  <2>1. /\ pc[p] \notin {"close", "exit"}
        /\ \/ UNCHANGED obj /\ Stage(p, "smsc exit", port[p], "none")
           \/ NextPort(p) /\ UNCHANGED obj
    BY <1>13 DEF DetectSMSC
  <2> QED BY <2>1, StageLooks, NextPortLooks
<1>14. CASE DetectionDone(p)
  <2>1. pc[p] \notin {"close", "exit"} /\ Goto(p, "created") /\ UNCHANGED obj
    BY <1>14 DEF DetectionDone, lpc
  <2> QED BY <2>1 DEF ObjectsTyped, Looks
<1> QED BY <1>1, <1>2, <1>3, <1>4, <1>5, <1>6, <1>7, <1>8, <1>9, <1>10, <1>11, <1>12, <1>13, <1>14 DEF LpcNext

LEMMA FansTyped ==
    ASSUME NEW p \in Programs, ScriptsTyped, fanreg \in [Fans -> Byte], PortAccess(p)
    PROVE  fanreg' \in [Fans -> Byte]
<1>1. PICK op : op = Head(script[p])
  OBVIOUS
<1>2. script[p] \in Seq(Ops) /\ script[p] # << >> /\ Access(op)
  BY <1>1 DEF PortAccess, ScriptsTyped, OpSeq
<1>3. op \in Ops
  BY <1>1, <1>2
<1>4. CASE op.dir = "in"
  BY <1>2, <1>4 DEF Access, hardware
<1>5. CASE op.dir = "out"
  <2>1. op.v \in Byte
    BY <1>3, <1>5 DEF Ops
  <2>2. WriteIndex(op.port[2], op.v) \/ WriteValue(op.port[2], op.v) \/ WriteMonitor(op.port[1], op.v)
    BY <1>2, <1>5 DEF Access
  <2>3. UNCHANGED fanreg \/ WriteMonitor(op.port[1], op.v)
    BY <2>2 DEF WriteIndex, WriteValue
  <2> QED BY <2>1, <2>3 DEF WriteMonitor
<1>6. op.dir \in {"in", "out"}
  BY <1>3 DEF Ops
<1> QED BY <1>4, <1>5, <1>6

\* A step of p that is not one of reading.
LEMMA ReadingKept ==
    ASSUME ReadingTyped, NEW p \in Programs, DOMAIN pc = Programs, NEW w, w # "reading", Goto(p, w),
           \A q \in Programs : q # p => obj'[q] = obj[q],
           items' = items \/ items' = [items EXCEPT ![p] = << >>],
           sensors' = sensors \/ sensors' = [sensors EXCEPT ![p] = << >>]
    PROVE  ReadingTyped'
<1>1. DOMAIN items' = Programs /\ DOMAIN sensors' = Programs
  BY DEF ReadingTyped
<1>2. ASSUME NEW q \in Programs PROVE ReadingOK(pc'[q], obj'[q].kind, items'[q], sensors'[q])
  <2>1. ReadingOK(pc[q], obj[q].kind, items[q], sensors[q])
    BY DEF ReadingTyped
  <2>2. CASE q # p
    <3>1. pc'[q] = pc[q] /\ items'[q] = items[q] /\ sensors'[q] = sensors[q] /\ obj'[q] = obj[q]
      BY <2>2 DEF Goto, ReadingTyped
    <3> QED BY <2>1, <3>1
  <2>3. CASE q = p
    <3>1. pc'[q] = w /\ (sensors'[q] = sensors[q] \/ sensors'[q] = << >>)
      BY <2>3 DEF Goto, ReadingTyped
    <3>2. IsSeq(<< >>) /\ Len(<< >>) <= 30
      BY DEF IsSeq
    <3>3. IsSeq(sensors'[q]) /\ Len(sensors'[q]) <= 30
      BY <2>1, <3>1, <3>2 DEF ReadingOK
    <3> QED BY <3>1, <3>3 DEF ReadingOK
  <2> QED BY <2>2, <2>3
<1> QED BY <1>1, <1>2 DEF ReadingTyped

\* A step of reading.
LEMMA ReadingGoal ==
    ASSUME ReadingTyped, NEW p \in Programs, DOMAIN pc = Programs, NEW w, Goto(p, w), UNCHANGED obj,
           NEW its, NEW kept, items' = [items EXCEPT ![p] = its], sensors' = [sensors EXCEPT ![p] = kept],
           ReadingOK(w, obj[p].kind, its, kept)
    PROVE  ReadingTyped'
<1>1. DOMAIN items' = Programs /\ DOMAIN sensors' = Programs
  BY DEF ReadingTyped
<1>2. ASSUME NEW q \in Programs PROVE ReadingOK(pc'[q], obj'[q].kind, items'[q], sensors'[q])
  BY DEF ReadingTyped, Goto
<1> QED BY <1>1, <1>2 DEF ReadingTyped

LEMMA AppendIs ==
    ASSUME NEW s, IsSeq(s), NEW e PROVE IsSeq(Append(s, e)) /\ Len(Append(s, e)) = Len(s) + 1
<1>1. PICK n \in Nat : n = Len(s)
  BY DEF IsSeq
<1>2. PICK S : S = {s[k] : k \in 1..n} \cup {e}
  OBVIOUS
<1>3. s = [k \in 1..n |-> s[k]] /\ \A k \in 1..n : s[k] \in S
  BY <1>1, <1>2 DEF IsSeq
<1>4. s \in Seq(S) /\ e \in S
  BY <1>2, <1>3
<1>5. Append(s, e) \in Seq(S) /\ Len(Append(s, e)) = Len(s) + 1
  BY <1>4
<1>6. ASSUME NEW u \in Seq(S) PROVE IsSeq(u)
  BY DEF IsSeq
<1> QED BY <1>5, <1>6

LEMMA UpdateTyped ==
    ASSUME NEW p \in Programs, DOMAIN pc = Programs, ScriptsTyped, ReadingTyped, Update(p)
    PROVE  ScriptsTyped' /\ ReadingTyped'
<1>1. PICK all : all = Items(obj[p].kind)
  OBVIOUS
<1>2. all \in Seq(GoodItems(obj[p].kind)) /\ Len(all) \in 1..19
  BY <1>1, ItemsAre
<1>3. CASE /\ Goto(p, "reading") /\ items' = [items EXCEPT ![p] = all] /\ sensors' = [sensors EXCEPT ![p] = << >>]
           /\ script' = [script EXCEPT ![p] = Accesses(obj[p].kind, all[1].reads)] /\ UNCHANGED <<port, obj>>
  <2>1. all # << >> /\ all[1] \in GoodItems(obj[p].kind)
    BY <1>2
  <2>2. Accesses(obj[p].kind, all[1].reads) \in OpSeq
    BY <2>1, AccessesOps, PlacesIn
  <2>3. ScriptsTyped'
    BY <1>3, <2>2 DEF ScriptsTyped
  <2>4. IsSeq(<< >>) /\ Len(<< >>) = 0
    BY DEF IsSeq
  <2>5. Len(all) <= 30 /\ 0 + Len(all) <= 30
    <3>1. \A n \in 1..19 : n <= 30 /\ 0 + n <= 30
      OBVIOUS
    <3> QED BY <1>2, <3>1
  <2>6. ReadingOK("reading", obj[p].kind, all, << >>)
    BY <1>2, <2>1, <2>4, <2>5 DEF ReadingOK
  <2> QED BY <1>3, <2>3, <2>6, ReadingGoal
<1>4. CASE Goto(p, "updated") /\ UNCHANGED <<script, update, port, obj>>
  <2>1. ReadingTyped'
    BY <1>4, ReadingKept DEF update
  <2> QED BY <1>4, <2>1 DEF ScriptsTyped
<1> QED BY <1>1, <1>3, <1>4 DEF Update

LEMMA ReadMoreTyped ==
    ASSUME NEW p \in Programs, ScriptsTyped, ReadingTyped, ReadMore(p)
    PROVE  ScriptsTyped' /\ ReadingTyped'
<1>1. /\ pc[p] = "reading" /\ UNCHANGED <<pc, port, obj, items, sensors>>
      /\ script' = [script EXCEPT ![p] = Accesses(obj[p].kind, More(obj[p].kind, items[p][1], got[p]))]
  BY DEF ReadMore, At, update
<1>2. items[p] \in Seq(GoodItems(obj[p].kind)) /\ items[p] # << >>
  BY <1>1 DEF ReadingTyped, ReadingOK
<1>3. items[p][1] \in GoodItems(obj[p].kind)
  BY <1>2
<1>4. Accesses(obj[p].kind, More(obj[p].kind, items[p][1], got[p])) \in OpSeq
  <2>1. PICK more \in Seq(PlacesOf(obj[p].kind)) : more = More(obj[p].kind, items[p][1], got[p])
    BY <1>3, MoreIs
  <2>2. \A a \in PlacesOf(obj[p].kind) : a \in Places
    BY PlacesIn
  <2>3. more \in Seq(Places)
    BY <2>2
  <2> QED BY <2>1, <2>3, AccessesOps
<1> QED BY <1>1, <1>4 DEF ScriptsTyped, ReadingTyped

LEMMA ItemReadTyped ==
    ASSUME NEW p \in Programs, DOMAIN pc = Programs, ScriptsTyped, ReadingTyped, BitsTyped, ItemRead(p)
    PROVE  ScriptsTyped' /\ ReadingTyped' /\ BitsTyped'
<1>1. PICK kind : kind = obj[p].kind
  OBVIOUS
<1>2. PICK its : its = items[p]
  OBVIOUS
<1>3. PICK kept : kept = sensors[p]
  OBVIOUS
<1>4. pc[p] = "reading" /\ UNCHANGED <<port, obj>>
  BY DEF ItemRead, At
<1>5. ReadingOK("reading", kind, its, kept)
  BY <1>1, <1>2, <1>3, <1>4 DEF ReadingTyped
<1>6. its \in Seq(GoodItems(kind)) /\ its # << >> /\ IsSeq(kept) /\ Len(kept) + Len(its) <= 30
  BY <1>5 DEF ReadingOK
<1>7. PICK rest : rest = Tail(its)
  OBVIOUS
<1>8. rest \in Seq(GoodItems(kind)) /\ Len(rest) = Len(its) - 1 /\ its[1] \in GoodItems(kind)
  BY <1>6, <1>7
<1>9. PICK w : w = IF rest = << >> THEN "writing" ELSE "reading"
  OBVIOUS
<1>10. PICK now : now = Append(kept, [type |-> its[1].type, n |-> its[1].n, reads |-> got[p]])
  OBVIOUS
<1>11. /\ Goto(p, w) /\ items' = [items EXCEPT ![p] = rest]
       /\ sensors' = sensors \/ sensors' = [sensors EXCEPT ![p] = now]
  BY <1>2, <1>3, <1>7, <1>9, <1>10 DEF ItemRead
<1>12. IsSeq(now) /\ Len(now) = Len(kept) + 1
  BY <1>6, <1>10, AppendIs
<1>13. PICK a \in Nat, b \in Nat : a = Len(kept) /\ b = Len(its)
  BY <1>6 DEF IsSeq
<1>14. b # 0 /\ a + b <= 30
  BY <1>6, <1>13
<1>15. Len(kept) <= 30 /\ Len(kept) + Len(rest) <= 30 /\ Len(now) <= 30 /\ Len(now) + Len(rest) <= 30
  <2>1. a <= 30 /\ a + (b - 1) <= 30 /\ a + 1 <= 30 /\ (a + 1) + (b - 1) <= 30
    BY <1>14
  <2>2. Len(kept) = a /\ Len(rest) = b - 1 /\ Len(now) = a + 1
    BY <1>8, <1>12, <1>13
  <2> QED BY <2>1, <2>2
<1>16. w = "reading" => rest # << >>
  BY <1>9
<1>17. ReadingOK(w, kind, rest, kept) /\ ReadingOK(w, kind, rest, now)
  BY <1>6, <1>8, <1>12, <1>15, <1>16 DEF ReadingOK
<1>18. ReadingTyped'
  <2>2. CASE sensors' = [sensors EXCEPT ![p] = now]
    BY <1>1, <1>4, <1>11, <1>17, <2>2, ReadingGoal
  <2>3. CASE sensors' = sensors
    <3>2. DOMAIN items' = Programs /\ DOMAIN sensors' = Programs
      BY <1>11, <2>3 DEF ReadingTyped
    <3>3. ASSUME NEW q \in Programs PROVE ReadingOK(pc'[q], obj'[q].kind, items'[q], sensors'[q])
      <4>1. ReadingOK(pc[q], obj[q].kind, items[q], sensors[q])
        BY DEF ReadingTyped
      <4>2. CASE q = p
        BY <1>1, <1>3, <1>4, <1>11, <1>17, <2>3, <4>2 DEF Goto, ReadingTyped
      <4>3. CASE q # p
        BY <1>4, <1>11, <2>3, <4>1, <4>3 DEF Goto, ReadingTyped
      <4> QED BY <4>2, <4>3
    <3> QED BY <3>2, <3>3 DEF ReadingTyped
  <2> QED BY <1>11, <2>2, <2>3
<1>19. ScriptsTyped'
  <2>1. script' = [script EXCEPT ![p] = IF rest = << >> THEN WriteBack(bits[p], newBits'[p])
                                        ELSE Accesses(kind, rest[1].reads)]
    BY <1>1, <1>2, <1>7 DEF ItemRead
  <2>2. WriteBack(bits[p], newBits'[p]) \in OpSeq
    BY WriteBackOps
  <2>3. ASSUME rest # << >> PROVE Accesses(kind, rest[1].reads) \in OpSeq
    <3>1. rest[1] \in GoodItems(kind)
      BY <1>8, <2>3
    <3> QED BY <3>1, AccessesOps, PlacesIn
  <2>4. script' \in [Programs -> OpSeq]
    <3>1. CASE rest = << >>
      BY <2>1, <2>2, <3>1 DEF ScriptsTyped
    <3>2. CASE rest # << >>
      BY <2>1, <2>3, <3>2 DEF ScriptsTyped
    <3> QED BY <3>1, <3>2
  <2> QED BY <1>4, <2>4 DEF ScriptsTyped
<1>20. BitsTyped'
  <2>1. PICK all : all = BitsOf([i \in Fans |-> got[p][i].val])
    OBVIOUS
  <2>2. all \in SUBSET (0..39)
    BY <2>1 DEF BitsOf
  <2>3. bits' = bits \/ bits' = [bits EXCEPT ![p] = all]
    BY <2>1 DEF ItemRead
  <2>4. bits' \in [Programs -> SUBSET (0..39)]
    BY <2>2, <2>3 DEF BitsTyped
  <2>5. PICK d : d = Step(got[p][1].val, DivOf(bits[p], its[1].n))
    OBVIOUS
  <2>6. \/ newBits' = [newBits EXCEPT ![p] = bits'[p] \cap 0..31]
        \/ /\ its[1].type = "fan" /\ kind = "W836XX"
           /\ newBits' = [newBits EXCEPT ![p] = SetDivisor(newBits[p], its[1].n, d)]
        \/ newBits' = newBits
    BY <1>1, <1>2, <2>5 DEF ItemRead
  <2>7. newBits[p] \in SUBSET (0..31)
    BY DEF BitsTyped
  <2>8. ASSUME its[1].type = "fan", kind = "W836XX" PROVE SetDivisor(newBits[p], its[1].n, d) \in SUBSET (0..31)
    <3>1. its[1].n \in Fans
      BY <1>8, <2>8 DEF GoodItems, GoodItem
    <3> QED BY <2>7, <3>1, SetDivisorIs
  <2>9. newBits' \in [Programs -> SUBSET (0..31)]
    BY <2>6, <2>8 DEF BitsTyped
  <2> QED BY <2>4, <2>9 DEF BitsTyped
<1> QED BY <1>18, <1>19, <1>20

\* The decisions of detection touch no hardware.
LEMMA DetectionFans ==
    ASSUME NEW p \in Programs, LpcNext(p), ~PortAccess(p) PROVE fanreg' = fanreg
<1>1. ASSUME NextPort(p) \/ TryIT87(p) \/ TrySMSC(p) PROVE fanreg' = fanreg
  BY <1>1 DEF NextPort, TryIT87, TrySMSC, Stage, hardware
<1>2. CASE CreateLPCIO(p) \/ DetectionDone(p)
  BY <1>2 DEF CreateLPCIO, DetectionDone, hardware
<1>3. CASE WinbondUnknown(p) \/ IT87Unknown(p) \/ DetectSMSC(p) \/ SMSCUnknown(p) \/ WinbondSource(p)
           \/ IT87Config(p)
  BY <1>1, <1>3 DEF WinbondUnknown, IT87Unknown, DetectSMSC, SMSCUnknown, WinbondSource, IT87Config, Stage, hardware
<1>4. CASE DetectWinbondFintek(p) \/ WinbondAddress(p) \/ WinbondVendor(p)
  BY <1>1, <1>4 DEF DetectWinbondFintek, WinbondAddress, WinbondVendor, Stage, hardware
<1>5. CASE DetectIT87(p) \/ IT87Address(p) \/ IT87Vendor(p)
  BY <1>1, <1>5 DEF DetectIT87, IT87Address, IT87Vendor, Stage, hardware
<1> QED BY <1>2, <1>3, <1>4, <1>5 DEF LpcNext

LEMMA LeftKept ==
    ASSUME LeftTyped, NEW p \in Programs, DOMAIN pc = Programs, NEW w, Goto(p, w), left' = left,
           w \notin {"close", "exit"} => pc[p] \notin {"close", "exit"}
    PROVE  LeftTyped'
<1>1. ASSUME NEW q \in Programs PROVE LeftOK(q, pc'[q], left')
  <2>1. LeftOK(q, pc[q], left)
    BY DEF LeftTyped
  <2> QED BY <2>1 DEF LeftOK, Goto
<1> QED BY <1>1 DEF LeftTyped

\* A step of p between two places, or none.
LEMMA TypeKept ==
    ASSUME TypeInv, NEW p \in Programs, DOMAIN pc = Programs, NEW w, w # "reading", Goto(p, w),
           w \notin {"close", "exit"} => pc[p] \notin {"close", "exit"},
           UNCHANGED <<script, port, obj, items, sensors, bits, newBits, left, fanreg>>
    PROVE  TypeInv'
<1>1. ReadingTyped'
  BY ReadingKept DEF TypeInv
<1>2. LeftTyped'
  BY LeftKept DEF TypeInv
<1> QED BY <1>1, <1>2 DEF TypeInv, ScriptsTyped, ObjectsTyped, BitsTyped

LEMMA TypeStutter ==
    ASSUME TypeInv, UNCHANGED <<pc, script, port, obj, items, sensors, bits, newBits, left, fanreg>> PROVE TypeInv'
<1>1. ReadingTyped'
  BY DEF TypeInv, ReadingTyped
<1>2. LeftTyped'
  BY DEF TypeInv, LeftTyped
<1> QED BY <1>1, <1>2 DEF TypeInv, ScriptsTyped, ObjectsTyped, BitsTyped

LEMMA TypeDevice ==
    ASSUME TypeInv, NEW p \in Programs, DOMAIN pc = Programs, Device(p) PROVE TypeInv'
<1>1. UNCHANGED <<script, port, obj, items, sensors, bits, newBits, left, fanreg>>
  BY DEF Device, hardware, lpc, update, show
<1>2. \E w \in {"open", "cpu", "stop", "delete", "create", "start", "failed", "reopen", "exit"} :
          Goto(p, w) /\ (w # "exit" => pc[p] \notin {"close", "exit"})
  BY DEF Device, Begin, Open, RemoveStops, RemoveWinIoDriver, InstallWinIoDriver, StartWinIoDriver, Reopen,
         Opens, NotOpened, Close
<1> QED BY <1>1, <1>2, TypeKept

\* The steps between two places of a program that change nothing else here.
LEMMA TypePlain ==
    ASSUME TypeInv, NEW p \in Programs, DOMAIN pc = Programs,
           InitCPUSenor(p) \/ OnRefresh(p) \/ OnCancel(p) \/ SelectCore(p) \/ ReadSelectedTemp(p) \/ ReadTemp(p)
           \/ Created(p) \/ Updated(p)
    PROVE  TypeInv'
<1>1. UNCHANGED <<script, port, obj, items, sensors, bits, newBits, left, fanreg>>
  <2>1. CASE SelectCore(p) \/ ReadSelectedTemp(p) \/ ReadTemp(p)
    BY <2>1 DEF SelectCore, Selected, ReadSelectedTemp, ReadTemp, NextCore, hardware, lpc, update, show
  <2> QED BY <2>1 DEF InitCPUSenor, OnRefresh, OnCancel, Created, Updated, hardware, lpc, update, show
<1>2. \E w \in {"idle", "close", "temps", "temp", "lpcio", "shown", "update"} :
          Goto(p, w) /\ pc[p] \notin {"close", "exit"}
  <2>1. CASE SelectCore(p) \/ ReadSelectedTemp(p) \/ ReadTemp(p)
    BY <2>1 DEF SelectCore, Selects, Selected, ReadSelectedTemp, ReadTemp, NextCore
  <2> QED BY <2>1 DEF InitCPUSenor, OnRefresh, OnCancel, Created, Updated
<1> QED BY <1>1, <1>2, TypeKept

LEMMA TypeDetection ==
    ASSUME TypeInv, NEW p \in Programs, DOMAIN pc = Programs, Detection(p) PROVE TypeInv'
<1>1. ScriptsTyped /\ ObjectsTyped /\ BitsTyped /\ ReadingTyped /\ LeftTyped /\ fanreg \in [Fans -> Byte]
  BY DEF TypeInv
<1>2. LpcNext(p) /\ UNCHANGED <<items, sensors, bits, newBits, left>>
  BY DEF Detection, update, show
<1>3. ScriptsTyped' /\ ObjectsTyped' /\ Looks(p)
  BY <1>1, <1>2, DetectionScript, DetectionLooks
<1>4. BitsTyped'
  BY <1>1, <1>2 DEF BitsTyped
<1>5. ReadingTyped' /\ LeftTyped'
  <2>1. CASE UNCHANGED <<pc, obj>>
    <3>1. ReadingTyped'
      BY <1>1, <1>2, <2>1 DEF ReadingTyped
    <3>2. LeftTyped'
      BY <1>1, <1>2, <2>1 DEF LeftTyped
    <3> QED BY <3>1, <3>2
  <2>2. ASSUME NEW w, w # "reading", Goto(p, w), pc[p] \notin {"close", "exit"} PROVE ReadingTyped' /\ LeftTyped'
    <3>1. \A q \in Programs : q # p => obj'[q] = obj[q]
      BY <1>3 DEF Looks
    <3> QED BY <1>1, <1>2, <2>2, <3>1, ReadingKept, LeftKept
  <2> QED BY <1>3, <2>1, <2>2 DEF Looks
<1>6. fanreg' \in [Fans -> Byte]
  <2>1. CASE PortAccess(p)
    BY <1>1, <2>1, FansTyped
  <2>2. CASE ~PortAccess(p)
    BY <1>1, <1>2, <2>2, DetectionFans
  <2> QED BY <2>1, <2>2
<1> QED BY <1>3, <1>4, <1>5, <1>6 DEF TypeInv

LEMMA TypeReading ==
    ASSUME TypeInv, NEW p \in Programs, DOMAIN pc = Programs, Reading(p) PROVE TypeInv'
<1>1. ScriptsTyped /\ ObjectsTyped /\ BitsTyped /\ ReadingTyped /\ LeftTyped /\ fanreg \in [Fans -> Byte]
  BY DEF TypeInv
<1>2. UpdateNext(p) /\ left' = left
  BY DEF Reading, show
<1>3. UNCHANGED <<obj, fanreg>>
  BY <1>2 DEF UpdateNext, Update, ReadMore, ItemRead, UpdateDone, lpc, hardware
<1>4. ScriptsTyped' /\ BitsTyped' /\ ReadingTyped'
  <2>1. CASE Update(p)
    <3>1. UNCHANGED <<bits, newBits>>
      BY <2>1 DEF Update, update
    <3> QED BY <1>1, <2>1, <3>1, UpdateTyped DEF BitsTyped
  <2>2. CASE ReadMore(p)
    <3>1. UNCHANGED <<bits, newBits>>
      BY <2>2 DEF ReadMore, update
    <3> QED BY <1>1, <2>2, <3>1, ReadMoreTyped DEF BitsTyped
  <2>3. CASE ItemRead(p)
    BY <1>1, <2>3, ItemReadTyped
  <2>4. CASE UpdateDone(p)
    <3>1. /\ Goto(p, "updated") /\ UNCHANGED <<script, port, obj, items, sensors>>
          /\ bits' = [bits EXCEPT ![p] = {}] /\ newBits' = [newBits EXCEPT ![p] = {}]
      BY <2>4 DEF UpdateDone, lpc
    <3>2. ReadingTyped'
      BY <1>1, <3>1, ReadingKept
    <3> QED BY <1>1, <3>1, <3>2 DEF ScriptsTyped, BitsTyped
  <2> QED BY <1>2, <2>1, <2>2, <2>3, <2>4 DEF UpdateNext
<1>5. LeftTyped'
  <2>1. UNCHANGED pc \/ \E w \in {"reading", "writing", "updated"} : Goto(p, w) /\ pc[p] \notin {"close", "exit"}
    BY <1>2 DEF UpdateNext, Update, ReadMore, ItemRead, UpdateDone, At
  <2>2. CASE UNCHANGED pc
    BY <1>1, <1>2, <2>2 DEF LeftTyped
  <2> QED BY <1>1, <1>2, <2>1, <2>2, LeftKept
<1> QED BY <1>1, <1>3, <1>4, <1>5 DEF TypeInv, ObjectsTyped

\* m_lpcio goes.
LEMMA TypeShown ==
    ASSUME TypeInv, NEW p \in Programs, DOMAIN pc = Programs, Shown(p) PROVE TypeInv'
<1>1. ScriptsTyped /\ ObjectsTyped /\ BitsTyped /\ ReadingTyped /\ LeftTyped /\ fanreg \in [Fans -> Byte]
  BY DEF TypeInv
<1>2. PICK w : w = CASE p = Dialog -> "idle" [] p = Console /\ left' = 0 -> "close" [] OTHER -> "temps"
  OBVIOUS
<1>3. /\ pc[p] = "shown" /\ Goto(p, w) /\ left' = IF p = Console THEN left - 1 ELSE left
      /\ UNCHANGED <<script, items, bits, newBits, fanreg>>
      /\ sensors' = [sensors EXCEPT ![p] = << >>]
      /\ port' = [port EXCEPT ![p] = 1] /\ obj' = [obj EXCEPT ![p] = NoObject]
  BY <1>2 DEF Shown, hardware
<1>4. w \in {"idle", "close", "temps"} /\ (p = Console /\ left' = 0 => w = "close")
  BY <1>2 DEF Console, Dialog
<1>5. ScriptsTyped' /\ BitsTyped'
  BY <1>1, <1>3 DEF ScriptsTyped, BitsTyped
<1>6. ObjectsTyped'
  BY <1>1, <1>3 DEF ObjectsTyped, Objects, NoObject
<1>7. ReadingTyped'
  <2>1. \A q \in Programs : q # p => obj'[q] = obj[q]
    BY <1>1, <1>3 DEF ObjectsTyped
  <2> QED BY <1>1, <1>3, <1>4, <2>1, ReadingKept
<1>8. LeftTyped'
  <2>1. p = Console => left # 0
    BY <1>1, <1>3 DEF LeftTyped, LeftOK
  <2>2. left' \in 0..Refreshes
    BY <1>1, <1>3, <2>1, RefreshesAssumption DEF LeftTyped
  <2>3. ASSUME NEW q \in Programs PROVE LeftOK(q, pc'[q], left')
    <3>1. LeftOK(q, pc[q], left)
      BY <1>1 DEF LeftTyped
    <3>2. CASE q = p
      BY <1>3, <1>4, <3>2 DEF LeftOK, Goto
    <3>3. CASE q # p
      <4>1. pc'[q] = pc[q] /\ (q = Console => left' = left)
        BY <1>3, <3>3 DEF Goto
      <4> QED BY <3>1, <4>1 DEF LeftOK
    <3> QED BY <3>2, <3>3
  <2> QED BY <2>2, <2>3 DEF LeftTyped
<1> QED BY <1>1, <1>3, <1>5, <1>6, <1>7, <1>8 DEF TypeInv

LEMMA TypeEnded ==
    ASSUME TypeInv, NEW p \in Programs, DOMAIN pc = Programs, Goto(p, "off"), Forget(p) PROVE TypeInv'
<1>1. ScriptsTyped /\ ObjectsTyped /\ BitsTyped /\ ReadingTyped /\ LeftTyped /\ fanreg \in [Fans -> Byte]
  BY DEF TypeInv
<1>2. /\ script' = [script EXCEPT ![p] = << >>] /\ port' = [port EXCEPT ![p] = 1]
      /\ obj' = [obj EXCEPT ![p] = NoObject] /\ items' = [items EXCEPT ![p] = << >>]
      /\ sensors' = [sensors EXCEPT ![p] = << >>] /\ bits' = [bits EXCEPT ![p] = {}]
      /\ newBits' = [newBits EXCEPT ![p] = {}] /\ left' = (IF p = Console THEN Refreshes ELSE left)
      /\ fanreg' = fanreg
  BY DEF Forget, hardware
<1>3. << >> \in OpSeq
  BY DEF OpSeq
<1>4. ScriptsTyped' /\ BitsTyped'
  BY <1>1, <1>2, <1>3 DEF ScriptsTyped, BitsTyped
<1>5. ObjectsTyped'
  BY <1>1, <1>2 DEF ObjectsTyped, Objects, NoObject
<1>6. ReadingTyped'
  <2>1. \A q \in Programs : q # p => obj'[q] = obj[q]
    BY <1>1, <1>2 DEF ObjectsTyped
  <2> QED BY <1>1, <1>2, <2>1, ReadingKept
<1>7. LeftTyped'
  <2>1. left' \in 0..Refreshes
    BY <1>1, <1>2, RefreshesAssumption DEF LeftTyped
  <2>2. ASSUME NEW q \in Programs PROVE LeftOK(q, pc'[q], left')
    <3>1. LeftOK(q, pc[q], left)
      BY <1>1 DEF LeftTyped
    <3>2. CASE q = p
      BY <1>2, <3>2, RefreshesAssumption DEF LeftOK
    <3>3. CASE q # p
      <4>1. pc'[q] = pc[q] /\ (q = Console => left' = left)
        BY <1>2, <3>3 DEF Goto
      <4> QED BY <3>1, <4>1 DEF LeftOK
    <3> QED BY <3>2, <3>3
  <2> QED BY <2>1, <2>2 DEF LeftTyped
<1> QED BY <1>1, <1>2, <1>4, <1>5, <1>6, <1>7 DEF TypeInv

LEMMA TypeNext ==
    ASSUME TypeInv, DOMAIN pc = Programs, [Next]_vars PROVE TypeInv'
<1>1. ASSUME NEW p \in Programs, Ends(p) \/ Killed(p) \/ Crashes(p) \/ Leave(p) PROVE TypeInv'
  BY <1>1, TypeEnded DEF Ends, Killed, Crashes, Leave, Exit, Kill, Ended
<1>2. ASSUME NEW p \in Programs, RefreshUnopened(p) PROVE TypeInv'
  BY <1>2, TypeStutter DEF RefreshUnopened, lpc, show, hardware
<1>3. CASE Intrude /\ UNCHANGED <<pc, os, lpc, update, show, coresel>>
  BY <1>3, TypeStutter DEF Intrude, lpc, update, show
<1>4. CASE UNCHANGED vars
  BY <1>4, TypeStutter DEF vars, lpc, update, show, hardware
<1>5. ASSUME NEW p \in Programs, Device(p) \/ Runs(p) \/ OnRefresh(p) \/ OnCancel(p) PROVE TypeInv'
  BY <1>5, TypeDevice, TypeDetection, TypeReading, TypePlain, TypeShown DEF Runs
<1> QED BY <1>1, <1>2, <1>3, <1>4, <1>5 DEF Next

LEMMA TypeInit == ASSUME Init PROVE TypeInv
<1>1. ScriptsTyped
  <2>1. << >> \in OpSeq
    BY DEF OpSeq
  <2> QED BY <2>1 DEF Init, LpcInit, ScriptsTyped
<1>2. ObjectsTyped
  BY DEF Init, LpcInit, ObjectsTyped, Objects, NoObject
<1>3. BitsTyped
  BY DEF Init, UpdateInit, BitsTyped
<1>4. ReadingTyped
  <2>1. IsSeq(<< >>) /\ Len(<< >>) <= 30
    BY DEF IsSeq
  <2>2. \A p \in Programs : pc[p] = "off" /\ sensors[p] = << >>
    BY DEF Init, OsInit, UpdateInit
  <2>3. DOMAIN items = Programs /\ DOMAIN sensors = Programs
    BY DEF Init, UpdateInit
  <2> QED BY <2>1, <2>2, <2>3 DEF ReadingTyped, ReadingOK
<1>5. LeftTyped
  BY RefreshesAssumption DEF Init, LeftTyped, LeftOK
<1>6. fanreg \in [Fans -> Byte]
  BY BoardsAssumption DEF Init, BusInit, Fans, Byte
<1> QED BY <1>1, <1>2, <1>3, <1>4, <1>5, <1>6 DEF TypeInv

LEMMA TypesGiven ==
    ASSUME SharedInv, CoresInv, AddressInv, TypeInv PROVE SensorsTypeOK
<1>1. ASSUME NEW p \in Programs
      PROVE  /\ Len(sensors[p]) <= 30 /\ Len(temps[p]) <= Cardinality(Cores)
             /\ obj[p].kind \in {"null", "W836XX", "IT87XX", "F718XX"}
             /\ newBits[p] \subseteq 0..31 /\ bits[p] \subseteq 0..39
             /\ script[p] # << >> => owner = p /\ p \in handles
  <2>1. Len(sensors[p]) <= 30
    BY DEF TypeInv, ReadingTyped, ReadingOK
  <2>2. Len(temps[p]) <= Cardinality(Cores)
    BY TwoCores DEF CoresInv, CoreOK
  <2>3. obj[p].kind \in {"null", "W836XX", "IT87XX", "F718XX"}
    BY DEF TypeInv, ObjectsTyped, Objects
  <2>4. newBits[p] \subseteq 0..31 /\ bits[p] \subseteq 0..39
    BY DEF TypeInv, BitsTyped
  <2>5. script[p] # << >> => owner = p /\ p \in handles
    BY DEF SharedInv, DeviceInv, MutexInv, Asks, Locked, Early
  <2> QED BY <2>1, <2>2, <2>3, <2>4, <2>5
<1>2. \A i \in Fans : fanreg[i] \in 0..255
  BY DEF TypeInv, Byte
<1>3. left \in 0..Refreshes /\ handles \subseteq Programs
  BY DEF TypeInv, LeftTyped, SharedInv, DeviceInv
<1>4. address \subseteq handles
  BY DEF AddressInv, SharedInv, DeviceInv
<1> QED BY <1>1, <1>2, <1>3, <1>4 DEF SensorsTypeOK

\* ISuperIO.h:71, W836XX.CPP:103-147, Ring0.cpp:176-186: the sensors of one
\* object fit into m_sensorvalue on every board, the divisors written back are
\* bytes, and who has a port access to do holds the mutex and the device.
THEOREM SensorsTypeCorrect == Spec => []SensorsTypeOK
<1>1. Init => TypeInv /\ CoresInv /\ AddressInv
  BY TypeInit, CoresInit, AddressInit
<1>2. SharedInv /\ TypeInv /\ CoresInv /\ AddressInv /\ [Next]_vars => TypeInv' /\ CoresInv' /\ AddressInv'
  <2>1. SharedInv => DOMAIN pc = Programs
    BY DEF SharedInv, DeviceInv
  <2> QED BY <2>1, TypeNext, CoresNext, AddressNext, BoardsAssumption
<1>3. SharedInv /\ TypeInv /\ CoresInv /\ AddressInv => SensorsTypeOK
  BY TypesGiven
<1> QED BY <1>1, <1>2, <1>3, SharedInvariant, PTL DEF Spec
-----------------------------------------------------------------------------
(* Where the chip is when a byte is read.                                   *)

\* The script s of a Winbond object, at register h of bank b.
Aimed836(s, h, b) ==
    \A k \in 1..Len(s) : s[k].dir = "in" =>
        /\ s[k].port = <<"data">> /\ s[k].v \in Places
        /\ IF k = 1 THEN h = s[k].v[2] ELSE s[k - 1] = Out(<<"addr">>, s[k].v[2])
        /\ IF k <= 2 THEN b = s[k].v[1] ELSE s[k - 2] = Out(<<"data">>, s[k].v[1])
        /\ IF k <= 3 THEN k = 3 => h = \h4E ELSE s[k - 3] = Out(<<"addr">>, \h4E)

\* That of a Fintek object: no banks.
Aimed718(s, h) ==
    \A k \in 1..Len(s) : s[k].dir = "in" =>
        /\ s[k].port = <<"data">> /\ s[k].v \in {0} \X Byte
        /\ IF k = 1 THEN h = s[k].v[2] ELSE s[k - 1] = Out(<<"addr">>, s[k].v[2])

\* That of an ITE object: an address, a byte, the address again.
Aimed87(s) ==
    \A k \in 1..Len(s) :
        /\ s[k].dir = "out" => /\ s[k].port = <<"addr">> /\ k < Len(s)
                               /\ s[k + 1].dir = "in" /\ s[k + 1].port = <<"data">>
        /\ s[k].dir = "in" => s[k].v \in {0} \X (Byte \ {1}) /\ s[k].port \in {<<"data">>, <<"addr">>}
        /\ s[k].dir = "in" /\ s[k].port = <<"data">> => k < Len(s) /\ s[k + 1] = In(<<"addr">>, s[k].v)
        /\ s[k].dir = "in" /\ s[k].port = <<"addr">> /\ k < Len(s) => s[k + 1].dir = "out"

LEMMA TailIs ==
    ASSUME NEW s \in OpSeq, s # << >>
    PROVE  /\ Tail(s) \in OpSeq /\ Len(Tail(s)) = Len(s) - 1 /\ Len(s) \in Nat \ {0} /\ Head(s) = s[1]
           /\ \A k \in 1..(Len(s) - 1) : Tail(s)[k] = s[k + 1]
BY DEF OpSeq

LEMMA OutIs == \A q, v : Out(q, v).dir = "out" /\ Out(q, v).port = q /\ Out(q, v).v = v
BY DEF Out

LEMMA InIs == \A q, v : In(q, v).dir = "in" /\ In(q, v).port = q /\ In(q, v).v = v
BY DEF In

\* An access of a Winbond object to a Winbond chip.
LEMMA Aimed836Step ==
    ASSUME NEW s \in OpSeq, s # << >>, NEW h, NEW b, Aimed836(s, h, b), NEW h2, NEW b2,
           s[1].dir = "in" => h2 = h /\ b2 = b,
           s[1].dir = "out" => h2 = (IF s[1].port[1] = "addr" THEN s[1].v ELSE h)
                               /\ b2 = (IF s[1].port[1] = "data" /\ h = \h4E THEN s[1].v ELSE b)
    PROVE  Aimed836(Tail(s), h2, b2)
<1>1. PICK t \in OpSeq : t = Tail(s)
  BY TailIs
<1>2. PICK n \in Nat \ {0} : n = Len(s)
  BY TailIs
<1>3. Len(t) = n - 1 /\ \A k \in 1..(n - 1) : t[k] = s[k + 1]
  BY <1>1, <1>2, TailIs
<1>4. ASSUME NEW k \in 1..(n - 1), t[k].dir = "in"
      PROVE  /\ t[k].port = <<"data">> /\ t[k].v \in Places
             /\ IF k = 1 THEN h2 = t[k].v[2] ELSE t[k - 1] = Out(<<"addr">>, t[k].v[2])
             /\ IF k <= 2 THEN b2 = t[k].v[1] ELSE t[k - 2] = Out(<<"data">>, t[k].v[1])
             /\ IF k <= 3 THEN k = 3 => h2 = \h4E ELSE t[k - 3] = Out(<<"addr">>, \h4E)
  <2>1. PICK j \in 2..n : j = k + 1
    OBVIOUS
  <2>2. s[j] = t[k] /\ s[j].dir = "in"
    BY <1>3, <1>4, <2>1
  <2>3. /\ s[j].port = <<"data">> /\ s[j].v \in Places
        /\ s[j - 1] = Out(<<"addr">>, s[j].v[2])
        /\ IF j <= 2 THEN b = s[j].v[1] ELSE s[j - 2] = Out(<<"data">>, s[j].v[1])
        /\ IF j <= 3 THEN j = 3 => h = \h4E ELSE s[j - 3] = Out(<<"addr">>, \h4E)
    BY <1>2, <2>2 DEF Aimed836
  <2>4. CASE k = 1
    <3>1. j = 2 /\ s[1] = Out(<<"addr">>, s[j].v[2])
      BY <2>1, <2>3, <2>4
    <3>2. h2 = s[j].v[2] /\ b2 = b
      BY <3>1, OutIs
    <3> QED BY <2>2, <2>3, <2>4, <3>1, <3>2
  <2>5. CASE k = 2
    <3>1. j = 3 /\ s[2] = Out(<<"addr">>, s[j].v[2]) /\ s[1] = Out(<<"data">>, s[j].v[1]) /\ h = \h4E
      BY <2>1, <2>3, <2>5
    <3>2. b2 = s[j].v[1]
      BY <3>1, OutIs
    <3>3. t[1] = s[2]
      BY <1>3, <2>5
    <3> QED BY <2>2, <2>3, <2>5, <3>1, <3>2, <3>3
  <2>6. CASE k >= 3
    <3>1. t[k - 1] = s[j - 1] /\ t[k - 2] = s[j - 2] /\ (k > 3 => t[k - 3] = s[j - 3])
      BY <1>3, <2>1, <2>6
    <3>2. k = 3 => h2 = \h4E
      <4>1. k = 3 => j = 4 /\ s[1] = Out(<<"addr">>, \h4E)
        BY <2>1, <2>3
      <4> QED BY <4>1, OutIs
    <3> QED BY <2>1, <2>2, <2>3, <2>6, <3>1, <3>2
  <2> QED BY <2>4, <2>5, <2>6
<1> QED BY <1>1, <1>3, <1>4 DEF Aimed836

LEMMA Aimed718Step ==
    ASSUME NEW s \in OpSeq, s # << >>, NEW h, Aimed718(s, h), NEW h2,
           s[1].dir = "in" => h2 = h,
           s[1].dir = "out" => h2 = (IF s[1].port[1] = "addr" THEN s[1].v ELSE h)
    PROVE  Aimed718(Tail(s), h2)
<1>1. PICK t \in OpSeq : t = Tail(s)
  BY TailIs
<1>2. PICK n \in Nat \ {0} : n = Len(s)
  BY TailIs
<1>3. Len(t) = n - 1 /\ \A k \in 1..(n - 1) : t[k] = s[k + 1]
  BY <1>1, <1>2, TailIs
<1>4. ASSUME NEW k \in 1..(n - 1), t[k].dir = "in"
      PROVE  /\ t[k].port = <<"data">> /\ t[k].v \in {0} \X Byte
             /\ IF k = 1 THEN h2 = t[k].v[2] ELSE t[k - 1] = Out(<<"addr">>, t[k].v[2])
  <2>1. PICK j \in 2..n : j = k + 1
    OBVIOUS
  <2>2. s[j] = t[k] /\ s[j].dir = "in"
    BY <1>3, <1>4, <2>1
  <2>3. s[j].port = <<"data">> /\ s[j].v \in {0} \X Byte /\ s[j - 1] = Out(<<"addr">>, s[j].v[2])
    BY <1>2, <2>2 DEF Aimed718
  <2>4. CASE k = 1
    <3>1. j = 2 /\ s[1] = Out(<<"addr">>, s[j].v[2])
      BY <2>1, <2>3, <2>4
    <3>2. h2 = s[j].v[2]
      BY <3>1, OutIs
    <3> QED BY <2>2, <2>3, <2>4, <3>2
  <2>5. CASE k >= 2
    <3>1. t[k - 1] = s[j - 1]
      BY <1>3, <2>1, <2>5
    <3> QED BY <2>2, <2>3, <2>5, <3>1
  <2> QED BY <2>4, <2>5
<1> QED BY <1>1, <1>3, <1>4 DEF Aimed718

LEMMA Aimed87Step ==
    ASSUME NEW s \in OpSeq, s # << >>, Aimed87(s) PROVE Aimed87(Tail(s))
<1>1. PICK t \in OpSeq : t = Tail(s)
  BY TailIs
<1>2. PICK n \in Nat \ {0} : n = Len(s)
  BY TailIs
<1>3. Len(t) = n - 1 /\ \A k \in 1..(n - 1) : t[k] = s[k + 1]
  BY <1>1, <1>2, TailIs
<1>4. ASSUME NEW k \in 1..(n - 1)
      PROVE  /\ t[k].dir = "out" => /\ t[k].port = <<"addr">> /\ k < n - 1
                                    /\ t[k + 1].dir = "in" /\ t[k + 1].port = <<"data">>
             /\ t[k].dir = "in" => t[k].v \in {0} \X (Byte \ {1}) /\ t[k].port \in {<<"data">>, <<"addr">>}
             /\ t[k].dir = "in" /\ t[k].port = <<"data">> => k < n - 1 /\ t[k + 1] = In(<<"addr">>, t[k].v)
             /\ t[k].dir = "in" /\ t[k].port = <<"addr">> /\ k < n - 1 => t[k + 1].dir = "out"
  <2>1. PICK j \in 2..n : j = k + 1
    OBVIOUS
  <2>2. s[j] = t[k] /\ (j < n => t[k + 1] = s[j + 1]) /\ (j < n <=> k < n - 1)
    BY <1>3, <2>1
  <2> QED BY <1>2, <2>1, <2>2 DEF Aimed87
<1> QED BY <1>1, <1>3, <1>4 DEF Aimed87

LEMMA Read836 ==
    ASSUME NEW at
    PROVE  /\ ReadByte836(at)[1] = Out(<<"addr">>, \h4E) /\ ReadByte836(at)[2] = Out(<<"data">>, at[1])
           /\ ReadByte836(at)[3] = Out(<<"addr">>, at[2]) /\ ReadByte836(at)[4] = In(<<"data">>, at)
BY DEF ReadByte836, Select836

LEMMA Read87 ==
    ASSUME NEW at
    PROVE  /\ ReadByte87(at)[1] = Out(<<"addr">>, at[2]) /\ ReadByte87(at)[2] = In(<<"data">>, at)
           /\ ReadByte87(at)[3] = In(<<"addr">>, at)
BY DEF ReadByte87

LEMMA Read718 ==
    ASSUME NEW at
    PROVE  ReadByte718(at)[1] = Out(<<"addr">>, at[2]) /\ ReadByte718(at)[2] = In(<<"data">>, at)
BY DEF ReadByte718

\* The r-th access of the register q + 1.
LEMMA Splits ==
    ASSUME NEW n \in {2, 3, 4}, NEW m \in Nat
    PROVE  /\ \A j \in 1..(n * m) : \E q \in 0..(m - 1), r \in 1..n : j = n * q + r
           /\ \A q \in 0..(m - 1), r \in 1..n, j \in Int :
                  j = n * q + r => j \in 1..(n * m) /\ (j - 1) \div n = q /\ (j - 1) % n = r - 1
<1>1. CASE n = 2
  <2>1. ASSUME NEW j \in 1..(2 * m) PROVE \E q \in 0..(m - 1), r \in 1..2 : j = 2 * q + r
    <3>1. PICK q \in Int, r \in Int : q = (j - 1) \div 2 /\ r = 1 + ((j - 1) % 2)
      OBVIOUS
    <3>2. q \in 0..(m - 1) /\ r \in 1..2 /\ j = 2 * q + r
      BY <3>1
    <3> QED BY <3>2
  <2> QED BY <1>1, <2>1
<1>2. CASE n = 3
  <2>1. ASSUME NEW j \in 1..(3 * m) PROVE \E q \in 0..(m - 1), r \in 1..3 : j = 3 * q + r
    <3>1. PICK q \in Int, r \in Int : q = (j - 1) \div 3 /\ r = 1 + ((j - 1) % 3)
      OBVIOUS
    <3>2. q \in 0..(m - 1) /\ r \in 1..3 /\ j = 3 * q + r
      BY <3>1
    <3> QED BY <3>2
  <2> QED BY <1>2, <2>1
<1>3. CASE n = 4
  <2>1. ASSUME NEW j \in 1..(4 * m) PROVE \E q \in 0..(m - 1), r \in 1..4 : j = 4 * q + r
    <3>1. PICK q \in Int, r \in Int : q = (j - 1) \div 4 /\ r = 1 + ((j - 1) % 4)
      OBVIOUS
    <3>2. q \in 0..(m - 1) /\ r \in 1..4 /\ j = 4 * q + r
      BY <3>1
    <3> QED BY <3>2
  <2> QED BY <1>3, <2>1
<1> QED BY <1>1, <1>2, <1>3

Width(kind) == CASE kind = "W836XX" -> 4 [] kind = "IT87XX" -> 3 [] OTHER -> 2

LEMMA AccessesAre ==
    ASSUME NEW kind, NEW reads \in Seq(Places)
    PROVE  /\ Accesses(kind, reads) \in OpSeq /\ Len(Accesses(kind, reads)) = Width(kind) * Len(reads)
           /\ \A q \in 0..(Len(reads) - 1), r \in 1..Width(kind) :
                  Accesses(kind, reads)[Width(kind) * q + r] = ReadByteOf(kind, reads[q + 1])[r]
<1>0. PICK n \in {2, 3, 4}, m \in Nat, s \in OpSeq : n = Width(kind) /\ m = Len(reads) /\ s = Accesses(kind, reads)
  BY AccessesOps DEF Width
<1>1. s = [j \in 1..(n * m) |-> ReadByteOf(kind, reads[1 + ((j - 1) \div n)])[1 + ((j - 1) % n)]]
  BY <1>0 DEF Accesses, Width
<1>2. n * m \in Nat
  OBVIOUS
<1>3. s \in OpSeq /\ Len(s) = n * m
  <2>1. s \in OpSeq
    BY <1>0, AccessesOps
  <2>2. PICK N \in Nat : N = n * m
    BY <1>2
  <2>3. PICK f : f = [j \in 1..N |-> ReadByteOf(kind, reads[1 + ((j - 1) \div n)])[1 + ((j - 1) % n)]]
    OBVIOUS
  <2>4. DOMAIN f = 1..N /\ f = s /\ f \in Seq(Ops)
    BY <1>1, <2>1, <2>2, <2>3 DEF OpSeq
  <2>5. Len(f) = N
    BY <2>2, <2>4
  <2> QED BY <2>1, <2>2, <2>4, <2>5
<1>4. ASSUME NEW q \in 0..(m - 1), NEW r \in 1..n PROVE s[n * q + r] = ReadByteOf(kind, reads[q + 1])[r]
  <2>1. PICK j \in Int : j = n * q + r
    OBVIOUS
  <2>2. j \in 1..(n * m) /\ (j - 1) \div n = q /\ (j - 1) % n = r - 1
    BY <2>1, Splits
  <2>3. s[j] = ReadByteOf(kind, reads[1 + ((j - 1) \div n)])[1 + ((j - 1) % n)]
    BY <1>1, <2>2
  <2>4. 1 + q = q + 1 /\ 1 + (r - 1) = r
    OBVIOUS
  <2> QED BY <2>1, <2>2, <2>3, <2>4
<1> QED BY <1>0, <1>3, <1>4

\* What ends with an input.
EndsIn(s) == s # << >> => s[Len(s)].dir = "in"

LEMMA Accesses836 ==
    ASSUME NEW reads \in Seq(Places), NEW h, NEW b, NEW s, s = Accesses("W836XX", reads)
    PROVE  /\ Aimed836(s, h, b) /\ EndsIn(s)
           /\ \A k \in 1..Len(s) : s[k].dir = "in" => \E i \in 1..Len(reads) : s[k].v = reads[i]
<1>1. PICK m \in Nat : m = Len(reads)
  OBVIOUS
<1>2. /\ Len(s) = 4 * m /\ s \in OpSeq
      /\ \A q \in 0..(m - 1), r \in 1..4 : s[4 * q + r] = ReadByte836(reads[q + 1])[r]
  <2>1. Width("W836XX") = 4 /\ \A at : ReadByteOf("W836XX", at) = ReadByte836(at)
    BY DEF ReadByteOf, Width
  <2>2. /\ s \in OpSeq /\ Len(s) = Width("W836XX") * m
        /\ \A q \in 0..(m - 1), r \in 1..Width("W836XX") :
               s[Width("W836XX") * q + r] = ReadByteOf("W836XX", reads[q + 1])[r]
    BY <1>1, AccessesAre, Zenon
  <2> QED BY <2>1, <2>2, Zenon
<1>3. ASSUME NEW k \in 1..(4 * m), s[k].dir = "in"
      PROVE  \E q \in 0..(m - 1) :
                 /\ k = 4 * q + 4 /\ s[k] = In(<<"data">>, reads[q + 1])
                 /\ s[k - 1] = Out(<<"addr">>, reads[q + 1][2]) /\ s[k - 2] = Out(<<"data">>, reads[q + 1][1])
                 /\ s[k - 3] = Out(<<"addr">>, \h4E)
  <2>1. PICK q \in 0..(m - 1), r \in 1..4 : k = 4 * q + r
    BY Splits
  <2>2. PICK at : at = reads[q + 1]
    OBVIOUS
  <2>3. /\ s[4 * q + 1] = Out(<<"addr">>, \h4E) /\ s[4 * q + 2] = Out(<<"data">>, at[1])
        /\ s[4 * q + 3] = Out(<<"addr">>, at[2]) /\ s[4 * q + 4] = In(<<"data">>, at)
    <3>1. \A i \in 1..4 : s[4 * q + i] = ReadByte836(at)[i]
      BY <1>2, <2>1, <2>2
    <3>2. {1, 2, 3, 4} \subseteq 1..4
      OBVIOUS
    <3>3. /\ s[4 * q + 1] = ReadByte836(at)[1] /\ s[4 * q + 2] = ReadByte836(at)[2]
          /\ s[4 * q + 3] = ReadByte836(at)[3] /\ s[4 * q + 4] = ReadByte836(at)[4]
      BY <3>1, <3>2, Zenon
    <3>4. /\ ReadByte836(at)[1] = Out(<<"addr">>, \h4E) /\ ReadByte836(at)[2] = Out(<<"data">>, at[1])
          /\ ReadByte836(at)[3] = Out(<<"addr">>, at[2]) /\ ReadByte836(at)[4] = In(<<"data">>, at)
      BY Read836
    <3> QED BY <3>3, <3>4, Zenon
  <2>4. r = 4
    BY <1>3, <2>1, <2>3, OutIs
  <2>5. k = 4 * q + 4 /\ k - 1 = 4 * q + 3 /\ k - 2 = 4 * q + 2 /\ k - 3 = 4 * q + 1
    BY <2>1, <2>4
  <2>6. /\ k = 4 * q + 4 /\ s[k] = In(<<"data">>, reads[q + 1])
        /\ s[k - 1] = Out(<<"addr">>, reads[q + 1][2]) /\ s[k - 2] = Out(<<"data">>, reads[q + 1][1])
        /\ s[k - 3] = Out(<<"addr">>, \h4E)
    BY <2>2, <2>3, <2>5, Zenon
  <2> QED BY <2>1, <2>6, Zenon
<1>4. ASSUME NEW k \in 1..Len(s), s[k].dir = "in"
      PROVE  /\ s[k].port = <<"data">> /\ s[k].v \in Places
             /\ IF k = 1 THEN h = s[k].v[2] ELSE s[k - 1] = Out(<<"addr">>, s[k].v[2])
             /\ IF k <= 2 THEN b = s[k].v[1] ELSE s[k - 2] = Out(<<"data">>, s[k].v[1])
             /\ IF k <= 3 THEN k = 3 => h = \h4E ELSE s[k - 3] = Out(<<"addr">>, \h4E)
             /\ \E i \in 1..Len(reads) : s[k].v = reads[i]
  <2>1. PICK q \in 0..(m - 1) :
                 /\ k = 4 * q + 4 /\ s[k] = In(<<"data">>, reads[q + 1])
                 /\ s[k - 1] = Out(<<"addr">>, reads[q + 1][2]) /\ s[k - 2] = Out(<<"data">>, reads[q + 1][1])
                 /\ s[k - 3] = Out(<<"addr">>, \h4E)
    BY <1>2, <1>3, <1>4
  <2>2. k > 3 /\ q + 1 \in 1..Len(reads)
    <3>1. q + 1 \in 1..m /\ 4 * q + 4 > 3
      OBVIOUS
    <3>2. k = 4 * q + 4
      BY <2>1
    <3> QED BY <1>1, <3>1, <3>2
  <2>3. s[k].v = reads[q + 1] /\ s[k].port = <<"data">> /\ reads[q + 1] \in Places
    BY <2>1, <2>2, InIs
  <2> QED BY <2>1, <2>2, <2>3
<1>5. EndsIn(s)
  <2>1. ASSUME s # << >> PROVE s[Len(s)].dir = "in"
    <3>1. m # 0
      BY <1>2, <2>1, TailIs
    <3>2. s[4 * (m - 1) + 4] = In(<<"data">>, reads[(m - 1) + 1])
      <4>1. m - 1 \in 0..(m - 1)
        BY <3>1
      <4>2. \A q \in 0..(m - 1) : s[4 * q + 4] = ReadByte836(reads[q + 1])[4]
        BY <1>2
      <4> QED BY <4>1, <4>2, Read836
    <3>3. 4 * (m - 1) + 4 = Len(s)
      BY <1>2
    <3> QED BY <3>2, <3>3, InIs
  <2> QED BY <2>1 DEF EndsIn
<1> QED BY <1>4, <1>5 DEF Aimed836

LEMMA Accesses718 ==
    ASSUME NEW kind, kind \notin {"W836XX", "IT87XX"}, NEW reads \in Seq({0} \X (Byte \ {1})), NEW h,
           NEW s, s = Accesses(kind, reads)
    PROVE  Aimed718(s, h)
<1>0. reads \in Seq(Places)
  <2>1. \A a \in {0} \X (Byte \ {1}) : a \in Places
    BY DEF Places, Byte
  <2> QED BY <2>1
<1>1. PICK m \in Nat : m = Len(reads)
  OBVIOUS
<1>2. /\ Len(s) = 2 * m /\ s \in OpSeq
      /\ \A q \in 0..(m - 1), r \in 1..2 : s[2 * q + r] = ReadByte718(reads[q + 1])[r]
  <2>1. Width(kind) = 2 /\ \A at : ReadByteOf(kind, at) = ReadByte718(at)
    BY DEF ReadByteOf, Width
  <2>2. /\ s \in OpSeq /\ Len(s) = Width(kind) * m
        /\ \A q \in 0..(m - 1), r \in 1..Width(kind) :
               s[Width(kind) * q + r] = ReadByteOf(kind, reads[q + 1])[r]
    <3>1. /\ Accesses(kind, reads) \in OpSeq /\ Len(Accesses(kind, reads)) = Width(kind) * Len(reads)
          /\ \A q \in 0..(Len(reads) - 1), r \in 1..Width(kind) :
                 Accesses(kind, reads)[Width(kind) * q + r] = ReadByteOf(kind, reads[q + 1])[r]
      BY <1>0, AccessesAre
    <3> QED BY <1>1, <3>1, Zenon
  <2> QED BY <2>1, <2>2, Zenon
<1>3. ASSUME NEW k \in 1..(2 * m), s[k].dir = "in"
      PROVE  \E q \in 0..(m - 1) :
                 k = 2 * q + 2 /\ s[k] = In(<<"data">>, reads[q + 1]) /\ s[k - 1] = Out(<<"addr">>, reads[q + 1][2])
  <2>1. PICK q \in 0..(m - 1), r \in 1..2 : k = 2 * q + r
    BY Splits
  <2>2. PICK at : at = reads[q + 1]
    OBVIOUS
  <2>3. s[2 * q + 1] = Out(<<"addr">>, at[2]) /\ s[2 * q + 2] = In(<<"data">>, at)
    <3>1. \A i \in 1..2 : s[2 * q + i] = ReadByte718(at)[i]
      BY <1>2, <2>1, <2>2
    <3>2. {1, 2} \subseteq 1..2
      OBVIOUS
    <3> QED BY <3>1, <3>2, Read718
  <2>4. r = 2
    BY <1>3, <2>1, <2>3, OutIs
  <2>5. k = 2 * q + 2 /\ k - 1 = 2 * q + 1
    BY <2>1, <2>4
  <2> QED BY <2>2, <2>3, <2>5
<1>4. ASSUME NEW k \in 1..Len(s), s[k].dir = "in"
      PROVE  /\ s[k].port = <<"data">> /\ s[k].v \in {0} \X Byte
             /\ IF k = 1 THEN h = s[k].v[2] ELSE s[k - 1] = Out(<<"addr">>, s[k].v[2])
  <2>1. PICK q \in 0..(m - 1) :
                 k = 2 * q + 2 /\ s[k] = In(<<"data">>, reads[q + 1]) /\ s[k - 1] = Out(<<"addr">>, reads[q + 1][2])
    BY <1>2, <1>3, <1>4
  <2>2. k # 1 /\ q + 1 \in 1..Len(reads)
    <3>1. q + 1 \in 1..m /\ 2 * q + 2 # 1
      OBVIOUS
    <3>2. k = 2 * q + 2
      BY <2>1
    <3> QED BY <1>1, <3>1, <3>2
  <2>3. s[k].v = reads[q + 1] /\ s[k].port = <<"data">> /\ reads[q + 1] \in {0} \X Byte
    BY <2>1, <2>2, InIs
  <2> QED BY <2>1, <2>2, <2>3
<1> QED BY <1>4 DEF Aimed718

LEMMA Accesses87 ==
    ASSUME NEW reads \in Seq({0} \X (Byte \ {1})), NEW s, s = Accesses("IT87XX", reads)
    PROVE  Aimed87(s) /\ (s # << >> => s[1].dir = "out")
<1>0. reads \in Seq(Places)
  <2>1. \A a \in {0} \X (Byte \ {1}) : a \in Places
    BY DEF Places, Byte
  <2> QED BY <2>1
<1>1. PICK m \in Nat : m = Len(reads)
  OBVIOUS
<1>2. /\ Len(s) = 3 * m /\ s \in OpSeq
      /\ \A q \in 0..(m - 1), r \in 1..3 : s[3 * q + r] = ReadByte87(reads[q + 1])[r]
  <2>1. Width("IT87XX") = 3 /\ \A at : ReadByteOf("IT87XX", at) = ReadByte87(at)
    BY DEF ReadByteOf, Width
  <2>2. /\ s \in OpSeq /\ Len(s) = Width("IT87XX") * m
        /\ \A q \in 0..(m - 1), r \in 1..Width("IT87XX") :
               s[Width("IT87XX") * q + r] = ReadByteOf("IT87XX", reads[q + 1])[r]
    BY <1>0, <1>1, AccessesAre, Zenon
  <2> QED BY <2>1, <2>2, Zenon
<1>3. ASSUME NEW q \in 0..(m - 1)
      PROVE  /\ reads[q + 1] \in {0} \X (Byte \ {1})
             /\ s[3 * q + 1] = Out(<<"addr">>, reads[q + 1][2]) /\ s[3 * q + 2] = In(<<"data">>, reads[q + 1])
             /\ s[3 * q + 3] = In(<<"addr">>, reads[q + 1])
  <2>1. \A i \in 1..3 : s[3 * q + i] = ReadByte87(reads[q + 1])[i]
    BY <1>2
  <2>2. {1, 2, 3} \subseteq 1..3
    OBVIOUS
  <2>3. q + 1 \in 1..m
    OBVIOUS
  <2> QED BY <1>1, <2>1, <2>2, <2>3, Read87
<1>4. ASSUME NEW k \in 1..(3 * m)
      PROVE  /\ s[k].dir = "out" => /\ s[k].port = <<"addr">> /\ k < 3 * m
                                    /\ s[k + 1].dir = "in" /\ s[k + 1].port = <<"data">>
             /\ s[k].dir = "in" => s[k].v \in {0} \X (Byte \ {1}) /\ s[k].port \in {<<"data">>, <<"addr">>}
             /\ s[k].dir = "in" /\ s[k].port = <<"data">> => k < 3 * m /\ s[k + 1] = In(<<"addr">>, s[k].v)
             /\ s[k].dir = "in" /\ s[k].port = <<"addr">> /\ k < 3 * m => s[k + 1].dir = "out"
  <2>1. PICK q \in 0..(m - 1), r \in 1..3 : k = 3 * q + r
    BY Splits
  <2>2. PICK at \in {0} \X (Byte \ {1}) :
            s[3 * q + 1] = Out(<<"addr">>, at[2]) /\ s[3 * q + 2] = In(<<"data">>, at) /\ s[3 * q + 3] = In(<<"addr">>, at)
    BY <1>3
  <2>3. CASE r = 1
    <3>1. k = 3 * q + 1 /\ k + 1 = 3 * q + 2 /\ k < 3 * m
      BY <2>1, <2>3
    <3> QED BY <2>2, <3>1, OutIs, InIs
  <2>4. CASE r = 2
    <3>1. k = 3 * q + 2 /\ k + 1 = 3 * q + 3 /\ k < 3 * m
      BY <2>1, <2>4
    <3> QED BY <2>2, <3>1, InIs
  <2>5. CASE r = 3
    <3>1. k = 3 * q + 3
      BY <2>1, <2>5
    <3>2. k < 3 * m => s[k + 1].dir = "out"
      <4>1. HAVE k < 3 * m
      <4>2. PICK q2 \in 0..(m - 1) : q2 = q + 1
        BY <3>1, <4>1
      <4>3. k + 1 = 3 * q2 + 1
        BY <3>1, <4>2
      <4>4. s[3 * q2 + 1] = Out(<<"addr">>, reads[q2 + 1][2])
        BY <1>3
      <4>5. s[3 * q2 + 1].dir = "out"
        BY <4>4, OutIs
      <4> QED BY <4>3, <4>5
    <3>3. s[k] = In(<<"addr">>, at)
      BY <2>2, <3>1
    <3>4. s[k].dir = "in" /\ s[k].port = <<"addr">> /\ s[k].v = at
      BY <3>3, InIs
    <3>5. <<"addr">> # <<"data">>
      OBVIOUS
    <3> QED BY <3>2, <3>4, <3>5
  <2> QED BY <2>3, <2>4, <2>5
<1>5. ASSUME s # << >> PROVE s[1].dir = "out"
  <2>1. m # 0
    BY <1>2, <1>5, TailIs
  <2>2. 0 \in 0..(m - 1) /\ 3 * 0 + 1 = 1
    BY <2>1
  <2>3. s[3 * 0 + 1] = Out(<<"addr">>, reads[0 + 1][2])
    BY <1>3, <2>2, Zenon
  <2> QED BY <2>2, <2>3, OutIs
<1> QED BY <1>2, <1>4, <1>5 DEF Aimed87
-----------------------------------------------------------------------------
(* What has been read.                                                      *)

AllRight(g) == IsSeq(g) /\ \A k \in 1..Len(g) : g[k].want = g[k].from

\* Of an ITE object with the script s still to do and the chip at register h:
\* where the address was read back and is the right one, the byte before it
\* is right; the byte whose address is still to be read is right, or the
\* address has been moved.
Got87(s, g, h) ==
    /\ IsSeq(g)
    /\ \A k \in 1..Len(g) : k % 2 = 0 /\ g[k].val = g[k].want[2] =>
           g[k].want = g[k].from /\ g[k - 1].want = g[k - 1].from
    /\ IF s # << >> /\ s[1].dir = "in" /\ s[1].port = <<"addr">>
       THEN Len(g) % 2 = 1 /\ g[Len(g)].want = s[1].v /\ (g[Len(g)].from = s[1].v \/ h # s[1].v[2])
       ELSE Len(g) % 2 = 0

LEMMA AppendAt ==
    ASSUME NEW s, IsSeq(s), NEW e
    PROVE  /\ IsSeq(Append(s, e)) /\ Len(Append(s, e)) = Len(s) + 1 /\ Append(s, e)[Len(s) + 1] = e
           /\ \A k \in 1..Len(s) : Append(s, e)[k] = s[k]
<1>1. PICK n \in Nat : n = Len(s)
  BY DEF IsSeq
<1>2. PICK S : S = {s[k] : k \in 1..n} \cup {e}
  OBVIOUS
<1>3. s = [k \in 1..n |-> s[k]] /\ \A k \in 1..n : s[k] \in S
  BY <1>1, <1>2 DEF IsSeq
<1>4. s \in Seq(S) /\ e \in S
  BY <1>2, <1>3
<1> QED BY <1>4, AppendIs

LEMMA RightMore ==
    ASSUME NEW g, AllRight(g), NEW r, r.want = r.from PROVE AllRight(Append(g, r))
<1>1. PICK n \in Nat : n = Len(g)
  BY DEF AllRight, IsSeq
<1>2. PICK f : f = Append(g, r)
  OBVIOUS
<1>3. IsSeq(f) /\ Len(f) = n + 1 /\ f[n + 1] = r /\ \A k \in 1..n : f[k] = g[k]
  BY <1>1, <1>2, AppendAt DEF AllRight
<1>4. ASSUME NEW k \in 1..(n + 1) PROVE f[k].want = f[k].from
  <2>1. CASE k = n + 1
    BY <1>3, <2>1
  <2>2. CASE k \in 1..n
    BY <1>1, <1>3, <2>2 DEF AllRight
  <2> QED BY <2>1, <2>2
<1> QED BY <1>2, <1>3, <1>4 DEF AllRight

LEMMA Input836 ==
    ASSUME NEW s \in OpSeq, s # << >>, NEW h, NEW b, Aimed836(s, h, b), s[1].dir = "in"
    PROVE  s[1].v = <<b, h>>
<1>1. 1 \in 1..Len(s)
  BY TailIs
<1>2. s[1].v \in Places /\ h = s[1].v[2] /\ b = s[1].v[1]
  BY <1>1 DEF Aimed836
<1> QED BY <1>2 DEF Places

LEMMA Input718 ==
    ASSUME NEW s \in OpSeq, s # << >>, NEW h, Aimed718(s, h), s[1].dir = "in"
    PROVE  s[1].v = <<0, h>>
<1>1. 1 \in 1..Len(s)
  BY TailIs
<1>2. s[1].v \in {0} \X Byte /\ h = s[1].v[2]
  BY <1>1 DEF Aimed718
<1> QED BY <1>2

\* An access of an ITE object: the address is written, ...
LEMMA Address87 ==
    ASSUME NEW s \in OpSeq, s # << >>, Aimed87(s), NEW g, NEW h, Got87(s, g, h), NEW h2, s[1].dir = "out"
    PROVE  Got87(Tail(s), g, h2)
<1>1. PICK t \in OpSeq : t = Tail(s)
  BY TailIs
<1>2. PICK n \in Nat \ {0} : n = Len(s)
  BY TailIs
<1>3. Len(t) = n - 1 /\ \A k \in 1..(n - 1) : t[k] = s[k + 1]
  BY <1>1, <1>2, TailIs
<1>4. 1 \in 1..n /\ 1 < n /\ s[1 + 1].port = <<"data">>
  BY <1>2 DEF Aimed87
<1>5. t[1].port = <<"data">>
  BY <1>3, <1>4
<1>6. Len(g) % 2 = 0
  BY DEF Got87
<1> QED BY <1>1, <1>5, <1>6 DEF Got87

\* ... the byte is read, ...
LEMMA Data87 ==
    ASSUME NEW s \in OpSeq, s # << >>, Aimed87(s), NEW g, NEW h, Got87(s, g, h),
           s[1].dir = "in", s[1].port = <<"data">>, NEW r, r.want = s[1].v, r.from = <<0, h>>
    PROVE  Got87(Tail(s), Append(g, r), h)
<1>1. PICK t \in OpSeq : t = Tail(s)
  BY TailIs
<1>2. PICK n \in Nat \ {0} : n = Len(s)
  BY TailIs
<1>3. Len(t) = n - 1 /\ \A k \in 1..(n - 1) : t[k] = s[k + 1]
  BY <1>1, <1>2, TailIs
<1>4. /\ 1 \in 1..n /\ 1 < n /\ s[1 + 1] = In(<<"addr">>, s[1].v)
      /\ s[1].v \in {0} \X (Byte \ {1})
  BY <1>2 DEF Aimed87
<1>5. t # << >> /\ t[1] = In(<<"addr">>, s[1].v)
  BY <1>3, <1>4
<1>6. t[1].dir = "in" /\ t[1].port = <<"addr">> /\ t[1].v = s[1].v
  BY <1>5, InIs
<1>7. PICK m \in Nat : m = Len(g)
  BY DEF Got87, IsSeq
<1>8. <<"addr">> # <<"data">>
  OBVIOUS
<1>9. m % 2 = 0 /\ IsSeq(g)
  BY <1>7, <1>8 DEF Got87
<1>10. PICK f : f = Append(g, r)
  OBVIOUS
<1>11. IsSeq(f) /\ Len(f) = m + 1 /\ f[m + 1] = r /\ \A k \in 1..m : f[k] = g[k]
  BY <1>7, <1>9, <1>10, AppendAt
<1>12. ASSUME NEW k \in 1..(m + 1), k % 2 = 0, f[k].val = f[k].want[2]
       PROVE  f[k].want = f[k].from /\ f[k - 1].want = f[k - 1].from
  <2>1. k \in 1..m /\ k - 1 \in 1..m
    BY <1>9, <1>12
  <2> QED BY <1>7, <1>11, <1>12, <2>1 DEF Got87
<1>13. (m + 1) % 2 = 1
  BY <1>9
<1>14. r.from = s[1].v \/ h # s[1].v[2]
  BY <1>4
<1> QED BY <1>1, <1>5, <1>6, <1>10, <1>11, <1>12, <1>13, <1>14 DEF Got87

\* ... and the address is read back.
LEMMA Back87 ==
    ASSUME NEW s \in OpSeq, s # << >>, Aimed87(s), NEW g, NEW h, Got87(s, g, h),
           s[1].dir = "in", s[1].port = <<"addr">>, NEW r, r.want = s[1].v, r.from = <<0, h>>, r.val = h
    PROVE  Got87(Tail(s), Append(g, r), h)
<1>1. PICK t \in OpSeq : t = Tail(s)
  BY TailIs
<1>2. PICK n \in Nat \ {0} : n = Len(s)
  BY TailIs
<1>3. Len(t) = n - 1 /\ \A k \in 1..(n - 1) : t[k] = s[k + 1]
  BY <1>1, <1>2, TailIs
<1>4. 1 \in 1..n /\ (1 < n => s[1 + 1].dir = "out") /\ s[1].v \in {0} \X (Byte \ {1})
  BY <1>2 DEF Aimed87
<1>5. t # << >> => t[1].dir = "out"
  <2>1. HAVE t # << >>
  <2>2. Len(t) # 0
    BY <2>1 DEF OpSeq
  <2>3. 1 \in 1..(n - 1) /\ 1 < n
    BY <1>3, <2>2
  <2> QED BY <1>3, <1>4, <2>3
<1>6. PICK m \in Nat : m = Len(g)
  BY DEF Got87, IsSeq
<1>7. m % 2 = 1 /\ IsSeq(g) /\ g[m].want = s[1].v /\ (g[m].from = s[1].v \/ h # s[1].v[2])
  BY <1>6 DEF Got87
<1>8. PICK f : f = Append(g, r)
  OBVIOUS
<1>9. IsSeq(f) /\ Len(f) = m + 1 /\ f[m + 1] = r /\ \A k \in 1..m : f[k] = g[k]
  BY <1>6, <1>7, <1>8, AppendAt
<1>10. ASSUME NEW k \in 1..(m + 1), k % 2 = 0, f[k].val = f[k].want[2]
       PROVE  f[k].want = f[k].from /\ f[k - 1].want = f[k - 1].from
  <2>1. CASE k \in 1..m
    <3>1. k - 1 \in 1..m
      BY <1>10, <2>1
    <3> QED BY <1>6, <1>9, <1>10, <2>1, <3>1 DEF Got87
  <2>2. CASE k = m + 1
    <3>1. k - 1 = m /\ m \in 1..m /\ f[k] = r /\ f[m] = g[m]
      BY <1>7, <1>9, <2>2
    <3>2. h = s[1].v[2]
      BY <1>10, <3>1
    <3>3. s[1].v = <<0, h>>
      BY <1>4, <3>2
    <3> QED BY <1>7, <3>1, <3>2, <3>3
  <2> QED BY <2>1, <2>2
<1>11. (m + 1) % 2 = 0
  BY <1>7
<1> QED BY <1>1, <1>5, <1>8, <1>9, <1>10, <1>11 DEF Got87
-----------------------------------------------------------------------------
(* The chip and its object.                                                 *)

\* What a read or the object that is being read with has to be right about:
\* in the kept sensors and in what is on the way there.
Aim(kind, s, g, h, b) ==
    CASE kind = "W836XX" -> Aimed836(s, h, b) /\ AllRight(g)
      [] kind = "IT87XX" -> Aimed87(s) /\ Got87(s, g, h)
      [] OTHER -> Aimed718(s, h) /\ AllRight(g)

EndsIn1(s, g) == IF s = << >> THEN g # << >> ELSE s[Len(s)].dir = "in"

\* The count of the fan n of a Winbond chip is being read.
CountRead(n, s, g, bd) ==
    /\ IsSeq(g) /\ EndsIn1(s, g)
    /\ \A k \in 1..Len(s) : s[k].dir = "in" => s[k].v = WIN_FAN_TACHO[n]
    /\ \A k \in 1..Len(g) : g[k].want = WIN_FAN_TACHO[n]
                            /\ (bd.fans[n] = 0 /\ g[k].from = WIN_FAN_TACHO[n] => g[k].val = 255)

Vendor == ReadByte836(<<\h80, \h4F>>) \o ReadByte836(<<0, \h4F>>)

\* k accesses of the constructor of W836XX have been done.
VendorAt(k, s, g) ==
    /\ Len(s) = 8 - k /\ \A j \in 1..(8 - k) : s[j] = Vendor[k + j]
    /\ IsSeq(g) /\ Len(g) = IF k < 4 THEN 0 ELSE IF k < 8 THEN 1 ELSE 2
    /\ \A j \in 1..Len(g) : g[j].val = IF j = 1 THEN \h5C ELSE \hA3

\* The chip's id is being read, or there is none.
Values(bd) == {"none", "other", "1934", bd.model, bd.addr, bd.gpio}
IdRead(s, g, bd) ==
    /\ IsSeq(g) /\ EndsIn1(s, g)
    /\ \A k \in 1..Len(s) : s[k].dir = "in" => s[k].port \in {<<"value", 1>>, <<"value", 2>>}
    /\ \A k \in 1..Len(g) : g[k] \in Values(bd)

\* The object o of a program at w fits the chip.
ObjectOK(w, o, bd, i) ==
    /\ o.kind = "W836XX" => bd.family = "winbond" /\ (o.inited \/ ~bd.vendor \/ i > 0)
    /\ o.kind = "IT87XX" => bd.family = "ite"
    /\ o.kind = "F718XX" => bd.family = "fintek" /\ o.inited
    /\ w \in {"update", "reading", "writing", "updated"} => o.kind # "null"

\* What detection knows of the chip.
ProbeOK(w, s, g, bd, h, b, i) ==
    /\ w = "it id" => IdRead(s, g, bd)
    /\ w \in {"it address", "it vendor", "it config"} => bd.model \in IT87Chips
    /\ w \in {"w vendor", "w source"} => bd.model \in W836Chips
    /\ w = "w vendor" /\ i = 0 /\ bd.vendor => Aimed836(s, h, b) /\ \E k \in 0..8 : VendorAt(k, s, g)

ReadOK(w, kind, s, g, its, bd, h, b, i) ==
    w = "reading" /\ (bd.family = "ite" \/ i = 0) =>
        /\ Aim(kind, s, g, h, b)
        /\ kind = "W836XX" /\ its[1].type = "fan" => CountRead(its[1].n, s, g, bd)

KeptOK(kept, bd, i) ==
    bd.family = "ite" \/ i = 0 =>
        \A j \in DOMAIN kept : \A k \in DOMAIN kept[j].reads : kept[j].reads[k].want = kept[j].reads[k].from

UndefOK(p, w, u, bd, i) ==
    /\ "pointer" \in u => p = Dialog /\ w = "failed"
    /\ "object" \in u => bd.family = "winbond" /\ (~bd.vendor \/ i > 0)
    /\ "fans" \in u => bd.model \in THFChips /\ (bd.fans[4] # 0 \/ bd.fans[5] # 0 \/ i > 0)
    /\ "description" \in u => bd.family = "ite" /\ bd.temps \cap 4..5 # {}

ProgramOK(p) ==
    /\ ObjectOK(pc[p], obj[p], board, intruded)
    /\ ProbeOK(pc[p], script[p], got[p], board, hindex, bank, intruded)
    /\ ReadOK(pc[p], obj[p].kind, script[p], got[p], items[p], board, hindex, bank, intruded)
    /\ KeptOK(sensors[p], board, intruded)
    /\ UndefOK(p, pc[p], undef[p], board, intruded)

ChipInv ==
    /\ board \in Boards /\ intruded \in Nat
    /\ board.family # "winbond" => bank = 0
    /\ DOMAIN got = Programs /\ DOMAIN undef = Programs
    /\ \A p \in Programs : ProgramOK(p)

\* f2 differs from f only at p.
Only(p, f, f2) == DOMAIN f2 = Programs /\ \A q \in Programs : q # p => f2[q] = f[q]

Rest(p) ==
    /\ Only(p, pc, pc') /\ Only(p, obj, obj') /\ Only(p, script, script') /\ Only(p, got, got')
    /\ Only(p, items, items') /\ Only(p, sensors, sensors') /\ Only(p, undef, undef')
    /\ UNCHANGED <<board, intruded>>

LEMMA OnlyIs ==
    ASSUME NEW p \in Programs, NEW f, DOMAIN f = Programs
    PROVE  Only(p, f, f) /\ \A e : Only(p, f, [f EXCEPT ![p] = e]) /\ [f EXCEPT ![p] = e][p] = e
BY DEF Only

LEMMA OnlySome ==
    ASSUME NEW p \in Programs, NEW f, DOMAIN f = Programs, NEW f2, f2 = f \/ \E e : f2 = [f EXCEPT ![p] = e]
    PROVE  Only(p, f, f2)
<1>1. CASE f2 = f
  BY <1>1, OnlyIs
<1>2. ASSUME NEW e, f2 = [f EXCEPT ![p] = e] PROVE Only(p, f, f2)
  BY <1>2, OnlyIs
<1> QED BY <1>1, <1>2

LEMMA Domains ==
    ASSUME SharedInv, TypeInv, ChipInv
    PROVE  /\ DOMAIN pc = Programs /\ DOMAIN obj = Programs /\ DOMAIN script = Programs /\ DOMAIN got = Programs
           /\ DOMAIN items = Programs /\ DOMAIN sensors = Programs /\ DOMAIN undef = Programs
BY DEF SharedInv, DeviceInv, TypeInv, ScriptsTyped, ObjectsTyped, ReadingTyped, ChipInv

\* A step of p: who holds the mutex may use the chip.
LEMMA ChipGoal ==
    ASSUME SharedInv, ChipInv, NEW p \in Programs, Rest(p), UNCHANGED <<hindex, bank>> \/ owner = p,
           board.family # "winbond" => bank' = 0,
           ObjectOK(pc'[p], obj'[p], board, intruded),
           ProbeOK(pc'[p], script'[p], got'[p], board, hindex', bank', intruded),
           ReadOK(pc'[p], obj'[p].kind, script'[p], got'[p], items'[p], board, hindex', bank', intruded),
           KeptOK(sensors'[p], board, intruded),
           UndefOK(p, pc'[p], undef'[p], board, intruded)
    PROVE  ChipInv'
<1>1. UNCHANGED <<board, intruded>> /\ DOMAIN got' = Programs /\ DOMAIN undef' = Programs
  BY DEF Rest, Only
<1>2. ProgramOK(p)'
  BY <1>1 DEF ProgramOK
<1>3. ASSUME NEW q \in Programs, q # p PROVE ProgramOK(q)'
  <2>1. /\ pc'[q] = pc[q] /\ obj'[q] = obj[q] /\ script'[q] = script[q] /\ got'[q] = got[q]
        /\ items'[q] = items[q] /\ sensors'[q] = sensors[q] /\ undef'[q] = undef[q]
    BY <1>3 DEF Rest, Only
  <2>2. ProgramOK(q)
    BY DEF ChipInv
  <2>3. CASE UNCHANGED <<hindex, bank>>
    BY <1>1, <2>1, <2>2, <2>3 DEF ProgramOK
  <2>4. CASE owner = p
    <3>1. pc[q] \notin Locked
      BY <1>3, <2>4 DEF SharedInv, MutexInv
    <3>2. pc[q] \notin {"reading", "w vendor"}
      BY <3>1 DEF Locked
    <3>3. ReadOK(pc[q], obj[q].kind, script[q], got[q], items[q], board, hindex', bank', intruded)
      BY <3>2 DEF ReadOK
    <3>4. ProbeOK(pc[q], script[q], got[q], board, hindex', bank', intruded)
      BY <2>2, <3>2 DEF ProbeOK, ProgramOK
    <3> QED BY <1>1, <2>1, <2>2, <3>3, <3>4 DEF ProgramOK
  <2> QED BY <2>3, <2>4
<1> QED BY <1>1, <1>2, <1>3 DEF ChipInv

\* The places where nothing is known of the chip.
Plain == {"off", "failed", "open", "stop", "delete", "create", "start", "reopen", "cpu", "idle", "temps", "temp",
          "lpcio", "wf id", "wf exit", "wf address", "it exit", "smsc id", "smsc exit", "detected", "created",
          "shown", "close", "exit"}

\* A step of p to such a place.
LEMMA ChipPlain ==
    ASSUME SharedInv, ChipInv, NEW p \in Programs, Rest(p), UNCHANGED <<hindex, bank>>, pc'[p] \in Plain,
           obj'[p] \in {obj[p], NoObject} \/ ObjectOK(pc'[p], obj'[p], board, intruded),
           sensors'[p] \in {sensors[p], << >>}, undef'[p] = {} \/ (undef'[p] = undef[p] /\ pc[p] # "failed")
    PROVE  ChipInv'
<1>1. ProgramOK(p) /\ (board.family # "winbond" => bank' = 0)
  BY DEF ChipInv
<1>2. ObjectOK(pc'[p], obj'[p], board, intruded)
  <2>1. pc'[p] \notin {"update", "reading", "writing", "updated"}
    BY DEF Plain
  <2>2. CASE obj'[p] = obj[p]
    BY <1>1, <2>1, <2>2 DEF ProgramOK, ObjectOK
  <2>3. NoObject.kind = "null"
    BY DEF NoObject
  <2>4. CASE obj'[p] = NoObject
    BY <2>1, <2>3, <2>4 DEF ObjectOK
  <2> QED BY <2>2, <2>4
<1>3. ProbeOK(pc'[p], script'[p], got'[p], board, hindex', bank', intruded)
  BY DEF ProbeOK, Plain
<1>4. ReadOK(pc'[p], obj'[p].kind, script'[p], got'[p], items'[p], board, hindex', bank', intruded)
  BY DEF ReadOK, Plain
<1>5. KeptOK(sensors'[p], board, intruded)
  BY <1>1 DEF ProgramOK, KeptOK
<1>6. UndefOK(p, pc'[p], undef'[p], board, intruded)
  BY <1>1 DEF ProgramOK, UndefOK
<1> QED BY <1>1, <1>2, <1>3, <1>4, <1>5, <1>6, ChipGoal

LEMMA ChipDevice ==
    ASSUME SharedInv, TypeInv, ChipInv, NEW p \in Programs, Device(p) PROVE ChipInv'
<1>1. UNCHANGED <<board, intruded, hindex, bank, obj, script, got, items, sensors, undef>>
  BY DEF Device, hardware, lpc, update
<1>2. PICK w \in Plain : Goto(p, w) /\ pc[p] # "failed"
  BY DEF Device, Begin, Open, RemoveStops, RemoveWinIoDriver, InstallWinIoDriver, StartWinIoDriver, Reopen,
         Opens, NotOpened, Close, Plain
<1>3. Rest(p) /\ pc'[p] = w
  BY <1>1, <1>2, Domains, OnlyIs DEF Rest, Goto
<1> QED BY <1>1, <1>2, <1>3, ChipPlain

LEMMA ChipEnded ==
    ASSUME SharedInv, TypeInv, ChipInv, NEW p \in Programs, Goto(p, "off"), Forget(p) PROVE ChipInv'
<1>1. /\ script' = [script EXCEPT ![p] = << >>] /\ got' = [got EXCEPT ![p] = << >>]
      /\ obj' = [obj EXCEPT ![p] = NoObject] /\ items' = [items EXCEPT ![p] = << >>]
      /\ sensors' = [sensors EXCEPT ![p] = << >>] /\ undef' = [undef EXCEPT ![p] = {}]
      /\ pc' = [pc EXCEPT ![p] = "off"] /\ UNCHANGED <<board, intruded, hindex, bank>>
  BY DEF Forget, hardware, Goto
<1>2. Rest(p)
  BY <1>1, Domains, OnlyIs DEF Rest
<1>3. pc'[p] = "off" /\ obj'[p] = NoObject /\ sensors'[p] = << >> /\ undef'[p] = {}
  BY <1>1, Domains, OnlyIs
<1>4. "off" \in Plain
  BY DEF Plain
<1> QED BY <1>1, <1>2, <1>3, <1>4, ChipPlain

LEMMA ChipShown ==
    ASSUME SharedInv, TypeInv, ChipInv, NEW p \in Programs, Shown(p) PROVE ChipInv'
<1>1. PICK w : w = CASE p = Dialog -> "idle" [] p = Console /\ left' = 0 -> "close" [] OTHER -> "temps"
  OBVIOUS
<1>2. /\ pc[p] = "shown" /\ pc' = [pc EXCEPT ![p] = w] /\ UNCHANGED <<board, intruded, hindex, bank, script, items, undef>>
      /\ sensors' = [sensors EXCEPT ![p] = << >>] /\ got' = [got EXCEPT ![p] = << >>]
      /\ obj' = [obj EXCEPT ![p] = NoObject]
  BY <1>1 DEF Shown, hardware, Goto
<1>3. w \in Plain
  <2>1. w \in {"idle", "close", "temps"}
    BY <1>1
  <2> QED BY <2>1 DEF Plain
<1>4. Rest(p)
  BY <1>2, Domains, OnlyIs DEF Rest
<1>5. pc'[p] = w /\ obj'[p] = NoObject /\ sensors'[p] = << >>
  BY <1>2, Domains, OnlyIs
<1> QED BY <1>2, <1>3, <1>4, <1>5, ChipPlain

\* The steps between two places of a program that change nothing else here.
LEMMA ChipSteps ==
    ASSUME SharedInv, TypeInv, ChipInv, NEW p \in Programs,
           InitCPUSenor(p) \/ OnRefresh(p) \/ OnCancel(p) \/ SelectCore(p) \/ ReadSelectedTemp(p) \/ ReadTemp(p)
           \/ Created(p) \/ Updated(p)
    PROVE  ChipInv'
<1>1. UNCHANGED <<board, intruded, hindex, bank, obj, script, got, items, sensors, undef>>
  <2>1. CASE SelectCore(p) \/ ReadSelectedTemp(p) \/ ReadTemp(p)
    BY <2>1 DEF SelectCore, Selected, ReadSelectedTemp, ReadTemp, NextCore, hardware, lpc, update
  <2> QED BY <2>1 DEF InitCPUSenor, OnRefresh, OnCancel, Created, Updated, hardware, lpc, update
<1>2. \/ \E w \in Plain : Goto(p, w) /\ pc[p] # "failed"
      \/ Goto(p, "update") /\ pc[p] # "failed" /\ (pc[p] = "updated" \/ obj[p].kind # "null")
  <2>1. CASE SelectCore(p) \/ ReadSelectedTemp(p) \/ ReadTemp(p)
    BY <2>1 DEF SelectCore, Selects, Selected, ReadSelectedTemp, ReadTemp, NextCore, Plain
  <2> QED BY <2>1 DEF InitCPUSenor, OnRefresh, OnCancel, Created, Updated, Plain
<1>3. ASSUME NEW w, Goto(p, w) PROVE Rest(p) /\ pc'[p] = w
  BY <1>1, <1>3, Domains, OnlyIs DEF Rest, Goto
<1>4. CASE \E w \in Plain : Goto(p, w) /\ pc[p] # "failed"
  BY <1>1, <1>3, <1>4, ChipPlain
<1>5. CASE Goto(p, "update") /\ pc[p] # "failed" /\ (pc[p] = "updated" \/ obj[p].kind # "null")
  <2>1. Rest(p) /\ pc'[p] = "update"
    BY <1>3, <1>5
  <2>2. ProgramOK(p) /\ (board.family # "winbond" => bank' = 0)
    BY <1>1 DEF ChipInv
  <2>3. ObjectOK("update", obj[p], board, intruded)
    BY <1>5, <2>2 DEF ProgramOK, ObjectOK
  <2>4. ProbeOK("update", script[p], got[p], board, hindex, bank, intruded)
    BY DEF ProbeOK
  <2>5. ReadOK("update", obj[p].kind, script[p], got[p], items[p], board, hindex, bank, intruded)
    BY DEF ReadOK
  <2>6. KeptOK(sensors[p], board, intruded) /\ UndefOK(p, "update", undef[p], board, intruded)
    BY <1>5, <2>2 DEF ProgramOK, UndefOK
  <2> QED BY <1>1, <2>1, <2>2, <2>3, <2>4, <2>5, <2>6, ChipGoal
<1> QED BY <1>2, <1>4, <1>5

LEMMA ChipUnopened ==
    ASSUME SharedInv, TypeInv, ChipInv, NEW p \in Programs, RefreshUnopened(p) PROVE ChipInv'
<1>1. /\ UNCHANGED <<board, intruded, hindex, bank, pc, obj, script, got, items, sensors>>
      /\ p = Dialog /\ pc[p] = "failed" /\ undef' = [undef EXCEPT ![p] = undef[p] \cup {"pointer"}]
  BY DEF RefreshUnopened, hardware, lpc
<1>2. Rest(p) /\ undef'[p] = undef[p] \cup {"pointer"}
  BY <1>1, Domains, OnlyIs DEF Rest
<1>3. ProgramOK(p) /\ (board.family # "winbond" => bank' = 0)
  BY <1>1 DEF ChipInv
<1>4. UndefOK(p, pc'[p], undef'[p], board, intruded)
  BY <1>1, <1>2, <1>3 DEF ProgramOK, UndefOK
<1> QED BY <1>1, <1>2, <1>3, <1>4, ChipGoal DEF ProgramOK

\* An ITE object is not deceived: no register it reads is at 1.
LEMMA Moved87 ==
    ASSUME NEW s \in OpSeq, Aimed87(s), NEW g, NEW h, Got87(s, g, h) PROVE Got87(s, g, 1)
<1>1. ASSUME s # << >>, s[1].dir = "in" PROVE 1 # s[1].v[2]
  <2>1. 1 \in 1..Len(s)
    BY <1>1, TailIs
  <2>2. s[1].v \in {0} \X (Byte \ {1})
    BY <1>1, <2>1 DEF Aimed87
  <2> QED BY <2>2
<1> QED BY <1>1 DEF Got87

LEMMA ChipIntrude ==
    ASSUME TypeInv, ChipInv, Intrude, UNCHANGED <<pc, os, lpc, update>> PROVE ChipInv'
<1>1. /\ intruded' = intruded + 1 /\ hindex' = 1
      /\ UNCHANGED <<board, bank, pc, obj, script, got, items, sensors, undef>>
  BY DEF Intrude, lpc, update
<1>2. intruded' \in Nat /\ intruded' > 0 /\ intruded' # 0
  BY <1>1 DEF ChipInv
<1>3. ASSUME NEW q \in Programs PROVE ProgramOK(q)'
  <2>1. ProgramOK(q)
    BY DEF ChipInv
  <2>2. ObjectOK(pc[q], obj[q], board, intruded')
    BY <1>2, <2>1 DEF ProgramOK, ObjectOK
  <2>3. ProbeOK(pc[q], script[q], got[q], board, 1, bank, intruded')
    BY <1>2, <2>1 DEF ProgramOK, ProbeOK
  <2>4. ReadOK(pc[q], obj[q].kind, script[q], got[q], items[q], board, 1, bank, intruded')
    <3>1. SUFFICES ASSUME pc[q] = "reading", board.family = "ite"
                   PROVE  /\ Aim(obj[q].kind, script[q], got[q], 1, bank)
                          /\ obj[q].kind = "W836XX" /\ items[q][1].type = "fan"
                                 => CountRead(items[q][1].n, script[q], got[q], board)
      BY <1>2 DEF ReadOK
    <3>2. obj[q].kind \in {"null", "W836XX", "IT87XX", "F718XX"}
      BY DEF TypeInv, ObjectsTyped, Objects
    <3>3. obj[q].kind = "IT87XX"
      BY <2>1, <3>1, <3>2 DEF ProgramOK, ObjectOK
    <3>4. Aim(obj[q].kind, script[q], got[q], hindex, bank)
      BY <2>1, <3>1 DEF ProgramOK, ReadOK
    <3>5. script[q] \in OpSeq
      BY DEF TypeInv, ScriptsTyped
    <3>6. Aimed87(script[q]) /\ Got87(script[q], got[q], hindex)
      BY <3>3, <3>4 DEF Aim
    <3>7. Aimed87(script[q]) /\ Got87(script[q], got[q], 1)
      BY <3>5, <3>6, Moved87
    <3> QED BY <3>3, <3>7 DEF Aim
  <2>5. KeptOK(sensors[q], board, intruded')
    BY <1>2, <2>1 DEF ProgramOK, KeptOK
  <2>6. UndefOK(q, pc[q], undef[q], board, intruded')
    BY <1>2, <2>1 DEF ProgramOK, UndefOK
  <2> QED BY <1>1, <2>2, <2>3, <2>4, <2>5, <2>6 DEF ProgramOK
<1> QED BY <1>1, <1>2, <1>3 DEF ChipInv

\* What a step of p through the ports does.
LEMMA PortIs ==
    ASSUME SharedInv, TypeInv, ChipInv, NEW p \in Programs, PortAccess(p), UNCHANGED update
    PROVE  /\ script[p] \in OpSeq /\ script[p] # << >> /\ script[p][1] \in Ops /\ owner = p
           /\ script'[p] = Tail(script[p]) /\ Rest(p)
           /\ UNCHANGED <<pc, obj, items, sensors, undef>>
           /\ script[p][1].dir = "in" =>
                  /\ UNCHANGED <<hindex, bank>> /\ got'[p] = Append(got[p], ResultOf(script[p][1]))
           /\ script[p][1].dir = "out" =>
                  /\ got'[p] = got[p]
                  /\ hindex' = IF script[p][1].port[1] = "addr" THEN script[p][1].v ELSE hindex
                  /\ bank' = IF script[p][1].port[1] = "data" /\ hindex = \h4E /\ board.family = "winbond"
                             THEN script[p][1].v ELSE bank
           /\ board.family # "winbond" => bank' = 0
<1>1. script[p] \in OpSeq /\ script[p] # << >>
  BY DEF PortAccess, TypeInv, ScriptsTyped
<1>2. owner = p
  BY <1>1 DEF SharedInv, MutexInv, Asks
<1>3. PICK op : op = script[p][1]
  OBVIOUS
<1>4. op \in Ops /\ Head(script[p]) = op
  BY <1>1, <1>3 DEF OpSeq
<1>5. /\ Access(op) /\ script' = [script EXCEPT ![p] = Tail(script[p])]
      /\ got' = (IF op.dir = "in" THEN [got EXCEPT ![p] = Append(got[p], ResultOf(op))] ELSE got)
      /\ UNCHANGED <<pc, obj, items, sensors, undef>>
  BY <1>4 DEF PortAccess, update
<1>6. script'[p] = Tail(script[p])
  BY <1>5, Domains, OnlyIs
<1>7. /\ op.dir = "in" => UNCHANGED <<hindex, bank, board, intruded>>
      /\ op.dir = "out" =>
             /\ hindex' = IF op.port[1] = "addr" THEN op.v ELSE hindex
             /\ bank' = IF op.port[1] = "data" /\ hindex = \h4E /\ board.family = "winbond" THEN op.v ELSE bank
             /\ UNCHANGED <<board, intruded>>
  <2>1. CASE op.dir = "in"
    BY <1>5, <2>1 DEF Access, hardware
  <2>2. CASE op.dir = "out" /\ op.port[1] = "index"
    BY <1>5, <2>2 DEF Access, WriteIndex
  <2>3. CASE op.dir = "out" /\ op.port[1] = "value"
    BY <1>5, <2>3 DEF Access, WriteValue
  <2>4. CASE op.dir = "out" /\ op.port[1] \notin {"index", "value"}
    BY <1>5, <2>4 DEF Access, WriteMonitor
  <2> QED BY <2>1, <2>2, <2>3, <2>4
<1>8. op.dir \in {"in", "out"}
  BY <1>4 DEF Ops
<1>9. (op.dir = "in" => got'[p] = Append(got[p], ResultOf(op))) /\ (op.dir = "out" => got'[p] = got[p])
  BY <1>5, Domains, OnlyIs
<1>10. Only(p, got, got')
  BY <1>5, Domains, OnlyIs
<1>11. UNCHANGED <<board, intruded>> /\ (board.family # "winbond" => bank' = 0)
  BY <1>7, <1>8 DEF ChipInv
<1>12. Rest(p)
  BY <1>5, <1>10, <1>11, Domains, OnlyIs DEF Rest
<1> QED BY <1>1, <1>2, <1>3, <1>4, <1>5, <1>6, <1>7, <1>9, <1>11, <1>12

LEMMA ResultIs ==
    ASSUME NEW op
    PROVE  /\ op.port = <<"addr">> => /\ ResultOf(op).want = op.v /\ ResultOf(op).from = <<bank, hindex>>
                                      /\ ResultOf(op).val = hindex
           /\ op.port = <<"data">> => /\ ResultOf(op).want = op.v /\ ResultOf(op).from = <<bank, hindex>>
                                      /\ ResultOf(op).val = MonitorValue(<<bank, hindex>>)
           /\ op.port \in {<<"value", 1>>, <<"value", 2>>} => ResultOf(op) \in Values(board)
<1>1. ConfigValue \in Values(board)
  BY DEF ConfigValue, Values
<1>2. "none" \in Values(board)
  BY DEF Values
<1>3. ASSUME op.port = <<"addr">>
      PROVE  ResultOf(op) = [want |-> op.v, from |-> <<bank, hindex>>, val |-> hindex]
  BY <1>3 DEF ResultOf
<1>4. ASSUME op.port = <<"data">>
      PROVE  ResultOf(op) = [want |-> op.v, from |-> <<bank, hindex>>, val |-> MonitorValue(<<bank, hindex>>)]
  BY <1>4 DEF ResultOf
<1>5. ASSUME op.port \in {<<"value", 1>>, <<"value", 2>>} PROVE ResultOf(op) \in Values(board)
  BY <1>1, <1>2, <1>5 DEF ResultOf
<1> QED BY <1>3, <1>4, <1>5

\* A fan that stands still counts without end.
LEMMA CountIs ==
    ASSUME NEW n \in Fans, board.family = "winbond", board.fans[n] = 0 PROVE MonitorValue(WIN_FAN_TACHO[n]) = 255
<1>1. \A i \in Fans : WIN_FAN_TACHO[n] # <<0, WIN_FAN_BIT_REG[i]>>
  BY DEF Fans, WIN_FAN_TACHO, WIN_FAN_BIT_REG
<1>2. \A m \in Fans : WIN_FAN_TACHO[n] = WIN_FAN_TACHO[m] => m = n
  BY DEF Fans, WIN_FAN_TACHO
<1>3. (CHOOSE m \in Fans : WIN_FAN_TACHO[n] = WIN_FAN_TACHO[m]) = n
  BY <1>2
<1>4. \A d : CountAt(n, d) = 255
  BY DEF CountAt
<1>5. PICK at : at = WIN_FAN_TACHO[n]
  OBVIOUS
<1>6. PICK m : m = CHOOSE i \in Fans : at = WIN_FAN_TACHO[i]
  OBVIOUS
<1>7. /\ \A i \in Fans : at # <<0, WIN_FAN_BIT_REG[i]>>
      /\ \E i \in Fans : at = WIN_FAN_TACHO[i]
      /\ at # <<\h80, \h4F>> /\ at # <<0, \h4F>>
  BY <1>1, <1>5 DEF Fans, WIN_FAN_TACHO
<1>8. MonitorValue(at) = CountAt(m, DivOf(BitsOf(fanreg), m))
  BY <1>6, <1>7 DEF MonitorValue
<1>9. m = n
  BY <1>3, <1>5, <1>6
<1> QED BY <1>4, <1>5, <1>8, <1>9

LEMMA VendorIs ==
    ASSUME board.family = "winbond", board.vendor
    PROVE  MonitorValue(<<\h80, \h4F>>) = \h5C /\ MonitorValue(<<0, \h4F>>) = \hA3
<1>1. \A i \in Fans : <<\h80, \h4F>> # <<0, WIN_FAN_BIT_REG[i]>> /\ <<0, \h4F>> # <<0, WIN_FAN_BIT_REG[i]>>
  BY DEF Fans, WIN_FAN_BIT_REG
<1>2. \A i \in Fans : <<\h80, \h4F>> # WIN_FAN_TACHO[i] /\ <<0, \h4F>> # WIN_FAN_TACHO[i]
  BY DEF Fans, WIN_FAN_TACHO
<1> QED BY <1>1, <1>2 DEF MonitorValue

LEMMA EndsStep ==
    ASSUME NEW s \in OpSeq, s # << >>, NEW g, EndsIn1(s, g), NEW g2, s[1].dir = "in" => g2 # << >>
    PROVE  EndsIn1(Tail(s), g2)
<1>1. PICK t \in OpSeq : t = Tail(s)
  BY TailIs
<1>2. PICK n \in Nat \ {0} : n = Len(s)
  BY TailIs
<1>3. Len(t) = n - 1 /\ \A k \in 1..(n - 1) : t[k] = s[k + 1]
  BY <1>1, <1>2, TailIs
<1>4. s[n].dir = "in"
  BY <1>2 DEF EndsIn1
<1>5. CASE t = << >>
  <2>1. n = 1
    BY <1>3, <1>5
  <2> QED BY <1>1, <1>4, <1>5, <2>1 DEF EndsIn1
<1>6. CASE t # << >>
  <2>1. n - 1 \in 1..(n - 1) /\ (n - 1) + 1 = n
    BY <1>3, <1>6 DEF OpSeq
  <2>2. t[n - 1] = s[n]
    BY <1>3, <2>1
  <2> QED BY <1>1, <1>3, <1>4, <1>6, <2>2 DEF EndsIn1
<1> QED BY <1>5, <1>6

LEMMA AppendSome ==
    ASSUME NEW g, IsSeq(g), NEW r PROVE Append(g, r) # << >>
<1>1. Len(Append(g, r)) = Len(g) + 1 /\ Len(g) \in Nat
  BY AppendAt DEF IsSeq
<1> QED BY <1>1

LEMMA IdStep ==
    ASSUME NEW s \in OpSeq, s # << >>, NEW g, NEW bd, IdRead(s, g, bd), NEW g2, NEW r,
           s[1].dir = "in" => g2 = Append(g, r) /\ (s[1].port \in {<<"value", 1>>, <<"value", 2>>} => r \in Values(bd)),
           s[1].dir = "out" => g2 = g, s[1].dir \in {"in", "out"}
    PROVE  IdRead(Tail(s), g2, bd)
<1>1. PICK t \in OpSeq : t = Tail(s)
  BY TailIs
<1>2. PICK n \in Nat \ {0} : n = Len(s)
  BY TailIs
<1>3. Len(t) = n - 1 /\ \A k \in 1..(n - 1) : t[k] = s[k + 1]
  BY <1>1, <1>2, TailIs
<1>4. \A k \in 1..(n - 1) : t[k].dir = "in" => t[k].port \in {<<"value", 1>>, <<"value", 2>>}
  <2>1. TAKE k \in 1..(n - 1)
  <2>2. k + 1 \in 1..n
    OBVIOUS
  <2> QED BY <1>2, <1>3, <2>2 DEF IdRead
<1>5. IsSeq(g) /\ EndsIn1(s, g)
  BY DEF IdRead
<1>6. EndsIn1(t, g2)
  BY <1>1, <1>5, EndsStep, AppendSome
<1>7. IsSeq(g2) /\ \A k \in 1..Len(g2) : g2[k] \in Values(bd)
  <2>1. CASE s[1].dir = "out"
    BY <2>1 DEF IdRead
  <2>2. CASE s[1].dir = "in"
    <3>1. 1 \in 1..n
      BY <1>2
    <3>2. r \in Values(bd) /\ g2 = Append(g, r)
      BY <1>2, <2>2, <3>1 DEF IdRead
    <3>3. PICK m \in Nat : m = Len(g)
      BY <1>5 DEF IsSeq
    <3>4. IsSeq(g2) /\ Len(g2) = m + 1 /\ g2[m + 1] = r /\ \A k \in 1..m : g2[k] = g[k]
      BY <1>5, <3>2, <3>3, AppendAt
    <3>5. \A k \in 1..m : g2[k] \in Values(bd)
      BY <3>3, <3>4 DEF IdRead
    <3>6. \A k \in 1..(m + 1) : g2[k] \in Values(bd)
      BY <3>2, <3>4, <3>5
    <3> QED BY <3>4, <3>6
  <2> QED BY <2>1, <2>2
<1> QED BY <1>1, <1>3, <1>4, <1>6, <1>7 DEF IdRead

LEMMA CountStep ==
    ASSUME NEW s \in OpSeq, s # << >>, NEW g, NEW bd, NEW n \in Fans, CountRead(n, s, g, bd), NEW g2, NEW r,
           s[1].dir = "in" => /\ g2 = Append(g, r) /\ r.want = s[1].v
                              /\ bd.fans[n] = 0 /\ r.from = WIN_FAN_TACHO[n] => r.val = 255,
           s[1].dir = "out" => g2 = g, s[1].dir \in {"in", "out"}
    PROVE  CountRead(n, Tail(s), g2, bd)
<1> DEFINE Right(e) == /\ e.want = WIN_FAN_TACHO[n]
                       /\ bd.fans[n] = 0 /\ e.from = WIN_FAN_TACHO[n] => e.val = 255
<1>1. PICK t \in OpSeq : t = Tail(s)
  BY TailIs
<1>2. PICK z \in Nat \ {0} : z = Len(s)
  BY TailIs
<1>3. Len(t) = z - 1 /\ \A k \in 1..(z - 1) : t[k] = s[k + 1]
  BY <1>1, <1>2, TailIs
<1>4. \A k \in 1..(z - 1) : t[k].dir = "in" => t[k].v = WIN_FAN_TACHO[n]
  <2>1. TAKE k \in 1..(z - 1)
  <2>2. k + 1 \in 1..z
    OBVIOUS
  <2> QED BY <1>2, <1>3, <2>2 DEF CountRead
<1>5. IsSeq(g) /\ EndsIn1(s, g) /\ \A k \in 1..Len(g) : Right(g[k])
  BY DEF CountRead
<1>6. EndsIn1(t, g2)
  BY <1>1, <1>5, EndsStep, AppendSome
<1>7. s[1].dir = "in" => Right(r)
  <2>1. 1 \in 1..z
    BY <1>2
  <2> QED BY <1>2, <2>1 DEF CountRead
<1> HIDE DEF Right
<1>8. IsSeq(g2) /\ \A k \in 1..Len(g2) : Right(g2[k])
  <2>1. CASE s[1].dir = "out"
    BY <1>5, <2>1
  <2>2. CASE s[1].dir = "in"
    <3>1. PICK m \in Nat : m = Len(g)
      BY <1>5 DEF IsSeq
    <3>2. IsSeq(g2) /\ Len(g2) = m + 1 /\ g2[m + 1] = r /\ \A k \in 1..m : g2[k] = g[k]
      <4>1. g2 = Append(g, r)
        BY <2>2
      <4>2. IsSeq(g)
        BY <1>5
      <4> QED BY <3>1, <4>1, <4>2, AppendAt
    <3>3. \A k \in 1..m : Right(g2[k])
      BY <1>5, <3>1, <3>2
    <3>4. \A k \in 1..(m + 1) : Right(g2[k])
      BY <1>7, <2>2, <3>2, <3>3
    <3> QED BY <3>2, <3>4
  <2> QED BY <2>1, <2>2
<1> QED BY <1>1, <1>3, <1>4, <1>6, <1>8 DEF CountRead, Right

LEMMA VendorOps ==
    /\ Vendor \in OpSeq /\ Len(Vendor) = 8
    /\ Vendor[4] = In(<<"data">>, <<\h80, \h4F>>) /\ Vendor[8] = In(<<"data">>, <<0, \h4F>>)
    /\ \A j \in {1, 2, 3, 5, 6, 7} : Vendor[j].dir = "out"
    /\ \A h, b : Aimed836(Vendor, h, b)
<1>1. <<\h80, \h4F>> \in Places /\ <<0, \h4F>> \in Places
  BY DEF Places, Byte
<1>2. PICK s \in Seq(Ops) : s = ReadByte836(<<\h80, \h4F>>) /\ Len(s) = 4
  BY <1>1, MonitorOps DEF OpSeq
<1>3. PICK t \in Seq(Ops) : t = ReadByte836(<<0, \h4F>>) /\ Len(t) = 4
  BY <1>1, MonitorOps DEF OpSeq
<1>4. PICK v \in Seq(Ops) : v = Vendor /\ v = s \o t /\ Len(v) = 8 /\ \A j \in 1..4 : v[j] = s[j] /\ v[j + 4] = t[j]
  <2>1. Vendor = s \o t
    BY <1>2, <1>3 DEF Vendor
  <2>2. /\ s \o t \in Seq(Ops) /\ Len(s \o t) = Len(s) + Len(t)
        /\ \A j \in 1..(Len(s) + Len(t)) : (s \o t)[j] = IF j <= Len(s) THEN s[j] ELSE t[j - Len(s)]
    BY ConcatProperties
  <2>0. Len(s) = 4 /\ Len(t) = 4
    BY <1>2, <1>3
  <2>6. PICK c : c = s \o t
    OBVIOUS
  <2>3. Len(c) = 4 + 4 /\ \A j \in 1..(4 + 4) : c[j] = IF j <= 4 THEN s[j] ELSE t[j - 4]
    BY <2>0, <2>2, <2>6, Zenon
  <2>4. \A j \in 1..8 : c[j] = IF j <= 4 THEN s[j] ELSE t[j - 4]
    BY <2>3
  <2>5. \A j \in 1..4 : c[j] = s[j] /\ c[j + 4] = t[j]
    <3>1. TAKE j \in 1..4
    <3>2. j \in 1..8 /\ j <= 4 /\ j + 4 \in 1..8 /\ ~(j + 4 <= 4) /\ (j + 4) - 4 = j
      OBVIOUS
    <3> QED BY <2>4, <3>2
  <2>7. c \in Seq(Ops) /\ c = Vendor
    BY <2>1, <2>2, <2>6
  <2>8. Len(c) = 8
    BY <2>3
  <2> QED BY <2>5, <2>6, <2>7, <2>8
<1>5. /\ s[1] = Out(<<"addr">>, \h4E) /\ s[2] = Out(<<"data">>, \h80) /\ s[3] = Out(<<"addr">>, \h4F)
      /\ s[4] = In(<<"data">>, <<\h80, \h4F>>)
  BY <1>2, Read836
<1>6. /\ t[1] = Out(<<"addr">>, \h4E) /\ t[2] = Out(<<"data">>, 0) /\ t[3] = Out(<<"addr">>, \h4F)
      /\ t[4] = In(<<"data">>, <<0, \h4F>>)
  BY <1>3, Read836
<1>7. /\ v[1] = Out(<<"addr">>, \h4E) /\ v[2] = Out(<<"data">>, \h80) /\ v[3] = Out(<<"addr">>, \h4F)
      /\ v[4] = In(<<"data">>, <<\h80, \h4F>>)
  <2>0. {1, 2, 3, 4} \subseteq 1..4
    OBVIOUS
  <2>1. v[1] = s[1] /\ v[2] = s[2] /\ v[3] = s[3] /\ v[4] = s[4]
    BY <1>4, <2>0, Zenon
  <2> QED BY <1>5, <2>1
<1>8. /\ v[5] = Out(<<"addr">>, \h4E) /\ v[6] = Out(<<"data">>, 0) /\ v[7] = Out(<<"addr">>, \h4F)
      /\ v[8] = In(<<"data">>, <<0, \h4F>>)
  <2>0. {1, 2, 3, 4} \subseteq 1..4
    OBVIOUS
  <2>1. v[1 + 4] = t[1] /\ v[2 + 4] = t[2] /\ v[3 + 4] = t[3] /\ v[4 + 4] = t[4]
    BY <1>4, <2>0, Zenon
  <2>2. 1 + 4 = 5 /\ 2 + 4 = 6 /\ 3 + 4 = 7 /\ 4 + 4 = 8
    OBVIOUS
  <2>3. v[5] = t[1] /\ v[6] = t[2] /\ v[7] = t[3] /\ v[8] = t[4]
    BY <2>1, <2>2, Zenon
  <2> QED BY <1>6, <2>3
<1>9. \A j \in {1, 2, 3, 5, 6, 7} : v[j].dir = "out"
  BY <1>7, <1>8, OutIs
<1>10. ASSUME NEW h, NEW b, NEW k \in 1..8, v[k].dir = "in"
       PROVE  /\ v[k].port = <<"data">> /\ v[k].v \in Places /\ k > 3
              /\ v[k - 1] = Out(<<"addr">>, v[k].v[2]) /\ v[k - 2] = Out(<<"data">>, v[k].v[1])
              /\ v[k - 3] = Out(<<"addr">>, \h4E)
  <2>1. k \in {4, 8}
    BY <1>9, <1>10
  <2>2. CASE k = 4
    BY <1>1, <1>7, <2>2, InIs
  <2>3. CASE k = 8
    BY <1>1, <1>8, <2>3, InIs
  <2> QED BY <2>1, <2>2, <2>3
<1>11. ASSUME NEW h, NEW b PROVE Aimed836(v, h, b)
  <2>1. Len(v) = 8
    BY <1>4
  <2>2. \A k \in 1..8 : v[k].dir = "in" => k # 1 /\ ~(k <= 2) /\ ~(k <= 3)
    BY <1>10
  <2> QED BY <1>10, <2>1, <2>2 DEF Aimed836
<1> QED BY <1>4, <1>7, <1>8, <1>9, <1>11 DEF OpSeq

\* What the access op of that script does to g, when an input gives r.
VendorRead(op, g, g2, r) ==
    /\ op.dir = "in" => /\ g2 = Append(g, r)
                        /\ op.v = <<\h80, \h4F>> => r.val = \h5C
                        /\ op.v = <<0, \h4F>> => r.val = \hA3
    /\ op.dir = "out" => g2 = g

LEMMA VendorStep ==
    ASSUME NEW s \in OpSeq, s # << >>, NEW g, NEW k \in 0..8, VendorAt(k, s, g), NEW g2, NEW r,
           VendorRead(s[1], g, g2, r)
    PROVE  k + 1 \in 0..8 /\ VendorAt(k + 1, Tail(s), g2)
<1>1. PICK t \in OpSeq : t = Tail(s)
  BY TailIs
<1>2. PICK n \in Nat \ {0} : n = Len(s)
  BY TailIs
<1>3. Len(t) = n - 1 /\ \A j \in 1..(n - 1) : t[j] = s[j + 1]
  BY <1>1, <1>2, TailIs
<1>4. n = 8 - k /\ k + 1 \in 1..8 /\ k \in 0..7
  BY <1>2 DEF VendorAt
<1>5. \A j \in 1..(8 - k) : s[j] = Vendor[k + j]
  BY DEF VendorAt
<1>6. s[1] = Vendor[k + 1]
  BY <1>4, <1>5
<1>7. Len(t) = 8 - (k + 1) /\ \A j \in 1..(8 - (k + 1)) : t[j] = Vendor[(k + 1) + j]
  <2>1. Len(t) = 8 - (k + 1)
    BY <1>3, <1>4
  <2>2. ASSUME NEW j \in 1..(8 - (k + 1)) PROVE t[j] = Vendor[(k + 1) + j]
    <3>1. j \in 1..(n - 1) /\ j + 1 \in 1..(8 - k) /\ k + (j + 1) = (k + 1) + j
      BY <1>4
    <3> QED BY <1>3, <1>5, <3>1
  <2> QED BY <2>1, <2>2
<1>8. PICK m \in Nat : m = Len(g)
  BY DEF VendorAt, IsSeq
<1>9. /\ IsSeq(g) /\ m = IF k < 4 THEN 0 ELSE IF k < 8 THEN 1 ELSE 2
      /\ \A j \in 1..m : g[j].val = IF j = 1 THEN \h5C ELSE \hA3
  BY <1>8 DEF VendorAt
<1>10. CASE k \in {0, 1, 2, 4, 5, 6}
  <2>1. k + 1 \in {1, 2, 3, 5, 6, 7}
    BY <1>10
  <2>2. g2 = g
    BY <1>6, <2>1, VendorOps DEF VendorRead
  <2>3. m = IF k + 1 < 4 THEN 0 ELSE IF k + 1 < 8 THEN 1 ELSE 2
    BY <1>9, <1>10
  <2> QED BY <1>1, <1>4, <1>7, <1>8, <1>9, <2>2, <2>3 DEF VendorAt
<1>11. CASE k \in {3, 7}
  <2>1. /\ s[1].dir = "in" /\ (k = 3 => s[1].v = <<\h80, \h4F>>) /\ (k = 7 => s[1].v = <<0, \h4F>>)
    <3>1. CASE k = 3
      BY <1>6, <3>1, VendorOps, InIs
    <3>2. CASE k = 7
      BY <1>6, <3>2, VendorOps, InIs
    <3> QED BY <1>11, <3>1, <3>2
  <2>2. g2 = Append(g, r) /\ r.val = IF k = 3 THEN \h5C ELSE \hA3
    BY <1>11, <2>1 DEF VendorRead
  <2>3. IsSeq(g2) /\ Len(g2) = m + 1 /\ g2[m + 1] = r /\ \A j \in 1..m : g2[j] = g[j]
    <3>1. IsSeq(g)
      BY <1>9
    <3> QED BY <1>8, <2>2, <3>1, AppendAt
  <2>4. m = IF k = 3 THEN 0 ELSE 1
    BY <1>9, <1>11
  <2>5. \A j \in 1..(m + 1) : g2[j].val = IF j = 1 THEN \h5C ELSE \hA3
    <3>1. TAKE j \in 1..(m + 1)
    <3>2. CASE j = m + 1
      BY <1>11, <2>2, <2>3, <2>4, <3>2
    <3>3. CASE j \in 1..m
      BY <1>9, <2>3, <3>3
    <3> QED BY <3>2, <3>3
  <2>6. m + 1 = IF k + 1 < 4 THEN 0 ELSE IF k + 1 < 8 THEN 1 ELSE 2
    BY <1>11, <2>4
  <2> QED BY <1>1, <1>4, <1>7, <2>3, <2>5, <2>6 DEF VendorAt
<1> QED BY <1>4, <1>10, <1>11

LEMMA ChipPort ==
    ASSUME SharedInv, TypeInv, ChipInv, NEW p \in Programs, PortAccess(p), UNCHANGED update PROVE ChipInv'
<1>1. PICK s \in OpSeq : s = script[p] /\ s # << >>
  BY PortIs
<1>2. PICK g, g2, h, h2, b, b2, r, bd, w, kind, its :
          /\ g = got[p] /\ g2 = got'[p] /\ h = hindex /\ h2 = hindex' /\ b = bank /\ b2 = bank'
          /\ r = ResultOf(s[1]) /\ bd = board /\ w = pc[p] /\ kind = obj[p].kind /\ its = items[p]
  OBVIOUS
<1>3. /\ s[1] \in Ops /\ owner = p /\ script'[p] = Tail(s) /\ Rest(p)
      /\ UNCHANGED <<pc, obj, items, sensors, undef>>
      /\ s[1].dir = "in" => h2 = h /\ b2 = b /\ g2 = Append(g, r)
      /\ s[1].dir = "out" => /\ g2 = g /\ h2 = (IF s[1].port[1] = "addr" THEN s[1].v ELSE h)
                             /\ b2 = IF s[1].port[1] = "data" /\ h = \h4E /\ bd.family = "winbond" THEN s[1].v ELSE b
      /\ bd.family # "winbond" => b = 0 /\ b2 = 0
  BY <1>1, <1>2, PortIs DEF ChipInv
<1>4. s[1].dir \in {"in", "out"}
  BY <1>3 DEF Ops
<1>5. /\ s[1].port = <<"addr">> => r.want = s[1].v /\ r.from = <<b, h>> /\ r.val = h
      /\ s[1].port = <<"data">> => r.want = s[1].v /\ r.from = <<b, h>> /\ r.val = MonitorValue(<<b, h>>)
      /\ s[1].port \in {<<"value", 1>>, <<"value", 2>>} => r \in Values(bd)
  BY <1>2, ResultIs
<1>6. /\ ObjectOK(w, obj[p], bd, intruded) /\ ProbeOK(w, s, g, bd, h, b, intruded)
      /\ ReadOK(w, kind, s, g, its, bd, h, b, intruded)
      /\ KeptOK(sensors[p], bd, intruded) /\ UndefOK(p, w, undef[p], bd, intruded)
  BY <1>1, <1>2 DEF ChipInv, ProgramOK
<1>7. ASSUME bd.family = "winbond", Aimed836(s, h, b)
      PROVE  /\ Aimed836(Tail(s), h2, b2)
             /\ s[1].dir = "in" => /\ s[1].port = <<"data">> /\ s[1].v = <<b, h>> /\ r.want = r.from
                                   /\ r.val = MonitorValue(s[1].v)
  <2>1. Aimed836(Tail(s), h2, b2)
    BY <1>1, <1>3, <1>7, Aimed836Step
  <2>2. s[1].dir = "in" => s[1].port = <<"data">> /\ s[1].v = <<b, h>>
    <3>1. 1 \in 1..Len(s)
      BY <1>1, TailIs
    <3>2. s[1].dir = "in" => s[1].port = <<"data">>
      BY <1>7, <3>1 DEF Aimed836
    <3> QED BY <1>1, <1>7, <3>2, Input836
  <2> QED BY <1>5, <2>1, <2>2
<1>8. ProbeOK(w, Tail(s), g2, bd, h2, b2, intruded)
  <2>1. w = "it id" => IdRead(Tail(s), g2, bd)
    BY <1>1, <1>3, <1>4, <1>5, <1>6, IdStep DEF ProbeOK
  <2>2. ASSUME w = "w vendor", intruded = 0, bd.vendor
        PROVE  Aimed836(Tail(s), h2, b2) /\ \E k \in 0..8 : VendorAt(k, Tail(s), g2)
    <3>1. Aimed836(s, h, b)
      BY <1>6, <2>2 DEF ProbeOK
    <3>2. PICK k \in 0..8 : VendorAt(k, s, g)
      BY <1>6, <2>2 DEF ProbeOK
    <3>3. board \in Boards /\ bd.model \in W836Chips
      BY <1>6, <2>2 DEF ProbeOK, ChipInv
    <3>4. bd.family = "winbond"
      BY <1>2, <3>3, FamiliesAssumption
    <3>5. /\ Aimed836(Tail(s), h2, b2)
          /\ s[1].dir = "in" => r.val = MonitorValue(s[1].v)
      BY <1>7, <3>1, <3>4
    <3>6. MonitorValue(<<\h80, \h4F>>) = \h5C /\ MonitorValue(<<0, \h4F>>) = \hA3
      BY <1>2, <2>2, <3>4, VendorIs
    <3>7. k + 1 \in 0..8 /\ VendorAt(k + 1, Tail(s), g2)
      <4>1. ASSUME s[1].dir = "in", s[1].v = <<\h80, \h4F>> PROVE r.val = \h5C
        <5>1. MonitorValue(s[1].v) = MonitorValue(<<\h80, \h4F>>)
          BY <4>1
        <5> QED BY <3>5, <3>6, <4>1, <5>1
      <4>2. ASSUME s[1].dir = "in", s[1].v = <<0, \h4F>> PROVE r.val = \hA3
        <5>1. MonitorValue(s[1].v) = MonitorValue(<<0, \h4F>>)
          BY <4>2
        <5> QED BY <3>5, <3>6, <4>2, <5>1
      <4>3. VendorRead(s[1], g, g2, r)
        BY <1>3, <4>1, <4>2 DEF VendorRead
      <4> QED BY <1>1, <3>2, <4>3, VendorStep
    <3> QED BY <3>5, <3>7
  <2> QED BY <1>6, <2>1, <2>2 DEF ProbeOK
<1>9. ASSUME w = "reading", bd.family = "ite" \/ intruded = 0
      PROVE  Aim(kind, Tail(s), g2, h2, b2)
             /\ (kind = "W836XX" /\ its[1].type = "fan" => CountRead(its[1].n, Tail(s), g2, bd))
  <2>1. Aim(kind, s, g, h, b) /\ (kind = "W836XX" /\ its[1].type = "fan" => CountRead(its[1].n, s, g, bd))
    BY <1>6, <1>9 DEF ReadOK
  <2>2. kind \in {"W836XX", "IT87XX", "F718XX"}
    <3>1. obj[p].kind \in {"null", "W836XX", "IT87XX", "F718XX"}
      BY DEF TypeInv, ObjectsTyped, Objects
    <3> QED BY <1>2, <1>6, <1>9, <3>1 DEF ObjectOK
  <2>3. CASE kind = "W836XX"
    <3>1. bd.family = "winbond" /\ Aimed836(s, h, b) /\ AllRight(g)
      BY <1>2, <1>6, <2>1, <2>3 DEF ObjectOK, Aim
    <3>2. /\ Aimed836(Tail(s), h2, b2)
          /\ s[1].dir = "in" => r.want = s[1].v /\ r.want = r.from /\ r.val = MonitorValue(s[1].v)
      BY <1>5, <1>7, <3>1
    <3>3. AllRight(g2)
      <4>1. CASE s[1].dir = "in"
        BY <1>3, <3>1, <3>2, <4>1, RightMore
      <4>2. CASE s[1].dir = "out"
        BY <1>3, <3>1, <4>2
      <4> QED BY <1>4, <4>1, <4>2
    <3>4. ASSUME its[1].type = "fan" PROVE CountRead(its[1].n, Tail(s), g2, bd)
      <4>1. its \in Seq(GoodItems(kind)) /\ its # << >>
        BY <1>2, <1>9 DEF TypeInv, ReadingTyped, ReadingOK
      <4>2. its[1] \in GoodItems(kind)
        BY <4>1
      <4>3. PICK n \in Fans : n = its[1].n
        BY <2>3, <3>4, <4>2 DEF GoodItems, GoodItem
      <4>4. bd.fans[n] = 0 /\ r.from = WIN_FAN_TACHO[n] /\ s[1].dir = "in" => r.val = 255
        BY <1>2, <3>1, <3>2, CountIs
      <4>5. CountRead(n, s, g, bd)
        BY <2>1, <2>3, <3>4, <4>3
      <4>6. s[1].dir = "in" => /\ g2 = Append(g, r) /\ r.want = s[1].v
                               /\ bd.fans[n] = 0 /\ r.from = WIN_FAN_TACHO[n] => r.val = 255
        BY <1>3, <3>2, <4>4
      <4>7. s[1].dir = "out" => g2 = g
        BY <1>3
      <4>8. CountRead(n, Tail(s), g2, bd)
        BY <1>1, <1>4, <4>5, <4>6, <4>7, CountStep
      <4> QED BY <4>3, <4>8
    <3> QED BY <2>3, <3>2, <3>3, <3>4 DEF Aim
  <2>4. CASE kind = "IT87XX"
    <3>1. b = 0 /\ Aimed87(s) /\ Got87(s, g, h)
      BY <1>2, <1>3, <1>6, <2>1, <2>4 DEF ObjectOK, Aim
    <3>2. 1 \in 1..Len(s)
      BY <1>1, TailIs
    <3>3. s[1].dir = "in" => s[1].port \in {<<"data">>, <<"addr">>}
      BY <3>1, <3>2 DEF Aimed87
    <3>4. Aimed87(Tail(s))
      BY <1>1, <3>1, Aimed87Step
    <3>5. CASE s[1].dir = "out"
      <4>1. Got87(Tail(s), g, h2)
        BY <1>1, <3>1, <3>5, Address87
      <4>2. g2 = g
        BY <1>3, <3>5
      <4> QED BY <2>4, <3>4, <4>1, <4>2 DEF Aim
    <3>6. CASE s[1].dir = "in" /\ s[1].port = <<"data">>
      <4>1. Got87(Tail(s), Append(g, r), h)
        BY <1>1, <1>5, <3>1, <3>6, Data87
      <4>2. g2 = Append(g, r) /\ h2 = h
        BY <1>3, <3>6
      <4> QED BY <2>4, <3>4, <4>1, <4>2 DEF Aim
    <3>7. CASE s[1].dir = "in" /\ s[1].port = <<"addr">>
      <4>1. Got87(Tail(s), Append(g, r), h)
        BY <1>1, <1>5, <3>1, <3>7, Back87
      <4>2. g2 = Append(g, r) /\ h2 = h
        BY <1>3, <3>7
      <4> QED BY <2>4, <3>4, <4>1, <4>2 DEF Aim
    <3> QED BY <1>4, <3>3, <3>5, <3>6, <3>7
  <2>5. CASE kind = "F718XX"
    <3>1. b = 0 /\ Aimed718(s, h) /\ AllRight(g)
      BY <1>2, <1>3, <1>6, <2>1, <2>5 DEF ObjectOK, Aim
    <3>2. Aimed718(Tail(s), h2)
      BY <1>1, <1>3, <3>1, Aimed718Step
    <3>3. CASE s[1].dir = "in"
      <4>1. 1 \in 1..Len(s)
        BY <1>1, TailIs
      <4>2. s[1].port = <<"data">> /\ s[1].v = <<0, h>>
        BY <1>1, <3>1, <3>3, <4>1, Input718 DEF Aimed718
      <4>3. AllRight(Append(g, r))
        BY <1>5, <3>1, <4>2, RightMore
      <4>4. g2 = Append(g, r)
        BY <1>3, <3>3
      <4> QED BY <2>5, <3>2, <4>3, <4>4 DEF Aim
    <3>4. CASE s[1].dir = "out"
      BY <1>3, <2>5, <3>1, <3>2, <3>4 DEF Aim
    <3> QED BY <1>4, <3>3, <3>4
  <2> QED BY <2>2, <2>3, <2>4, <2>5
<1>10. ReadOK(w, kind, Tail(s), g2, its, bd, h2, b2, intruded)
  BY <1>9 DEF ReadOK
<1> QED BY <1>2, <1>3, <1>6, <1>8, <1>10, ChipGoal

\* A stage of detection begins.
LEMMA StageIs ==
    ASSUME SharedInv, TypeInv, ChipInv, NEW p \in Programs, NEW stage, NEW n, NEW chip, Stage(p, stage, n, chip),
           UNCHANGED update, Only(p, obj, obj')
    PROVE  /\ Rest(p) /\ pc'[p] = stage /\ script'[p] = Script(stage, n, chip) /\ got'[p] = << >>
           /\ UNCHANGED <<hindex, bank, items, sensors, undef>>
<1>1. /\ pc' = [pc EXCEPT ![p] = stage] /\ script' = [script EXCEPT ![p] = Script(stage, n, chip)]
      /\ got' = [got EXCEPT ![p] = << >>] /\ UNCHANGED <<board, intruded, hindex, bank, items, sensors, undef>>
  BY DEF Stage, Goto, hardware, update
<1> QED BY <1>1, Domains, OnlyIs DEF Rest

LEMMA ChipStage ==
    ASSUME SharedInv, TypeInv, ChipInv, NEW p \in Programs, NEW stage, NEW n, NEW chip, Stage(p, stage, n, chip),
           UNCHANGED <<update, obj>>, pc[p] # "failed", stage \notin {"update", "reading", "writing", "updated"},
           ProbeOK(stage, Script(stage, n, chip), << >>, board, hindex, bank, intruded)
    PROVE  ChipInv'
<1>1. Only(p, obj, obj')
  BY Domains, OnlyIs
<1>2. /\ Rest(p) /\ pc'[p] = stage /\ script'[p] = Script(stage, n, chip) /\ got'[p] = << >>
      /\ UNCHANGED <<hindex, bank, items, sensors, undef>>
  BY <1>1, StageIs DEF update
<1>3. ProgramOK(p) /\ (board.family # "winbond" => bank' = 0)
  BY <1>2 DEF ChipInv
<1>4. ObjectOK(stage, obj[p], board, intruded) /\ UndefOK(p, stage, undef[p], board, intruded)
  BY <1>3 DEF ProgramOK, ObjectOK, UndefOK
<1>5. ReadOK(stage, obj[p].kind, Script(stage, n, chip), << >>, items[p], board, hindex, bank, intruded)
  BY DEF ReadOK
<1> QED BY <1>2, <1>3, <1>4, <1>5, ChipGoal DEF ProgramOK

\* A stage that asks nothing of the chip that has to be known.
LEMMA ChipStagePlain ==
    ASSUME SharedInv, TypeInv, ChipInv, NEW p \in Programs, NEW stage \in Plain, NEW n, NEW chip,
           Stage(p, stage, n, chip), UNCHANGED update, pc[p] # "failed",
           UNCHANGED obj \/ \E kind, inited : Detected(p, kind, inited)
                                 /\ ObjectOK(stage, [kind |-> kind, inited |-> inited], board, intruded)
    PROVE  ChipInv'
<1>1. Only(p, obj, obj') /\ (obj'[p] = obj[p] \/ ObjectOK(stage, obj'[p], board, intruded))
  <2>1. CASE UNCHANGED obj
    BY <2>1, Domains, OnlyIs
  <2>2. ASSUME NEW o, obj' = [obj EXCEPT ![p] = o], ObjectOK(stage, o, board, intruded)
        PROVE  Only(p, obj, obj') /\ ObjectOK(stage, obj'[p], board, intruded)
    BY <2>2, Domains, OnlyIs
  <2>3. ASSUME NEW kind, NEW inited, Detected(p, kind, inited),
               ObjectOK(stage, [kind |-> kind, inited |-> inited], board, intruded)
        PROVE  Only(p, obj, obj') /\ ObjectOK(stage, obj'[p], board, intruded)
    BY <2>2, <2>3 DEF Detected
  <2> QED BY <2>1, <2>3
<1>2. /\ Rest(p) /\ pc'[p] = stage /\ UNCHANGED <<hindex, bank, sensors, undef>>
  BY <1>1, StageIs
<1> QED BY <1>1, <1>2, ChipPlain

LEMMA ChipNextPort ==
    ASSUME SharedInv, TypeInv, ChipInv, NEW p \in Programs, NextPort(p), UNCHANGED update, pc[p] # "failed",
           UNCHANGED obj \/ \E kind, inited : Detected(p, kind, inited)
                                 /\ \A w \in Plain : ObjectOK(w, [kind |-> kind, inited |-> inited], board, intruded)
    PROVE  ChipInv'
<1>1. {"wf id", "detected"} \subseteq Plain
  BY DEF Plain
<1>2. Stage(p, "wf id", 2, "none") \/ Stage(p, "detected", 2, "none")
  BY DEF NextPort
<1> QED BY <1>1, <1>2, ChipStagePlain

\* The id of the chip is asked for.
LEMMA IdOps ==
    ASSUME NEW n \in {1, 2}, NEW chip, NEW bd PROVE IdRead(Script("it id", n, chip), << >>, bd)
<1>1. \h20 \in Byte
  BY DEF Byte
<1>2. PICK s \in Seq(Ops) : s = IT87Enter(n) /\ Len(s) = 4
  <2>1. Len(IT87Enter(n)) = 4
    BY DEF IT87Enter
  <2> QED BY <2>1, ConfigOps DEF OpSeq
<1>3. PICK t \in Seq(Ops) : t = ReadByte(n, \h20) /\ Len(t) = 2
  <2>1. Len(ReadByte(n, \h20)) = 2
    BY DEF ReadByte
  <2> QED BY <1>1, <2>1, ConfigOps DEF OpSeq
<1>4. Script("it id", n, chip) = s \o t
  BY <1>2, <1>3 DEF Script
<1>5. PICK c \in Seq(Ops) : c = s \o t /\ Len(c) = 4 + 2 /\ \A j \in 1..(4 + 2) : c[j] = IF j <= 4 THEN s[j] ELSE t[j - 4]
  <2>1. /\ s \o t \in Seq(Ops) /\ Len(s \o t) = Len(s) + Len(t)
        /\ \A j \in 1..(Len(s) + Len(t)) : (s \o t)[j] = IF j <= Len(s) THEN s[j] ELSE t[j - Len(s)]
    BY ConcatProperties
  <2>2. Len(s) = 4 /\ Len(t) = 2
    BY <1>2, <1>3
  <2> QED BY <2>1, <2>2, Zenon
<1>6. s[1].dir = "out" /\ s[2].dir = "out" /\ s[3].dir = "out" /\ s[4].dir = "out"
  <2>1. /\ s[1] = Out(<<"index", n>>, \h87) /\ s[2] = Out(<<"index", n>>, 1)
        /\ s[3] = Out(<<"index", n>>, \h55) /\ s[4] = Out(<<"index", n>>, \h55)
    BY <1>2 DEF IT87Enter
  <2> QED BY <2>1, OutIs
<1>7. t[1].dir = "out" /\ t[2].dir = "in" /\ t[2].port = <<"value", n>>
  <2>1. t[1] = Out(<<"index", n>>, \h20) /\ t[2] = In(<<"value", n>>, \h20)
    BY <1>3 DEF ReadByte
  <2> QED BY <2>1, OutIs, InIs
<1>8. ASSUME NEW j \in 1..6 PROVE c[j].dir = "in" => c[j].port \in {<<"value", 1>>, <<"value", 2>>}
  <2>1. CASE j \in {1, 2, 3, 4}
    <3>1. c[j] = s[j]
      BY <1>5, <2>1
    <3> QED BY <1>6, <2>1, <3>1
  <2>2. CASE j \in {5, 6}
    <3>1. c[j] = t[j - 4] /\ (j = 5 => j - 4 = 1) /\ (j = 6 => j - 4 = 2)
      BY <1>5, <2>2
    <3> QED BY <1>7, <2>2, <3>1
  <2> QED BY <2>1, <2>2
<1>9. c[6].dir = "in"
  <2>1. c[6] = t[6 - 4] /\ 6 - 4 = 2
    BY <1>5
  <2> QED BY <1>7, <2>1
<1>10. Len(c) = 6 /\ c # << >>
  BY <1>5
<1>11. IsSeq(<< >>) /\ Len(<< >>) = 0
  BY DEF IsSeq
<1>12. EndsIn1(c, << >>)
  BY <1>9, <1>10 DEF EndsIn1
<1>13. IdRead(c, << >>, bd)
  BY <1>8, <1>10, <1>11, <1>12 DEF IdRead
<1> QED BY <1>4, <1>5, <1>13

LEMMA ChipTry ==
    ASSUME SharedInv, TypeInv, ChipInv, NEW p \in Programs, TryIT87(p) \/ TrySMSC(p), UNCHANGED update,
           pc[p] # "failed"
    PROVE  ChipInv'
<1>1. port[p] \in {1, 2}
  BY DEF TypeInv, ScriptsTyped
<1>2. UNCHANGED obj /\ (Stage(p, "it id", port[p], "none") \/ Stage(p, "smsc id", port[p], "none"))
  BY DEF TryIT87, TrySMSC
<1>3. CASE Stage(p, "it id", port[p], "none")
  <2>1. IdRead(Script("it id", port[p], "none"), << >>, board)
    BY <1>1, IdOps
  <2>2. ProbeOK("it id", Script("it id", port[p], "none"), << >>, board, hindex, bank, intruded)
    BY <2>1 DEF ProbeOK
  <2> QED BY <1>2, <1>3, <2>2, ChipStage
<1>4. CASE Stage(p, "smsc id", port[p], "none")
  <2>1. "smsc id" \in Plain
    BY DEF Plain
  <2> QED BY <1>2, <1>4, <2>1, ChipStagePlain
<1> QED BY <1>2, <1>3, <1>4

\* What a program at a stage of detection knows.
LEMMA ProbeIs ==
    ASSUME SharedInv, TypeInv, ChipInv, NEW p \in Programs
    PROVE  /\ ProbeOK(pc[p], script[p], got[p], board, hindex, bank, intruded)
           /\ pc[p] \in {"it address", "it vendor", "it config"} => board.model \in IT87Chips /\ board.family = "ite"
           /\ pc[p] \in {"w vendor", "w source"} => board.model \in W836Chips /\ board.family = "winbond"
<1>1. ProbeOK(pc[p], script[p], got[p], board, hindex, bank, intruded) /\ board \in Boards
  BY DEF ChipInv, ProgramOK
<1> QED BY <1>1, FamiliesAssumption DEF ProbeOK

LEMMA ChipWinbondFintek ==
    ASSUME SharedInv, TypeInv, ChipInv, NEW p \in Programs, UNCHANGED update,
           DetectWinbondFintek(p) \/ WinbondUnknown(p) \/ IT87Unknown(p) \/ DetectSMSC(p) \/ SMSCUnknown(p)
    PROVE  ChipInv'
<1>1. pc[p] # "failed"
  BY DEF DetectWinbondFintek, WinbondUnknown, IT87Unknown, DetectSMSC, SMSCUnknown, At
<1>2. \/ \E id : Stage(p, "wf address", port[p], id) /\ UNCHANGED obj
      \/ \E id : Stage(p, "wf exit", port[p], id) /\ UNCHANGED obj
      \/ Stage(p, "smsc exit", port[p], "none") /\ UNCHANGED obj
      \/ TryIT87(p) \/ TrySMSC(p) \/ (NextPort(p) /\ UNCHANGED obj)
  BY DEF DetectWinbondFintek, WinbondUnknown, IT87Unknown, DetectSMSC, SMSCUnknown
<1>3. {"wf address", "wf exit", "smsc exit"} \subseteq Plain
  BY DEF Plain
<1> QED BY <1>1, <1>2, <1>3, ChipStagePlain, ChipTry, ChipNextPort

LEMMA ChipWinbondAddress ==
    ASSUME SharedInv, TypeInv, ChipInv, NEW p \in Programs, UNCHANGED update, WinbondAddress(p) PROVE ChipInv'
<1>1. pc[p] # "failed"
  BY DEF WinbondAddress, At
<1>2. \/ TryIT87(p) \/ (NextPort(p) /\ UNCHANGED obj)
      \/ board.model \in W836Chips /\ Stage(p, "w vendor", port[p], board.model) /\ UNCHANGED obj
      \/ board.model \in F718Chips /\ NextPort(p) /\ Detected(p, "F718XX", TRUE)
  BY DEF WinbondAddress
<1>3. CASE board.model \in W836Chips /\ Stage(p, "w vendor", port[p], board.model) /\ UNCHANGED obj
  <2>1. Script("w vendor", port[p], board.model) = Vendor
    BY DEF Script, Vendor
  <2>2. IsSeq(<< >>) /\ Len(<< >>) = 0
    BY DEF IsSeq
  <2>3. VendorAt(0, Vendor, << >>)
    <3>1. Len(Vendor) = 8 - 0 /\ \A j \in 1..(8 - 0) : Vendor[j] = Vendor[0 + j]
      BY VendorOps
    <3> QED BY <2>2, <3>1 DEF VendorAt
  <2>4. Aimed836(Vendor, hindex, bank) /\ \E k \in 0..8 : VendorAt(k, Vendor, << >>)
    <3>1. 0 \in 0..8
      OBVIOUS
    <3> QED BY <2>3, <3>1, VendorOps
  <2>5. ProbeOK("w vendor", Vendor, << >>, board, hindex, bank, intruded)
    BY <1>3, <2>4 DEF ProbeOK
  <2> QED BY <1>1, <1>3, <2>1, <2>5, ChipStage
<1>4. CASE board.model \in F718Chips /\ NextPort(p) /\ Detected(p, "F718XX", TRUE)
  <2>1. board.family = "fintek"
    BY <1>4, FamiliesAssumption DEF ChipInv
  <2>2. PICK o : o = [kind |-> "F718XX", inited |-> TRUE]
    OBVIOUS
  <2>3. \A w \in Plain : ObjectOK(w, o, board, intruded)
    BY <2>1, <2>2 DEF ObjectOK, Plain
  <2> QED BY <1>1, <1>4, <2>2, <2>3, ChipNextPort
<1> QED BY <1>1, <1>2, <1>3, <1>4, ChipTry, ChipNextPort

LEMMA VendorDone ==
    ASSUME NEW g, NEW k \in 0..8, VendorAt(k, << >>, g) PROVE g[1].val = \h5C /\ g[2].val = \hA3
<1>1. k = 8
  <2>1. Len(<< >>) = 8 - k
    BY DEF VendorAt
  <2> QED BY <2>1
<1>2. Len(g) = 2
  <2>1. Len(g) = IF k < 4 THEN 0 ELSE IF k < 8 THEN 1 ELSE 2
    BY DEF VendorAt
  <2> QED BY <1>1, <2>1
<1>3. \A j \in 1..Len(g) : g[j].val = IF j = 1 THEN \h5C ELSE \hA3
  BY DEF VendorAt
<1> QED BY <1>2, <1>3

\* The vendor id that is read undisturbed from a chip that has it is Winbond's.
LEMMA VendorRight ==
    ASSUME SharedInv, TypeInv, ChipInv, NEW p \in Programs, At(p, "w vendor"), intruded = 0, board.vendor
    PROVE  got[p][1].val = \h5C /\ got[p][2].val = \hA3
<1>1. pc[p] = "w vendor" /\ script[p] = << >>
  BY DEF At
<1>2. ProbeOK("w vendor", << >>, got[p], board, hindex, bank, intruded)
  BY <1>1, ProbeIs
<1>3. \E k \in 0..8 : VendorAt(k, << >>, got[p])
  BY <1>2 DEF ProbeOK
<1> QED BY <1>3, VendorDone

LEMMA ChipWinbondVendor ==
    ASSUME SharedInv, TypeInv, ChipInv, NEW p \in Programs, UNCHANGED update, WinbondVendor(p) \/ WinbondSource(p)
    PROVE  ChipInv'
<1>1. pc[p] # "failed" /\ board.model \in W836Chips /\ board.family = "winbond" /\ intruded \in Nat
  BY ProbeIs DEF WinbondVendor, WinbondSource, At, ChipInv
<1>2. PICK v \in BOOLEAN : v <=> got[p][1].val = \h5C /\ got[p][2].val = \hA3
  OBVIOUS
<1>3. CASE WinbondVendor(p)
  <2>1. \/ Stage(p, "w source", port[p], board.model) /\ UNCHANGED obj
        \/ NextPort(p) /\ obj' = [obj EXCEPT ![p] = [kind |-> "W836XX", inited |-> v]]
    BY <1>2, <1>3 DEF WinbondVendor, Detected
  <2>2. v \/ ~board.vendor \/ intruded > 0
    <3>1. At(p, "w vendor")
      BY <1>3 DEF WinbondVendor
    <3>2. intruded = 0 /\ board.vendor => got[p][1].val = \h5C /\ got[p][2].val = \hA3
      BY <3>1, VendorRight
    <3>3. intruded = 0 \/ intruded > 0
      BY <1>1
    <3> QED BY <1>2, <3>2, <3>3
  <2>3. PICK o : o = [kind |-> "W836XX", inited |-> v]
    OBVIOUS
  <2>4. \A w \in Plain : ObjectOK(w, o, board, intruded)
    BY <1>1, <2>2, <2>3 DEF ObjectOK, Plain
  <2>5. ProbeOK("w source", Script("w source", port[p], board.model), << >>, board, hindex, bank, intruded)
    BY <1>1 DEF ProbeOK
  <2>6. Detected(p, "W836XX", v) <=> obj' = [obj EXCEPT ![p] = [kind |-> "W836XX", inited |-> v]]
    BY DEF Detected
  <2> QED BY <1>1, <2>1, <2>3, <2>4, <2>5, <2>6, ChipStage, ChipNextPort
<1>4. CASE WinbondSource(p)
  <2>1. NextPort(p) /\ Detected(p, "W836XX", TRUE)
    BY <1>4 DEF WinbondSource
  <2>2. PICK o : o = [kind |-> "W836XX", inited |-> TRUE]
    OBVIOUS
  <2>3. \A w \in Plain : ObjectOK(w, o, board, intruded)
    BY <1>1, <2>2 DEF ObjectOK, Plain
  <2> QED BY <1>1, <2>1, <2>2, <2>3, ChipNextPort
<1> QED BY <1>3, <1>4

LEMMA ChipDetectIT87 ==
    ASSUME SharedInv, TypeInv, ChipInv, NEW p \in Programs, UNCHANGED update, DetectIT87(p) PROVE ChipInv'
<1>1. pc[p] = "it id" /\ script[p] = << >>
  BY DEF DetectIT87, At
<1>2. IdRead(<< >>, got[p], board)
  BY <1>1, ProbeIs DEF ProbeOK
<1>3. got[p][1] \in Values(board)
  <2>1. IsSeq(got[p]) /\ got[p] # << >>
    BY <1>2 DEF IdRead, EndsIn1
  <2>2. PICK n \in Nat : n = Len(got[p])
    BY <2>1 DEF IsSeq
  <2>3. n # 0
    <3>1. SUFFICES ASSUME n = 0 PROVE FALSE
      OBVIOUS
    <3>2. got[p] = [k \in 1..0 |-> got[p][k]]
      BY <2>1, <2>2, <3>1 DEF IsSeq
    <3>3. got[p] = << >>
      BY <3>2
    <3> QED BY <2>1, <3>3
  <2>4. 1 \in 1..Len(got[p])
    BY <2>2, <2>3
  <2> QED BY <1>2, <2>4 DEF IdRead
<1>4. board.addr \in {"good", "bad"} /\ board.gpio \in {"good", "bad", "zero"}
  BY FamiliesAssumption DEF ChipInv
<1>5. got[p][1] \in IT87Chips => board.model \in IT87Chips
  BY <1>3, <1>4 DEF Values, IT87Chips
<1>6. \/ \E id : board.model \in IT87Chips /\ Stage(p, "it address", 1, id) /\ UNCHANGED obj
      \/ \E id : Stage(p, "it exit", 1, id) /\ UNCHANGED obj
      \/ TrySMSC(p)
  BY <1>5 DEF DetectIT87
<1>7. ASSUME NEW id, board.model \in IT87Chips, Stage(p, "it address", 1, id), UNCHANGED obj PROVE ChipInv'
  <2>1. ProbeOK("it address", Script("it address", 1, id), << >>, board, hindex, bank, intruded)
    BY <1>7 DEF ProbeOK
  <2> QED BY <1>1, <1>7, <2>1, ChipStage
<1>8. "it exit" \in Plain
  BY DEF Plain
<1> QED BY <1>1, <1>6, <1>7, <1>8, ChipStagePlain, ChipTry

LEMMA ChipIT87 ==
    ASSUME SharedInv, TypeInv, ChipInv, NEW p \in Programs, UNCHANGED update,
           IT87Address(p) \/ IT87Vendor(p) \/ IT87Config(p)
    PROVE  ChipInv'
<1>1. pc[p] # "failed" /\ board.model \in IT87Chips /\ board.family = "ite"
  BY ProbeIs DEF IT87Address, IT87Vendor, IT87Config, At
<1>2. \A s : \A stage \in {"it vendor", "it config"} : ProbeOK(stage, s, << >>, board, hindex, bank, intruded)
  BY <1>1 DEF ProbeOK
<1>3. \A v : \A w \in Plain : ObjectOK(w, [kind |-> "IT87XX", inited |-> v], board, intruded)
  <2>1. ASSUME NEW v, NEW w \in Plain PROVE ObjectOK(w, [kind |-> "IT87XX", inited |-> v], board, intruded)
    <3>1. PICK o : o = [kind |-> "IT87XX", inited |-> v]
      OBVIOUS
    <3>2. ObjectOK(w, o, board, intruded)
      BY <1>1, <3>1 DEF ObjectOK, Plain
    <3> QED BY <3>1, <3>2
  <2> QED BY <2>1
<1>4. CASE IT87Address(p)
  <2>1. (Stage(p, "it vendor", 1, board.model) /\ UNCHANGED obj) \/ TrySMSC(p)
    BY <1>4 DEF IT87Address
  <2> QED BY <1>1, <1>2, <2>1, ChipStage, ChipTry
<1>5. CASE IT87Vendor(p)
  <2>1. (Stage(p, "it config", 1, board.model) /\ UNCHANGED obj) \/ (NextPort(p) /\ Detected(p, "IT87XX", FALSE))
    BY <1>5 DEF IT87Vendor
  <2> QED BY <1>1, <1>2, <1>3, <2>1, ChipStage, ChipNextPort
<1>6. CASE IT87Config(p)
  <2>1. PICK v \in BOOLEAN : v <=> Bit(got[p][1].val, 4) = 1 /\ got[p][2].val = 0
    OBVIOUS
  <2>2. NextPort(p) /\ obj' = [obj EXCEPT ![p] = [kind |-> "IT87XX", inited |-> v]]
    BY <1>6, <2>1 DEF IT87Config, Detected
  <2>3. Detected(p, "IT87XX", v)
    BY <2>2 DEF Detected
  <2> QED BY <1>1, <1>3, <2>2, <2>3, ChipNextPort
<1> QED BY <1>4, <1>5, <1>6

LEMMA ChipDetection ==
    ASSUME SharedInv, TypeInv, ChipInv, NEW p \in Programs, Detection(p) PROVE ChipInv'
<1>1. LpcNext(p) /\ UNCHANGED update
  BY DEF Detection
<1>2. CASE CreateLPCIO(p)
  <2>1. /\ pc[p] = "lpcio" /\ obj' = [obj EXCEPT ![p] = NoObject]
        /\ UNCHANGED <<board, intruded, hindex, bank, items, sensors, undef>>
        /\ pc' = [pc EXCEPT ![p] = "wf id"] \/ pc' = [pc EXCEPT ![p] = "created"]
        /\ script' = script \/ \E s : script' = [script EXCEPT ![p] = s]
        /\ got' = got \/ \E g : got' = [got EXCEPT ![p] = g]
    BY <1>1, <1>2 DEF CreateLPCIO, At, Goto, hardware, update
  <2>2. Only(p, pc, pc') /\ pc'[p] \in {"wf id", "created"}
    <3>1. PICK w : w \in {"wf id", "created"} /\ pc' = [pc EXCEPT ![p] = w]
      BY <2>1
    <3>2. DOMAIN pc = Programs
      BY Domains
    <3> QED BY <3>1, <3>2, OnlyIs
  <2>3. Only(p, script, script') /\ Only(p, got, got') /\ Only(p, obj, obj') /\ obj'[p] = NoObject
    <3>1. DOMAIN script = Programs /\ DOMAIN got = Programs /\ DOMAIN obj = Programs
      BY Domains
    <3>2. Only(p, script, script')
      BY <2>1, <3>1, OnlySome
    <3>3. Only(p, got, got')
      BY <2>1, <3>1, OnlySome
    <3>4. Only(p, obj, obj') /\ obj'[p] = NoObject
      BY <2>1, <3>1, OnlyIs
    <3> QED BY <3>2, <3>3, <3>4
  <2>4. Only(p, items, items') /\ Only(p, sensors, sensors') /\ Only(p, undef, undef')
    BY <2>1, Domains, OnlyIs
  <2>5. Rest(p)
    BY <2>1, <2>2, <2>3, <2>4 DEF Rest
  <2>6. {"wf id", "created"} \subseteq Plain
    BY DEF Plain
  <2> QED BY <2>1, <2>2, <2>3, <2>5, <2>6, ChipPlain
<1>3. CASE DetectionDone(p)
  <2>1. /\ pc[p] = "detected" /\ pc' = [pc EXCEPT ![p] = "created"]
        /\ UNCHANGED <<board, intruded, hindex, bank, obj, script, got, items, sensors, undef>>
    BY <1>1, <1>3 DEF DetectionDone, At, Goto, hardware, lpc, update
  <2>2. Rest(p) /\ pc'[p] = "created"
    BY <2>1, Domains, OnlyIs DEF Rest
  <2>3. "created" \in Plain
    BY DEF Plain
  <2> QED BY <2>1, <2>2, <2>3, ChipPlain
<1> QED BY <1>1, <1>2, <1>3, ChipPort, ChipWinbondFintek, ChipWinbondAddress, ChipWinbondVendor, ChipDetectIT87,
           ChipIT87 DEF LpcNext

\* A read begins: no byte yet.
LEMMA AimEmpty == ASSUME NEW kind, NEW h, NEW b PROVE Aim(kind, << >>, << >>, h, b)
<1>1. PICK s : s = << >>
  OBVIOUS
<1>2. Len(s) = 0 /\ \A k \in 1..Len(s) : FALSE
  BY <1>1
<1>3. IsSeq(s) /\ AllRight(s)
  BY <1>1, <1>2 DEF IsSeq, AllRight
<1>4. Aimed836(s, h, b) /\ Aimed718(s, h) /\ Aimed87(s)
  BY <1>2 DEF Aimed836, Aimed718, Aimed87
<1>5. Got87(s, s, h)
  BY <1>1, <1>2, <1>3 DEF Got87
<1> QED BY <1>1, <1>3, <1>4, <1>5 DEF Aim

\* More registers are read, wherever the chip is.
LEMMA AimMore ==
    ASSUME NEW kind, NEW reads \in Seq(PlacesOf(kind)), NEW g, NEW h, NEW b, Aim(kind, << >>, g, h, b),
           NEW s, s = Accesses(kind, reads)
    PROVE  Aim(kind, s, g, h, b)
<1>1. CASE kind = "W836XX"
  <2>1. reads \in Seq(Places)
    BY <1>1 DEF PlacesOf
  <2>2. Aimed836(s, h, b)
    BY <1>1, <2>1, Accesses836
  <2> QED BY <1>1, <2>2 DEF Aim
<1>2. CASE kind = "IT87XX"
  <2>1. reads \in Seq({0} \X (Byte \ {1}))
    BY <1>2 DEF PlacesOf
  <2>2. Aimed87(s) /\ (s # << >> => s[1].dir = "out")
    BY <1>2, <2>1, Accesses87
  <2>3. Got87(<< >>, g, h)
    BY <1>2 DEF Aim
  <2>4. Got87(s, g, h)
    <3>1. ~(s # << >> /\ s[1].dir = "in")
      BY <2>2
    <3> QED BY <2>3, <3>1 DEF Got87
  <2> QED BY <1>2, <2>2, <2>4 DEF Aim
<1>3. CASE kind \notin {"W836XX", "IT87XX"}
  <2>1. reads \in Seq({0} \X (Byte \ {1}))
    BY <1>3 DEF PlacesOf
  <2>2. Aimed718(s, h)
    BY <1>3, <2>1, Accesses718
  <2> QED BY <1>3, <2>2 DEF Aim
<1> QED BY <1>1, <1>2, <1>3

LEMMA CountStart ==
    ASSUME NEW n \in Fans, NEW s, s = Accesses("W836XX", <<WIN_FAN_TACHO[n]>>), NEW bd
    PROVE  CountRead(n, s, << >>, bd)
<1>1. PICK t \in Places : t = WIN_FAN_TACHO[n]
  BY DEF WIN_FAN_TACHO, Fans, Places, Byte
<1>2. PICK reads \in Seq(Places) : reads = <<t>>
  BY PlaceSeq
<1>3. Len(reads) = 1 /\ reads[1] = t
  BY <1>2
<1>4. s = Accesses("W836XX", reads)
  BY <1>1, <1>2
<1>5. EndsIn(s) /\ \A k \in 1..Len(s) : s[k].dir = "in" => \E i \in 1..Len(reads) : s[k].v = reads[i]
  BY <1>4, Accesses836
<1>6. \A k \in 1..Len(s) : s[k].dir = "in" => s[k].v = t
  BY <1>3, <1>5
<1>7. s # << >>
  <2>1. Len(s) = Width("W836XX") * Len(reads)
    BY <1>4, AccessesAre
  <2>2. Width("W836XX") = 4
    BY DEF Width
  <2>3. Len(s) = 4 * 1
    BY <1>3, <2>1, <2>2, Zenon
  <2>4. 4 * 1 = 4
    OBVIOUS
  <2>5. Len(s) = 4
    BY <2>3, <2>4, Zenon
  <2> QED BY <2>5
<1>8. EndsIn1(s, << >>)
  BY <1>5, <1>7 DEF EndsIn, EndsIn1
<1>9. IsSeq(<< >>) /\ \A k \in 1..Len(<< >>) : FALSE
  BY DEF IsSeq
<1> QED BY <1>1, <1>6, <1>8, <1>9 DEF CountRead

\* The read of an item begins.
LEMMA ReadStart ==
    ASSUME NEW w, NEW kind, NEW its, its[1] \in GoodItems(kind), NEW s, s = Accesses(kind, its[1].reads),
           NEW bd, NEW h, NEW b, NEW i
    PROVE  ReadOK(w, kind, s, << >>, its, bd, h, b, i)
<1>1. PICK it \in GoodItems(kind) : it = its[1]
  OBVIOUS
<1>2. it.reads \in Seq(PlacesOf(kind))
  BY DEF GoodItems
<1>3. Aim(kind, s, << >>, h, b)
  BY <1>1, <1>2, AimEmpty, AimMore
<1>4. ASSUME kind = "W836XX", it.type = "fan" PROVE CountRead(it.n, s, << >>, bd)
  <2>1. it.n \in Fans /\ it.reads = <<WIN_FAN_TACHO[it.n]>>
    BY <1>4 DEF GoodItems, GoodItem
  <2> QED BY <1>1, <1>4, <2>1, CountStart
<1> QED BY <1>1, <1>3, <1>4 DEF ReadOK

\* It goes on.
LEMMA ReadOn ==
    ASSUME NEW kind, NEW its, its[1] \in GoodItems(kind), NEW g, NEW bd, NEW h, NEW b, NEW i,
           ReadOK("reading", kind, << >>, g, its, bd, h, b, i),
           NEW more, more = More(kind, its[1], g), more # << >>, NEW s, s = Accesses(kind, more)
    PROVE  ReadOK("reading", kind, s, g, its, bd, h, b, i)
<1>1. more \in Seq(PlacesOf(kind))
  BY MoreIs
<1>2. bd.family = "ite" \/ i = 0 => Aim(kind, << >>, g, h, b)
  BY DEF ReadOK
<1>3. bd.family = "ite" \/ i = 0 => Aim(kind, s, g, h, b)
  BY <1>1, <1>2, AimMore
<1>4. ~(kind = "W836XX" /\ its[1].type = "fan")
  BY DEF More
<1> QED BY <1>3, <1>4 DEF ReadOK

LEMMA ChipUpdate ==
    ASSUME SharedInv, TypeInv, ChipInv, NEW p \in Programs, Update(p) PROVE ChipInv'
<1>1. PICK kind : kind = obj[p].kind
  OBVIOUS
<1>2. PICK all : all = Items(kind)
  OBVIOUS
<1>3. PICK s : s = Accesses(kind, all[1].reads)
  OBVIOUS
<1>4. all[1] \in GoodItems(kind)
  <2>1. all \in Seq(GoodItems(kind)) /\ Len(all) \in 1..19
    BY <1>2, ItemsAre
  <2> QED BY <2>1
<1>5. /\ ObjectOK("update", obj[p], board, intruded) /\ KeptOK(sensors[p], board, intruded)
      /\ UndefOK(p, "update", undef[p], board, intruded) /\ (board.family # "winbond" => bank = 0)
  BY DEF ChipInv, ProgramOK, Update, At
<1>6. /\ pc[p] = "update" /\ UNCHANGED <<board, intruded, hindex, bank, obj>>
      /\ \/ /\ pc' = [pc EXCEPT ![p] = "reading"] /\ items' = [items EXCEPT ![p] = all]
            /\ sensors' = [sensors EXCEPT ![p] = << >>] /\ script' = [script EXCEPT ![p] = s]
            /\ got' = [got EXCEPT ![p] = << >>]
            /\ IF obj[p].inited \/ kind = "IT87XX" THEN undef' = undef
               ELSE undef' = [undef EXCEPT ![p] = undef[p] \cup {"object"}]
         \/ pc' = [pc EXCEPT ![p] = "updated"] /\ UNCHANGED <<script, got, items, sensors, undef>>
  BY <1>1, <1>2, <1>3 DEF Update, At, Goto, hardware, update
<1>7. /\ DOMAIN pc = Programs /\ DOMAIN obj = Programs /\ DOMAIN script = Programs /\ DOMAIN got = Programs
      /\ DOMAIN items = Programs /\ DOMAIN sensors = Programs /\ DOMAIN undef = Programs
  BY Domains
<1>8. \A w \in {"reading", "updated"} :
          ObjectOK(w, obj[p], board, intruded) /\ UndefOK(p, w, undef[p], board, intruded)
  BY <1>5 DEF ObjectOK, UndefOK
<1>9. CASE /\ pc' = [pc EXCEPT ![p] = "reading"] /\ items' = [items EXCEPT ![p] = all]
           /\ sensors' = [sensors EXCEPT ![p] = << >>] /\ script' = [script EXCEPT ![p] = s]
           /\ got' = [got EXCEPT ![p] = << >>]
           /\ IF obj[p].inited \/ kind = "IT87XX" THEN undef' = undef
              ELSE undef' = [undef EXCEPT ![p] = undef[p] \cup {"object"}]
  <2>1. Only(p, pc, pc') /\ pc'[p] = "reading"
    BY <1>7, <1>9, OnlyIs
  <2>2. Only(p, items, items') /\ items'[p] = all
    BY <1>7, <1>9, OnlyIs
  <2>3. Only(p, sensors, sensors') /\ sensors'[p] = << >>
    BY <1>7, <1>9, OnlyIs
  <2>4. Only(p, script, script') /\ script'[p] = s
    BY <1>7, <1>9, OnlyIs
  <2>5. Only(p, got, got') /\ got'[p] = << >>
    BY <1>7, <1>9, OnlyIs
  <2>6. Only(p, undef, undef') /\ UndefOK(p, "reading", undef'[p], board, intruded)
    <3>1. CASE undef' = undef
      BY <1>7, <1>8, <3>1, OnlyIs
    <3>2. CASE undef' = [undef EXCEPT ![p] = undef[p] \cup {"object"}] /\ ~obj[p].inited /\ kind # "IT87XX"
      <4>1. Only(p, undef, undef') /\ undef'[p] = undef[p] \cup {"object"}
        BY <1>7, <3>2, OnlyIs
      <4>2. kind \in {"W836XX", "F718XX"}
        <5>1. kind \in {"null", "W836XX", "IT87XX", "F718XX"}
          BY <1>1 DEF TypeInv, ObjectsTyped, Objects
        <5>2. kind # "null"
          BY <1>1, <1>5 DEF ObjectOK
        <5> QED BY <3>2, <5>1, <5>2
      <4>3. board.family = "winbond" /\ (~board.vendor \/ intruded > 0)
        BY <1>1, <1>5, <3>2, <4>2 DEF ObjectOK
      <4> QED BY <1>8, <4>1, <4>3 DEF UndefOK
    <3> QED BY <1>9, <3>1, <3>2
  <2>7. Only(p, obj, obj') /\ obj'[p] = obj[p]
    BY <1>6, <1>7, OnlyIs
  <2>8. Rest(p)
    BY <1>6, <2>1, <2>2, <2>3, <2>4, <2>5, <2>6, <2>7 DEF Rest
  <2>9. ReadOK("reading", kind, s, << >>, all, board, hindex, bank, intruded)
    BY <1>3, <1>4, ReadStart
  <2>10. KeptOK(<< >>, board, intruded)
    BY DEF KeptOK
  <2>11. ProbeOK("reading", s, << >>, board, hindex, bank, intruded)
    BY DEF ProbeOK
  <2> QED BY <1>1, <1>5, <1>6, <1>8, <2>1, <2>2, <2>3, <2>4, <2>5, <2>6, <2>7, <2>8, <2>9, <2>10, <2>11, ChipGoal
<1>10. CASE pc' = [pc EXCEPT ![p] = "updated"] /\ UNCHANGED <<script, got, items, sensors, undef>>
  <2>1. Only(p, pc, pc') /\ pc'[p] = "updated"
    BY <1>7, <1>10, OnlyIs
  <2>2. Rest(p)
    BY <1>6, <1>7, <1>10, <2>1, OnlyIs DEF Rest
  <2>3. /\ ProbeOK("updated", script[p], got[p], board, hindex, bank, intruded)
        /\ ReadOK("updated", kind, script[p], got[p], items[p], board, hindex, bank, intruded)
    BY DEF ProbeOK, ReadOK
  <2> QED BY <1>1, <1>5, <1>6, <1>8, <1>10, <2>1, <2>2, <2>3, ChipGoal
<1> QED BY <1>6, <1>9, <1>10

LEMMA ChipReadMore ==
    ASSUME SharedInv, TypeInv, ChipInv, NEW p \in Programs, ReadMore(p) PROVE ChipInv'
<1>1. PICK kind : kind = obj[p].kind
  OBVIOUS
<1>2. PICK its : its = items[p]
  OBVIOUS
<1>3. PICK g : g = got[p]
  OBVIOUS
<1>4. PICK more : more = More(kind, its[1], g)
  OBVIOUS
<1>5. PICK s : s = Accesses(kind, more)
  OBVIOUS
<1>6. /\ pc[p] = "reading" /\ script[p] = << >> /\ more # << >> /\ script' = [script EXCEPT ![p] = s]
      /\ UNCHANGED <<board, intruded, hindex, bank, obj, pc, got, items, sensors, undef>>
  BY <1>1, <1>2, <1>3, <1>4, <1>5 DEF ReadMore, At, hardware, update
<1>7. /\ ObjectOK("reading", obj[p], board, intruded) /\ KeptOK(sensors[p], board, intruded)
      /\ UndefOK(p, "reading", undef[p], board, intruded) /\ (board.family # "winbond" => bank = 0)
      /\ ReadOK("reading", kind, << >>, g, its, board, hindex, bank, intruded)
  BY <1>1, <1>2, <1>3, <1>6 DEF ChipInv, ProgramOK
<1>8. its[1] \in GoodItems(kind)
  <2>1. its \in Seq(GoodItems(kind)) /\ its # << >>
    BY <1>1, <1>2, <1>6 DEF TypeInv, ReadingTyped, ReadingOK
  <2> QED BY <2>1
<1>9. ReadOK("reading", kind, s, g, its, board, hindex, bank, intruded)
  BY <1>4, <1>5, <1>6, <1>7, <1>8, ReadOn
<1>10. ProbeOK("reading", s, g, board, hindex, bank, intruded)
  BY DEF ProbeOK
<1>11. /\ DOMAIN pc = Programs /\ DOMAIN obj = Programs /\ DOMAIN script = Programs /\ DOMAIN got = Programs
       /\ DOMAIN items = Programs /\ DOMAIN sensors = Programs /\ DOMAIN undef = Programs
  BY Domains
<1>12. Only(p, script, script') /\ script'[p] = s
  BY <1>6, <1>11, OnlyIs
<1>13. Rest(p)
  BY <1>6, <1>11, <1>12, OnlyIs DEF Rest
<1> QED BY <1>1, <1>2, <1>3, <1>6, <1>7, <1>9, <1>10, <1>12, <1>13, ChipGoal

\* When all is read and the address of an ITE chip was right, all bytes are.
LEMMA RightBytes ==
    ASSUME NEW kind, NEW g, NEW h, NEW b, Aim(kind, << >>, g, h, b), Valid(kind, g) PROVE AllRight(g)
<1>1. CASE kind # "IT87XX"
  BY <1>1 DEF Aim
<1>2. CASE kind = "IT87XX"
  <2>1. Got87(<< >>, g, h)
    BY <1>2 DEF Aim
  <2>2. PICK n \in Nat : n = Len(g)
    BY <2>1 DEF Got87, IsSeq
  <2>3. IsSeq(g) /\ n % 2 = 0 /\ DOMAIN g = 1..n
    BY <2>1, <2>2 DEF Got87, IsSeq
  <2>4. \A k \in 1..n : k % 2 = 0 => g[k].want = g[k].from /\ g[k - 1].want = g[k - 1].from
    BY <1>2, <2>1, <2>2, <2>3 DEF Got87, Valid
  <2>5. ASSUME NEW k \in 1..n PROVE g[k].want = g[k].from
    <3>1. CASE k % 2 = 0
      BY <2>4, <3>1
    <3>2. CASE k % 2 # 0
      <4>1. PICK j \in 1..n : j = k + 1 /\ j % 2 = 0 /\ j - 1 = k
        BY <2>3, <3>2
      <4>2. g[j - 1].want = g[j - 1].from
        BY <2>4, <4>1
      <4> QED BY <4>1, <4>2
    <3> QED BY <3>1, <3>2
  <2> QED BY <2>2, <2>3, <2>5 DEF AllRight
<1> QED BY <1>1, <1>2

\* A sensor whose bytes are right is kept.
LEMMA KeptMore ==
    ASSUME NEW kept, IsSeq(kept), NEW bd, NEW i, KeptOK(kept, bd, i), NEW e,
           bd.family = "ite" \/ i = 0 => AllRight(e.reads)
    PROVE  KeptOK(Append(kept, e), bd, i)
<1>1. PICK n \in Nat : n = Len(kept)
  BY DEF IsSeq
<1>2. PICK now : now = Append(kept, e)
  OBVIOUS
<1>3. IsSeq(now) /\ Len(now) = n + 1 /\ now[n + 1] = e /\ \A k \in 1..n : now[k] = kept[k]
  BY <1>1, <1>2, AppendAt
<1>4. DOMAIN now = 1..(n + 1) /\ DOMAIN kept = 1..n
  BY <1>1, <1>3 DEF IsSeq
<1>5. SUFFICES ASSUME bd.family = "ite" \/ i = 0, NEW j \in 1..(n + 1)
               PROVE  \A k \in DOMAIN now[j].reads : now[j].reads[k].want = now[j].reads[k].from
  BY <1>2, <1>4 DEF KeptOK
<1>6. CASE j = n + 1
  <2>1. DOMAIN e.reads = 1..Len(e.reads) /\ \A k \in 1..Len(e.reads) : e.reads[k].want = e.reads[k].from
    BY <1>5 DEF AllRight, IsSeq
  <2> QED BY <1>3, <1>6, <2>1
<1>7. CASE j \in 1..n
  BY <1>3, <1>4, <1>5, <1>7 DEF KeptOK
<1> QED BY <1>6, <1>7

\* Where an overrun comes from.
LEMMA OverrunKnown ==
    ASSUME NEW p, NEW kind, NEW it \in GoodItems(kind), NEW its, it = its[1], NEW g, NEW h, NEW b, NEW i, i \in Nat,
           NEW o, o.kind = kind, ObjectOK("reading", o, board, i),
           ReadOK("reading", kind, << >>, g, its, board, h, b, i), Kept(kind, it, g), NEW w, NEW u, UndefOK(p, w, u, board, i)
    PROVE  UndefOK(p, w, u \cup Overrun(kind, it), board, i)
<1>1. CASE kind = "W836XX" /\ board.model \in THFChips /\ it.type = "fan" /\ it.n > 3
  <2>1. Overrun(kind, it) = {"fans"}
    BY <1>1 DEF Overrun
  <2>2. PICK n \in 4..5 : n = it.n
    BY <1>1 DEF GoodItems, GoodItem, Fans
  <2>3. i = 0 => board.fans[n] # 0
    <3>1. SUFFICES ASSUME i = 0, board.fans[n] = 0 PROVE FALSE
      OBVIOUS
    <3>2. Aim(kind, << >>, g, h, b) /\ CountRead(n, << >>, g, board)
      BY <1>1, <2>2, <3>1 DEF ReadOK
    <3>3. AllRight(g) /\ g # << >>
      BY <1>1, <3>2 DEF Aim, CountRead, EndsIn1
    <3>4. 1 \in 1..Len(g)
      <4>1. PICK m \in Nat : m = Len(g)
        BY <3>3 DEF AllRight, IsSeq
      <4>2. m # 0
        <5>1. SUFFICES ASSUME m = 0 PROVE FALSE
          OBVIOUS
        <5>2. g = [k \in 1..0 |-> g[k]]
          BY <3>3, <4>1, <5>1 DEF AllRight, IsSeq
        <5>3. g = << >>
          BY <5>2
        <5> QED BY <3>3, <5>3
      <4> QED BY <4>1, <4>2
    <3>5. g[1].want = g[1].from
      BY <3>3, <3>4 DEF AllRight
    <3>6. g[1].val = 255
      BY <3>1, <3>2, <3>4, <3>5 DEF CountRead
    <3>7. g[1].val \notin {0, 255}
      BY <1>1 DEF Kept
    <3> QED BY <3>6, <3>7
  <2>4. board.fans[4] # 0 \/ board.fans[5] # 0 \/ i > 0
    <3>1. n = 4 \/ n = 5
      OBVIOUS
    <3> QED BY <2>3, <3>1
  <2> QED BY <1>1, <2>1, <2>4 DEF UndefOK
<1>2. CASE kind = "IT87XX" /\ it.type = "temperature" /\ it.n > 3
  <2>1. Overrun(kind, it) = {"description"}
    BY <1>2 DEF Overrun
  <2>2. it.n \in 4..5 /\ it.n \in board.temps
    BY <1>2 DEF GoodItems, GoodItem, Kept
  <2>3. board.family = "ite"
    BY <1>2 DEF ObjectOK
  <2> QED BY <2>1, <2>2, <2>3 DEF UndefOK
<1>3. CASE Overrun(kind, it) = {}
  BY <1>3
<1> QED BY <1>1, <1>2, <1>3 DEF Overrun

LEMMA ChipItemRead ==
    ASSUME SharedInv, TypeInv, ChipInv, NEW p \in Programs, ItemRead(p) PROVE ChipInv'
<1>1. PICK kind : kind = obj[p].kind
  OBVIOUS
<1>2. PICK its : its = items[p]
  OBVIOUS
<1>3. PICK g : g = got[p]
  OBVIOUS
<1>4. PICK rest : rest = Tail(its)
  OBVIOUS
<1>5. PICK e : e = [type |-> its[1].type, n |-> its[1].n, reads |-> g]
  OBVIOUS
<1>6. PICK now : now = Append(sensors[p], e)
  OBVIOUS
<1>7. PICK w : w = IF rest = << >> THEN "writing" ELSE "reading"
  OBVIOUS
<1>8. PICK s : s = IF rest = << >> THEN WriteBack(bits[p], newBits'[p]) ELSE Accesses(kind, rest[1].reads)
  OBVIOUS
<1>9. pc[p] = "reading" /\ script[p] = << >>
  BY DEF ItemRead, At
<1>10. UNCHANGED <<board, intruded, hindex, bank, obj>>
  BY DEF ItemRead, hardware
<1>11. /\ pc' = [pc EXCEPT ![p] = w] /\ items' = [items EXCEPT ![p] = rest] /\ got' = [got EXCEPT ![p] = << >>]
  BY <1>2, <1>4, <1>7 DEF ItemRead, Goto
<1>12. script' = [script EXCEPT ![p] = s]
  BY <1>1, <1>2, <1>4, <1>8 DEF ItemRead
<1>13. IF Kept(kind, its[1], g)
       THEN /\ sensors' = [sensors EXCEPT ![p] = now]
            /\ undef' = [undef EXCEPT ![p] = undef[p] \cup Overrun(kind, its[1])]
       ELSE sensors' = sensors /\ undef' = undef
  BY <1>1, <1>2, <1>3, <1>5, <1>6 DEF ItemRead
<1>14. /\ DOMAIN pc = Programs /\ DOMAIN obj = Programs /\ DOMAIN script = Programs /\ DOMAIN got = Programs
       /\ DOMAIN items = Programs /\ DOMAIN sensors = Programs /\ DOMAIN undef = Programs
  BY Domains
<1>15. ReadingOK("reading", kind, its, sensors[p])
  BY <1>1, <1>2, <1>9 DEF TypeInv, ReadingTyped
<1>16. its \in Seq(GoodItems(kind)) /\ its # << >> /\ IsSeq(sensors[p])
  BY <1>15 DEF ReadingOK
<1>17. its[1] \in GoodItems(kind) /\ rest \in Seq(GoodItems(kind)) /\ (rest # << >> => rest[1] \in GoodItems(kind))
  BY <1>4, <1>16
<1>18. /\ ObjectOK("reading", obj[p], board, intruded) /\ KeptOK(sensors[p], board, intruded)
       /\ UndefOK(p, "reading", undef[p], board, intruded)
       /\ ReadOK("reading", kind, << >>, g, its, board, hindex, bank, intruded)
  BY <1>1, <1>2, <1>3, <1>9 DEF ChipInv, ProgramOK
<1>19. (board.family # "winbond" => bank = 0) /\ intruded \in Nat
  BY DEF ChipInv
<1>20. w \in {"reading", "writing"}
  BY <1>7
<1>21. ObjectOK(w, obj[p], board, intruded) /\ UndefOK(p, w, undef[p], board, intruded)
  BY <1>18, <1>20 DEF ObjectOK, UndefOK
<1>22. Only(p, pc, pc') /\ pc'[p] = w
  BY <1>11, <1>14, OnlyIs
<1>23. Only(p, items, items') /\ items'[p] = rest
  BY <1>11, <1>14, OnlyIs
<1>24. Only(p, got, got') /\ got'[p] = << >>
  BY <1>11, <1>14, OnlyIs
<1>25. Only(p, script, script') /\ script'[p] = s
  BY <1>12, <1>14, OnlyIs
<1>26. Only(p, obj, obj') /\ obj'[p] = obj[p]
  BY <1>10, <1>14, OnlyIs
<1>27. /\ Only(p, sensors, sensors') /\ Only(p, undef, undef') /\ KeptOK(sensors'[p], board, intruded)
       /\ UndefOK(p, w, undef'[p], board, intruded)
  <2>1. CASE Kept(kind, its[1], g)
    <3>0. /\ sensors' = [sensors EXCEPT ![p] = now]
          /\ undef' = [undef EXCEPT ![p] = undef[p] \cup Overrun(kind, its[1])]
      BY <1>13, <2>1
    <3>1. Only(p, sensors, sensors') /\ sensors'[p] = now
      BY <1>14, <3>0, OnlyIs
    <3>2. Only(p, undef, undef') /\ undef'[p] = undef[p] \cup Overrun(kind, its[1])
      BY <1>14, <3>0, OnlyIs
    <3>3. board.family = "ite" \/ intruded = 0 => AllRight(e.reads)
      <4>1. Valid(kind, g) /\ e.reads = g
        BY <1>5, <2>1 DEF Kept
      <4>2. board.family = "ite" \/ intruded = 0 => Aim(kind, << >>, g, hindex, bank)
        BY <1>18 DEF ReadOK
      <4> QED BY <4>1, <4>2, RightBytes
    <3>4. KeptOK(now, board, intruded)
      BY <1>6, <1>16, <1>18, <3>3, KeptMore
    <3>5. PICK o : o = obj[p]
      OBVIOUS
    <3>6. PICK it \in GoodItems(kind) : it = its[1]
      BY <1>17
    <3>7. UndefOK(p, w, undef[p] \cup Overrun(kind, it), board, intruded)
      BY <1>1, <1>18, <1>19, <1>21, <2>1, <3>5, <3>6, OverrunKnown
    <3> QED BY <3>1, <3>2, <3>4, <3>6, <3>7
  <2>2. CASE ~Kept(kind, its[1], g)
    BY <1>13, <1>14, <1>18, <1>21, <2>2, OnlyIs
  <2> QED BY <2>1, <2>2
<1>28. Rest(p)
  BY <1>10, <1>22, <1>23, <1>24, <1>25, <1>26, <1>27 DEF Rest
<1>29. ReadOK(w, kind, s, << >>, rest, board, hindex, bank, intruded)
  <2>1. CASE rest = << >>
    BY <1>7, <2>1 DEF ReadOK
  <2>2. CASE rest # << >>
    <3>1. s = Accesses(kind, rest[1].reads)
      BY <1>8, <2>2
    <3> QED BY <1>17, <2>2, <3>1, ReadStart
  <2> QED BY <2>1, <2>2
<1>30. ProbeOK(w, s, << >>, board, hindex, bank, intruded)
  BY <1>20 DEF ProbeOK
<1> QED BY <1>1, <1>10, <1>19, <1>21, <1>22, <1>23, <1>24, <1>25, <1>26, <1>27, <1>28, <1>29, <1>30, ChipGoal

LEMMA ChipUpdateDone ==
    ASSUME SharedInv, TypeInv, ChipInv, NEW p \in Programs, UpdateDone(p) PROVE ChipInv'
<1>1. /\ pc[p] = "writing" /\ pc' = [pc EXCEPT ![p] = "updated"]
      /\ UNCHANGED <<board, intruded, hindex, bank, obj, script, got, items, sensors, undef>>
  BY DEF UpdateDone, At, Goto, hardware, lpc
<1>2. Rest(p) /\ pc'[p] = "updated"
  BY <1>1, Domains, OnlyIs DEF Rest
<1>3. /\ ObjectOK("writing", obj[p], board, intruded) /\ KeptOK(sensors[p], board, intruded)
      /\ UndefOK(p, "writing", undef[p], board, intruded) /\ (board.family # "winbond" => bank = 0)
  BY <1>1 DEF ChipInv, ProgramOK
<1>4. ObjectOK("updated", obj[p], board, intruded) /\ UndefOK(p, "updated", undef[p], board, intruded)
  BY <1>3 DEF ObjectOK, UndefOK
<1>5. /\ ProbeOK("updated", script[p], got[p], board, hindex, bank, intruded)
      /\ ReadOK("updated", obj[p].kind, script[p], got[p], items[p], board, hindex, bank, intruded)
  BY DEF ProbeOK, ReadOK
<1> QED BY <1>1, <1>2, <1>3, <1>4, <1>5, ChipGoal

LEMMA ChipInit == ASSUME Init PROVE ChipInv
<1>1. board \in Boards /\ intruded = 0 /\ bank = 0
  BY DEF Init, BusInit
<1>2. DOMAIN got = Programs /\ DOMAIN undef = Programs
  BY DEF Init, LpcInit, UpdateInit
<1>3. ASSUME NEW p \in Programs PROVE ProgramOK(p)
  <2>1. pc[p] = "off" /\ obj[p] = NoObject /\ sensors[p] = << >> /\ undef[p] = {}
    BY DEF Init, OsInit, LpcInit, UpdateInit
  <2>2. ObjectOK("off", NoObject, board, intruded)
    BY DEF ObjectOK, NoObject
  <2>3. /\ ProbeOK("off", script[p], got[p], board, hindex, bank, intruded)
        /\ ReadOK("off", obj[p].kind, script[p], got[p], items[p], board, hindex, bank, intruded)
    BY DEF ProbeOK, ReadOK
  <2>4. KeptOK(<< >>, board, intruded) /\ UndefOK(p, "off", {}, board, intruded)
    BY DEF KeptOK, UndefOK
  <2> QED BY <2>1, <2>2, <2>3, <2>4 DEF ProgramOK
<1> QED BY <1>1, <1>2, <1>3 DEF ChipInv

LEMMA ChipNext == ASSUME SharedInv, TypeInv, ChipInv, [Next]_vars PROVE ChipInv'
<1>1. CASE UNCHANGED vars
  <2>1. /\ UNCHANGED <<board, intruded, hindex, bank, pc, obj, script, got>>
        /\ UNCHANGED <<items, sensors, undef>>
    BY <1>1 DEF vars, hardware, lpc, update
  <2>2. \A p \in Programs : ProgramOK(p)'
    BY <2>1 DEF ChipInv, ProgramOK
  <2> QED BY <2>1, <2>2 DEF ChipInv
<1>2. CASE Intrude /\ UNCHANGED <<pc, os, lpc, update, show, coresel>>
  BY <1>2, ChipIntrude
<1>3. ASSUME NEW p \in Programs, Ends(p) \/ Killed(p) \/ Crashes(p) \/ Leave(p) PROVE ChipInv'
  <2>1. Goto(p, "off") /\ Forget(p)
    BY <1>3 DEF Ends, Killed, Crashes, Leave, Exit, Kill, Ended
  <2> QED BY <2>1, ChipEnded
<1>4. ASSUME NEW p \in Programs, Device(p) \/ RefreshUnopened(p) \/ OnRefresh(p) \/ OnCancel(p) PROVE ChipInv'
  BY <1>4, ChipDevice, ChipUnopened, ChipSteps
<1>5. ASSUME NEW p \in Programs, Runs(p) PROVE ChipInv'
  <2>1. CASE Reading(p)
    BY <2>1, ChipUpdate, ChipReadMore, ChipItemRead, ChipUpdateDone DEF Reading, UpdateNext
  <2>2. CASE ~Reading(p)
    BY <1>5, <2>2, ChipDetection, ChipSteps, ChipShown DEF Runs
  <2> QED BY <2>1, <2>2
<1> QED BY <1>1, <1>2, <1>3, <1>4, <1>5 DEF Next

\* Where the chip is, and what its objects and the programs know of it, in
\* every state.
THEOREM ChipInvariant == Spec => []ChipInv
<1>1. Init => TypeInv /\ ChipInv
  BY TypeInit, ChipInit
<1>2. SharedInv /\ TypeInv /\ ChipInv /\ [Next]_vars => TypeInv' /\ ChipInv'
  <2>1. SharedInv => DOMAIN pc = Programs
    BY DEF SharedInv, DeviceInv
  <2>2. SharedInv /\ TypeInv /\ ChipInv /\ [Next]_vars => ChipInv'
    BY ChipNext, Zenon
  <2>3. SharedInv /\ TypeInv /\ [Next]_vars => TypeInv'
    BY <2>1, TypeNext
  <2> QED BY <2>2, <2>3, Zenon
<1> QED BY <1>1, <1>2, SharedInvariant, PTL DEF Spec

\* W836XX.CPP:7-17, IT87XX.CPP:9-15, F718XX.CPP:22-28: every byte behind a
\* sensor that is shown comes from the bank and register it was meant to come
\* from, with any number of kills between two accesses; where software without
\* the mutex has moved the address, on ITE chips.
THEOREM RegistersRight == Spec => []RightRegister
<1>1. ChipInv => RightRegister
  <2>1. SUFFICES ASSUME ChipInv, NEW p \in Programs, board.family = "ite" \/ intruded = 0,
                        NEW i \in DOMAIN sensors[p], NEW k \in DOMAIN sensors[p][i].reads
                 PROVE  sensors[p][i].reads[k].want = sensors[p][i].reads[k].from
    BY DEF RightRegister
  <2>2. KeptOK(sensors[p], board, intruded)
    BY <2>1 DEF ChipInv, ProgramOK
  <2> QED BY <2>1, <2>2 DEF KeptOK
<1> QED BY <1>1, ChipInvariant, PTL

\* LPCIO.cpp:409, W836XX.h:122, W836XX.CPP:121, IT87XX.CPP:118: the undefined
\* behaviour of Detect and Update takes what KnownUndefined says, on every board,
\* whoever may manage services and whatever call is refused, and however often
\* programs are killed and the chip is disturbed.
THEOREM UndefinedKnown == Spec => []KnownUndefined
<1>1. SharedInv /\ ChipInv => KnownUndefined
  <2>1. SUFFICES ASSUME SharedInv, ChipInv, NEW p \in Programs
                 PROVE  /\ "pointer" \in undef[p] => p = Dialog /\ p \notin handles /\ p \notin Able \ shared
                        /\ "object" \in undef[p] => board.family = "winbond" /\ (~board.vendor \/ intruded > 0)
                        /\ "fans" \in undef[p] =>
                               /\ board.model \in THFChips
                               /\ board.fans[4] # 0 \/ board.fans[5] # 0 \/ intruded > 0
                        /\ "description" \in undef[p] => board.family = "ite" /\ board.temps \cap 4..5 # {}
    BY DEF KnownUndefined
  <2>2. UndefOK(p, pc[p], undef[p], board, intruded)
    BY <2>1 DEF ChipInv, ProgramOK
  <2>3. pc[p] = "failed" => p \notin handles /\ p \notin Able \ shared
    BY <2>1 DEF SharedInv, DeviceInv, Fit, Early
  <2> QED BY <2>2, <2>3 DEF UndefOK
<1> QED BY <1>1, SharedInvariant, ChipInvariant, PTL
-----------------------------------------------------------------------------
(* The chip that is found: what the detection knows after each access.      *)

\* The kinds of lock, with the keys each one has.
LockOf(bd) == CASE bd.family \in {"winbond", "fintek"} -> "wf" [] bd.family = "ite" -> "ite" [] OTHER -> "smsc"
KeyCount(lock) == CASE lock = "wf" -> 2 [] lock = "ite" -> 4 [] OTHER -> 1

WfChips == W836Chips \cup NctChips \cup F718Chips
PresentOn(bd) ==
    CASE bd.model \in W836Chips /\ bd.addr = "good" -> "W836XX"
      [] bd.model \in F718Chips /\ bd.addr = "good" /\ bd.vendor -> "F718XX"
      [] bd.model \in IT87Chips /\ bd.at = 1 /\ bd.addr = "good" /\ bd.gpio # "bad" -> "IT87XX"
      [] OTHER -> "null"

\* k accesses of the script full have been done, s is left.
Behind(s, full, k) == Len(s) = Len(full) - k /\ \A j \in 1..(Len(full) - k) : s[j] = full[k + j]

\* After k accesses of a stage on the ports of the chip: the keys u it has
\* seen, its selected register x and device l, the bytes g.
IdGot(lock, bd, u) == <<IF u = KeyCount(lock) THEN bd.model ELSE "none">>
WfId(k, lock, bd, u, x, g) ==
    /\ lock = "wf" /\ k = 1 => u # 0
    /\ lock = "wf" /\ k > 1 => u = 2
    /\ lock = "ite" /\ k \in {1, 2} => u \in {1, 4}
    /\ lock = "ite" /\ k > 2 => u \in {0, 4}
    /\ k > 2 /\ u = KeyCount(lock) => x = \h20
    /\ g = IF k < 4 THEN << >> ELSE IdGot(lock, bd, u)
WfExit(k, lock, u) == u = IF k = 0 \/ lock = "ite" THEN KeyCount(lock) ELSE 0
WfAddress(k, lock, bd, u, x, l, g) ==
    /\ lock = "wf" /\ bd.model \in WfChips /\ u = IF k < 9 THEN 2 ELSE 0
    /\ k = 1 => x = 7
    /\ k \in {3, 5} => x = \h60
    /\ k = 7 => x = \h23
    /\ k > 1 => l = bd.ldn
    /\ g = CASE k < 4 -> << >> [] k \in {4, 5} -> <<bd.addr>> [] k \in {6, 7} -> <<bd.addr, bd.addr>>
             [] OTHER -> <<bd.addr, bd.addr, IF bd.vendor THEN "1934" ELSE "none">>
ItId(k, lock, bd, u, x, g) ==
    /\ lock = "wf" => u = IF k = 1 THEN 1 ELSE 0
    /\ lock = "ite" => u = 4 \/ (k < 4 /\ u = k)
    /\ lock = "smsc" => u = IF k < 3 THEN 0 ELSE 1
    /\ k > 4 /\ u = KeyCount(lock) => x = \h20
    /\ g = IF k < 6 THEN << >> ELSE IdGot(lock, bd, u)
ItExit(k, lock, u, x) ==
    /\ lock # "wf" /\ (k = 1 => x = 2)
    /\ u = IF k = 2 /\ lock = "ite" THEN 0 ELSE KeyCount(lock)
ItAddress(k, lock, bd, u, x, l, g) ==
    /\ lock = "ite" /\ bd.model \in IT87Chips /\ u = IF k < 16 THEN 4 ELSE 0
    /\ k \in {1, 9} => x = 7
    /\ k \in {3, 5} => x = \h60
    /\ k = 7 => x = \h22
    /\ k \in {11, 13} => x = \h62
    /\ k = 15 => x = 2
    /\ k > 1 => l = IF k < 10 THEN bd.ldn ELSE 7
    /\ g = CASE k < 4 -> << >> [] k \in {4, 5} -> <<bd.addr>> [] k \in {6, 7} -> <<bd.addr, bd.addr>>
             [] k \in 8..11 -> <<bd.addr, bd.addr, "other">>
             [] k \in {12, 13} -> <<bd.addr, bd.addr, "other", bd.gpio>>
             [] OTHER -> <<bd.addr, bd.addr, "other", bd.gpio, bd.gpio>>
SmscId(k, lock, bd, u, x, g) ==
    /\ lock # "smsc" => u = 0
    /\ lock = "smsc" /\ k > 0 => u = 1
    /\ k > 1 /\ u = KeyCount(lock) => x = \h20
    /\ g = IF k < 3 THEN << >> ELSE IdGot(lock, bd, u)
SmscExit(k, lock, u) == lock = "smsc" /\ u = IF k = 0 THEN 1 ELSE 0

Vendors == {"w vendor", "w source", "it vendor", "it config"}
StageOK(w, k, lock, bd, u, x, l, g) ==
    /\ w = "wf id" => WfId(k, lock, bd, u, x, g)
    /\ w = "wf exit" => WfExit(k, lock, u)
    /\ w = "wf address" => WfAddress(k, lock, bd, u, x, l, g)
    /\ w = "it id" => ItId(k, lock, bd, u, x, g)
    /\ w = "it exit" => ItExit(k, lock, u, x)
    /\ w = "it address" => ItAddress(k, lock, bd, u, x, l, g)
    /\ w = "smsc id" => SmscId(k, lock, bd, u, x, g)
    /\ w = "smsc exit" => SmscExit(k, lock, u)
    /\ w \in Vendors => u = 0

\* What the stage w means for the chip the board has.
RuledOut(w, lock, bd) ==
    /\ w = "wf exit" /\ lock = "wf" => PresentOn(bd) = "null"
    /\ w = "it id" /\ lock = "wf" => PresentOn(bd) = "null"
    /\ w \in {"it exit", "smsc id", "smsc exit"} => PresentOn(bd) = "null"
    /\ w \in {"w vendor", "w source"} => PresentOn(bd) = "W836XX"
    /\ w \in {"it vendor", "it config"} => PresentOn(bd) = "IT87XX"

\* An access to the ports n, which reads the second one only.
OnPair(op, n) == op.port \in {<<"index", n>>, <<"value", n>>} /\ (op.dir = "in" => op.port = <<"value", n>>)

\* On the ports n nothing answers.
NoneRead(s, g, n) ==
    /\ IsSeq(g) /\ EndsIn1(s, g)
    /\ \A k \in 1..Len(s) : OnPair(s[k], n)
    /\ \A k \in 1..Len(g) : g[k] = "none"

\* A program at w with the ports n.
Ids == {"wf id", "it id", "smsc id"}
Probing == Ids \cup Vendors \cup {"wf exit", "wf address", "it exit", "it address", "smsc exit"}
Here(w, n, s, g, kind, bd, u, x, l) ==
    /\ kind = "null" /\ RuledOut(w, LockOf(bd), bd)
    /\ \E k \in 0..16 : Behind(s, Script(w, n, bd.model), k) /\ StageOK(w, k, LockOf(bd), bd, u, x, l, g)
Nowhere(w, n, s, g, kind, bd, u) ==
    /\ w \in Ids /\ NoneRead(s, g, n)
    /\ IF n = 2 THEN kind = PresentOn(bd) /\ u # KeyCount(LockOf(bd)) ELSE kind = "null"
Probed(w, n, s, g, kind, bd, u, x, l) ==
    /\ w \in Probing => IF n = bd.at THEN Here(w, n, s, g, kind, bd, u, x, l) ELSE Nowhere(w, n, s, g, kind, bd, u)
    /\ w \in Probing /\ n = 2 => w \notin {"it id", "it exit", "it address", "it vendor", "it config"}
    /\ w = "detected" => s = << >> /\ kind = PresentOn(bd) /\ u # KeyCount(LockOf(bd))

ProgramProbed(p) == Probed(pc[p], port[p], script[p], got[p], obj[p].kind, board, unlock, cindex, ldn)

\* An ITE chip behind the second ports is never opened.
Untouched == board.family = "ite" /\ board.at = 2 => unlock \in {0, 1} /\ \A p \in Programs : obj[p].kind = "null"

ProbeInv ==
    /\ unlock \in 0..KeyCount(LockOf(board)) /\ board \in Boards
    /\ Untouched
    /\ \A p \in Programs : ProgramProbed(p)

\* What a byte written to the index and the value port does to a chip, and what
\* is read at the value port.
Turn(lock, u, v) ==
    CASE lock = "wf" -> IF v = \h87 THEN u + 1 ELSE 0
      [] lock = "ite" -> IF (u = 1 /\ v = 1) \/ (u \in {2, 3} /\ v = \h55) THEN u + 1
                         ELSE IF v = \h87 THEN 1 ELSE 0
      [] OTHER -> IF v = \h55 THEN 1 ELSE 0
IndexSet(lock, v, u, x, u2, x2) ==
    IF u # KeyCount(lock) THEN u2 = Turn(lock, u, v) /\ x2 = x
    ELSE IF v = \hAA /\ lock # "ite" THEN u2 = 0 /\ x2 = x ELSE u2 = u /\ x2 = v
ValueSet(lock, v, u, x, l, u2, l2) ==
    /\ l2 = IF u = KeyCount(lock) /\ x = 7 THEN v ELSE l
    /\ u2 = IF u = KeyCount(lock) /\ x = 2 /\ v = 2 /\ lock = "ite" THEN 0 ELSE u
Conf(lock, bd, u, x, l) ==
    IF u # KeyCount(lock) THEN "none"
    ELSE CASE x \in {\h20, \h21} -> bd.model
           [] x = \h60 -> IF l = bd.ldn THEN bd.addr ELSE "none"
           [] x = \h62 -> IF l = 7 THEN bd.gpio ELSE "none"
           [] x = \h23 -> IF bd.vendor THEN "1934" ELSE "none"
           [] OTHER -> "other"

\* The access op on the ports of the chip.
Effect(op, lock, bd, u, x, l, g, u2, x2, l2, g2) ==
    /\ op.dir = "out" => g2 = g
    /\ op.dir = "out" /\ op.port[1] = "index" => IndexSet(lock, op.v, u, x, u2, x2) /\ l2 = l
    /\ op.dir = "out" /\ op.port[1] = "value" => ValueSet(lock, op.v, u, x, l, u2, l2) /\ x2 = x
    /\ op.dir = "in" /\ op.port[1] = "value" => g2 = Append(g, Conf(lock, bd, u, x, l))
    /\ op.dir = "in" \/ op.port[1] \in {"addr", "data"} => u2 = u /\ x2 = x /\ l2 = l

Locks == {"wf", "ite", "smsc"}

\* An access that writes v to the index port, to the value port, and one that
\* reads the value port.
ToIndex(op, v) == op.dir = "out" /\ op.port[1] = "index" /\ op.v = v
ToValue(op, v) == op.dir = "out" /\ op.port[1] = "value" /\ op.v = v
FromValue(op) == op.dir = "in" /\ op.port[1] = "value"

LEMMA Kinds ==
    \A n, v : /\ ToIndex(Out(<<"index", n>>, v), v) /\ ToValue(Out(<<"value", n>>, v), v)
              /\ FromValue(In(<<"value", n>>, v))
<1>1. \A n : <<"index", n>>[1] = "index" /\ <<"value", n>>[1] = "value"
  OBVIOUS
<1> QED BY <1>1, OutIs, InIs DEF ToIndex, ToValue, FromValue

LEMMA EffectIndex ==
    ASSUME NEW op, NEW v, NEW lock, NEW bd, NEW u, NEW x, NEW l, NEW g, NEW u2, NEW x2, NEW l2, NEW g2,
           ToIndex(op, v), Effect(op, lock, bd, u, x, l, g, u2, x2, l2, g2)
    PROVE  IndexSet(lock, v, u, x, u2, x2) /\ l2 = l /\ g2 = g
BY DEF Effect, ToIndex

LEMMA EffectValue ==
    ASSUME NEW op, NEW v, NEW lock, NEW bd, NEW u, NEW x, NEW l, NEW g, NEW u2, NEW x2, NEW l2, NEW g2,
           ToValue(op, v), Effect(op, lock, bd, u, x, l, g, u2, x2, l2, g2)
    PROVE  ValueSet(lock, v, u, x, l, u2, l2) /\ x2 = x /\ g2 = g
BY DEF Effect, ToValue

LEMMA EffectRead ==
    ASSUME NEW op, NEW lock, NEW bd, NEW u, NEW x, NEW l, NEW g, NEW u2, NEW x2, NEW l2, NEW g2,
           FromValue(op), Effect(op, lock, bd, u, x, l, g, u2, x2, l2, g2)
    PROVE  u2 = u /\ x2 = x /\ l2 = l /\ g2 = Append(g, Conf(lock, bd, u, x, l))
BY DEF Effect, FromValue

\* The keys seen stay within the sequence, whatever is written.
LEMMA KeysBounded ==
    ASSUME NEW lock \in Locks, NEW u \in 0..KeyCount(lock), NEW v, NEW x, NEW l, NEW u2, NEW x2, NEW l2
    PROVE  /\ IndexSet(lock, v, u, x, u2, x2) => u2 \in 0..KeyCount(lock)
           /\ ValueSet(lock, v, u, x, l, u2, l2) => u2 \in 0..KeyCount(lock)
           /\ lock = "ite" /\ u \in {0, 1} /\ v # 1 /\ IndexSet(lock, v, u, x, u2, x2) => u2 \in {0, 1}
<1>1. IndexSet(lock, v, u, x, u2, x2) => u2 \in 0..KeyCount(lock)
  BY DEF IndexSet, Turn, KeyCount, Locks
<1>2. ValueSet(lock, v, u, x, l, u2, l2) => u2 \in 0..KeyCount(lock)
  BY DEF ValueSet, KeyCount, Locks
<1>3. lock = "ite" /\ u \in {0, 1} /\ v # 1 /\ IndexSet(lock, v, u, x, u2, x2) => u2 \in {0, 1}
  BY DEF IndexSet, Turn, KeyCount
<1> QED BY <1>1, <1>2, <1>3
-----------------------------------------------------------------------------
(* The scripts, access by access.                                           *)

LEMMA Pair ==
    ASSUME NEW s \in Seq(Ops), NEW n \in Nat, Len(s) = n, NEW a \in Ops, NEW b \in Ops
    PROVE  /\ s \o <<a, b>> \in Seq(Ops) /\ Len(s \o <<a, b>>) = n + 2
           /\ (s \o <<a, b>>)[n + 1] = a /\ (s \o <<a, b>>)[n + 2] = b
           /\ \A j \in 1..n : (s \o <<a, b>>)[j] = s[j]
<1>1. PICK t \in Seq(Ops) : t = <<a, b>> /\ Len(t) = 2 /\ t[1] = a /\ t[2] = b
  BY OpIs DEF OpSeq
<1>2. PICK c : c = s \o t
  OBVIOUS
<1>3. /\ c \in Seq(Ops) /\ Len(c) = Len(s) + Len(t)
      /\ \A j \in 1..(Len(s) + Len(t)) : c[j] = IF j <= Len(s) THEN s[j] ELSE t[j - Len(s)]
  BY <1>2, ConcatProperties
<1>4. Len(c) = n + 2 /\ \A j \in 1..(n + 2) : c[j] = IF j <= n THEN s[j] ELSE t[j - n]
  BY <1>1, <1>3
<1>5. n + 1 \in 1..(n + 2) /\ n + 2 \in 1..(n + 2) /\ (n + 1) - n = 1 /\ (n + 2) - n = 2
  OBVIOUS
<1>6. c[n + 1] = t[1] /\ c[n + 2] = t[2]
  BY <1>4, <1>5
<1>7. \A j \in 1..n : c[j] = s[j]
  BY <1>4
<1> QED BY <1>1, <1>2, <1>3, <1>4, <1>6, <1>7

LEMMA Single ==
    ASSUME NEW s \in Seq(Ops), NEW n \in Nat, Len(s) = n, NEW a \in Ops
    PROVE  /\ s \o <<a>> \in Seq(Ops) /\ Len(s \o <<a>>) = n + 1
           /\ (s \o <<a>>)[n + 1] = a
           /\ \A j \in 1..n : (s \o <<a>>)[j] = s[j]
<1>1. PICK t \in Seq(Ops) : t = <<a>> /\ Len(t) = 1 /\ t[1] = a
  BY OpIs DEF OpSeq
<1>2. PICK c : c = s \o t
  OBVIOUS
<1>3. /\ c \in Seq(Ops) /\ Len(c) = Len(s) + Len(t)
      /\ \A j \in 1..(Len(s) + Len(t)) : c[j] = IF j <= Len(s) THEN s[j] ELSE t[j - Len(s)]
  BY <1>2, ConcatProperties
<1>4. Len(c) = n + 1 /\ \A j \in 1..(n + 1) : c[j] = IF j <= n THEN s[j] ELSE t[j - n]
  BY <1>1, <1>3
<1>5. n + 1 \in 1..(n + 1) /\ (n + 1) - n = 1
  OBVIOUS
<1>6. c[n + 1] = t[1]
  BY <1>4, <1>5
<1>7. \A j \in 1..n : c[j] = s[j]
  BY <1>4
<1> QED BY <1>1, <1>2, <1>3, <1>4, <1>6, <1>7

LEMMA PortOps ==
    ASSUME NEW n \in {1, 2}
    PROVE  /\ \A v \in {1, 2, 4, 7, 11, \h20, \h22, \h23, \h55, \h60, \h62, \h87, \hAA} :
                  Out(<<"index", n>>, v) \in Ops /\ Out(<<"value", n>>, v) \in Ops /\ In(<<"value", n>>, v) \in Ops
<1>1. {<<"index", n>>, <<"value", n>>} \subseteq Ports \cap Config /\ <<"value", n>> \in Config
  BY DEF Ports, Config
<1>2. {1, 2, 4, 7, 11, \h20, \h22, \h23, \h55, \h60, \h62, \h87, \hAA} \subseteq Byte
  BY DEF Byte
<1> QED BY <1>1, <1>2, OpIs

\* The accesses of each stage on the ports n.
WfIdOps(f, n) ==
    /\ Len(f) = 4 /\ f[1] = Out(<<"index", n>>, \h87) /\ f[2] = Out(<<"index", n>>, \h87)
    /\ f[3] = Out(<<"index", n>>, \h20) /\ f[4] = In(<<"value", n>>, \h20)
ItIdOps(f, n) ==
    /\ Len(f) = 6 /\ f[1] = Out(<<"index", n>>, \h87) /\ f[2] = Out(<<"index", n>>, 1)
    /\ f[3] = Out(<<"index", n>>, \h55) /\ f[4] = Out(<<"index", n>>, \h55)
    /\ f[5] = Out(<<"index", n>>, \h20) /\ f[6] = In(<<"value", n>>, \h20)
SmscIdOps(f, n) ==
    /\ Len(f) = 3 /\ f[1] = Out(<<"index", n>>, \h55)
    /\ f[2] = Out(<<"index", n>>, \h20) /\ f[3] = In(<<"value", n>>, \h20)
ExitOps(f, n) == Len(f) = 1 /\ f[1] = Out(<<"index", n>>, \hAA)
ItExitOps(f, n) == Len(f) = 2 /\ f[1] = Out(<<"index", n>>, 2) /\ f[2] = Out(<<"value", n>>, 2)
WfAddressOps(f, n, device) ==
    /\ Len(f) = 9 /\ f[1] = Out(<<"index", n>>, 7) /\ f[2] = Out(<<"value", n>>, device)
    /\ f[3] = Out(<<"index", n>>, \h60) /\ f[4] = In(<<"value", n>>, \h60)
    /\ f[5] = Out(<<"index", n>>, \h60) /\ f[6] = In(<<"value", n>>, \h60)
    /\ f[7] = Out(<<"index", n>>, \h23) /\ f[8] = In(<<"value", n>>, \h23)
    /\ f[9] = Out(<<"index", n>>, \hAA)
ItAddressOps(f, n) ==
    /\ Len(f) = 16 /\ f[1] = Out(<<"index", n>>, 7) /\ f[2] = Out(<<"value", n>>, 4)
    /\ f[3] = Out(<<"index", n>>, \h60) /\ f[4] = In(<<"value", n>>, \h60)
    /\ f[5] = Out(<<"index", n>>, \h60) /\ f[6] = In(<<"value", n>>, \h60)
    /\ f[7] = Out(<<"index", n>>, \h22) /\ f[8] = In(<<"value", n>>, \h22)
    /\ f[9] = Out(<<"index", n>>, 7) /\ f[10] = Out(<<"value", n>>, 7)
    /\ f[11] = Out(<<"index", n>>, \h62) /\ f[12] = In(<<"value", n>>, \h62)
    /\ f[13] = Out(<<"index", n>>, \h62) /\ f[14] = In(<<"value", n>>, \h62)
    /\ f[15] = Out(<<"index", n>>, 2) /\ f[16] = Out(<<"value", n>>, 2)
MonitorOnly(f) == Len(f) \in 1..16 /\ \A j \in 1..Len(f) : f[j].port[1] \in {"addr", "data"}

LEMMA IdScripts ==
    ASSUME NEW n \in {1, 2}, NEW c
    PROVE  /\ WfIdOps(Script("wf id", n, c), n)
           /\ ItIdOps(Script("it id", n, c), n)
           /\ SmscIdOps(Script("smsc id", n, c), n)
<1>0. PICK h, o, q : /\ h = Out(<<"index", n>>, \h87) /\ o = Out(<<"index", n>>, 1)
                      /\ q = Out(<<"index", n>>, \h55)
  OBVIOUS
<1>1. PICK a : a = Out(<<"index", n>>, \h20)
  OBVIOUS
<1>2. PICK b : b = In(<<"value", n>>, \h20)
  OBVIOUS
<1>3. a \in Ops /\ b \in Ops
  BY <1>1, <1>2, PortOps
<1>4. /\ Script("wf id", n, c) = WinbondNuvotonFintekEnter(n) \o <<a, b>>
      /\ Script("it id", n, c) = IT87Enter(n) \o <<a, b>> /\ Script("smsc id", n, c) = SMSCEnter(n) \o <<a, b>>
  BY <1>1, <1>2 DEF Script, ReadByte
<1>5. PICK w \in Seq(Ops) : /\ w = WinbondNuvotonFintekEnter(n) /\ Len(w) = 2
                            /\ w[1] = h /\ w[2] = h
  <2>1. WinbondNuvotonFintekEnter(n) \in Seq(Ops)
    BY ConfigOps DEF OpSeq
  <2> QED BY <1>0, <2>1 DEF WinbondNuvotonFintekEnter
<1>6. PICK i \in Seq(Ops) : /\ i = IT87Enter(n) /\ Len(i) = 4
                            /\ i[1] = h /\ i[2] = o
                            /\ i[3] = q /\ i[4] = q
  <2>1. IT87Enter(n) \in Seq(Ops)
    BY ConfigOps DEF OpSeq
  <2> QED BY <1>0, <2>1 DEF IT87Enter
<1>7. PICK m \in Seq(Ops) : m = SMSCEnter(n) /\ Len(m) = 1 /\ m[1] = q
  <2>1. SMSCEnter(n) \in Seq(Ops)
    BY ConfigOps DEF OpSeq
  <2> QED BY <1>0, <2>1 DEF SMSCEnter
<1>8. PICK f : f = w \o <<a, b>> /\ Len(f) = 4 /\ f[3] = a /\ f[4] = b /\ \A j \in 1..2 : f[j] = w[j]
  <2>1. PICK f : f = w \o <<a, b>>
    OBVIOUS
  <2>2. PICK z \in Nat : z = 2 /\ Len(w) = z
    BY <1>5
  <2>3. Len(f) = z + 2 /\ f[z + 1] = a /\ f[z + 2] = b /\ \A j \in 1..z : f[j] = w[j]
    <3>1. Len(w) = z /\ a \in Ops /\ b \in Ops
      BY <1>3, <2>2
    <3> QED BY <2>1, <3>1, Pair
  <2>4. Len(f) = 4 /\ f[3] = a /\ f[4] = b
    BY <2>2, <2>3
  <2> QED BY <2>1, <2>2, <2>3, <2>4
<1>9. PICK e : e = i \o <<a, b>> /\ Len(e) = 6 /\ e[5] = a /\ e[6] = b /\ \A j \in 1..4 : e[j] = i[j]
  <2>1. PICK e : e = i \o <<a, b>>
    OBVIOUS
  <2>2. PICK z \in Nat : z = 4 /\ Len(i) = z
    BY <1>6
  <2>3. Len(e) = z + 2 /\ e[z + 1] = a /\ e[z + 2] = b /\ \A j \in 1..z : e[j] = i[j]
    <3>1. Len(i) = z /\ a \in Ops /\ b \in Ops
      BY <1>3, <2>2
    <3> QED BY <2>1, <3>1, Pair
  <2>4. Len(e) = 6 /\ e[5] = a /\ e[6] = b
    BY <2>2, <2>3
  <2> QED BY <2>1, <2>2, <2>3, <2>4
<1>10. PICK d : d = m \o <<a, b>> /\ Len(d) = 3 /\ d[2] = a /\ d[3] = b /\ \A j \in 1..1 : d[j] = m[j]
  <2>1. PICK d : d = m \o <<a, b>>
    OBVIOUS
  <2>2. PICK z \in Nat : z = 1 /\ Len(m) = z
    BY <1>7
  <2>3. Len(d) = z + 2 /\ d[z + 1] = a /\ d[z + 2] = b /\ \A j \in 1..z : d[j] = m[j]
    <3>1. Len(m) = z /\ a \in Ops /\ b \in Ops
      BY <1>3, <2>2
    <3> QED BY <2>1, <3>1, Pair
  <2>4. Len(d) = 3 /\ d[2] = a /\ d[3] = b
    BY <2>2, <2>3
  <2> QED BY <2>1, <2>2, <2>3, <2>4
<1>11. f[1] = w[1] /\ f[2] = w[2] /\ e[1] = i[1] /\ e[2] = i[2] /\ e[3] = i[3] /\ e[4] = i[4] /\ d[1] = m[1]
  BY <1>8, <1>9, <1>10
<1>12. Script("wf id", n, c) = f /\ Script("it id", n, c) = e /\ Script("smsc id", n, c) = d
  BY <1>4, <1>5, <1>6, <1>7, <1>8, <1>9, <1>10
<1>13. f[1] = h /\ f[2] = h /\ e[1] = h /\ e[2] = o /\ e[3] = q /\ e[4] = q /\ d[1] = q
  BY <1>5, <1>6, <1>7, <1>11
<1>14. WfIdOps(f, n) /\ ItIdOps(e, n) /\ SmscIdOps(d, n)
  BY <1>0, <1>1, <1>2, <1>8, <1>9, <1>10, <1>13 DEF WfIdOps, ItIdOps, SmscIdOps
<1> QED BY <1>12, <1>14, Zenon

LEMMA ExitScripts ==
    ASSUME NEW n, NEW c
    PROVE  /\ ExitOps(Script("wf exit", n, c), n) /\ ExitOps(Script("smsc exit", n, c), n)
           /\ ItExitOps(Script("it exit", n, c), n)
<1>1. ExitOps(WinbondNuvotonFintekExit(n), n) /\ ExitOps(SMSCExit(n), n) /\ ItExitOps(IT87Exit(n), n)
  BY DEF ExitOps, ItExitOps, WinbondNuvotonFintekExit, SMSCExit, IT87Exit
<1>2. /\ Script("wf exit", n, c) = WinbondNuvotonFintekExit(n)
      /\ Script("smsc exit", n, c) = SMSCExit(n) /\ Script("it exit", n, c) = IT87Exit(n)
  BY DEF Script
<1> QED BY <1>1, <1>2, Zenon

\* s is the beginning of f, m long.
Like(s, f, m) == s \in Seq(Ops) /\ Len(s) = m /\ \A j \in 1..m : s[j] = f[j]

LEMMA LikeMore ==
    ASSUME NEW s, NEW f, NEW m \in Nat, Like(s, f, m), NEW a \in Ops, NEW b \in Ops, f[m + 1] = a, f[m + 2] = b
    PROVE  Like(s \o <<a, b>>, f, m + 2)
<1>1. s \in Seq(Ops) /\ Len(s) = m /\ \A j \in 1..m : s[j] = f[j]
  BY DEF Like
<1>2. PICK c : c = s \o <<a, b>>
  OBVIOUS
<1>3. /\ c \in Seq(Ops) /\ Len(c) = m + 2 /\ c[m + 1] = a /\ c[m + 2] = b
      /\ \A j \in 1..m : c[j] = s[j]
  BY <1>1, <1>2, Pair
<1>4. ASSUME NEW j \in 1..(m + 2) PROVE c[j] = f[j]
  <2>1. j \in 1..m \/ j = m + 1 \/ j = m + 2
    OBVIOUS
  <2> QED BY <1>1, <1>3, <2>1
<1> QED BY <1>2, <1>3, <1>4 DEF Like

LEMMA LikeLast ==
    ASSUME NEW s, NEW f, NEW m \in Nat, Like(s, f, m), NEW a \in Ops, f[m + 1] = a
    PROVE  Like(s \o <<a>>, f, m + 1)
<1>1. s \in Seq(Ops) /\ Len(s) = m /\ \A j \in 1..m : s[j] = f[j]
  BY DEF Like
<1>2. PICK c : c = s \o <<a>>
  OBVIOUS
<1>3. c \in Seq(Ops) /\ Len(c) = m + 1 /\ c[m + 1] = a /\ \A j \in 1..m : c[j] = s[j]
  BY <1>1, <1>2, Single
<1>4. ASSUME NEW j \in 1..(m + 1) PROVE c[j] = f[j]
  <2>1. j \in 1..m \/ j = m + 1
    OBVIOUS
  <2> QED BY <1>1, <1>3, <2>1
<1> QED BY <1>2, <1>3, <1>4 DEF Like

LEMMA WfAddressScript ==
    ASSUME NEW n \in {1, 2}, NEW c
    PROVE  WfAddressOps(Script("wf address", n, c), n, HARDWARE_MONITOR_LDN(c))
<1>0. PICK full : full = Select(n, HARDWARE_MONITOR_LDN(c)) \o ReadByte(n, \h60) \o ReadByte(n, \h60)
                         \o ReadByte(n, \h23) \o WinbondNuvotonFintekExit(n)
  OBVIOUS
<1>1. PICK i7, v, i60, r60, i23, r23, iAA :
          /\ i7 = Out(<<"index", n>>, 7) /\ v = Out(<<"value", n>>, HARDWARE_MONITOR_LDN(c))
          /\ i60 = Out(<<"index", n>>, \h60) /\ r60 = In(<<"value", n>>, \h60)
          /\ i23 = Out(<<"index", n>>, \h23) /\ r23 = In(<<"value", n>>, \h23) /\ iAA = Out(<<"index", n>>, \hAA)
  OBVIOUS
<1>2. i7 \in Ops /\ v \in Ops /\ i60 \in Ops /\ r60 \in Ops /\ i23 \in Ops /\ r23 \in Ops /\ iAA \in Ops
  <2>1. HARDWARE_MONITOR_LDN(c) \in {11, 2, 4}
    BY DEF HARDWARE_MONITOR_LDN
  <2> QED BY <1>1, <2>1, PortOps
<1>3. full = <<i7, v>> \o <<i60, r60>> \o <<i60, r60>> \o <<i23, r23>> \o <<iAA>>
  BY <1>0, <1>1 DEF Select, ReadByte, WinbondNuvotonFintekExit
<1>4. PICK f : /\ f[1] = i7 /\ f[2] = v /\ f[3] = i60 /\ f[4] = r60 /\ f[5] = i60 /\ f[6] = r60
               /\ f[7] = i23 /\ f[8] = r23 /\ f[9] = iAA
  <2>1. PICK g : g = <<i7, v, i60, r60, i60, r60, i23, r23, iAA>>
    OBVIOUS
  <2>2. /\ g[1] = i7 /\ g[2] = v /\ g[3] = i60 /\ g[4] = r60 /\ g[5] = i60 /\ g[6] = r60
        /\ g[7] = i23 /\ g[8] = r23 /\ g[9] = iAA
    BY <2>1
  <2> QED BY <2>2
<1>5. Like(<<i7, v>>, f, 2)
  BY <1>2, <1>4, OpIs DEF Like, OpSeq
<1>6. Like(<<i7, v>> \o <<i60, r60>> \o <<i60, r60>> \o <<i23, r23>>, f, 8)
  BY <1>2, <1>4, <1>5, LikeMore
<1>7. Like(full, f, 9)
  BY <1>2, <1>3, <1>4, <1>6, LikeLast
<1>8. Len(full) = 9 /\ \A j \in 1..9 : full[j] = f[j]
  BY <1>7 DEF Like
<1>9. /\ full[1] = i7 /\ full[2] = v /\ full[3] = i60 /\ full[4] = r60 /\ full[5] = i60 /\ full[6] = r60
      /\ full[7] = i23 /\ full[8] = r23 /\ full[9] = iAA
  BY <1>4, <1>8
<1>10. WfAddressOps(full, n, HARDWARE_MONITOR_LDN(c))
  BY <1>1, <1>8, <1>9 DEF WfAddressOps
<1>11. Script("wf address", n, c) = full
  BY <1>0 DEF Script
<1> QED BY <1>10, <1>11, Zenon

LEMMA ItAddressScript ==
    ASSUME NEW n \in {1, 2}, NEW c
    PROVE  ItAddressOps(Script("it address", n, c), n)
<1>0. PICK full : full = Select(n, 4) \o ReadByte(n, \h60) \o ReadByte(n, \h60) \o ReadByte(n, \h22)
                         \o Select(n, 7) \o ReadByte(n, \h62) \o ReadByte(n, \h62) \o IT87Exit(n)
  OBVIOUS
<1>1. PICK i7, v4, v7, i60, r60, i22, r22, i62, r62, i2, v2 :
          /\ i7 = Out(<<"index", n>>, 7) /\ v4 = Out(<<"value", n>>, 4) /\ v7 = Out(<<"value", n>>, 7)
          /\ i60 = Out(<<"index", n>>, \h60) /\ r60 = In(<<"value", n>>, \h60)
          /\ i22 = Out(<<"index", n>>, \h22) /\ r22 = In(<<"value", n>>, \h22)
          /\ i62 = Out(<<"index", n>>, \h62) /\ r62 = In(<<"value", n>>, \h62)
          /\ i2 = Out(<<"index", n>>, 2) /\ v2 = Out(<<"value", n>>, 2)
  OBVIOUS
<1>2. /\ i7 \in Ops /\ v4 \in Ops /\ v7 \in Ops /\ i60 \in Ops /\ r60 \in Ops /\ i22 \in Ops /\ r22 \in Ops
      /\ i62 \in Ops /\ r62 \in Ops /\ i2 \in Ops /\ v2 \in Ops
  BY <1>1, PortOps
<1>3. full = <<i7, v4>> \o <<i60, r60>> \o <<i60, r60>> \o <<i22, r22>> \o <<i7, v7>> \o <<i62, r62>>
             \o <<i62, r62>> \o <<i2, v2>>
  BY <1>0, <1>1 DEF Select, ReadByte, IT87Exit
<1>4. PICK f : /\ f[1] = i7 /\ f[2] = v4 /\ f[3] = i60 /\ f[4] = r60 /\ f[5] = i60 /\ f[6] = r60
               /\ f[7] = i22 /\ f[8] = r22 /\ f[9] = i7 /\ f[10] = v7 /\ f[11] = i62 /\ f[12] = r62
               /\ f[13] = i62 /\ f[14] = r62 /\ f[15] = i2 /\ f[16] = v2
  <2>1. PICK g : g = <<i7, v4, i60, r60, i60, r60, i22, r22, i7, v7, i62, r62, i62, r62, i2, v2>>
    OBVIOUS
  <2>2. /\ g[1] = i7 /\ g[2] = v4 /\ g[3] = i60 /\ g[4] = r60 /\ g[5] = i60 /\ g[6] = r60
        /\ g[7] = i22 /\ g[8] = r22 /\ g[9] = i7 /\ g[10] = v7 /\ g[11] = i62 /\ g[12] = r62
        /\ g[13] = i62 /\ g[14] = r62 /\ g[15] = i2 /\ g[16] = v2
    BY <2>1
  <2> QED BY <2>2
<1>5. Like(<<i7, v4>>, f, 2)
  BY <1>2, <1>4, OpIs DEF Like, OpSeq
<1>6. Like(<<i7, v4>> \o <<i60, r60>> \o <<i60, r60>> \o <<i22, r22>>, f, 8)
  BY <1>2, <1>4, <1>5, LikeMore
<1>7. Like(full, f, 16)
  <2>1. PICK h : h = <<i7, v4>> \o <<i60, r60>> \o <<i60, r60>> \o <<i22, r22>> /\ Like(h, f, 8)
    BY <1>6
  <2>2. Like(h \o <<i7, v7>> \o <<i62, r62>> \o <<i62, r62>> \o <<i2, v2>>, f, 16)
    BY <1>2, <1>4, <2>1, LikeMore
  <2>3. full = h \o <<i7, v7>> \o <<i62, r62>> \o <<i62, r62>> \o <<i2, v2>>
    BY <1>3, <2>1, Zenon
  <2> QED BY <2>2, <2>3
<1>8. Len(full) = 16 /\ \A j \in 1..16 : full[j] = f[j]
  BY <1>7 DEF Like
<1>9. /\ full[1] = i7 /\ full[2] = v4 /\ full[3] = i60 /\ full[4] = r60 /\ full[5] = i60 /\ full[6] = r60
      /\ full[7] = i22 /\ full[8] = r22
  BY <1>4, <1>8
<1>10. /\ full[9] = i7 /\ full[10] = v7 /\ full[11] = i62 /\ full[12] = r62
       /\ full[13] = i62 /\ full[14] = r62 /\ full[15] = i2 /\ full[16] = v2
  BY <1>4, <1>8
<1>11. ItAddressOps(full, n)
  BY <1>1, <1>8, <1>9, <1>10 DEF ItAddressOps
<1>12. Script("it address", n, c) = full
  BY <1>0 DEF Script
<1> QED BY <1>11, <1>12, Zenon

\* The scripts that read the monitor leave the other ports alone.
LEMMA VendorScripts ==
    ASSUME NEW w \in Vendors, NEW n, NEW c
    PROVE  MonitorOnly(Script(w, n, c))
<1>1. <<"addr">>[1] = "addr" /\ <<"data">>[1] = "data"
  OBVIOUS
<1>2. ASSUME NEW at PROVE MonitorOnly(ReadByte836(at))
  <2>1. PICK f : f = ReadByte836(at)
    OBVIOUS
  <2>2. Len(f) = 4
    BY <2>1 DEF ReadByte836, Select836
  <2>3. /\ f[1].port[1] \in {"addr", "data"} /\ f[2].port[1] \in {"addr", "data"}
        /\ f[3].port[1] \in {"addr", "data"} /\ f[4].port[1] \in {"addr", "data"}
    BY <1>1, <2>1, Read836, OutIs, InIs
  <2> QED BY <2>1, <2>2, <2>3 DEF MonitorOnly
<1>3. MonitorOnly(Vendor)
  <2>1. PICK f, e : f = ReadByte836(<<\h80, \h4F>>) /\ e = ReadByte836(<<0, \h4F>>)
    OBVIOUS
  <2>2. <<\h80, \h4F>> \in Places /\ <<0, \h4F>> \in Places
    BY DEF Places, Byte
  <2>3. f \in Seq(Ops) /\ e \in Seq(Ops) /\ Len(f) = 4 /\ Len(e) = 4
    BY <2>1, <2>2, MonitorOps DEF OpSeq
  <2>4. MonitorOnly(f) /\ MonitorOnly(e)
    BY <1>2, <2>1
  <2>5. PICK d : d = f \o e
    OBVIOUS
  <2>6. Len(d) = Len(f) + Len(e) /\ \A j \in 1..(Len(f) + Len(e)) : d[j] = IF j <= Len(f) THEN f[j] ELSE e[j - Len(f)]
    BY <2>3, <2>5, ConcatProperties
  <2>7. Len(d) = 8 /\ \A j \in 1..8 : d[j] = IF j <= 4 THEN f[j] ELSE e[j - 4]
    BY <2>3, <2>6
  <2>8. ASSUME NEW j \in 1..8 PROVE d[j].port[1] \in {"addr", "data"}
    <3>1. CASE j <= 4
      BY <2>3, <2>4, <2>7, <3>1 DEF MonitorOnly
    <3>2. CASE j > 4
      <4>1. j - 4 \in 1..4 /\ d[j] = e[j - 4]
        BY <2>7, <3>2
      <4> QED BY <2>3, <2>4, <4>1 DEF MonitorOnly
    <3> QED BY <3>1, <3>2
  <2>9. Vendor = d
    BY <2>1, <2>5 DEF Vendor
  <2>10. Len(d) = 8
    BY <2>7
  <2>11. MonitorOnly(d)
    BY <2>8, <2>10 DEF MonitorOnly
  <2> QED BY <2>9, <2>11, Zenon
<1>4. ASSUME NEW at PROVE MonitorOnly(ReadByte87(at))
  <2>1. PICK f : f = ReadByte87(at)
    OBVIOUS
  <2>2. Len(f) = 3
    BY <2>1 DEF ReadByte87
  <2>3. f[1].port[1] \in {"addr", "data"} /\ f[2].port[1] \in {"addr", "data"} /\ f[3].port[1] \in {"addr", "data"}
    BY <1>1, <2>1, Read87, OutIs, InIs
  <2> QED BY <2>1, <2>2, <2>3 DEF MonitorOnly
<1>6. CASE w = "w vendor"
  BY <1>3, <1>6 DEF Script, Vendor
<1>7. CASE w = "w source"
  BY <1>2, <1>7 DEF Script
<1>8. CASE w = "it vendor"
  BY <1>4, <1>8 DEF Script
<1>9. CASE w = "it config"
  BY <1>4, <1>9 DEF Script
<1> QED BY <1>6, <1>7, <1>8, <1>9 DEF Vendors
-----------------------------------------------------------------------------
(* One access of each stage.                                                *)

\* t is s with y behind it.
Extends(s, t, y) == Len(t) = Len(s) + 1 /\ t[Len(s) + 1] = y /\ \A j \in 1..Len(s) : t[j] = s[j]

LEMMA ExtendedIs ==
    ASSUME NEW S, NEW s \in Seq(S), NEW t \in Seq(S), NEW y \in S, Extends(s, t, y)
    PROVE  Append(s, y) = t
<1>0. Len(t) = Len(s) + 1 /\ t[Len(s) + 1] = y /\ \A j \in 1..Len(s) : t[j] = s[j]
  BY DEF Extends
<1>1. PICK z \in Seq(S) : z = Append(s, y)
  BY AppendProperties
<1>2. Len(z) = Len(s) + 1 /\ z[Len(s) + 1] = y /\ \A j \in 1..Len(s) : z[j] = s[j]
  BY <1>1, AppendProperties
<1>3. ASSUME NEW j \in 1..Len(t) PROVE z[j] = t[j]
  <2>1. j \in 1..Len(s) \/ j = Len(s) + 1
    BY <1>0
  <2> QED BY <1>0, <1>2, <2>1
<1>4. z = t
  BY <1>0, <1>2, <1>3, SeqEqual
<1> QED BY <1>1, <1>4

LEMMA Second ==
    ASSUME NEW a, NEW b PROVE Append(<<a>>, b) = <<a, b>>
<1>1. PICK s, t, S : s = <<a>> /\ t = <<a, b>> /\ S = {a, b}
  OBVIOUS
<1>2. s \in Seq(S) /\ t \in Seq(S) /\ b \in S
  BY <1>1
<1>3. Extends(s, t, b)
  BY <1>1 DEF Extends
<1>4. Append(s, b) = t
  BY <1>2, <1>3, ExtendedIs
<1> QED BY <1>1, <1>4, Zenon

LEMMA Third ==
    ASSUME NEW a, NEW b, NEW c PROVE Append(<<a, b>>, c) = <<a, b, c>>
<1>1. PICK s, t, S : s = <<a, b>> /\ t = <<a, b, c>> /\ S = {a, b, c}
  OBVIOUS
<1>2. s \in Seq(S) /\ t \in Seq(S) /\ c \in S
  BY <1>1
<1>3. Extends(s, t, c)
  BY <1>1 DEF Extends
<1>4. Append(s, c) = t
  BY <1>2, <1>3, ExtendedIs
<1> QED BY <1>1, <1>4, Zenon

LEMMA Fourth ==
    ASSUME NEW a, NEW b, NEW c, NEW d PROVE Append(<<a, b, c>>, d) = <<a, b, c, d>>
<1>1. PICK s, t, S : s = <<a, b, c>> /\ t = <<a, b, c, d>> /\ S = {a, b, c, d}
  OBVIOUS
<1>2. s \in Seq(S) /\ t \in Seq(S) /\ d \in S
  BY <1>1
<1>3. Extends(s, t, d)
  BY <1>1 DEF Extends
<1>4. Append(s, d) = t
  BY <1>2, <1>3, ExtendedIs
<1> QED BY <1>1, <1>4, Zenon

LEMMA Fifth ==
    ASSUME NEW a, NEW b, NEW c, NEW d, NEW e PROVE Append(<<a, b, c, d>>, e) = <<a, b, c, d, e>>
<1>1. PICK s, t, S : s = <<a, b, c, d>> /\ t = <<a, b, c, d, e>> /\ S = {a, b, c, d, e}
  OBVIOUS
<1>2. s \in Seq(S) /\ t \in Seq(S) /\ e \in S
  BY <1>1
<1>3. Extends(s, t, e)
  BY <1>1 DEF Extends
<1>4. Append(s, e) = t
  BY <1>2, <1>3, ExtendedIs
<1> QED BY <1>1, <1>4, Zenon

\* The monitor of an ITE chip is device 4.
LEMMA ItDevice == \A bd \in Boards : bd.model \in IT87Chips => bd.ldn = 4
<1>1. ASSUME NEW c \in IT87Chips PROVE HARDWARE_MONITOR_LDN(c) = 4
  BY DEF IT87Chips, HARDWARE_MONITOR_LDN, W836Chips, THFChips, DHGChips, NctChips
<1> QED BY <1>1, MonitorAssumption

LEMMA WfIdStep ==
    ASSUME NEW lock \in Locks, NEW bd, NEW u \in 0..KeyCount(lock), NEW x, NEW l, NEW g,
           NEW u2, NEW x2, NEW l2, NEW g2, NEW n, NEW f, WfIdOps(f, n),
           NEW k \in 0..3, WfId(k, lock, bd, u, x, g), Effect(f[k + 1], lock, bd, u, x, l, g, u2, x2, l2, g2)
    PROVE  WfId(k + 1, lock, bd, u2, x2, g2)
<1>1. CASE k = 0
  <2>1. ToIndex(f[k + 1], \h87)
    BY <1>1, Kinds DEF WfIdOps
  <2>2. IndexSet(lock, \h87, u, x, u2, x2) /\ l2 = l /\ g2 = g
    BY <2>1, EffectIndex
  <2> QED BY <1>1, <2>2 DEF WfId, IndexSet, Turn, KeyCount, Locks
<1>2. CASE k = 1
  <2>1. ToIndex(f[k + 1], \h87)
    BY <1>2, Kinds DEF WfIdOps
  <2>2. IndexSet(lock, \h87, u, x, u2, x2) /\ l2 = l /\ g2 = g
    BY <2>1, EffectIndex
  <2> QED BY <1>2, <2>2 DEF WfId, IndexSet, Turn, KeyCount, Locks
<1>3. CASE k = 2
  <2>1. ToIndex(f[k + 1], \h20)
    BY <1>3, Kinds DEF WfIdOps
  <2>2. IndexSet(lock, \h20, u, x, u2, x2) /\ l2 = l /\ g2 = g
    BY <2>1, EffectIndex
  <2> QED BY <1>3, <2>2 DEF WfId, IndexSet, Turn, KeyCount, Locks
<1>4. CASE k = 3
  <2>1. FromValue(f[k + 1])
    BY <1>4, Kinds DEF WfIdOps
  <2>2. u2 = u /\ x2 = x /\ l2 = l /\ g2 = Append(g, Conf(lock, bd, u, x, l))
    BY <2>1, EffectRead
  <2>3. g = << >>
    BY <1>4 DEF WfId
  <2>4. Conf(lock, bd, u, x, l) = (IF u = KeyCount(lock) THEN bd.model ELSE "none")
    BY <1>4 DEF WfId, Conf, KeyCount, Locks
  <2>5. g2 = <<(IF u = KeyCount(lock) THEN bd.model ELSE "none")>>
    BY <2>2, <2>3, <2>4
  <2>6. u2 = u /\ x2 = x /\ l2 = l
    BY <2>2
  <2> QED BY <1>4, <2>5, <2>6 DEF WfId, KeyCount, Locks, IdGot
<1> QED BY <1>1, <1>2, <1>3, <1>4

LEMMA WfExitStep ==
    ASSUME NEW lock \in Locks, NEW bd, NEW u \in 0..KeyCount(lock), NEW x, NEW l, NEW g,
           NEW u2, NEW x2, NEW l2, NEW g2, NEW n, NEW f, ExitOps(f, n),
           NEW k \in 0..0, WfExit(k, lock, u), Effect(f[k + 1], lock, bd, u, x, l, g, u2, x2, l2, g2)
    PROVE  WfExit(k + 1, lock, u2)
<1>1. CASE k = 0
  <2>0. f[k + 1] = Out(<<"index", n>>, \hAA)
    BY <1>1 DEF ExitOps
  <2>1. ToIndex(f[k + 1], \hAA)
    BY <2>0, Kinds, Zenon
  <2>2. IndexSet(lock, \hAA, u, x, u2, x2) /\ l2 = l /\ g2 = g
    BY <2>1, EffectIndex
  <2> QED BY <1>1, <2>2 DEF WfExit, IndexSet, Turn, KeyCount, Locks
<1> QED BY <1>1

LEMMA WfAddressStep ==
    ASSUME NEW lock \in Locks, NEW bd, NEW u \in 0..KeyCount(lock), NEW x, NEW l, NEW g,
           NEW u2, NEW x2, NEW l2, NEW g2, NEW n, NEW f, WfAddressOps(f, n, bd.ldn),
           NEW k \in 0..8, WfAddress(k, lock, bd, u, x, l, g), Effect(f[k + 1], lock, bd, u, x, l, g, u2, x2, l2, g2)
    PROVE  WfAddress(k + 1, lock, bd, u2, x2, l2, g2)
<1>1. CASE k = 0
  <2>1. ToIndex(f[k + 1], 7)
    BY <1>1, Kinds DEF WfAddressOps
  <2>2. IndexSet(lock, 7, u, x, u2, x2) /\ l2 = l /\ g2 = g
    BY <2>1, EffectIndex
  <2> QED BY <1>1, <2>2 DEF WfAddress, IndexSet, Turn, KeyCount, Locks
<1>2. CASE k = 1
  <2>1. ToValue(f[k + 1], bd.ldn)
    BY <1>2, Kinds DEF WfAddressOps
  <2>2. ValueSet(lock, bd.ldn, u, x, l, u2, l2) /\ x2 = x /\ g2 = g
    BY <2>1, EffectValue
  <2> QED BY <1>2, <2>2 DEF WfAddress, ValueSet, KeyCount, Locks
<1>3. CASE k = 2
  <2>1. ToIndex(f[k + 1], \h60)
    BY <1>3, Kinds DEF WfAddressOps
  <2>2. IndexSet(lock, \h60, u, x, u2, x2) /\ l2 = l /\ g2 = g
    BY <2>1, EffectIndex
  <2> QED BY <1>3, <2>2 DEF WfAddress, IndexSet, Turn, KeyCount, Locks
<1>4. CASE k = 3
  <2>1. FromValue(f[k + 1])
    BY <1>4, Kinds DEF WfAddressOps
  <2>2. u2 = u /\ x2 = x /\ l2 = l /\ g2 = Append(g, Conf(lock, bd, u, x, l))
    BY <2>1, EffectRead
  <2>3. g = << >>
    BY <1>4 DEF WfAddress
  <2>4. Conf(lock, bd, u, x, l) = bd.addr
    BY <1>4 DEF WfAddress, Conf, KeyCount, Locks
  <2>5. g2 = <<bd.addr>>
    BY <2>2, <2>3, <2>4
  <2>6. u2 = u /\ x2 = x /\ l2 = l
    BY <2>2
  <2> QED BY <1>4, <2>5, <2>6 DEF WfAddress, KeyCount, Locks
<1>5. CASE k = 4
  <2>1. ToIndex(f[k + 1], \h60)
    BY <1>5, Kinds DEF WfAddressOps
  <2>2. IndexSet(lock, \h60, u, x, u2, x2) /\ l2 = l /\ g2 = g
    BY <2>1, EffectIndex
  <2> QED BY <1>5, <2>2 DEF WfAddress, IndexSet, Turn, KeyCount, Locks
<1>6. CASE k = 5
  <2>1. FromValue(f[k + 1])
    BY <1>6, Kinds DEF WfAddressOps
  <2>2. u2 = u /\ x2 = x /\ l2 = l /\ g2 = Append(g, Conf(lock, bd, u, x, l))
    BY <2>1, EffectRead
  <2>3. g = <<bd.addr>>
    BY <1>6 DEF WfAddress
  <2>4. Conf(lock, bd, u, x, l) = bd.addr
    BY <1>6 DEF WfAddress, Conf, KeyCount, Locks
  <2>5. g2 = <<bd.addr, bd.addr>>
    BY <2>2, <2>3, <2>4, Second, Zenon
  <2>6. u2 = u /\ x2 = x /\ l2 = l
    BY <2>2
  <2> QED BY <1>6, <2>5, <2>6 DEF WfAddress, KeyCount, Locks
<1>7. CASE k = 6
  <2>1. ToIndex(f[k + 1], \h23)
    BY <1>7, Kinds DEF WfAddressOps
  <2>2. IndexSet(lock, \h23, u, x, u2, x2) /\ l2 = l /\ g2 = g
    BY <2>1, EffectIndex
  <2> QED BY <1>7, <2>2 DEF WfAddress, IndexSet, Turn, KeyCount, Locks
<1>8. CASE k = 7
  <2>1. FromValue(f[k + 1])
    BY <1>8, Kinds DEF WfAddressOps
  <2>2. u2 = u /\ x2 = x /\ l2 = l /\ g2 = Append(g, Conf(lock, bd, u, x, l))
    BY <2>1, EffectRead
  <2>3. g = <<bd.addr, bd.addr>>
    BY <1>8 DEF WfAddress
  <2>4. Conf(lock, bd, u, x, l) = (IF bd.vendor THEN "1934" ELSE "none")
    BY <1>8 DEF WfAddress, Conf, KeyCount, Locks
  <2>5. g2 = <<bd.addr, bd.addr, (IF bd.vendor THEN "1934" ELSE "none")>>
    BY <2>2, <2>3, <2>4, Third, Zenon
  <2>6. u2 = u /\ x2 = x /\ l2 = l
    BY <2>2
  <2> QED BY <1>8, <2>5, <2>6 DEF WfAddress, KeyCount, Locks
<1>9. CASE k = 8
  <2>1. ToIndex(f[k + 1], \hAA)
    BY <1>9, Kinds DEF WfAddressOps
  <2>2. IndexSet(lock, \hAA, u, x, u2, x2) /\ l2 = l /\ g2 = g
    BY <2>1, EffectIndex
  <2> QED BY <1>9, <2>2 DEF WfAddress, IndexSet, Turn, KeyCount, Locks
<1> QED BY <1>1, <1>2, <1>3, <1>4, <1>5, <1>6, <1>7, <1>8, <1>9

LEMMA ItIdStep ==
    ASSUME NEW lock \in Locks, NEW bd, NEW u \in 0..KeyCount(lock), NEW x, NEW l, NEW g,
           NEW u2, NEW x2, NEW l2, NEW g2, NEW n, NEW f, ItIdOps(f, n),
           NEW k \in 0..5, ItId(k, lock, bd, u, x, g), Effect(f[k + 1], lock, bd, u, x, l, g, u2, x2, l2, g2)
    PROVE  ItId(k + 1, lock, bd, u2, x2, g2)
<1>1. CASE k = 0
  <2>1. ToIndex(f[k + 1], \h87)
    BY <1>1, Kinds DEF ItIdOps
  <2>2. IndexSet(lock, \h87, u, x, u2, x2) /\ l2 = l /\ g2 = g
    BY <2>1, EffectIndex
  <2> QED BY <1>1, <2>2 DEF ItId, IndexSet, Turn, KeyCount, Locks
<1>2. CASE k = 1
  <2>1. ToIndex(f[k + 1], 1)
    BY <1>2, Kinds DEF ItIdOps
  <2>2. IndexSet(lock, 1, u, x, u2, x2) /\ l2 = l /\ g2 = g
    BY <2>1, EffectIndex
  <2> QED BY <1>2, <2>2 DEF ItId, IndexSet, Turn, KeyCount, Locks
<1>3. CASE k = 2
  <2>1. ToIndex(f[k + 1], \h55)
    BY <1>3, Kinds DEF ItIdOps
  <2>2. IndexSet(lock, \h55, u, x, u2, x2) /\ l2 = l /\ g2 = g
    BY <2>1, EffectIndex
  <2> QED BY <1>3, <2>2 DEF ItId, IndexSet, Turn, KeyCount, Locks
<1>4. CASE k = 3
  <2>1. ToIndex(f[k + 1], \h55)
    BY <1>4, Kinds DEF ItIdOps
  <2>2. IndexSet(lock, \h55, u, x, u2, x2) /\ l2 = l /\ g2 = g
    BY <2>1, EffectIndex
  <2> QED BY <1>4, <2>2 DEF ItId, IndexSet, Turn, KeyCount, Locks
<1>5. CASE k = 4
  <2>1. ToIndex(f[k + 1], \h20)
    BY <1>5, Kinds DEF ItIdOps
  <2>2. IndexSet(lock, \h20, u, x, u2, x2) /\ l2 = l /\ g2 = g
    BY <2>1, EffectIndex
  <2> QED BY <1>5, <2>2 DEF ItId, IndexSet, Turn, KeyCount, Locks
<1>6. CASE k = 5
  <2>1. FromValue(f[k + 1])
    BY <1>6, Kinds DEF ItIdOps
  <2>2. u2 = u /\ x2 = x /\ l2 = l /\ g2 = Append(g, Conf(lock, bd, u, x, l))
    BY <2>1, EffectRead
  <2>3. g = << >>
    BY <1>6 DEF ItId
  <2>4. Conf(lock, bd, u, x, l) = (IF u = KeyCount(lock) THEN bd.model ELSE "none")
    BY <1>6 DEF ItId, Conf, KeyCount, Locks
  <2>5. g2 = <<(IF u = KeyCount(lock) THEN bd.model ELSE "none")>>
    BY <2>2, <2>3, <2>4
  <2>6. u2 = u /\ x2 = x /\ l2 = l
    BY <2>2
  <2> QED BY <1>6, <2>5, <2>6 DEF ItId, KeyCount, Locks, IdGot
<1> QED BY <1>1, <1>2, <1>3, <1>4, <1>5, <1>6

LEMMA ItExitStep ==
    ASSUME NEW lock \in Locks, NEW bd, NEW u \in 0..KeyCount(lock), NEW x, NEW l, NEW g,
           NEW u2, NEW x2, NEW l2, NEW g2, NEW n, NEW f, ItExitOps(f, n),
           NEW k \in 0..1, ItExit(k, lock, u, x), Effect(f[k + 1], lock, bd, u, x, l, g, u2, x2, l2, g2)
    PROVE  ItExit(k + 1, lock, u2, x2)
<1>1. CASE k = 0
  <2>1. ToIndex(f[k + 1], 2)
    BY <1>1, Kinds DEF ItExitOps
  <2>2. IndexSet(lock, 2, u, x, u2, x2) /\ l2 = l /\ g2 = g
    BY <2>1, EffectIndex
  <2> QED BY <1>1, <2>2 DEF ItExit, IndexSet, Turn, KeyCount, Locks
<1>2. CASE k = 1
  <2>1. ToValue(f[k + 1], 2)
    BY <1>2, Kinds DEF ItExitOps
  <2>2. ValueSet(lock, 2, u, x, l, u2, l2) /\ x2 = x /\ g2 = g
    BY <2>1, EffectValue
  <2> QED BY <1>2, <2>2 DEF ItExit, ValueSet, KeyCount, Locks
<1> QED BY <1>1, <1>2

LEMMA ItAddressStep ==
    ASSUME NEW lock \in Locks, NEW bd \in Boards, NEW u \in 0..KeyCount(lock), NEW x, NEW l, NEW g,
           NEW u2, NEW x2, NEW l2, NEW g2, NEW n, NEW f, ItAddressOps(f, n),
           NEW k \in 0..15, ItAddress(k, lock, bd, u, x, l, g), Effect(f[k + 1], lock, bd, u, x, l, g, u2, x2, l2, g2)
    PROVE  ItAddress(k + 1, lock, bd, u2, x2, l2, g2)
<1>1. CASE k = 0
  <2>1. ToIndex(f[k + 1], 7)
    BY <1>1, Kinds DEF ItAddressOps
  <2>2. IndexSet(lock, 7, u, x, u2, x2) /\ l2 = l /\ g2 = g
    BY <2>1, EffectIndex
  <2> QED BY <1>1, <2>2 DEF ItAddress, IndexSet, Turn, KeyCount, Locks
<1>2. CASE k = 1
  <2>1. ToValue(f[k + 1], 4)
    BY <1>2, Kinds DEF ItAddressOps
  <2>2. ValueSet(lock, 4, u, x, l, u2, l2) /\ x2 = x /\ g2 = g
    BY <2>1, EffectValue
  <2> QED BY <1>2, <2>2, ItDevice DEF ItAddress, ValueSet, KeyCount, Locks
<1>3. CASE k = 2
  <2>1. ToIndex(f[k + 1], \h60)
    BY <1>3, Kinds DEF ItAddressOps
  <2>2. IndexSet(lock, \h60, u, x, u2, x2) /\ l2 = l /\ g2 = g
    BY <2>1, EffectIndex
  <2> QED BY <1>3, <2>2 DEF ItAddress, IndexSet, Turn, KeyCount, Locks
<1>4. CASE k = 3
  <2>1. FromValue(f[k + 1])
    BY <1>4, Kinds DEF ItAddressOps
  <2>2. u2 = u /\ x2 = x /\ l2 = l /\ g2 = Append(g, Conf(lock, bd, u, x, l))
    BY <2>1, EffectRead
  <2>3. g = << >>
    BY <1>4 DEF ItAddress
  <2>4. Conf(lock, bd, u, x, l) = bd.addr
    BY <1>4 DEF ItAddress, Conf, KeyCount, Locks
  <2>5. g2 = <<bd.addr>>
    BY <2>2, <2>3, <2>4
  <2>6. u2 = u /\ x2 = x /\ l2 = l
    BY <2>2
  <2> QED BY <1>4, <2>5, <2>6 DEF ItAddress, KeyCount, Locks
<1>5. CASE k = 4
  <2>1. ToIndex(f[k + 1], \h60)
    BY <1>5, Kinds DEF ItAddressOps
  <2>2. IndexSet(lock, \h60, u, x, u2, x2) /\ l2 = l /\ g2 = g
    BY <2>1, EffectIndex
  <2> QED BY <1>5, <2>2 DEF ItAddress, IndexSet, Turn, KeyCount, Locks
<1>6. CASE k = 5
  <2>1. FromValue(f[k + 1])
    BY <1>6, Kinds DEF ItAddressOps
  <2>2. u2 = u /\ x2 = x /\ l2 = l /\ g2 = Append(g, Conf(lock, bd, u, x, l))
    BY <2>1, EffectRead
  <2>3. g = <<bd.addr>>
    BY <1>6 DEF ItAddress
  <2>4. Conf(lock, bd, u, x, l) = bd.addr
    BY <1>6 DEF ItAddress, Conf, KeyCount, Locks
  <2>5. g2 = <<bd.addr, bd.addr>>
    BY <2>2, <2>3, <2>4, Second, Zenon
  <2>6. u2 = u /\ x2 = x /\ l2 = l
    BY <2>2
  <2> QED BY <1>6, <2>5, <2>6 DEF ItAddress, KeyCount, Locks
<1>7. CASE k = 6
  <2>1. ToIndex(f[k + 1], \h22)
    BY <1>7, Kinds DEF ItAddressOps
  <2>2. IndexSet(lock, \h22, u, x, u2, x2) /\ l2 = l /\ g2 = g
    BY <2>1, EffectIndex
  <2> QED BY <1>7, <2>2 DEF ItAddress, IndexSet, Turn, KeyCount, Locks
<1>8. CASE k = 7
  <2>1. FromValue(f[k + 1])
    BY <1>8, Kinds DEF ItAddressOps
  <2>2. u2 = u /\ x2 = x /\ l2 = l /\ g2 = Append(g, Conf(lock, bd, u, x, l))
    BY <2>1, EffectRead
  <2>3. g = <<bd.addr, bd.addr>>
    BY <1>8 DEF ItAddress
  <2>4. Conf(lock, bd, u, x, l) = "other"
    BY <1>8 DEF ItAddress, Conf, KeyCount, Locks
  <2>5. g2 = <<bd.addr, bd.addr, "other">>
    BY <2>2, <2>3, <2>4, Third, Zenon
  <2>6. u2 = u /\ x2 = x /\ l2 = l
    BY <2>2
  <2> QED BY <1>8, <2>5, <2>6 DEF ItAddress, KeyCount, Locks
<1>9. CASE k = 8
  <2>1. ToIndex(f[k + 1], 7)
    BY <1>9, Kinds DEF ItAddressOps
  <2>2. IndexSet(lock, 7, u, x, u2, x2) /\ l2 = l /\ g2 = g
    BY <2>1, EffectIndex
  <2> QED BY <1>9, <2>2 DEF ItAddress, IndexSet, Turn, KeyCount, Locks
<1>10. CASE k = 9
  <2>1. ToValue(f[k + 1], 7)
    BY <1>10, Kinds DEF ItAddressOps
  <2>2. ValueSet(lock, 7, u, x, l, u2, l2) /\ x2 = x /\ g2 = g
    BY <2>1, EffectValue
  <2> QED BY <1>10, <2>2 DEF ItAddress, ValueSet, KeyCount, Locks
<1>11. CASE k = 10
  <2>1. ToIndex(f[k + 1], \h62)
    BY <1>11, Kinds DEF ItAddressOps
  <2>2. IndexSet(lock, \h62, u, x, u2, x2) /\ l2 = l /\ g2 = g
    BY <2>1, EffectIndex
  <2> QED BY <1>11, <2>2 DEF ItAddress, IndexSet, Turn, KeyCount, Locks
<1>12. CASE k = 11
  <2>1. FromValue(f[k + 1])
    BY <1>12, Kinds DEF ItAddressOps
  <2>2. u2 = u /\ x2 = x /\ l2 = l /\ g2 = Append(g, Conf(lock, bd, u, x, l))
    BY <2>1, EffectRead
  <2>3. g = <<bd.addr, bd.addr, "other">>
    BY <1>12 DEF ItAddress
  <2>4. Conf(lock, bd, u, x, l) = bd.gpio
    BY <1>12 DEF ItAddress, Conf, KeyCount, Locks
  <2>5. g2 = <<bd.addr, bd.addr, "other", bd.gpio>>
    BY <2>2, <2>3, <2>4, Fourth, Zenon
  <2>6. u2 = u /\ x2 = x /\ l2 = l
    BY <2>2
  <2> QED BY <1>12, <2>5, <2>6 DEF ItAddress, KeyCount, Locks
<1>13. CASE k = 12
  <2>1. ToIndex(f[k + 1], \h62)
    BY <1>13, Kinds DEF ItAddressOps
  <2>2. IndexSet(lock, \h62, u, x, u2, x2) /\ l2 = l /\ g2 = g
    BY <2>1, EffectIndex
  <2> QED BY <1>13, <2>2 DEF ItAddress, IndexSet, Turn, KeyCount, Locks
<1>14. CASE k = 13
  <2>1. FromValue(f[k + 1])
    BY <1>14, Kinds DEF ItAddressOps
  <2>2. u2 = u /\ x2 = x /\ l2 = l /\ g2 = Append(g, Conf(lock, bd, u, x, l))
    BY <2>1, EffectRead
  <2>3. g = <<bd.addr, bd.addr, "other", bd.gpio>>
    BY <1>14 DEF ItAddress
  <2>4. Conf(lock, bd, u, x, l) = bd.gpio
    BY <1>14 DEF ItAddress, Conf, KeyCount, Locks
  <2>5. g2 = <<bd.addr, bd.addr, "other", bd.gpio, bd.gpio>>
    BY <2>2, <2>3, <2>4, Fifth, Zenon
  <2>6. u2 = u /\ x2 = x /\ l2 = l
    BY <2>2
  <2> QED BY <1>14, <2>5, <2>6 DEF ItAddress, KeyCount, Locks
<1>15. CASE k = 14
  <2>1. ToIndex(f[k + 1], 2)
    BY <1>15, Kinds DEF ItAddressOps
  <2>2. IndexSet(lock, 2, u, x, u2, x2) /\ l2 = l /\ g2 = g
    BY <2>1, EffectIndex
  <2> QED BY <1>15, <2>2 DEF ItAddress, IndexSet, Turn, KeyCount, Locks
<1>16. CASE k = 15
  <2>1. ToValue(f[k + 1], 2)
    BY <1>16, Kinds DEF ItAddressOps
  <2>2. ValueSet(lock, 2, u, x, l, u2, l2) /\ x2 = x /\ g2 = g
    BY <2>1, EffectValue
  <2> QED BY <1>16, <2>2 DEF ItAddress, ValueSet, KeyCount, Locks
<1> QED BY <1>1, <1>2, <1>3, <1>4, <1>5, <1>6, <1>7, <1>8, <1>9, <1>10, <1>11, <1>12, <1>13, <1>14, <1>15, <1>16

LEMMA SmscIdStep ==
    ASSUME NEW lock \in Locks, NEW bd, NEW u \in 0..KeyCount(lock), NEW x, NEW l, NEW g,
           NEW u2, NEW x2, NEW l2, NEW g2, NEW n, NEW f, SmscIdOps(f, n),
           NEW k \in 0..2, SmscId(k, lock, bd, u, x, g), Effect(f[k + 1], lock, bd, u, x, l, g, u2, x2, l2, g2)
    PROVE  SmscId(k + 1, lock, bd, u2, x2, g2)
<1>1. CASE k = 0
  <2>1. ToIndex(f[k + 1], \h55)
    BY <1>1, Kinds DEF SmscIdOps
  <2>2. IndexSet(lock, \h55, u, x, u2, x2) /\ l2 = l /\ g2 = g
    BY <2>1, EffectIndex
  <2> QED BY <1>1, <2>2 DEF SmscId, IndexSet, Turn, KeyCount, Locks
<1>2. CASE k = 1
  <2>1. ToIndex(f[k + 1], \h20)
    BY <1>2, Kinds DEF SmscIdOps
  <2>2. IndexSet(lock, \h20, u, x, u2, x2) /\ l2 = l /\ g2 = g
    BY <2>1, EffectIndex
  <2> QED BY <1>2, <2>2 DEF SmscId, IndexSet, Turn, KeyCount, Locks
<1>3. CASE k = 2
  <2>1. FromValue(f[k + 1])
    BY <1>3, Kinds DEF SmscIdOps
  <2>2. u2 = u /\ x2 = x /\ l2 = l /\ g2 = Append(g, Conf(lock, bd, u, x, l))
    BY <2>1, EffectRead
  <2>3. g = << >>
    BY <1>3 DEF SmscId
  <2>4. Conf(lock, bd, u, x, l) = (IF u = KeyCount(lock) THEN bd.model ELSE "none")
    BY <1>3 DEF SmscId, Conf, KeyCount, Locks
  <2>5. g2 = <<(IF u = KeyCount(lock) THEN bd.model ELSE "none")>>
    BY <2>2, <2>3, <2>4
  <2>6. u2 = u /\ x2 = x /\ l2 = l
    BY <2>2
  <2> QED BY <1>3, <2>5, <2>6 DEF SmscId, KeyCount, Locks, IdGot
<1> QED BY <1>1, <1>2, <1>3

LEMMA SmscExitStep ==
    ASSUME NEW lock \in Locks, NEW bd, NEW u \in 0..KeyCount(lock), NEW x, NEW l, NEW g,
           NEW u2, NEW x2, NEW l2, NEW g2, NEW n, NEW f, ExitOps(f, n),
           NEW k \in 0..0, SmscExit(k, lock, u), Effect(f[k + 1], lock, bd, u, x, l, g, u2, x2, l2, g2)
    PROVE  SmscExit(k + 1, lock, u2)
<1>1. CASE k = 0
  <2>0. f[k + 1] = Out(<<"index", n>>, \hAA)
    BY <1>1 DEF ExitOps
  <2>1. ToIndex(f[k + 1], \hAA)
    BY <2>0, Kinds, Zenon
  <2>2. IndexSet(lock, \hAA, u, x, u2, x2) /\ l2 = l /\ g2 = g
    BY <2>1, EffectIndex
  <2> QED BY <1>1, <2>2 DEF SmscExit, IndexSet, Turn, KeyCount, Locks
<1> QED BY <1>1

-----------------------------------------------------------------------------
(* One access of any stage, and what is left when there is no more to do.   *)

LEMMA MonitorAt ==
    ASSUME NEW f, MonitorOnly(f), NEW k \in Nat, k < Len(f)
    PROVE  k + 1 \in 0..16 /\ f[k + 1].port[1] \in {"addr", "data"}
<1>1. PICK m \in 1..16 : m = Len(f)
  BY DEF MonitorOnly
<1>2. k < m
  BY <1>1
<1>3. k + 1 \in 1..m /\ k + 1 \in 0..16
  BY <1>2
<1>4. k + 1 \in 1..Len(f)
  BY <1>1, <1>3
<1> QED BY <1>3, <1>4, Zenon DEF MonitorOnly

LEMMA StageStep ==
    ASSUME NEW lock \in Locks, NEW bd \in Boards, NEW u \in 0..KeyCount(lock), NEW x, NEW l, NEW g,
           NEW u2, NEW x2, NEW l2, NEW g2, NEW n \in {1, 2}, NEW w \in Probing, NEW f, f = Script(w, n, bd.model),
           NEW k \in Nat, k < Len(f), StageOK(w, k, lock, bd, u, x, l, g),
           Effect(f[k + 1], lock, bd, u, x, l, g, u2, x2, l2, g2)
    PROVE  k + 1 \in 0..16 /\ StageOK(w, k + 1, lock, bd, u2, x2, l2, g2)
<1>1. CASE w = "wf id"
  <2>1. WfId(k, lock, bd, u, x, g)
    BY <1>1 DEF StageOK
  <2>2. WfIdOps(f, n)
    BY <1>1, IdScripts, Zenon
  <2>3. Len(f) = 4
    BY <2>2 DEF WfIdOps
  <2>4. k \in 0..3 /\ k + 1 \in 0..16
    BY <2>3
  <2>5. WfId(k + 1, lock, bd, u2, x2, g2)
    BY <2>1, <2>2, <2>4, WfIdStep
  <2>6. w \notin Vendors
    BY <1>1 DEF Vendors
  <2> QED BY <1>1, <2>4, <2>5, <2>6, Zenon DEF StageOK
<1>2. CASE w = "wf exit"
  <2>1. WfExit(k, lock, u)
    BY <1>2 DEF StageOK
  <2>2. ExitOps(f, n)
    BY <1>2, ExitScripts, Zenon
  <2>3. Len(f) = 1
    BY <2>2 DEF ExitOps
  <2>4. k \in 0..0 /\ k + 1 \in 0..16
    BY <2>3
  <2>5. WfExit(k + 1, lock, u2)
    BY <2>1, <2>2, <2>4, WfExitStep
  <2>6. w \notin Vendors
    BY <1>2 DEF Vendors
  <2> QED BY <1>2, <2>4, <2>5, <2>6, Zenon DEF StageOK
<1>3. CASE w = "wf address"
  <2>1. WfAddress(k, lock, bd, u, x, l, g)
    BY <1>3 DEF StageOK
  <2>2. WfAddressOps(f, n, bd.ldn)
    <3>1. bd.ldn = HARDWARE_MONITOR_LDN(bd.model)
      <4>1. bd.model \in WfChips
        BY <2>1 DEF WfAddress
      <4> QED BY <4>1, MonitorAssumption DEF WfChips
    <3> QED BY <1>3, <3>1, WfAddressScript, Zenon
  <2>3. Len(f) = 9
    BY <2>2 DEF WfAddressOps
  <2>4. k \in 0..8 /\ k + 1 \in 0..16
    BY <2>3
  <2>5. WfAddress(k + 1, lock, bd, u2, x2, l2, g2)
    BY <2>1, <2>2, <2>4, WfAddressStep
  <2>6. w \notin Vendors
    BY <1>3 DEF Vendors
  <2> QED BY <1>3, <2>4, <2>5, <2>6, Zenon DEF StageOK
<1>4. CASE w = "it id"
  <2>1. ItId(k, lock, bd, u, x, g)
    BY <1>4 DEF StageOK
  <2>2. ItIdOps(f, n)
    BY <1>4, IdScripts, Zenon
  <2>3. Len(f) = 6
    BY <2>2 DEF ItIdOps
  <2>4. k \in 0..5 /\ k + 1 \in 0..16
    BY <2>3
  <2>5. ItId(k + 1, lock, bd, u2, x2, g2)
    BY <2>1, <2>2, <2>4, ItIdStep
  <2>6. w \notin Vendors
    BY <1>4 DEF Vendors
  <2> QED BY <1>4, <2>4, <2>5, <2>6, Zenon DEF StageOK
<1>5. CASE w = "it exit"
  <2>1. ItExit(k, lock, u, x)
    BY <1>5 DEF StageOK
  <2>2. ItExitOps(f, n)
    BY <1>5, ExitScripts, Zenon
  <2>3. Len(f) = 2
    BY <2>2 DEF ItExitOps
  <2>4. k \in 0..1 /\ k + 1 \in 0..16
    BY <2>3
  <2>5. ItExit(k + 1, lock, u2, x2)
    BY <2>1, <2>2, <2>4, ItExitStep
  <2>6. w \notin Vendors
    BY <1>5 DEF Vendors
  <2> QED BY <1>5, <2>4, <2>5, <2>6, Zenon DEF StageOK
<1>6. CASE w = "it address"
  <2>1. ItAddress(k, lock, bd, u, x, l, g)
    BY <1>6 DEF StageOK
  <2>2. ItAddressOps(f, n)
    BY <1>6, ItAddressScript, Zenon
  <2>3. Len(f) = 16
    BY <2>2 DEF ItAddressOps
  <2>4. k \in 0..15 /\ k + 1 \in 0..16
    BY <2>3
  <2>5. ItAddress(k + 1, lock, bd, u2, x2, l2, g2)
    BY <2>1, <2>2, <2>4, ItAddressStep
  <2>6. w \notin Vendors
    BY <1>6 DEF Vendors
  <2> QED BY <1>6, <2>4, <2>5, <2>6, Zenon DEF StageOK
<1>7. CASE w = "smsc id"
  <2>1. SmscId(k, lock, bd, u, x, g)
    BY <1>7 DEF StageOK
  <2>2. SmscIdOps(f, n)
    BY <1>7, IdScripts, Zenon
  <2>3. Len(f) = 3
    BY <2>2 DEF SmscIdOps
  <2>4. k \in 0..2 /\ k + 1 \in 0..16
    BY <2>3
  <2>5. SmscId(k + 1, lock, bd, u2, x2, g2)
    BY <2>1, <2>2, <2>4, SmscIdStep
  <2>6. w \notin Vendors
    BY <1>7 DEF Vendors
  <2> QED BY <1>7, <2>4, <2>5, <2>6, Zenon DEF StageOK
<1>8. CASE w = "smsc exit"
  <2>1. SmscExit(k, lock, u)
    BY <1>8 DEF StageOK
  <2>2. ExitOps(f, n)
    BY <1>8, ExitScripts, Zenon
  <2>3. Len(f) = 1
    BY <2>2 DEF ExitOps
  <2>4. k \in 0..0 /\ k + 1 \in 0..16
    BY <2>3
  <2>5. SmscExit(k + 1, lock, u2)
    BY <2>1, <2>2, <2>4, SmscExitStep
  <2>6. w \notin Vendors
    BY <1>8 DEF Vendors
  <2> QED BY <1>8, <2>4, <2>5, <2>6, Zenon DEF StageOK
<1>9. CASE w \in Vendors
  <2>1. u = 0
    BY <1>9 DEF StageOK
  <2>2. MonitorOnly(f)
    BY <1>9, VendorScripts, Zenon
  <2>4. f[k + 1].port[1] \in {"addr", "data"} /\ k + 1 \in 0..16
    BY <2>2, MonitorAt, Zenon
  <2>5. u2 = 0
    BY <2>1, <2>4 DEF Effect
  <2>6. w \notin {"wf id", "wf exit", "wf address", "it id", "it exit", "it address", "smsc id", "smsc exit"}
    BY <1>9 DEF Vendors
  <2> QED BY <2>4, <2>5, <2>6, Zenon DEF StageOK
<1> QED BY <1>1, <1>2, <1>3, <1>4, <1>5, <1>6, <1>7, <1>8, <1>9 DEF Probing, Ids

LEMMA BehindStep ==
    ASSUME NEW s \in OpSeq, s # << >>, NEW f \in OpSeq, NEW k \in 0..16, Behind(s, f, k)
    PROVE  k < Len(f) /\ s[1] = f[k + 1] /\ Behind(Tail(s), f, k + 1)
<1>1. PICK m \in Nat \ {0} : m = Len(s)
  BY TailIs
<1>2. PICK j \in Nat : j = Len(f)
  BY DEF OpSeq
<1>3. m = j - k /\ \A i \in 1..(j - k) : s[i] = f[k + i]
  BY <1>1, <1>2 DEF Behind
<1>4. k < j /\ s[1] = f[k + 1]
  BY <1>3
<1>5. PICK t \in OpSeq : t = Tail(s) /\ Len(t) = m - 1 /\ \A i \in 1..(m - 1) : t[i] = s[i + 1]
  BY <1>1, TailIs
<1>6. ASSUME NEW i \in 1..(j - (k + 1)) PROVE t[i] = f[(k + 1) + i]
  <2>1. i \in 1..(m - 1) /\ i + 1 \in 1..(j - k) /\ k + (i + 1) = (k + 1) + i
    BY <1>3
  <2>2. t[i] = s[i + 1] /\ s[i + 1] = f[k + (i + 1)]
    BY <1>3, <1>5, <2>1
  <2> QED BY <2>1, <2>2
<1>7. Len(t) = j - (k + 1)
  BY <1>3, <1>5
<1> QED BY <1>2, <1>4, <1>5, <1>6, <1>7 DEF Behind

LEMMA BehindAll ==
    ASSUME NEW f, NEW m \in Nat, Len(f) = m, NEW k \in 0..16, Behind(<< >>, f, k) PROVE k = m
<1>1. Len(<< >>) = m - k
  BY DEF Behind
<1> QED BY <1>1

LEMMA LockIs == \A bd : LockOf(bd) \in Locks
BY DEF LockOf, Locks

\* An access of a program on the ports of the chip.
LEMMA HereStep ==
    ASSUME NEW w \in Probing, NEW n \in {1, 2}, NEW s \in OpSeq, s # << >>, NEW g, NEW kind, NEW bd \in Boards,
           NEW u \in 0..KeyCount(LockOf(bd)), NEW x, NEW l, NEW u2, NEW x2, NEW l2, NEW g2,
           Here(w, n, s, g, kind, bd, u, x, l), Effect(s[1], LockOf(bd), bd, u, x, l, g, u2, x2, l2, g2)
    PROVE  Here(w, n, Tail(s), g2, kind, bd, u2, x2, l2)
<1>1. PICK f \in OpSeq : f = Script(w, n, bd.model)
  BY ScriptOps
<1>2. PICK k \in 0..16 : Behind(s, f, k) /\ StageOK(w, k, LockOf(bd), bd, u, x, l, g)
  BY <1>1, Zenon DEF Here
<1>3. k < Len(f) /\ s[1] = f[k + 1] /\ Behind(Tail(s), f, k + 1)
  BY <1>2, BehindStep
<1>4. Effect(f[k + 1], LockOf(bd), bd, u, x, l, g, u2, x2, l2, g2)
  BY <1>3, Zenon
<1>5. LockOf(bd) \in Locks /\ k \in Nat
  BY LockIs
<1>6. k + 1 \in 0..16 /\ StageOK(w, k + 1, LockOf(bd), bd, u2, x2, l2, g2)
  BY <1>1, <1>2, <1>3, <1>4, <1>5, StageStep
<1> QED BY <1>1, <1>3, <1>6, Zenon DEF Here

\* What is known at the end of the stage w.
EndOK(w, lock, bd, u, x, l, g) ==
    /\ w = "wf id" => WfId(4, lock, bd, u, x, g)
    /\ w = "wf exit" => WfExit(1, lock, u)
    /\ w = "wf address" => WfAddress(9, lock, bd, u, x, l, g)
    /\ w = "it id" => ItId(6, lock, bd, u, x, g)
    /\ w = "it exit" => ItExit(2, lock, u, x)
    /\ w = "it address" => ItAddress(16, lock, bd, u, x, l, g)
    /\ w = "smsc id" => SmscId(3, lock, bd, u, x, g)
    /\ w = "smsc exit" => SmscExit(1, lock, u)
    /\ w \in Vendors => u = 0

LEMMA HereEnd ==
    ASSUME NEW w, NEW n \in {1, 2}, NEW g, NEW kind, NEW bd \in Boards, NEW u, NEW x, NEW l,
           Here(w, n, << >>, g, kind, bd, u, x, l)
    PROVE  kind = "null" /\ RuledOut(w, LockOf(bd), bd) /\ EndOK(w, LockOf(bd), bd, u, x, l, g)
<1>0. PICK lock : lock = LockOf(bd)
  OBVIOUS
<1>1. kind = "null" /\ RuledOut(w, lock, bd)
  BY <1>0 DEF Here
<1>2. PICK f : f = Script(w, n, bd.model)
  OBVIOUS
<1>3. PICK k \in 0..16 : Behind(<< >>, f, k) /\ StageOK(w, k, lock, bd, u, x, l, g)
  BY <1>0, <1>2, Zenon DEF Here
<1>4. ASSUME w = "wf id" PROVE WfId(4, lock, bd, u, x, g)
  <2>1. WfId(k, lock, bd, u, x, g)
    BY <1>3, <1>4 DEF StageOK
  <2>2. WfIdOps(f, n)
    BY <1>2, <1>4, IdScripts, Zenon
  <2>3. Len(f) = 4
    BY <2>2 DEF WfIdOps
  <2>4. k = 4
    BY <1>3, <2>3, BehindAll
  <2> QED BY <2>1, <2>4
<1>5. ASSUME w = "wf exit" PROVE WfExit(1, lock, u)
  <2>1. WfExit(k, lock, u)
    BY <1>3, <1>5 DEF StageOK
  <2>2. ExitOps(f, n)
    BY <1>2, <1>5, ExitScripts, Zenon
  <2>3. Len(f) = 1
    BY <2>2 DEF ExitOps
  <2>4. k = 1
    BY <1>3, <2>3, BehindAll
  <2> QED BY <2>1, <2>4
<1>6. ASSUME w = "wf address" PROVE WfAddress(9, lock, bd, u, x, l, g)
  <2>1. WfAddress(k, lock, bd, u, x, l, g)
    BY <1>3, <1>6 DEF StageOK
  <2>2. WfAddressOps(f, n, HARDWARE_MONITOR_LDN(bd.model))
    BY <1>2, <1>6, WfAddressScript, Zenon
  <2>3. Len(f) = 9
    BY <2>2 DEF WfAddressOps
  <2>4. k = 9
    BY <1>3, <2>3, BehindAll
  <2> QED BY <2>1, <2>4
<1>7. ASSUME w = "it id" PROVE ItId(6, lock, bd, u, x, g)
  <2>1. ItId(k, lock, bd, u, x, g)
    BY <1>3, <1>7 DEF StageOK
  <2>2. ItIdOps(f, n)
    BY <1>2, <1>7, IdScripts, Zenon
  <2>3. Len(f) = 6
    BY <2>2 DEF ItIdOps
  <2>4. k = 6
    BY <1>3, <2>3, BehindAll
  <2> QED BY <2>1, <2>4
<1>8. ASSUME w = "it exit" PROVE ItExit(2, lock, u, x)
  <2>1. ItExit(k, lock, u, x)
    BY <1>3, <1>8 DEF StageOK
  <2>2. ItExitOps(f, n)
    BY <1>2, <1>8, ExitScripts, Zenon
  <2>3. Len(f) = 2
    BY <2>2 DEF ItExitOps
  <2>4. k = 2
    BY <1>3, <2>3, BehindAll
  <2> QED BY <2>1, <2>4
<1>9. ASSUME w = "it address" PROVE ItAddress(16, lock, bd, u, x, l, g)
  <2>1. ItAddress(k, lock, bd, u, x, l, g)
    BY <1>3, <1>9 DEF StageOK
  <2>2. ItAddressOps(f, n)
    BY <1>2, <1>9, ItAddressScript, Zenon
  <2>3. Len(f) = 16
    BY <2>2 DEF ItAddressOps
  <2>4. k = 16
    BY <1>3, <2>3, BehindAll
  <2> QED BY <2>1, <2>4
<1>10. ASSUME w = "smsc id" PROVE SmscId(3, lock, bd, u, x, g)
  <2>1. SmscId(k, lock, bd, u, x, g)
    BY <1>3, <1>10 DEF StageOK
  <2>2. SmscIdOps(f, n)
    BY <1>2, <1>10, IdScripts, Zenon
  <2>3. Len(f) = 3
    BY <2>2 DEF SmscIdOps
  <2>4. k = 3
    BY <1>3, <2>3, BehindAll
  <2> QED BY <2>1, <2>4
<1>11. ASSUME w = "smsc exit" PROVE SmscExit(1, lock, u)
  <2>1. SmscExit(k, lock, u)
    BY <1>3, <1>11 DEF StageOK
  <2>2. ExitOps(f, n)
    BY <1>2, <1>11, ExitScripts, Zenon
  <2>3. Len(f) = 1
    BY <2>2 DEF ExitOps
  <2>4. k = 1
    BY <1>3, <2>3, BehindAll
  <2> QED BY <2>1, <2>4
<1>12. w \in Vendors => u = 0
  BY <1>3 DEF StageOK
<1> QED BY <1>0, <1>1, <1>4, <1>5, <1>6, <1>7, <1>8, <1>9, <1>10, <1>11, <1>12, Zenon DEF EndOK
-----------------------------------------------------------------------------
(* Where nothing answers, and how a stage begins.                           *)

LEMMA NoneReadStep ==
    ASSUME NEW s \in OpSeq, s # << >>, NEW g, NEW n, NoneRead(s, g, n), NEW g2,
           s[1].dir = "in" => g2 = Append(g, "none"), s[1].dir = "out" => g2 = g, s[1].dir \in {"in", "out"}
    PROVE  NoneRead(Tail(s), g2, n)
<1>1. PICK t \in OpSeq : t = Tail(s)
  BY TailIs
<1>2. PICK m \in Nat \ {0} : m = Len(s)
  BY TailIs
<1>3. Len(t) = m - 1 /\ \A k \in 1..(m - 1) : t[k] = s[k + 1]
  BY <1>1, <1>2, TailIs
<1>4. ASSUME NEW k \in 1..(m - 1) PROVE OnPair(t[k], n)
  <2>1. k + 1 \in 1..m /\ t[k] = s[k + 1]
    BY <1>3
  <2>2. OnPair(s[k + 1], n)
    BY <1>2, <2>1 DEF NoneRead
  <2> QED BY <2>1, <2>2
<1>5. IsSeq(g) /\ EndsIn1(s, g)
  BY DEF NoneRead
<1>6. EndsIn1(t, g2)
  BY <1>1, <1>5, EndsStep, AppendSome
<1>7. IsSeq(g2) /\ \A k \in 1..Len(g2) : g2[k] = "none"
  <2>1. CASE s[1].dir = "out"
    BY <2>1 DEF NoneRead
  <2>2. CASE s[1].dir = "in"
    <3>1. PICK r : r = "none"
      OBVIOUS
    <3>2. g2 = Append(g, r)
      BY <2>2, <3>1
    <3>3. PICK j \in Nat : j = Len(g)
      BY <1>5 DEF IsSeq
    <3>4. IsSeq(g2) /\ Len(g2) = j + 1 /\ g2[j + 1] = r /\ \A k \in 1..j : g2[k] = g[k]
      BY <1>5, <3>2, <3>3, AppendAt
    <3>5. \A k \in 1..j : g2[k] = r
      BY <3>1, <3>3, <3>4 DEF NoneRead
    <3>6. \A k \in 1..(j + 1) : g2[k] = r
      BY <3>4, <3>5
    <3> QED BY <3>1, <3>4, <3>6
  <2> QED BY <2>1, <2>2
<1> QED BY <1>1, <1>3, <1>4, <1>6, <1>7 DEF NoneRead

\* What is read at the end of a script is "none".
LEMMA NoneGot ==
    ASSUME NEW g, NEW n, NoneRead(<< >>, g, n) PROVE g[1] = "none"
<1>1. IsSeq(g) /\ g # << >> /\ \A k \in 1..Len(g) : g[k] = "none"
  BY DEF NoneRead, EndsIn1
<1>2. PICK m \in Nat : m = Len(g)
  BY <1>1 DEF IsSeq
<1>3. m # 0
  <2>1. SUFFICES ASSUME m = 0 PROVE FALSE
    OBVIOUS
  <2>2. g = [k \in 1..0 |-> g[k]]
    BY <1>1, <1>2, <2>1 DEF IsSeq
  <2>3. g = << >>
    BY <2>2
  <2> QED BY <1>1, <2>3
<1> QED BY <1>1, <1>2, <1>3

\* The accesses of a script that ends with an input, on the ports n.
LEMMA NoneStart ==
    ASSUME NEW f, NEW n, NEW m \in Nat \ {0}, Len(f) = m, f[m].dir = "in",
           \A k \in 1..m : OnPair(f[k], n)
    PROVE  NoneRead(f, << >>, n)
<1>1. IsSeq(<< >>) /\ \A k \in 1..Len(<< >>) : << >>[k] = "none"
  BY DEF IsSeq
<1>2. f # << >>
  <2>1. Len(<< >>) = 0
    OBVIOUS
  <2> QED BY <2>1
<1>3. EndsIn1(f, << >>)
  BY <1>2 DEF EndsIn1
<1> QED BY <1>1, <1>3 DEF NoneRead

LEMMA PairOps == \A n, v : OnPair(Out(<<"index", n>>, v), n) /\ OnPair(In(<<"value", n>>, v), n)
<1>1. ASSUME NEW n, NEW v PROVE OnPair(Out(<<"index", n>>, v), n) /\ OnPair(In(<<"value", n>>, v), n)
  BY OutIs, InIs DEF OnPair
<1> QED BY <1>1

LEMMA IdsNone ==
    ASSUME NEW n \in {1, 2}, NEW c
    PROVE  /\ NoneRead(Script("wf id", n, c), << >>, n) /\ NoneRead(Script("it id", n, c), << >>, n)
           /\ NoneRead(Script("smsc id", n, c), << >>, n)
<1>1. PICK f, e, d : f = Script("wf id", n, c) /\ e = Script("it id", n, c) /\ d = Script("smsc id", n, c)
  OBVIOUS
<1>2. WfIdOps(f, n) /\ ItIdOps(e, n) /\ SmscIdOps(d, n)
  BY <1>1, IdScripts, Zenon
<1>3. NoneRead(f, << >>, n)
  <2>1. /\ Len(f) = 4 /\ f[4].dir = "in"
        /\ OnPair(f[1], n) /\ OnPair(f[2], n) /\ OnPair(f[3], n) /\ OnPair(f[4], n)
    BY <1>2, InIs, PairOps DEF WfIdOps
  <2>2. \A k \in 1..4 : OnPair(f[k], n)
    BY <2>1
  <2>3. PICK m \in Nat \ {0} : m = 4
    OBVIOUS
  <2>4. Len(f) = m /\ f[m].dir = "in" /\ \A k \in 1..m : OnPair(f[k], n)
    BY <2>1, <2>2, <2>3, Zenon
  <2> QED BY <2>4, NoneStart
<1>4. NoneRead(e, << >>, n)
  <2>1. /\ Len(e) = 6 /\ e[6].dir = "in"
        /\ OnPair(e[1], n) /\ OnPair(e[2], n) /\ OnPair(e[3], n)
        /\ OnPair(e[4], n) /\ OnPair(e[5], n) /\ OnPair(e[6], n)
    BY <1>2, InIs, PairOps DEF ItIdOps
  <2>2. \A k \in 1..6 : OnPair(e[k], n)
    BY <2>1
  <2>3. PICK m \in Nat \ {0} : m = 6
    OBVIOUS
  <2>4. Len(e) = m /\ e[m].dir = "in" /\ \A k \in 1..m : OnPair(e[k], n)
    BY <2>1, <2>2, <2>3, Zenon
  <2> QED BY <2>4, NoneStart
<1>5. NoneRead(d, << >>, n)
  <2>1. /\ Len(d) = 3 /\ d[3].dir = "in"
        /\ OnPair(d[1], n) /\ OnPair(d[2], n) /\ OnPair(d[3], n)
    BY <1>2, InIs, PairOps DEF SmscIdOps
  <2>2. \A k \in 1..3 : OnPair(d[k], n)
    BY <2>1
  <2>3. PICK m \in Nat \ {0} : m = 3
    OBVIOUS
  <2>4. Len(d) = m /\ d[m].dir = "in" /\ \A k \in 1..m : OnPair(d[k], n)
    BY <2>1, <2>2, <2>3, Zenon
  <2> QED BY <2>4, NoneStart
<1> QED BY <1>1, <1>3, <1>4, <1>5, Zenon

\* Only the script for the address depends on the chip.
LEMMA ScriptSame ==
    ASSUME NEW w \in Probing, w # "wf address", NEW n, NEW c, NEW d PROVE Script(w, n, c) = Script(w, n, d)
<1>1. w = "wf id" => Script(w, n, c) = Script(w, n, d)
  BY Zenon DEF Script
<1>2. w = "it id" => Script(w, n, c) = Script(w, n, d)
  BY Zenon DEF Script
<1>3. w = "smsc id" => Script(w, n, c) = Script(w, n, d)
  BY Zenon DEF Script
<1>4. w = "wf exit" => Script(w, n, c) = Script(w, n, d)
  BY Zenon DEF Script
<1>5. w = "it exit" => Script(w, n, c) = Script(w, n, d)
  BY Zenon DEF Script
<1>6. w = "smsc exit" => Script(w, n, c) = Script(w, n, d)
  BY Zenon DEF Script
<1>7. w = "it address" => Script(w, n, c) = Script(w, n, d)
  BY Zenon DEF Script
<1>8. w = "w vendor" => Script(w, n, c) = Script(w, n, d)
  BY Zenon DEF Script
<1>9. w = "w source" => Script(w, n, c) = Script(w, n, d)
  BY Zenon DEF Script
<1>10. w = "it vendor" => Script(w, n, c) = Script(w, n, d)
  BY Zenon DEF Script
<1>11. w = "it config" => Script(w, n, c) = Script(w, n, d)
  BY Zenon DEF Script
<1> QED BY <1>1, <1>2, <1>3, <1>4, <1>5, <1>6, <1>7, <1>8, <1>9, <1>10, <1>11, Zenon DEF Probing, Ids, Vendors

LEMMA BehindStart == \A f \in OpSeq : Behind(f, f, 0) /\ 0 \in 0..16
<1>1. ASSUME NEW f \in OpSeq PROVE Behind(f, f, 0)
  <2>1. PICK m \in Nat : m = Len(f)
    BY DEF OpSeq
  <2>2. m = m - 0 /\ \A j \in 1..(m - 0) : f[j] = f[0 + j]
    OBVIOUS
  <2> QED BY <2>1, <2>2 DEF Behind
<1> QED BY <1>1

\* A stage w begins on the ports n.
Starts(w, n, kind, bd, u, x, l) ==
    /\ w \in Probing /\ (n = 2 => w \notin {"it id", "it exit", "it address", "it vendor", "it config"})
    /\ IF n = bd.at THEN kind = "null" /\ RuledOut(w, LockOf(bd), bd) /\ StageOK(w, 0, LockOf(bd), bd, u, x, l, << >>)
       ELSE w \in Ids /\ IF n = 2 THEN kind = PresentOn(bd) /\ u # KeyCount(LockOf(bd)) ELSE kind = "null"

LEMMA Started ==
    ASSUME NEW w, NEW n \in {1, 2}, NEW kind, NEW bd, NEW u, NEW x, NEW l, Starts(w, n, kind, bd, u, x, l),
           NEW c, w # "wf address" \/ c = bd.model
    PROVE  Probed(w, n, Script(w, n, c), << >>, kind, bd, u, x, l)
<1>1. PICK f : f = Script(w, n, c)
  OBVIOUS
<1>2. w \in Probing /\ w # "detected"
  BY Zenon DEF Starts, Probing, Ids, Vendors
<1>3. f = Script(w, n, bd.model)
  BY <1>1, <1>2, ScriptSame, Zenon
<1>4. Behind(f, f, 0) /\ 0 \in 0..16
  BY <1>1, ScriptOps, BehindStart, Zenon
<1>5. CASE n = bd.at
  <2>1. kind = "null" /\ RuledOut(w, LockOf(bd), bd) /\ StageOK(w, 0, LockOf(bd), bd, u, x, l, << >>)
    BY <1>5, Zenon DEF Starts
  <2>2. Here(w, n, f, << >>, kind, bd, u, x, l)
    BY <1>3, <1>4, <2>1, Zenon DEF Here
  <2> QED BY <1>1, <1>2, <1>5, <2>2, Zenon DEF Probed, Starts
<1>6. CASE n # bd.at
  <2>1. w \in Ids /\ IF n = 2 THEN kind = PresentOn(bd) /\ u # KeyCount(LockOf(bd)) ELSE kind = "null"
    BY <1>6, Zenon DEF Starts
  <2>2. NoneRead(f, << >>, n)
    BY <1>1, <2>1, IdsNone, Zenon DEF Ids
  <2>3. Nowhere(w, n, f, << >>, kind, bd, u)
    BY <2>1, <2>2, Zenon DEF Nowhere
  <2> QED BY <1>1, <1>2, <1>6, <2>3, Zenon DEF Probed, Starts
<1> QED BY <1>5, <1>6

\* The families do not share an id; and what the lock of a chip says of it.
LEMMA Families ==
    ASSUME NEW bd \in Boards, NEW lock, lock = LockOf(bd)
    PROVE  /\ bd.model \in WfChips => lock = "wf"
           /\ bd.model \in IT87Chips => lock = "ite"
           /\ bd.model \in W836Chips => bd.model \notin NctChips \cup F718Chips \cup IT87Chips
           /\ bd.model \in F718Chips => bd.model \notin NctChips \cup IT87Chips
           /\ bd.model \in NctChips => bd.model \notin IT87Chips
           /\ "none" \notin WfChips \cup IT87Chips /\ bd.model # "none"
           /\ bd.at \in 1..2 /\ bd.addr \in {"good", "bad"} /\ bd.gpio \in {"good", "bad", "zero"} /\ bd.vendor \in BOOLEAN
<1>1. /\ bd.model \in WfChips => bd.family \in {"winbond", "fintek"}
      /\ bd.model \in IT87Chips => bd.family = "ite"
      /\ bd.addr \in {"good", "bad"} /\ bd.gpio \in {"good", "bad", "zero"}
  BY FamiliesAssumption DEF WfChips
<1>2. (bd.model \in WfChips => lock = "wf") /\ (bd.model \in IT87Chips => lock = "ite")
  BY <1>1 DEF LockOf
<1>3. /\ bd.model \in W836Chips => bd.model \notin NctChips \cup F718Chips
      /\ bd.model \in F718Chips => bd.model \notin NctChips
  BY DEF W836Chips, THFChips, DHGChips, NctChips, F718Chips
<1>4. bd.model \in IT87Chips => bd.model \notin W836Chips \cup NctChips \cup F718Chips
  BY <1>2 DEF WfChips
<1>5. "none" \notin WfChips \cup IT87Chips
  BY DEF WfChips, W836Chips, THFChips, DHGChips, NctChips, F718Chips, IT87Chips
<1>6. bd.at \in 1..2 /\ bd.model # "none" /\ bd.vendor \in BOOLEAN
  BY BoardsAssumption, MonitorAssumption
<1> QED BY <1>1, <1>2, <1>3, <1>4, <1>5, <1>6

\* What Detect ought to find, and when there is nothing to find.
LEMMA PresentIs ==
    ASSUME NEW bd \in Boards
    PROVE  /\ bd.model \in W836Chips => PresentOn(bd) = IF bd.addr = "good" THEN "W836XX" ELSE "null"
           /\ bd.model \in F718Chips => PresentOn(bd) = IF bd.addr = "good" /\ bd.vendor THEN "F718XX" ELSE "null"
           /\ bd.model \in IT87Chips =>
                  PresentOn(bd) = IF bd.at = 1 /\ bd.addr = "good" /\ bd.gpio # "bad" THEN "IT87XX" ELSE "null"
           /\ bd.model \notin W836Chips \cup F718Chips \cup IT87Chips => PresentOn(bd) = "null"
BY Families DEF PresentOn
-----------------------------------------------------------------------------
(* What each stage knows at its end.                                        *)

\* The id that is got is that of a chip that is open, and of no other.
LEMMA IdIs ==
    ASSUME NEW bd \in Boards, NEW lock, NEW u, NEW g, g = IdGot(lock, bd, u)
    PROVE  /\ g[1] # "none" <=> u = KeyCount(lock)
           /\ g[1] # "none" => g[1] = bd.model
<1>1. g[1] = IF u = KeyCount(lock) THEN bd.model ELSE "none"
  BY DEF IdGot
<1>2. bd.model # "none"
  BY MonitorAssumption
<1> QED BY <1>1, <1>2

LEMMA AfterWfId ==
    ASSUME NEW bd \in Boards, NEW lock, lock = LockOf(bd), NEW u \in 0..KeyCount(lock), NEW x, NEW l, NEW g,
           WfId(4, lock, bd, u, x, g)
    PROVE  /\ g[1] \in WfChips => g[1] = bd.model /\ WfAddress(0, lock, bd, u, x, l, << >>)
           /\ g[1] \notin WfChips \cup {"none"} => WfExit(0, lock, u) /\ (lock = "wf" => PresentOn(bd) = "null")
           /\ g[1] = "none" => /\ ItId(0, lock, bd, u, x, << >>) /\ SmscId(0, lock, bd, u, x, << >>)
                               /\ lock # "wf" /\ u # KeyCount(lock)
<1>1. g = IdGot(lock, bd, u)
  BY DEF WfId
<1>2. (lock = "wf" => u = 2) /\ (lock = "ite" => u \in {0, 4}) /\ lock \in Locks
  BY LockIs DEF WfId
<1>3. (g[1] # "none" <=> u = KeyCount(lock)) /\ (g[1] # "none" => g[1] = bd.model)
  BY <1>1, IdIs
<1>4. ASSUME g[1] \in WfChips PROVE g[1] = bd.model /\ WfAddress(0, lock, bd, u, x, l, << >>)
  <2>1. g[1] = bd.model /\ lock = "wf"
    BY <1>3, <1>4, Families
  <2> QED BY <1>2, <1>4, <2>1 DEF WfAddress
<1>5. ASSUME g[1] \notin WfChips \cup {"none"}
      PROVE  WfExit(0, lock, u) /\ (lock = "wf" => PresentOn(bd) = "null")
  <2>1. bd.model \notin WfChips /\ u = KeyCount(lock)
    BY <1>3, <1>5
  <2>2. lock = "wf" => PresentOn(bd) = "null"
    BY <2>1, Families, PresentIs DEF WfChips
  <2> QED BY <2>1, <2>2 DEF WfExit
<1>6. ASSUME g[1] = "none"
      PROVE  /\ ItId(0, lock, bd, u, x, << >>) /\ SmscId(0, lock, bd, u, x, << >>)
             /\ lock # "wf" /\ u # KeyCount(lock)
  <2>1. u # KeyCount(lock)
    BY <1>3, <1>6
  <2> QED BY <1>2, <2>1 DEF KeyCount, Locks, ItId, SmscId
<1> QED BY <1>4, <1>5, <1>6

LEMMA AfterWfExit ==
    ASSUME NEW bd, NEW lock \in Locks, NEW u, NEW x, WfExit(1, lock, u)
    PROVE  /\ ItId(0, lock, bd, u, x, << >>)
           /\ lock # "ite" \/ u \in {0, 1} => lock # "ite" /\ SmscId(0, lock, bd, u, x, << >>)
BY DEF WfExit, KeyCount, Locks, ItId, SmscId

LEMMA AfterWfAddress ==
    ASSUME NEW bd, NEW lock, NEW u, NEW x, NEW l, NEW g, WfAddress(9, lock, bd, u, x, l, g)
    PROVE  /\ lock = "wf" /\ bd.model \in WfChips /\ u = 0 /\ u # KeyCount(lock)
           /\ ItId(0, lock, bd, u, x, << >>) /\ SmscId(0, lock, bd, u, x, << >>)
           /\ g[1] = bd.addr /\ g[2] = bd.addr /\ g[3] = IF bd.vendor THEN "1934" ELSE "none"
<1>1. lock = "wf" /\ bd.model \in WfChips /\ u = 0
  BY DEF WfAddress
<1>2. g = <<bd.addr, bd.addr, IF bd.vendor THEN "1934" ELSE "none">>
  BY DEF WfAddress
<1>3. g[1] = bd.addr /\ g[2] = bd.addr /\ g[3] = IF bd.vendor THEN "1934" ELSE "none"
  BY <1>2
<1>4. u # KeyCount(lock) /\ ItId(0, lock, bd, u, x, << >>) /\ SmscId(0, lock, bd, u, x, << >>)
  BY <1>1 DEF KeyCount, ItId, SmscId
<1> QED BY <1>1, <1>3, <1>4

LEMMA AfterItId ==
    ASSUME NEW bd \in Boards, NEW lock, lock = LockOf(bd), NEW u \in 0..KeyCount(lock), NEW x, NEW l, NEW g,
           ItId(6, lock, bd, u, x, g)
    PROVE  /\ g[1] \in IT87Chips => ItAddress(0, lock, bd, u, x, l, << >>)
           /\ g[1] \notin IT87Chips \cup {"none"} => ItExit(0, lock, u, x) /\ PresentOn(bd) = "null"
           /\ g[1] = "none" => SmscId(0, lock, bd, u, x, << >>) /\ lock = "wf"
<1>1. g = IdGot(lock, bd, u)
  BY DEF ItId
<1>2. (lock = "wf" => u = 0) /\ (lock = "ite" => u = 4) /\ (lock = "smsc" => u = 1) /\ lock \in Locks
  BY LockIs DEF ItId
<1>3. (g[1] # "none" <=> u = KeyCount(lock)) /\ (g[1] # "none" => g[1] = bd.model)
  BY <1>1, IdIs
<1>4. ASSUME g[1] \in IT87Chips PROVE ItAddress(0, lock, bd, u, x, l, << >>)
  <2>1. bd.model \in IT87Chips /\ lock = "ite"
    BY <1>3, <1>4, Families
  <2> QED BY <1>2, <2>1 DEF ItAddress
<1>5. ASSUME g[1] \notin IT87Chips \cup {"none"} PROVE ItExit(0, lock, u, x) /\ PresentOn(bd) = "null"
  <2>1. bd.model \notin IT87Chips /\ u = KeyCount(lock)
    BY <1>3, <1>5
  <2>2. lock # "wf"
    BY <1>2, <2>1 DEF KeyCount
  <2>3. bd.model \notin WfChips
    BY <2>2, Families
  <2>4. PresentOn(bd) = "null"
    BY <2>1, <2>3, PresentIs DEF WfChips
  <2> QED BY <2>1, <2>2, <2>4 DEF ItExit
<1>6. ASSUME g[1] = "none" PROVE SmscId(0, lock, bd, u, x, << >>) /\ lock = "wf"
  <2>1. u # KeyCount(lock)
    BY <1>3, <1>6
  <2> QED BY <1>2, <2>1 DEF KeyCount, Locks, SmscId
<1> QED BY <1>4, <1>5, <1>6

LEMMA AfterItExit ==
    ASSUME NEW bd, NEW lock \in Locks, NEW u, NEW x, ItExit(2, lock, u, x) PROVE SmscId(0, lock, bd, u, x, << >>)
BY DEF ItExit, KeyCount, Locks, SmscId

AddressDone(lock, bd, u, x) == bd.model \in IT87Chips /\ u = 0 /\ SmscId(0, lock, bd, u, x, << >>)

LEMMA AfterItAddress ==
    ASSUME NEW bd, NEW lock, NEW u, NEW x, NEW l, NEW g, ItAddress(16, lock, bd, u, x, l, g)
    PROVE  /\ AddressDone(lock, bd, u, x)
           /\ g[1] = bd.addr /\ g[2] = bd.addr /\ g[4] = bd.gpio /\ g[5] = bd.gpio
<1>1. lock = "ite" /\ bd.model \in IT87Chips /\ u = 0
  BY DEF ItAddress
<1>2. g = <<bd.addr, bd.addr, "other", bd.gpio, bd.gpio>>
  BY DEF ItAddress
<1>3. g[1] = bd.addr /\ g[2] = bd.addr /\ g[4] = bd.gpio /\ g[5] = bd.gpio
  BY <1>2
<1>4. SmscId(0, lock, bd, u, x, << >>)
  BY <1>1 DEF SmscId
<1> QED BY <1>1, <1>3, <1>4 DEF AddressDone

LEMMA AfterSmscId ==
    ASSUME NEW bd \in Boards, NEW lock, lock = LockOf(bd), NEW u \in 0..KeyCount(lock), NEW x, NEW g,
           SmscId(3, lock, bd, u, x, g)
    PROVE  /\ g[1] # "none" => SmscExit(0, lock, u)
           /\ g[1] = "none" => u # KeyCount(lock)
<1>1. g = IdGot(lock, bd, u)
  BY DEF SmscId
<1>2. (lock # "smsc" => u = 0) /\ (lock = "smsc" => u = 1) /\ lock \in Locks
  BY LockIs DEF SmscId
<1>3. g[1] # "none" <=> u = KeyCount(lock)
  BY <1>1, IdIs
<1> QED BY <1>2, <1>3 DEF KeyCount, Locks, SmscExit

LEMMA Closed ==
    ASSUME NEW lock \in Locks, NEW u
    PROVE  (u = 0 => u # KeyCount(lock)) /\ (SmscExit(1, lock, u) => u # KeyCount(lock))
BY DEF KeyCount, Locks, SmscExit

LEMMA WfIdStarts == \A lock, bd, u, x : WfId(0, lock, bd, u, x, << >>)
BY DEF WfId

\* The stage w begins on the ports of the chip.
Fresh(w, bd, u, x, l) == RuledOut(w, LockOf(bd), bd) /\ StageOK(w, 0, LockOf(bd), bd, u, x, l, << >>)

LEMMA FreshIds ==
    ASSUME NEW bd, NEW lock, lock = LockOf(bd), NEW u, NEW x, NEW l
    PROVE  /\ Fresh("wf id", bd, u, x, l)
           /\ ItId(0, lock, bd, u, x, << >>) /\ (lock = "wf" => PresentOn(bd) = "null") => Fresh("it id", bd, u, x, l)
           /\ SmscId(0, lock, bd, u, x, << >>) /\ PresentOn(bd) = "null" => Fresh("smsc id", bd, u, x, l)
<1>1. Fresh("wf id", bd, u, x, l)
  <2>1. WfId(0, lock, bd, u, x, << >>)
    BY WfIdStarts
  <2> QED BY <2>1, Zenon DEF Fresh, RuledOut, StageOK, Vendors
<1>2. ItId(0, lock, bd, u, x, << >>) /\ (lock = "wf" => PresentOn(bd) = "null") => Fresh("it id", bd, u, x, l)
  BY Zenon DEF Fresh, RuledOut, StageOK, Vendors
<1>3. SmscId(0, lock, bd, u, x, << >>) /\ PresentOn(bd) = "null" => Fresh("smsc id", bd, u, x, l)
  BY Zenon DEF Fresh, RuledOut, StageOK, Vendors
<1> QED BY <1>1, <1>2, <1>3, Zenon

LEMMA FreshExits ==
    ASSUME NEW bd, NEW lock, lock = LockOf(bd), NEW u, NEW x, NEW l
    PROVE  /\ WfExit(0, lock, u) /\ (lock = "wf" => PresentOn(bd) = "null") => Fresh("wf exit", bd, u, x, l)
           /\ ItExit(0, lock, u, x) /\ PresentOn(bd) = "null" => Fresh("it exit", bd, u, x, l)
           /\ SmscExit(0, lock, u) /\ PresentOn(bd) = "null" => Fresh("smsc exit", bd, u, x, l)
<1>1. WfExit(0, lock, u) /\ (lock = "wf" => PresentOn(bd) = "null") => Fresh("wf exit", bd, u, x, l)
  BY Zenon DEF Fresh, RuledOut, StageOK, Vendors
<1>2. ItExit(0, lock, u, x) /\ PresentOn(bd) = "null" => Fresh("it exit", bd, u, x, l)
  BY Zenon DEF Fresh, RuledOut, StageOK, Vendors
<1>3. SmscExit(0, lock, u) /\ PresentOn(bd) = "null" => Fresh("smsc exit", bd, u, x, l)
  BY Zenon DEF Fresh, RuledOut, StageOK, Vendors
<1> QED BY <1>1, <1>2, <1>3, Zenon

LEMMA FreshKnown ==
    ASSUME NEW bd, NEW lock, lock = LockOf(bd), NEW u, NEW x, NEW l
    PROVE  /\ WfAddress(0, lock, bd, u, x, l, << >>) => Fresh("wf address", bd, u, x, l)
           /\ ItAddress(0, lock, bd, u, x, l, << >>) => Fresh("it address", bd, u, x, l)
<1>1. WfAddress(0, lock, bd, u, x, l, << >>) => Fresh("wf address", bd, u, x, l)
  BY Zenon DEF Fresh, RuledOut, StageOK, Vendors
<1>2. ItAddress(0, lock, bd, u, x, l, << >>) => Fresh("it address", bd, u, x, l)
  BY Zenon DEF Fresh, RuledOut, StageOK, Vendors
<1> QED BY <1>1, <1>2, Zenon

LEMMA FreshVendors ==
    ASSUME NEW bd, NEW u, u = 0, NEW x, NEW l
    PROVE  /\ PresentOn(bd) = "W836XX" => Fresh("w vendor", bd, u, x, l) /\ Fresh("w source", bd, u, x, l)
           /\ PresentOn(bd) = "IT87XX" => Fresh("it vendor", bd, u, x, l) /\ Fresh("it config", bd, u, x, l)
<1>1. PresentOn(bd) = "W836XX" => Fresh("w vendor", bd, u, x, l)
  BY Zenon DEF Fresh, RuledOut, StageOK
<1>2. PresentOn(bd) = "W836XX" => Fresh("w source", bd, u, x, l)
  BY Zenon DEF Fresh, RuledOut, StageOK
<1>3. PresentOn(bd) = "IT87XX" => Fresh("it vendor", bd, u, x, l)
  BY Zenon DEF Fresh, RuledOut, StageOK
<1>4. PresentOn(bd) = "IT87XX" => Fresh("it config", bd, u, x, l)
  BY Zenon DEF Fresh, RuledOut, StageOK
<1> QED BY <1>1, <1>2, <1>3, <1>4, Zenon

LEMMA OneTwo == 1 # 2
OBVIOUS

\* A stage that begins on the ports of the chip, and one that begins elsewhere.
LEMMA StartHere ==
    ASSUME NEW w, w \in Probing, NEW n, NEW kind, kind = "null", NEW bd, n = bd.at, NEW u, NEW x, NEW l,
           Fresh(w, bd, u, x, l), n # 2 \/ w \notin {"it id", "it exit", "it address", "it vendor", "it config"}
    PROVE  Starts(w, n, kind, bd, u, x, l)
BY Zenon DEF Starts, Fresh

LEMMA StartElsewhere ==
    ASSUME NEW w, w \in Ids, NEW n \in {1, 2}, NEW kind, NEW bd, n # bd.at, NEW u, NEW x, NEW l,
           n = 2 => kind = PresentOn(bd) /\ u # KeyCount(LockOf(bd)) /\ w # "it id", n # 2 => kind = "null"
    PROVE  Starts(w, n, kind, bd, u, x, l)
<1>1. w \in Probing /\ (n = 2 => w \notin {"it id", "it exit", "it address", "it vendor", "it config"})
  BY Zenon DEF Probing, Ids
<1> QED BY <1>1, Zenon DEF Starts

\* The end of a stage: on the ports of the chip, and elsewhere.
AtEnd(w, n, g, kind, bd, u, x, l) ==
    /\ n = bd.at /\ kind = "null"
    /\ RuledOut(w, LockOf(bd), bd) /\ EndOK(w, LockOf(bd), bd, u, x, l, g)
AtNothing(w, n, g, kind, bd, u, x, l) ==
    /\ n # bd.at /\ w \in Ids /\ g[1] = "none"
    /\ IF n = 2 THEN kind = PresentOn(bd) /\ u # KeyCount(LockOf(bd)) ELSE kind = "null"

LEMMA StageEnds ==
    ASSUME NEW w, w \in Probing, NEW n \in {1, 2}, NEW g, NEW kind, NEW bd \in Boards, NEW u, NEW x, NEW l,
           Probed(w, n, << >>, g, kind, bd, u, x, l)
    PROVE  /\ AtEnd(w, n, g, kind, bd, u, x, l) \/ AtNothing(w, n, g, kind, bd, u, x, l)
           /\ w \notin Ids => AtEnd(w, n, g, kind, bd, u, x, l)
<1>1. CASE n = bd.at
  <2>1. Here(w, n, << >>, g, kind, bd, u, x, l)
    BY <1>1, Zenon DEF Probed
  <2>2. RuledOut(w, LockOf(bd), bd) /\ EndOK(w, LockOf(bd), bd, u, x, l, g)
    BY <2>1, HereEnd, Zenon
  <2>3. AtEnd(w, n, g, kind, bd, u, x, l)
    BY <1>1, <2>1, <2>2, Zenon DEF AtEnd, Here
  <2> QED BY <2>3
<1>2. CASE n # bd.at
  <2>1. Nowhere(w, n, << >>, g, kind, bd, u)
    BY <1>2, Zenon DEF Probed
  <2>2. NoneRead(<< >>, g, n)
    BY <2>1, Zenon DEF Nowhere
  <2>3. g[1] = "none"
    BY <2>2, NoneGot, Zenon
  <2>4. AtNothing(w, n, g, kind, bd, u, x, l)
    BY <1>2, <2>1, <2>3, Zenon DEF AtNothing, Nowhere
  <2>5. w \in Ids
    BY <2>1, Zenon DEF Nowhere
  <2> QED BY <2>4, <2>5, Zenon
<1> QED BY <1>1, <1>2, Zenon

LEMMA BehindSecond ==
    ASSUME NEW bd \in Boards, NEW lock, lock = LockOf(bd), lock # "wf", bd.at = 2 PROVE PresentOn(bd) = "null"
<1>1. bd.model \notin WfChips
  BY Families
<1>2. bd.model \in IT87Chips => PresentOn(bd) = "null"
  BY PresentIs
<1> QED BY <1>1, <1>2, PresentIs DEF WfChips

\* The stage that follows each one, as Detect chooses it.
LEMMA WfIdNext ==
    ASSUME NEW n \in {1, 2}, NEW g, NEW kind, NEW bd \in Boards, NEW u \in 0..KeyCount(LockOf(bd)), NEW x, NEW l,
           Probed("wf id", n, << >>, g, kind, bd, u, x, l)
    PROVE  /\ g[1] \in WfChips => g[1] = bd.model /\ Starts("wf address", n, kind, bd, u, x, l)
           /\ g[1] \notin WfChips \cup {"none"} => Starts("wf exit", n, kind, bd, u, x, l)
           /\ g[1] = "none" /\ n = 1 => Starts("it id", n, kind, bd, u, x, l)
           /\ g[1] = "none" /\ n = 2 => Starts("smsc id", n, kind, bd, u, x, l)
<1>0. {"wf id", "wf address", "wf exit", "it id", "smsc id"} \subseteq Probing
  BY Zenon DEF Probing, Ids
<1>1. CASE AtEnd("wf id", n, g, kind, bd, u, x, l)
  <2>1. PICK lock : lock = LockOf(bd)
    OBVIOUS
  <2>2. n = bd.at /\ kind = "null" /\ WfId(4, lock, bd, u, x, g)
    BY <1>1, <2>1, Zenon DEF AtEnd, EndOK
  <2>3. /\ g[1] \in WfChips => g[1] = bd.model /\ WfAddress(0, lock, bd, u, x, l, << >>)
        /\ g[1] \notin WfChips \cup {"none"} => WfExit(0, lock, u) /\ (lock = "wf" => PresentOn(bd) = "null")
        /\ g[1] = "none" => /\ ItId(0, lock, bd, u, x, << >>) /\ SmscId(0, lock, bd, u, x, << >>)
                            /\ lock # "wf" /\ u # KeyCount(lock)
    BY <2>1, <2>2, AfterWfId, Zenon
  <2>5. g[1] \in WfChips => Starts("wf address", n, kind, bd, u, x, l)
    BY <1>0, <2>1, <2>2, <2>3, FreshKnown, StartHere, Zenon
  <2>6. g[1] \notin WfChips \cup {"none"} => Starts("wf exit", n, kind, bd, u, x, l)
    BY <1>0, <2>1, <2>2, <2>3, FreshExits, StartHere, Zenon
  <2>7. g[1] = "none" /\ n = 1 => Starts("it id", n, kind, bd, u, x, l)
    BY <1>0, <2>1, <2>2, <2>3, FreshIds, StartHere, OneTwo, Zenon
  <2>8. g[1] = "none" /\ n = 2 => Starts("smsc id", n, kind, bd, u, x, l)
    BY <1>0, <2>1, <2>2, <2>3, FreshIds, StartHere, BehindSecond, Zenon
  <2> QED BY <2>3, <2>5, <2>6, <2>7, <2>8, Zenon
<1>2. CASE AtNothing("wf id", n, g, kind, bd, u, x, l)
  <2>1. /\ n # bd.at /\ g[1] = "none" /\ (n # 2 => kind = "null")
        /\ n = 2 => kind = PresentOn(bd) /\ u # KeyCount(LockOf(bd))
    BY <1>2, Zenon DEF AtNothing
  <2>2. g[1] \notin WfChips
    BY <2>1, Families, Zenon
  <2>3. "it id" \in Ids /\ "smsc id" \in Ids /\ "smsc id" # "it id"
    BY Zenon DEF Ids
  <2>4. n = 1 => Starts("it id", n, kind, bd, u, x, l)
    BY <2>1, <2>3, OneTwo, StartElsewhere, Zenon
  <2>5. n = 2 => Starts("smsc id", n, kind, bd, u, x, l)
    BY <2>1, <2>3, OneTwo, StartElsewhere, Zenon
  <2> QED BY <2>1, <2>2, <2>4, <2>5, Zenon
<1> QED BY <1>0, <1>1, <1>2, StageEnds, Zenon

\* An object is made only of the chip that is there; the next ports follow.
Ready(n, kind, bd, u, x, l) ==
    IF n = bd.at \/ n = 2 THEN kind = PresentOn(bd) /\ u # KeyCount(LockOf(bd)) ELSE kind = "null"

LEMMA PortNext ==
    ASSUME NEW n \in {1, 2}, NEW kind, NEW bd \in Boards, NEW u, NEW x, NEW l, Ready(n, kind, bd, u, x, l)
    PROVE  /\ n = 1 => Starts("wf id", 2, kind, bd, u, x, l)
           /\ n = 2 => kind = PresentOn(bd) /\ u # KeyCount(LockOf(bd))
<1>1. n = 2 => kind = PresentOn(bd) /\ u # KeyCount(LockOf(bd))
  BY Zenon DEF Ready
<1>2. ASSUME n = 1 PROVE Starts("wf id", 2, kind, bd, u, x, l)
  <2>1. "wf id" \in Ids /\ "wf id" \in Probing /\ "wf id" # "it id" /\ 2 \in {1, 2}
        /\ "wf id" \notin {"it id", "it exit", "it address", "it vendor", "it config"}
    BY Zenon DEF Probing, Ids
  <2>2. CASE bd.at = 1
    <3>1. kind = PresentOn(bd) /\ u # KeyCount(LockOf(bd)) /\ 2 # bd.at
      BY <1>2, <2>2, OneTwo, Zenon DEF Ready
    <3> QED BY <2>1, <3>1, StartElsewhere, Zenon
  <2>3. CASE bd.at = 2
    <3>1. kind = "null" /\ 2 = bd.at
      BY <1>2, <2>3, OneTwo, Zenon DEF Ready
    <3>2. Fresh("wf id", bd, u, x, l)
      BY FreshIds, Zenon
    <3> QED BY <2>1, <3>1, <3>2, StartHere, Zenon
  <2>4. bd.at = 1 \/ bd.at = 2
    <3>1. bd.at \in 1..2
      BY Families
    <3> QED BY <3>1
  <2> QED BY <2>2, <2>3, <2>4
<1> QED BY <1>1, <1>2

\* After the keys of Winbond, those of ITE on the first ports, of SMSC on the second.
LEMMA OtherKeys ==
    ASSUME NEW n \in {1, 2}, NEW kind, kind = "null", NEW bd \in Boards, n = bd.at, NEW u, NEW x, NEW l,
           ItId(0, LockOf(bd), bd, u, x, << >>), LockOf(bd) = "wf" => PresentOn(bd) = "null",
           n = 2 => SmscId(0, LockOf(bd), bd, u, x, << >>)
    PROVE  /\ n = 1 => Starts("it id", n, kind, bd, u, x, l)
           /\ n = 2 => Starts("smsc id", n, kind, bd, u, x, l)
<1>0. "it id" \in Probing /\ "smsc id" \in Probing /\ "smsc id" \notin {"it id", "it exit", "it address", "it vendor", "it config"}
  BY Zenon DEF Probing, Ids
<1>1. ASSUME n = 1 PROVE Starts("it id", n, kind, bd, u, x, l)
  <2>1. Fresh("it id", bd, u, x, l)
    BY FreshIds, Zenon
  <2> QED BY <1>0, <1>1, <2>1, OneTwo, StartHere, Zenon
<1>2. ASSUME n = 2 PROVE Starts("smsc id", n, kind, bd, u, x, l)
  <2>1. PresentOn(bd) = "null"
    BY <1>2, BehindSecond, Zenon
  <2>2. Fresh("smsc id", bd, u, x, l)
    BY <1>2, <2>1, FreshIds, Zenon
  <2> QED BY <1>0, <2>2, StartHere, Zenon
<1> QED BY <1>1, <1>2, Zenon

LEMMA WfExitNext ==
    ASSUME NEW n \in {1, 2}, NEW g, NEW kind, NEW bd \in Boards, NEW u, NEW x, NEW l,
           LockOf(bd) = "ite" /\ bd.at = 2 => u \in {0, 1},
           Probed("wf exit", n, << >>, g, kind, bd, u, x, l)
    PROVE  /\ n = 1 => Starts("it id", n, kind, bd, u, x, l)
           /\ n = 2 => Starts("smsc id", n, kind, bd, u, x, l)
<1>0. "wf exit" \in Probing /\ "wf exit" \notin Ids
  BY Zenon DEF Probing, Ids
<1>1. AtEnd("wf exit", n, g, kind, bd, u, x, l)
  BY <1>0, StageEnds, Zenon
<1>2. n = bd.at /\ kind = "null" /\ (LockOf(bd) = "wf" => PresentOn(bd) = "null") /\ WfExit(1, LockOf(bd), u)
  BY <1>1, Zenon DEF AtEnd, EndOK, RuledOut
<1>3. ItId(0, LockOf(bd), bd, u, x, << >>) /\ (n = 2 => SmscId(0, LockOf(bd), bd, u, x, << >>))
  BY <1>2, LockIs, AfterWfExit, Zenon
<1> QED BY <1>2, <1>3, OtherKeys, Zenon

LEMMA WfAddressNext ==
    ASSUME NEW n \in {1, 2}, NEW g, NEW kind, NEW bd \in Boards, NEW u, NEW x, NEW l,
           Probed("wf address", n, << >>, g, kind, bd, u, x, l),
           NEW good, good <=> (g[1] = g[2] /\ g[1] = "good")
    PROVE  /\ ~good \/ (bd.model \in F718Chips /\ g[3] # "1934") =>
                  /\ n = 1 => Starts("it id", n, kind, bd, u, x, l)
                  /\ n = 2 => Starts("smsc id", n, kind, bd, u, x, l)
           /\ good /\ bd.model \in W836Chips => Starts("w vendor", n, kind, bd, u, x, l)
           /\ good /\ bd.model \in NctChips => Ready(n, kind, bd, u, x, l)
           /\ good /\ bd.model \in F718Chips /\ g[3] = "1934" => Ready(n, "F718XX", bd, u, x, l)
<1>0. "wf address" \in Probing /\ "wf address" \notin Ids /\ "w vendor" \in Probing
      /\ "w vendor" \notin {"it id", "it exit", "it address", "it vendor", "it config"}
  BY Zenon DEF Probing, Ids, Vendors
<1>1. AtEnd("wf address", n, g, kind, bd, u, x, l)
  BY <1>0, StageEnds, Zenon
<1>2. n = bd.at /\ kind = "null" /\ WfAddress(9, LockOf(bd), bd, u, x, l, g)
  BY <1>1, Zenon DEF AtEnd, EndOK
<1>3. bd.model \in WfChips /\ u = 0 /\ u # KeyCount(LockOf(bd))
  BY <1>2, AfterWfAddress, Zenon
<1>4. ItId(0, LockOf(bd), bd, u, x, << >>) /\ SmscId(0, LockOf(bd), bd, u, x, << >>)
  BY <1>2, AfterWfAddress, Zenon
<1>5. g[1] = bd.addr /\ g[2] = bd.addr /\ g[3] = IF bd.vendor THEN "1934" ELSE "none"
  BY <1>2, AfterWfAddress, Zenon
<1>6. good <=> bd.addr = "good"
  BY <1>5, Zenon
<1>7. g[3] = "1934" <=> bd.vendor
  BY <1>5, Families
<1>8. /\ ~good \/ (bd.model \in F718Chips /\ g[3] # "1934") => PresentOn(bd) = "null"
      /\ good /\ bd.model \in W836Chips => PresentOn(bd) = "W836XX"
      /\ good /\ bd.model \in NctChips => PresentOn(bd) = "null"
      /\ good /\ bd.model \in F718Chips /\ g[3] = "1934" => PresentOn(bd) = "F718XX"
  BY <1>3, <1>6, <1>7, Families, PresentIs DEF WfChips
<1>9. ASSUME ~good \/ (bd.model \in F718Chips /\ g[3] # "1934")
      PROVE  /\ n = 1 => Starts("it id", n, kind, bd, u, x, l)
             /\ n = 2 => Starts("smsc id", n, kind, bd, u, x, l)
  <2>1. PresentOn(bd) = "null"
    BY <1>8, <1>9, Zenon
  <2> QED BY <1>2, <1>4, <2>1, OtherKeys, Zenon
<1>10. ASSUME good, bd.model \in W836Chips PROVE Starts("w vendor", n, kind, bd, u, x, l)
  <2>1. Fresh("w vendor", bd, u, x, l)
    BY <1>3, <1>8, <1>10, FreshVendors, Zenon
  <2> QED BY <1>0, <1>2, <2>1, StartHere, Zenon
<1>11. ASSUME good, bd.model \in NctChips PROVE Ready(n, kind, bd, u, x, l)
  BY <1>2, <1>3, <1>8, <1>11, Zenon DEF Ready
<1>12. ASSUME good, bd.model \in F718Chips, g[3] = "1934" PROVE Ready(n, "F718XX", bd, u, x, l)
  BY <1>2, <1>3, <1>8, <1>12, Zenon DEF Ready
<1> QED BY <1>9, <1>10, <1>11, <1>12, Zenon

LEMMA VendorNext ==
    ASSUME NEW w \in {"w vendor", "w source"}, NEW n \in {1, 2}, NEW g, NEW kind, NEW bd \in Boards, NEW u, NEW x, NEW l,
           Probed(w, n, << >>, g, kind, bd, u, x, l)
    PROVE  Starts("w source", n, kind, bd, u, x, l) /\ Ready(n, "W836XX", bd, u, x, l)
<1>0. w \in Probing /\ w \notin Ids /\ "w source" \in Probing /\ w \in Vendors
      /\ "w source" \notin {"it id", "it exit", "it address", "it vendor", "it config"}
  BY Zenon DEF Probing, Ids, Vendors
<1>1. AtEnd(w, n, g, kind, bd, u, x, l)
  BY <1>0, StageEnds, Zenon
<1>2. n = bd.at /\ kind = "null" /\ u = 0 /\ PresentOn(bd) = "W836XX"
  BY <1>0, <1>1, Zenon DEF AtEnd, EndOK, RuledOut
<1>3. Fresh("w source", bd, u, x, l)
  BY <1>2, FreshVendors, Zenon
<1>4. u # KeyCount(LockOf(bd))
  BY <1>2, LockIs, Closed, Zenon
<1>5. Ready(n, "W836XX", bd, u, x, l)
  BY <1>2, <1>4, Zenon DEF Ready
<1>6. Starts("w source", n, kind, bd, u, x, l)
  BY <1>0, <1>2, <1>3, StartHere, Zenon
<1> QED BY <1>5, <1>6, Zenon

\* The chips of ITE are asked on the first ports only.
LEMMA FirstPorts ==
    ASSUME NEW w \in {"it id", "it exit", "it address", "it vendor", "it config"}, NEW n \in {1, 2}, NEW s, NEW g, NEW kind,
           NEW bd, NEW u, NEW x, NEW l, Probed(w, n, s, g, kind, bd, u, x, l)
    PROVE  n = 1
<1>1. w \in Probing
  BY Zenon DEF Probing, Ids, Vendors
<1>2. n # 2
  BY <1>1, Zenon DEF Probed
<1> QED BY <1>2

LEMMA ItIdNext ==
    ASSUME NEW n \in {1, 2}, n = 1, NEW g, NEW kind, NEW bd \in Boards, NEW u \in 0..KeyCount(LockOf(bd)), NEW x, NEW l,
           Probed("it id", n, << >>, g, kind, bd, u, x, l)
    PROVE  /\ g[1] \in IT87Chips => Starts("it address", n, kind, bd, u, x, l)
           /\ g[1] \notin IT87Chips \cup {"none"} => Starts("it exit", n, kind, bd, u, x, l)
           /\ g[1] = "none" => Starts("smsc id", n, kind, bd, u, x, l)
<1>0. {"it id", "it address", "it exit", "smsc id"} \subseteq Probing
  BY Zenon DEF Probing, Ids
<1>1. CASE AtEnd("it id", n, g, kind, bd, u, x, l)
  <2>1. PICK lock : lock = LockOf(bd)
    OBVIOUS
  <2>2. /\ n = bd.at /\ kind = "null" /\ ItId(6, lock, bd, u, x, g)
        /\ lock = "wf" => PresentOn(bd) = "null"
    BY <1>1, <2>1, Zenon DEF AtEnd, EndOK, RuledOut
  <2>3. /\ g[1] \in IT87Chips => ItAddress(0, lock, bd, u, x, l, << >>)
        /\ g[1] \notin IT87Chips \cup {"none"} => ItExit(0, lock, u, x) /\ PresentOn(bd) = "null"
        /\ g[1] = "none" => SmscId(0, lock, bd, u, x, << >>) /\ lock = "wf"
    BY <2>1, <2>2, AfterItId, Zenon
  <2>4. g[1] \in IT87Chips => Starts("it address", n, kind, bd, u, x, l)
    BY <1>0, <2>1, <2>2, <2>3, FreshKnown, StartHere, OneTwo, Zenon
  <2>5. g[1] \notin IT87Chips \cup {"none"} => Starts("it exit", n, kind, bd, u, x, l)
    BY <1>0, <2>1, <2>2, <2>3, FreshExits, StartHere, OneTwo, Zenon
  <2>6. g[1] = "none" => Starts("smsc id", n, kind, bd, u, x, l)
    BY <1>0, <2>1, <2>2, <2>3, FreshIds, StartHere, OneTwo, Zenon
  <2> QED BY <2>4, <2>5, <2>6, Zenon
<1>2. CASE AtNothing("it id", n, g, kind, bd, u, x, l)
  <2>1. n # bd.at /\ g[1] = "none" /\ kind = "null"
    BY <1>2, OneTwo, Zenon DEF AtNothing
  <2>2. g[1] \notin IT87Chips
    BY <2>1, Families, Zenon
  <2>3. "smsc id" \in Ids
    BY Zenon DEF Ids
  <2>4. Starts("smsc id", n, kind, bd, u, x, l)
    BY <2>1, <2>3, OneTwo, StartElsewhere, Zenon
  <2> QED BY <2>1, <2>2, <2>4, Zenon
<1> QED BY <1>0, <1>1, <1>2, StageEnds, Zenon

LEMMA ItExitNext ==
    ASSUME NEW n \in {1, 2}, n = 1, NEW g, NEW kind, NEW bd \in Boards, NEW u, NEW x, NEW l,
           Probed("it exit", n, << >>, g, kind, bd, u, x, l)
    PROVE  Starts("smsc id", n, kind, bd, u, x, l)
<1>0. "it exit" \in Probing /\ "it exit" \notin Ids /\ "smsc id" \in Probing
  BY Zenon DEF Probing, Ids
<1>1. AtEnd("it exit", n, g, kind, bd, u, x, l)
  BY <1>0, StageEnds, Zenon
<1>2. n = bd.at /\ kind = "null" /\ PresentOn(bd) = "null" /\ ItExit(2, LockOf(bd), u, x)
  BY <1>1, Zenon DEF AtEnd, EndOK, RuledOut
<1>3. SmscId(0, LockOf(bd), bd, u, x, << >>)
  BY <1>2, LockIs, AfterItExit, Zenon
<1>4. Fresh("smsc id", bd, u, x, l)
  BY <1>2, <1>3, FreshIds, Zenon
<1> QED BY <1>0, <1>2, <1>4, OneTwo, StartHere, Zenon

LEMMA ItAddressNext ==
    ASSUME NEW n \in {1, 2}, n = 1, NEW g, NEW kind, NEW bd \in Boards, NEW u, NEW x, NEW l,
           Probed("it address", n, << >>, g, kind, bd, u, x, l),
           NEW good, good <=> /\ g[1] = g[2] /\ g[1] = "good"
                              /\ g[4] = "zero" \/ (g[4] = g[5] /\ g[4] = "good")
    PROVE  /\ good => Starts("it vendor", n, kind, bd, u, x, l)
           /\ ~good => Starts("smsc id", n, kind, bd, u, x, l)
<1>0. "it address" \in Probing /\ "it address" \notin Ids /\ "smsc id" \in Probing /\ "it vendor" \in Probing
  BY Zenon DEF Probing, Ids, Vendors
<1>1. AtEnd("it address", n, g, kind, bd, u, x, l)
  BY <1>0, StageEnds, Zenon
<1>2. n = bd.at /\ kind = "null" /\ ItAddress(16, LockOf(bd), bd, u, x, l, g)
  BY <1>1, Zenon DEF AtEnd, EndOK
<1>3. bd.model \in IT87Chips /\ u = 0 /\ SmscId(0, LockOf(bd), bd, u, x, << >>)
  <2>1. AddressDone(LockOf(bd), bd, u, x)
    BY <1>2, AfterItAddress, Zenon
  <2> QED BY <2>1, Zenon DEF AddressDone
<1>4. g[1] = bd.addr /\ g[2] = bd.addr /\ g[4] = bd.gpio /\ g[5] = bd.gpio
  BY <1>2, AfterItAddress, Zenon
<1>5. good <=> bd.addr = "good" /\ bd.gpio # "bad"
  <2>1. bd.gpio # "bad" <=> bd.gpio = "zero" \/ bd.gpio = "good"
    BY Families
  <2> QED BY <1>4, <2>1, Zenon
<1>6. PresentOn(bd) = IF good THEN "IT87XX" ELSE "null"
  BY <1>2, <1>3, <1>5, PresentIs, Zenon
<1>7. ASSUME good PROVE Starts("it vendor", n, kind, bd, u, x, l)
  <2>1. Fresh("it vendor", bd, u, x, l)
    BY <1>3, <1>6, <1>7, FreshVendors, Zenon
  <2> QED BY <1>0, <1>2, <2>1, OneTwo, StartHere, Zenon
<1>8. ASSUME ~good PROVE Starts("smsc id", n, kind, bd, u, x, l)
  <2>1. Fresh("smsc id", bd, u, x, l)
    BY <1>3, <1>6, <1>8, FreshIds, Zenon
  <2> QED BY <1>0, <1>2, <2>1, OneTwo, StartHere, Zenon
<1> QED BY <1>7, <1>8, Zenon

LEMMA ItVendorNext ==
    ASSUME NEW w \in {"it vendor", "it config"}, NEW n \in {1, 2}, n = 1, NEW g, NEW kind, NEW bd \in Boards, NEW u, NEW x, NEW l,
           Probed(w, n, << >>, g, kind, bd, u, x, l)
    PROVE  Starts("it config", n, kind, bd, u, x, l) /\ Ready(n, "IT87XX", bd, u, x, l)
<1>0. w \in Probing /\ w \notin Ids /\ "it config" \in Probing /\ w \in Vendors
  BY Zenon DEF Probing, Ids, Vendors
<1>1. AtEnd(w, n, g, kind, bd, u, x, l)
  BY <1>0, StageEnds, Zenon
<1>2. n = bd.at /\ kind = "null" /\ u = 0 /\ PresentOn(bd) = "IT87XX"
  BY <1>0, <1>1, Zenon DEF AtEnd, EndOK, RuledOut
<1>3. Fresh("it config", bd, u, x, l)
  BY <1>2, FreshVendors, Zenon
<1>4. u # KeyCount(LockOf(bd))
  BY <1>2, LockIs, Closed, Zenon
<1>5. Ready(n, "IT87XX", bd, u, x, l)
  BY <1>2, <1>4, Zenon DEF Ready
<1>6. Starts("it config", n, kind, bd, u, x, l)
  BY <1>0, <1>2, <1>3, OneTwo, StartHere, Zenon
<1> QED BY <1>5, <1>6, Zenon

LEMMA SmscIdNext ==
    ASSUME NEW n \in {1, 2}, NEW g, NEW kind, NEW bd \in Boards, NEW u \in 0..KeyCount(LockOf(bd)), NEW x, NEW l,
           Probed("smsc id", n, << >>, g, kind, bd, u, x, l)
    PROVE  /\ g[1] # "none" => Starts("smsc exit", n, kind, bd, u, x, l)
           /\ g[1] = "none" => Ready(n, kind, bd, u, x, l)
<1>0. "smsc id" \in Probing /\ "smsc exit" \in Probing
      /\ "smsc exit" \notin {"it id", "it exit", "it address", "it vendor", "it config"}
  BY Zenon DEF Probing, Ids
<1>1. CASE AtEnd("smsc id", n, g, kind, bd, u, x, l)
  <2>1. PICK lock : lock = LockOf(bd)
    OBVIOUS
  <2>2. n = bd.at /\ kind = "null" /\ PresentOn(bd) = "null" /\ SmscId(3, lock, bd, u, x, g)
    BY <1>1, <2>1, Zenon DEF AtEnd, EndOK, RuledOut
  <2>3. (g[1] # "none" => SmscExit(0, lock, u)) /\ (g[1] = "none" => u # KeyCount(lock))
    BY <2>1, <2>2, AfterSmscId, Zenon
  <2>4. g[1] # "none" => Starts("smsc exit", n, kind, bd, u, x, l)
    BY <1>0, <2>1, <2>2, <2>3, FreshExits, StartHere, Zenon
  <2>5. g[1] = "none" => Ready(n, kind, bd, u, x, l)
    BY <2>1, <2>2, <2>3, Zenon DEF Ready
  <2> QED BY <2>4, <2>5, Zenon
<1>2. CASE AtNothing("smsc id", n, g, kind, bd, u, x, l)
  <2>1. g[1] = "none" /\ Ready(n, kind, bd, u, x, l)
    BY <1>2, Zenon DEF AtNothing, Ready
  <2> QED BY <2>1, Zenon
<1> QED BY <1>0, <1>1, <1>2, StageEnds, Zenon

LEMMA SmscExitNext ==
    ASSUME NEW n \in {1, 2}, NEW g, NEW kind, NEW bd \in Boards, NEW u, NEW x, NEW l,
           Probed("smsc exit", n, << >>, g, kind, bd, u, x, l)
    PROVE  Ready(n, kind, bd, u, x, l)
<1>0. "smsc exit" \in Probing /\ "smsc exit" \notin Ids
  BY Zenon DEF Probing, Ids
<1>1. AtEnd("smsc exit", n, g, kind, bd, u, x, l)
  BY <1>0, StageEnds, Zenon
<1>2. n = bd.at /\ kind = "null" /\ PresentOn(bd) = "null" /\ SmscExit(1, LockOf(bd), u)
  BY <1>1, Zenon DEF AtEnd, EndOK, RuledOut
<1>3. u # KeyCount(LockOf(bd))
  BY <1>2, LockIs, Closed, Zenon
<1> QED BY <1>2, <1>3, Zenon DEF Ready
-----------------------------------------------------------------------------
(* The ports of the chip.                                                   *)

\* The lock of the chip, and what it says at the value port.
LEMMA KeyIs ==
    ASSUME NEW k, k = Keys, NEW v
    PROVE  KeySeen(v) = IF v = k[unlock + 1] THEN unlock + 1 ELSE IF v = k[1] THEN 1 ELSE 0
BY DEF KeySeen

LEMMA LockState ==
    ASSUME NEW lock, lock = LockOf(board), unlock \in 0..KeyCount(lock)
    PROVE  /\ InConfig <=> unlock = KeyCount(lock)
           /\ ~InConfig => \A v : KeySeen(v) = Turn(lock, unlock, v)
           /\ ConfigValue = Conf(lock, board, unlock, cindex, ldn)
           /\ lock = "ite" <=> board.family = "ite"
<1>1. lock = "ite" <=> board.family = "ite"
  BY DEF LockOf
<1>2. InConfig <=> unlock = KeyCount(lock)
  <2>1. CASE board.family \in {"winbond", "fintek"}
    BY <2>1 DEF Keys, LockOf, KeyCount, InConfig
  <2>2. CASE board.family = "ite"
    BY <2>2 DEF Keys, LockOf, KeyCount, InConfig
  <2>3. CASE board.family \notin {"winbond", "fintek", "ite"}
    BY <2>3 DEF Keys, LockOf, KeyCount, InConfig
  <2> QED BY <2>1, <2>2, <2>3
<1>3. ASSUME ~InConfig, NEW v PROVE KeySeen(v) = Turn(lock, unlock, v)
  <2>1. PICK k : k = Keys
    OBVIOUS
  <2>2. KeySeen(v) = IF v = k[unlock + 1] THEN unlock + 1 ELSE IF v = k[1] THEN 1 ELSE 0
    BY <2>1, KeyIs
  <2>3. CASE board.family \in {"winbond", "fintek"}
    <3>1. k[1] = \h87 /\ k[2] = \h87
      BY <2>1, <2>3 DEF Keys
    <3>2. lock = "wf" /\ unlock \in {0, 1}
      BY <1>2, <1>3, <2>3 DEF LockOf, KeyCount
    <3> QED BY <2>2, <3>1, <3>2 DEF Turn
  <2>4. CASE board.family = "ite"
    <3>1. k[1] = \h87 /\ k[2] = 1 /\ k[3] = \h55 /\ k[4] = \h55
      BY <2>1, <2>4 DEF Keys
    <3>2. lock = "ite" /\ unlock \in {0, 1, 2, 3}
      BY <1>2, <1>3, <2>4 DEF LockOf, KeyCount
    <3> QED BY <2>2, <3>1, <3>2 DEF Turn
  <2>5. CASE board.family \notin {"winbond", "fintek", "ite"}
    <3>1. k[1] = \h55
      BY <2>1, <2>5 DEF Keys
    <3>2. lock = "smsc" /\ unlock = 0
      BY <1>2, <1>3, <2>5 DEF LockOf, KeyCount
    <3> QED BY <2>2, <3>1, <3>2 DEF Turn
  <2> QED BY <2>3, <2>4, <2>5
<1>4. ConfigValue = Conf(lock, board, unlock, cindex, ldn)
  BY <1>2 DEF ConfigValue, Conf
<1> QED BY <1>1, <1>2, <1>3, <1>4

LEMMA PortShapes ==
    ASSUME NEW op \in Ops
    PROVE  /\ op.dir \in {"in", "out"}
           /\ op.dir = "in" => op.port[1] \in {"value", "addr", "data", "index"}
           /\ \/ \E n \in {1, 2} : op.port = <<"index", n>> /\ op.port[1] = "index" /\ op.port[2] = n
              \/ \E n \in {1, 2} : op.port = <<"value", n>> /\ op.port[1] = "value" /\ op.port[2] = n
              \/ op.port[1] \in {"addr", "data"}
<1>1. op.port \in Ports /\ op.dir \in {"in", "out"}
  BY DEF Ops, Ports
<1>2. \A n : <<"index", n>>[1] = "index" /\ <<"index", n>>[2] = n /\ <<"value", n>>[1] = "value" /\ <<"value", n>>[2] = n
  OBVIOUS
<1>3. <<"addr">>[1] = "addr" /\ <<"data">>[1] = "data"
  OBVIOUS
<1> QED BY <1>1, <1>2, <1>3 DEF Ports, Config

\* What an access does to the lock and the selected register and device.
LEMMA AccessIs ==
    ASSUME NEW op \in Ops, Access(op), NEW lock, lock = LockOf(board), unlock \in 0..KeyCount(lock)
    PROVE  /\ op.dir = "in" \/ op.port[1] \in {"addr", "data"} => UNCHANGED <<unlock, cindex, ldn>>
           /\ op.dir = "out" /\ op.port[1] = "index" /\ op.port[2] = board.at =>
                  IndexSet(lock, op.v, unlock, cindex, unlock', cindex') /\ UNCHANGED ldn
           /\ op.dir = "out" /\ op.port[1] = "value" /\ op.port[2] = board.at =>
                  ValueSet(lock, op.v, unlock, cindex, ldn, unlock', ldn') /\ UNCHANGED cindex
           /\ op.port[1] \in {"index", "value"} /\ op.port[2] # board.at => UNCHANGED unlock
<1>0. op.dir \in {"in", "out"}
  BY DEF Ops
<1>1. (InConfig <=> unlock = KeyCount(lock)) /\ (~InConfig => \A v : KeySeen(v) = Turn(lock, unlock, v))
      /\ (lock = "ite" <=> board.family = "ite")
  BY LockState
<1>2. CASE op.dir = "in"
  BY <1>2 DEF Access, hardware
<1>3. CASE op.dir = "out" /\ op.port[1] = "index"
  <2>1. WriteIndex(op.port[2], op.v)
    BY <1>3 DEF Access
  <2>2. op.port[2] # board.at => UNCHANGED unlock
    BY <2>1 DEF WriteIndex
  <2>3. op.port[2] = board.at => IndexSet(lock, op.v, unlock, cindex, unlock', cindex') /\ UNCHANGED ldn
    <3>1. CASE InConfig
      BY <1>1, <2>1, <3>1 DEF WriteIndex, IndexSet
    <3>2. CASE ~InConfig
      BY <1>1, <2>1, <3>2 DEF WriteIndex, IndexSet
    <3> QED BY <3>1, <3>2
  <2> QED BY <1>3, <2>2, <2>3
<1>4. CASE op.dir = "out" /\ op.port[1] = "value"
  <2>1. WriteValue(op.port[2], op.v)
    BY <1>4 DEF Access
  <2>2. op.port[2] # board.at => UNCHANGED unlock
    BY <2>1 DEF WriteValue
  <2>3. op.port[2] = board.at => ValueSet(lock, op.v, unlock, cindex, ldn, unlock', ldn') /\ UNCHANGED cindex
    BY <1>1, <2>1 DEF WriteValue, ValueSet
  <2> QED BY <1>4, <2>2, <2>3
<1>5. CASE op.dir = "out" /\ op.port[1] \notin {"index", "value"}
  <2>1. WriteMonitor(op.port[1], op.v)
    BY <1>5 DEF Access
  <2> QED BY <1>5, <2>1 DEF WriteMonitor
<1> QED BY <1>0, <1>2, <1>3, <1>4, <1>5

\* An access of a program: on the ports of the chip, on the monitor, elsewhere.
OnChip(op, bd) == op.port \in {<<"index", bd.at>>, <<"value", bd.at>>} \/ op.port[1] \in {"addr", "data"}

LEMMA PortEffect ==
    ASSUME SharedInv, TypeInv, ChipInv, ProbeInv, NEW p \in Programs, PortAccess(p), UNCHANGED update,
           NEW op, op = script[p][1]
    PROVE  /\ op \in Ops
           /\ OnChip(op, board) =>
                  Effect(op, LockOf(board), board, unlock, cindex, ldn, got[p], unlock', cindex', ldn', got'[p])
           /\ \A n : n # board.at /\ op.port \in {<<"index", n>>, <<"value", n>>} => UNCHANGED unlock
           /\ \A n : n # board.at /\ op.port = <<"value", n>> /\ op.dir = "in" => got'[p] = Append(got[p], "none")
           /\ op.dir = "out" => got'[p] = got[p]
           /\ unlock' \in 0..KeyCount(LockOf(board))
           /\ LockOf(board) = "ite" /\ unlock \in {0, 1} /\ op.dir = "out" /\ op.port[1] = "index" /\ op.v # 1 =>
                  unlock' \in {0, 1}
<1>0. PICK lock : lock = LockOf(board)
  OBVIOUS
<1>1. op \in Ops /\ script[p] \in OpSeq /\ script[p] # << >>
  BY PortIs
<1>2. Head(script[p]) = op
  BY <1>1 DEF OpSeq
<1>3. Access(op)
  BY <1>2 DEF PortAccess
<1>4. (op.dir = "in" => got'[p] = Append(got[p], ResultOf(op))) /\ (op.dir = "out" => got'[p] = got[p])
  BY PortIs
<1>5. unlock \in 0..KeyCount(lock) /\ lock \in Locks
  BY <1>0, LockIs DEF ProbeInv
<1>6. /\ op.dir = "in" \/ op.port[1] \in {"addr", "data"} => UNCHANGED <<unlock, cindex, ldn>>
      /\ op.dir = "out" /\ op.port[1] = "index" /\ op.port[2] = board.at =>
             IndexSet(lock, op.v, unlock, cindex, unlock', cindex') /\ UNCHANGED ldn
      /\ op.dir = "out" /\ op.port[1] = "value" /\ op.port[2] = board.at =>
             ValueSet(lock, op.v, unlock, cindex, ldn, unlock', ldn') /\ UNCHANGED cindex
      /\ op.port[1] \in {"index", "value"} /\ op.port[2] # board.at => UNCHANGED unlock
  BY <1>0, <1>1, <1>3, <1>5, AccessIs
<1>7. ConfigValue = Conf(lock, board, unlock, cindex, ldn)
  BY <1>0, <1>5, LockState
<1>8. \A n : <<"index", n>>[1] = "index" /\ <<"index", n>>[2] = n /\ <<"value", n>>[1] = "value" /\ <<"value", n>>[2] = n
  OBVIOUS
<1>9. ASSUME OnChip(op, board)
      PROVE  Effect(op, lock, board, unlock, cindex, ldn, got[p], unlock', cindex', ldn', got'[p])
  <2>1. op.port[1] \in {"addr", "data"} \/ (op.port[1] \in {"index", "value"} /\ op.port[2] = board.at)
    BY <1>8, <1>9 DEF OnChip
  <2>2. op.dir = "in" /\ op.port[1] = "value" => ResultOf(op) = Conf(lock, board, unlock, cindex, ldn)
    BY <1>7, <2>1 DEF ResultOf
  <2> QED BY <1>4, <1>6, <2>1, <2>2 DEF Effect
<1>10. ASSUME NEW n, n # board.at, op.port \in {<<"index", n>>, <<"value", n>>}
       PROVE  UNCHANGED unlock /\ (op.port = <<"value", n>> /\ op.dir = "in" => got'[p] = Append(got[p], "none"))
  <2>1. op.port[1] \in {"index", "value"} /\ op.port[2] = n /\ (op.port = <<"value", n>> => op.port[1] = "value")
    BY <1>8, <1>10
  <2>2. op.port[1] = "value" => ResultOf(op) = "none"
    BY <1>10, <2>1 DEF ResultOf
  <2> QED BY <1>4, <1>6, <1>10, <2>1, <2>2
<1>11. unlock' \in 0..KeyCount(lock)
  <2>1. op.dir = "in" \/ op.port[1] \in {"addr", "data"} \/ (op.dir = "out" /\ op.port[1] \in {"index", "value"})
    BY <1>1, PortShapes
  <2>2. CASE op.dir = "out" /\ op.port[1] = "index" /\ op.port[2] = board.at
    BY <1>5, <1>6, <2>2, KeysBounded
  <2>3. CASE op.dir = "out" /\ op.port[1] = "value" /\ op.port[2] = board.at
    BY <1>5, <1>6, <2>3, KeysBounded
  <2> QED BY <1>5, <1>6, <2>1, <2>2, <2>3
<1>12. ASSUME lock = "ite", unlock \in {0, 1}, op.dir = "out", op.port[1] = "index", op.v # 1
       PROVE  unlock' \in {0, 1}
  <2>1. CASE op.port[2] = board.at
    BY <1>5, <1>6, <1>12, <2>1, KeysBounded
  <2> QED BY <1>6, <1>12, <2>1
<1> QED BY <1>0, <1>1, <1>4, <1>9, <1>10, <1>11, <1>12
-----------------------------------------------------------------------------
(* The steps of the programs.                                               *)

\* The places outside of the detection.
Apart == {"off", "failed", "open", "stop", "delete", "create", "start", "reopen", "cpu", "idle", "temps", "temp",
          "lpcio", "created", "update", "reading", "writing", "updated", "shown", "close", "exit"}

LEMMA ApartIs == \A w \in Apart : w \notin Probing /\ w # "detected"
<1>1. \A w \in Apart : w \notin Ids
  BY Zenon DEF Apart, Ids
<1>2. \A w \in Apart : w \notin Vendors
  BY Zenon DEF Apart, Vendors
<1>3. \A w \in Apart : w \notin {"wf exit", "wf address", "it exit", "it address", "smsc exit"} /\ w # "detected"
  BY Zenon DEF Apart
<1> QED BY <1>1, <1>2, <1>3, Zenon DEF Probing

LEMMA ProbingLocked == Probing \cup {"detected"} \subseteq Locked
BY Zenon DEF Probing, Ids, Vendors, Locked

LEMMA Harmless ==
    ASSUME NEW w, w \notin Probing, w # "detected", NEW n, NEW s, NEW g, NEW kind, NEW bd, NEW u, NEW x, NEW l
    PROVE  Probed(w, n, s, g, kind, bd, u, x, l)
BY Zenon DEF Probed

\* What a step of p leaves to the others.
OnlyProbes(p) ==
    /\ Only(p, pc, pc') /\ Only(p, obj, obj') /\ Only(p, script, script') /\ Only(p, got, got')
    /\ Only(p, port, port') /\ UNCHANGED board

LEMMA ProbeGoal ==
    ASSUME SharedInv, ProbeInv, NEW p \in Programs, OnlyProbes(p), UNCHANGED <<unlock, cindex, ldn>> \/ owner = p,
           unlock' \in 0..KeyCount(LockOf(board)),
           board.family = "ite" /\ board.at = 2 => unlock' \in {0, 1} /\ obj'[p].kind = "null",
           Probed(pc'[p], port'[p], script'[p], got'[p], obj'[p].kind, board, unlock', cindex', ldn')
    PROVE  ProbeInv'
<1>0. board' = board
  BY DEF OnlyProbes
<1>1. ProgramProbed(p)'
  BY <1>0, Zenon DEF ProgramProbed
<1>2. ASSUME NEW q \in Programs, q # p PROVE ProgramProbed(q)' /\ obj'[q] = obj[q]
  <2>1. /\ pc'[q] = pc[q] /\ obj'[q] = obj[q] /\ script'[q] = script[q] /\ got'[q] = got[q]
        /\ port'[q] = port[q]
    BY <1>2, Zenon DEF OnlyProbes, Only
  <2>2. Probed(pc[q], port[q], script[q], got[q], obj[q].kind, board, unlock, cindex, ldn)
    BY Zenon DEF ProbeInv, ProgramProbed
  <2>3. Probed(pc[q], port[q], script[q], got[q], obj[q].kind, board, unlock', cindex', ldn')
    <3>1. CASE UNCHANGED <<unlock, cindex, ldn>>
      <4>1. unlock' = unlock /\ cindex' = cindex /\ ldn' = ldn
        BY <3>1
      <4> QED BY <2>2, <4>1, Zenon
    <3>2. CASE owner = p
      <4>1. pc[q] \notin Locked
        BY <1>2, <3>2 DEF SharedInv, MutexInv
      <4>2. pc[q] \notin Probing /\ pc[q] # "detected"
        BY <4>1, ProbingLocked, Zenon
      <4> QED BY <4>2, Harmless, Zenon
    <3> QED BY <3>1, <3>2
  <2>4. ProgramProbed(q)'
    BY <1>0, <2>1, <2>3, Zenon DEF ProgramProbed
  <2> QED BY <2>1, <2>4
<1>3. \A q \in Programs : ProgramProbed(q)'
  BY <1>1, <1>2, Zenon
<1>4. Untouched'
  <2>1. ASSUME board.family = "ite", board.at = 2, NEW q \in Programs PROVE obj'[q].kind = "null"
    <3>1. CASE q = p
      BY <2>1, <3>1
    <3>2. CASE q # p
      <4>1. obj'[q] = obj[q] /\ obj[q].kind = "null"
        BY <1>2, <2>1, <3>2, Zenon DEF ProbeInv, Untouched
      <4> QED BY <4>1
    <3> QED BY <3>1, <3>2
  <2> QED BY <1>0, <2>1, Zenon DEF Untouched
<1>5. unlock' \in 0..KeyCount(LockOf(board))' /\ board' \in Boards
  <2>1. LockOf(board)' = LockOf(board)
    BY <1>0, Zenon
  <2>2. KeyCount(LockOf(board))' = KeyCount(LockOf(board))
    BY <2>1, Zenon
  <2> QED BY <1>0, <2>2 DEF ProbeInv
<1> QED BY <1>3, <1>4, <1>5, Zenon DEF ProbeInv

\* Every variable of a program changes at the program only.
Moves(p) ==
    /\ pc' = pc \/ \E e : pc' = [pc EXCEPT ![p] = e]
    /\ obj' = obj \/ \E e : obj' = [obj EXCEPT ![p] = e]
    /\ script' = script \/ \E e : script' = [script EXCEPT ![p] = e]
    /\ got' = got \/ \E e : got' = [got EXCEPT ![p] = e]
    /\ port' = port \/ \E e : port' = [port EXCEPT ![p] = e]
    /\ UNCHANGED board

LEMMA MovesOnly ==
    ASSUME SharedInv, TypeInv, ChipInv, NEW p \in Programs, Moves(p) PROVE OnlyProbes(p)
<1>1. /\ DOMAIN pc = Programs /\ DOMAIN obj = Programs /\ DOMAIN script = Programs /\ DOMAIN got = Programs
      /\ DOMAIN port = Programs
  BY Domains DEF TypeInv, ScriptsTyped
<1>2. Only(p, pc, pc')
  BY <1>1, OnlySome DEF Moves
<1>3. Only(p, obj, obj')
  BY <1>1, OnlySome DEF Moves
<1>4. Only(p, script, script')
  BY <1>1, OnlySome DEF Moves
<1>5. Only(p, got, got')
  BY <1>1, OnlySome DEF Moves
<1>6. Only(p, port, port')
  BY <1>1, OnlySome DEF Moves
<1> QED BY <1>2, <1>3, <1>4, <1>5, <1>6 DEF OnlyProbes, Moves

\* A step of p to a place outside of the detection.
LEMMA ProbeApart ==
    ASSUME SharedInv, TypeInv, ChipInv, ProbeInv, NEW p \in Programs, Moves(p), UNCHANGED <<unlock, cindex, ldn>>,
           pc'[p] \in Apart, obj'[p] \in {obj[p], NoObject}
    PROVE  ProbeInv'
<1>1. OnlyProbes(p)
  BY MovesOnly
<1>2. pc'[p] \notin Probing /\ pc'[p] # "detected"
  BY ApartIs, Zenon
<1>3. Probed(pc'[p], port'[p], script'[p], got'[p], obj'[p].kind, board, unlock', cindex', ldn')
  BY <1>2, Harmless, Zenon
<1>4. NoObject.kind = "null"
  BY DEF NoObject
<1>5. board.family = "ite" /\ board.at = 2 => unlock' \in {0, 1} /\ obj'[p].kind = "null"
  BY <1>4 DEF ProbeInv, Untouched
<1>6. unlock' \in 0..KeyCount(LockOf(board))
  BY DEF ProbeInv
<1> QED BY <1>1, <1>3, <1>5, <1>6, ProbeGoal

LEMMA ProbeStands ==
    ASSUME ProbeInv, UNCHANGED <<board, unlock, cindex, ldn, pc, obj, script, got, port>> PROVE ProbeInv'
<1>1. /\ board' = board /\ unlock' = unlock /\ cindex' = cindex /\ ldn' = ldn /\ pc' = pc /\ obj' = obj
      /\ script' = script /\ got' = got /\ port' = port
  OBVIOUS
<1>2. \A p \in Programs : ProgramProbed(p)'
  BY <1>1, Zenon DEF ProbeInv, ProgramProbed
<1>3. Untouched'
  BY <1>1, Zenon DEF ProbeInv, Untouched
<1>4. KeyCount(LockOf(board))' = KeyCount(LockOf(board))
  BY <1>1, Zenon
<1> QED BY <1>1, <1>2, <1>3, <1>4, Zenon DEF ProbeInv

LEMMA ProbeGoes ==
    ASSUME SharedInv, TypeInv, ChipInv, ProbeInv, NEW p \in Programs,
           UNCHANGED <<board, unlock, cindex, ldn, obj, script, got, port>>, NEW w \in Apart, Goto(p, w)
    PROVE  ProbeInv'
<1>1. pc' = [pc EXCEPT ![p] = w] /\ pc'[p] = w
  BY Domains, OnlyIs DEF Goto
<1>2. Moves(p)
  BY <1>1 DEF Moves
<1> QED BY <1>1, <1>2, ProbeApart

LEMMA ProbeDevice ==
    ASSUME SharedInv, TypeInv, ChipInv, ProbeInv, NEW p \in Programs,
           \/ Device(p) \/ InitCPUSenor(p) \/ OnRefresh(p) \/ OnCancel(p) \/ SelectCore(p) \/ ReadSelectedTemp(p)
           \/ ReadTemp(p) \/ Created(p) \/ Updated(p)
    PROVE  ProbeInv'
<1>1. UNCHANGED <<board, unlock, cindex, ldn, obj, script, got, port>>
  <2>1. CASE SelectCore(p) \/ ReadSelectedTemp(p) \/ ReadTemp(p)
    BY <2>1 DEF SelectCore, Selected, ReadSelectedTemp, ReadTemp, NextCore, hardware, lpc
  <2> QED BY <2>1 DEF Device, InitCPUSenor, OnRefresh, OnCancel, Created, Updated, hardware, lpc
<1>2. \E w \in Apart : Goto(p, w)
  <2>1. CASE Device(p)
    BY <2>1 DEF Device, Begin, Open, RemoveStops, RemoveWinIoDriver, InstallWinIoDriver, StartWinIoDriver, Reopen,
                Opens, NotOpened, Close, Apart
  <2>2. CASE SelectCore(p) \/ ReadSelectedTemp(p) \/ ReadTemp(p)
    BY <2>2 DEF SelectCore, Selected, ReadSelectedTemp, ReadTemp, NextCore, Apart
  <2> QED BY <2>1, <2>2 DEF InitCPUSenor, OnRefresh, OnCancel, Created, Updated, Apart
<1> QED BY <1>1, <1>2, ProbeGoes

LEMMA ProbeEnded ==
    ASSUME SharedInv, TypeInv, ChipInv, ProbeInv, NEW p \in Programs, Goto(p, "off"), Forget(p) PROVE ProbeInv'
<1>1. /\ script' = [script EXCEPT ![p] = << >>] /\ got' = [got EXCEPT ![p] = << >>]
      /\ obj' = [obj EXCEPT ![p] = NoObject] /\ port' = [port EXCEPT ![p] = 1]
      /\ pc' = [pc EXCEPT ![p] = "off"] /\ UNCHANGED <<board, unlock, cindex, ldn>>
  BY DEF Forget, hardware, Goto
<1>2. Moves(p)
  BY <1>1 DEF Moves
<1>3. pc'[p] = "off" /\ obj'[p] = NoObject
  BY <1>1, Domains, OnlyIs
<1>4. "off" \in Apart
  BY DEF Apart
<1> QED BY <1>1, <1>2, <1>3, <1>4, ProbeApart

LEMMA ProbeShown ==
    ASSUME SharedInv, TypeInv, ChipInv, ProbeInv, NEW p \in Programs, Shown(p) PROVE ProbeInv'
<1>1. PICK w : w = CASE p = Dialog -> "idle" [] p = Console /\ left' = 0 -> "close" [] OTHER -> "temps"
  OBVIOUS
<1>2. /\ pc' = [pc EXCEPT ![p] = w] /\ UNCHANGED <<board, unlock, cindex, ldn, script>>
      /\ got' = [got EXCEPT ![p] = << >>] /\ port' = [port EXCEPT ![p] = 1]
      /\ obj' = [obj EXCEPT ![p] = NoObject]
  BY <1>1 DEF Shown, hardware, Goto
<1>3. w \in Apart
  <2>1. w \in {"idle", "close", "temps"}
    BY <1>1
  <2> QED BY <2>1 DEF Apart
<1>4. Moves(p)
  BY <1>2 DEF Moves
<1>5. pc'[p] = w /\ obj'[p] = NoObject
  BY <1>2, Domains, OnlyIs
<1> QED BY <1>2, <1>3, <1>4, <1>5, ProbeApart

LEMMA ProbeReading ==
    ASSUME SharedInv, TypeInv, ChipInv, ProbeInv, NEW p \in Programs, UpdateNext(p) PROVE ProbeInv'
<1>1. PICK w \in {"reading", "writing", "updated"} : pc' = [pc EXCEPT ![p] = w] \/ (pc' = pc /\ pc[p] = w)
  <2>1. CASE Update(p)
    BY <2>1 DEF Update, Goto
  <2>2. CASE ReadMore(p)
    BY <2>2 DEF ReadMore, At
  <2>3. CASE ItemRead(p)
    BY <2>3 DEF ItemRead, Goto
  <2>4. CASE UpdateDone(p)
    BY <2>4 DEF UpdateDone, Goto
  <2> QED BY <2>1, <2>2, <2>3, <2>4 DEF UpdateNext
<1>2. UNCHANGED <<board, unlock, cindex, ldn, port, obj>>
  BY DEF UpdateNext, Update, ReadMore, ItemRead, UpdateDone, hardware, lpc
<1>3. /\ script' = script \/ \E s : script' = [script EXCEPT ![p] = s]
      /\ got' = got \/ \E g : got' = [got EXCEPT ![p] = g]
  <2>1. CASE Update(p)
    BY <2>1 DEF Update
  <2>2. CASE ReadMore(p)
    BY <2>2 DEF ReadMore
  <2>3. CASE ItemRead(p)
    BY <2>3 DEF ItemRead
  <2>4. CASE UpdateDone(p)
    BY <2>4 DEF UpdateDone, lpc
  <2> QED BY <2>1, <2>2, <2>3, <2>4 DEF UpdateNext
<1>4. Moves(p)
  <2>1. pc' = pc \/ \E e : pc' = [pc EXCEPT ![p] = e]
    BY <1>1
  <2> QED BY <1>2, <1>3, <2>1 DEF Moves
<1>5. pc'[p] = w
  BY <1>1, Domains, OnlyIs
<1>6. w \in Apart
  BY DEF Apart
<1> QED BY <1>2, <1>4, <1>5, <1>6, ProbeApart
-----------------------------------------------------------------------------
(* The steps of the detection.                                              *)

\* An access on the ports n; one that does not go on with the keys of ITE.
OnPorts(op, n) == op.port \in {<<"index", n>>, <<"value", n>>} \/ op.port[1] \in {"addr", "data"}
NoKey(op) == op.dir = "in" \/ (op.dir = "out" /\ op.port[1] = "index" /\ op.v # 1)

LEMMA OpPorts ==
    \A n, v : /\ OnPorts(Out(<<"index", n>>, v), n) /\ OnPorts(Out(<<"value", n>>, v), n)
              /\ OnPorts(In(<<"value", n>>, v), n) /\ NoKey(In(<<"value", n>>, v))
              /\ v # 1 => NoKey(Out(<<"index", n>>, v))
<1>1. ASSUME NEW n, NEW v
      PROVE  /\ OnPorts(Out(<<"index", n>>, v), n) /\ OnPorts(Out(<<"value", n>>, v), n)
             /\ OnPorts(In(<<"value", n>>, v), n) /\ NoKey(In(<<"value", n>>, v))
             /\ v # 1 => NoKey(Out(<<"index", n>>, v))
  <2>1. PICK a, b, c : a = Out(<<"index", n>>, v) /\ b = Out(<<"value", n>>, v) /\ c = In(<<"value", n>>, v)
    OBVIOUS
  <2>2. a.port = <<"index", n>> /\ b.port = <<"value", n>> /\ c.port = <<"value", n>> /\ c.dir = "in"
    BY <2>1, OutIs, InIs
  <2>3. a.dir = "out" /\ a.v = v /\ a.port[1] = "index"
    BY <2>1, OutIs
  <2>4. OnPorts(a, n) /\ OnPorts(b, n) /\ OnPorts(c, n)
    BY <2>2, Zenon DEF OnPorts
  <2>5. NoKey(c) /\ (v # 1 => NoKey(a))
    BY <2>2, <2>3, Zenon DEF NoKey
  <2> QED BY <2>1, <2>4, <2>5, Zenon
<1> QED BY <1>1, Zenon

LEMMA WfIdPorts ==
    ASSUME NEW f, NEW n, WfIdOps(f, n), NEW j \in 1..Len(f) PROVE OnPorts(f[j], n) /\ NoKey(f[j])
<1>1. j \in {1, 2, 3, 4}
  BY DEF WfIdOps
<1> QED BY <1>1, OpPorts DEF WfIdOps

LEMMA SmscIdPorts ==
    ASSUME NEW f, NEW n, SmscIdOps(f, n), NEW j \in 1..Len(f) PROVE OnPorts(f[j], n) /\ NoKey(f[j])
<1>1. j \in {1, 2, 3}
  BY DEF SmscIdOps
<1> QED BY <1>1, OpPorts DEF SmscIdOps

LEMMA ExitPorts ==
    ASSUME NEW f, NEW n, ExitOps(f, n), NEW j \in 1..Len(f) PROVE OnPorts(f[j], n) /\ NoKey(f[j])
<1>1. Len(f) = 1 /\ f[1] = Out(<<"index", n>>, \hAA)
  BY DEF ExitOps
<1>2. j = 1
  BY <1>1
<1>3. PICK v : v = \hAA /\ v # 1
  OBVIOUS
<1>4. f[j] = Out(<<"index", n>>, v)
  BY <1>1, <1>2, <1>3
<1> QED BY <1>3, <1>4, OpPorts, Zenon

LEMMA ItIdPorts == ASSUME NEW f, NEW n, ItIdOps(f, n), NEW j \in 1..Len(f) PROVE OnPorts(f[j], n)
<1>1. j \in {1, 2, 3, 4, 5, 6}
  BY DEF ItIdOps
<1> QED BY <1>1, OpPorts DEF ItIdOps

LEMMA ItExitPorts == ASSUME NEW f, NEW n, ItExitOps(f, n), NEW j \in 1..Len(f) PROVE OnPorts(f[j], n)
<1>1. j \in {1, 2}
  BY DEF ItExitOps
<1> QED BY <1>1, OpPorts DEF ItExitOps

LEMMA WfAddressPorts ==
    ASSUME NEW f, NEW n, NEW c, WfAddressOps(f, n, c), NEW j \in 1..Len(f) PROVE OnPorts(f[j], n)
<1>1. j \in {1, 2, 3, 4, 5, 6, 7, 8, 9}
  BY DEF WfAddressOps
<1>2. CASE j \in {1, 2, 3, 4, 5}
  BY <1>2, OpPorts DEF WfAddressOps
<1>3. CASE j \in {6, 7, 8, 9}
  BY <1>3, OpPorts DEF WfAddressOps
<1> QED BY <1>1, <1>2, <1>3

LEMMA ItAddressPorts == ASSUME NEW f, NEW n, ItAddressOps(f, n), NEW j \in 1..Len(f) PROVE OnPorts(f[j], n)
<1>1. j \in {1, 2, 3, 4, 5, 6, 7, 8, 9, 10, 11, 12, 13, 14, 15, 16}
  BY DEF ItAddressOps
<1>2. CASE j \in {1, 2, 3, 4, 5, 6, 7, 8}
  BY <1>2, OpPorts DEF ItAddressOps
<1>3. CASE j \in {9, 10, 11, 12, 13, 14, 15, 16}
  BY <1>3, OpPorts DEF ItAddressOps
<1> QED BY <1>1, <1>2, <1>3

LEMMA MonitorPorts == ASSUME NEW f, NEW n, MonitorOnly(f), NEW j \in 1..Len(f) PROVE OnPorts(f[j], n)
BY DEF MonitorOnly, OnPorts

\* All the scripts of the detection.
LEMMA ScriptPorts ==
    ASSUME NEW w \in Probing, NEW n \in {1, 2}, NEW c, NEW f, f = Script(w, n, c), NEW j \in 1..Len(f)
    PROVE  /\ OnPorts(f[j], n)
           /\ w \in {"wf id", "wf exit", "smsc id", "smsc exit"} => NoKey(f[j])
<1>1. ASSUME w = "wf id" PROVE OnPorts(f[j], n) /\ NoKey(f[j])
  <2>1. WfIdOps(f, n)
    BY <1>1, IdScripts, Zenon
  <2> QED BY <2>1, WfIdPorts, Zenon
<1>2. ASSUME w = "smsc id" PROVE OnPorts(f[j], n) /\ NoKey(f[j])
  <2>1. SmscIdOps(f, n)
    BY <1>2, IdScripts, Zenon
  <2> QED BY <2>1, SmscIdPorts, Zenon
<1>3. ASSUME w = "wf exit" \/ w = "smsc exit" PROVE OnPorts(f[j], n) /\ NoKey(f[j])
  <2>1. ExitOps(f, n)
    BY <1>3, ExitScripts, Zenon
  <2> QED BY <2>1, ExitPorts, Zenon
<1>4. ASSUME w = "it id" PROVE OnPorts(f[j], n)
  <2>1. ItIdOps(f, n)
    BY <1>4, IdScripts, Zenon
  <2> QED BY <2>1, ItIdPorts, Zenon
<1>5. ASSUME w = "it exit" PROVE OnPorts(f[j], n)
  <2>1. ItExitOps(f, n)
    BY <1>5, ExitScripts, Zenon
  <2> QED BY <2>1, ItExitPorts, Zenon
<1>6. ASSUME w = "wf address" PROVE OnPorts(f[j], n)
  <2>1. WfAddressOps(f, n, HARDWARE_MONITOR_LDN(c))
    BY <1>6, WfAddressScript, Zenon
  <2> QED BY <2>1, WfAddressPorts, Zenon
<1>7. ASSUME w = "it address" PROVE OnPorts(f[j], n)
  <2>1. ItAddressOps(f, n)
    BY <1>7, ItAddressScript, Zenon
  <2> QED BY <2>1, ItAddressPorts, Zenon
<1>8. ASSUME w \in Vendors PROVE OnPorts(f[j], n)
  <2>1. MonitorOnly(f)
    BY <1>8, VendorScripts, Zenon
  <2> QED BY <2>1, MonitorPorts, Zenon
<1>9. OnPorts(f[j], n)
  BY <1>1, <1>2, <1>3, <1>4, <1>5, <1>6, <1>7, <1>8, Zenon DEF Probing, Ids
<1> QED BY <1>1, <1>2, <1>3, <1>9, Zenon

\* The next access of a program on the ports of the chip.
LEMMA HereFirst ==
    ASSUME NEW w \in Probing, NEW n \in {1, 2}, NEW s \in OpSeq, s # << >>, NEW g, NEW kind, NEW bd, NEW u, NEW x, NEW l,
           Here(w, n, s, g, kind, bd, u, x, l)
    PROVE  /\ OnPorts(s[1], n)
           /\ w \in {"wf id", "wf exit", "smsc id", "smsc exit"} => NoKey(s[1])
<1>1. PICK f \in OpSeq : f = Script(w, n, bd.model)
  BY ScriptOps
<1>2. PICK k \in 0..16 : Behind(s, f, k)
  BY <1>1, Zenon DEF Here
<1>3. k < Len(f) /\ s[1] = f[k + 1]
  BY <1>2, BehindStep
<1>4. k + 1 \in 1..Len(f)
  <2>1. PICK m \in Nat : m = Len(f)
    BY DEF OpSeq
  <2> QED BY <1>3, <2>1
<1> QED BY <1>1, <1>3, <1>4, ScriptPorts, Zenon

\* Behind the second ports, a chip of ITE does not get its second key.
LEMMA SecondQuiet ==
    ASSUME NEW w \in Probing, NEW n \in {1, 2}, n = 2, NEW s \in OpSeq, s # << >>, NEW g, NEW kind, NEW bd \in Boards,
           n = bd.at, LockOf(bd) = "ite", NEW u, NEW x, NEW l, Probed(w, n, s, g, kind, bd, u, x, l)
    PROVE  NoKey(s[1])
<1>1. Here(w, n, s, g, kind, bd, u, x, l) /\ w \notin {"it id", "it exit", "it address", "it vendor", "it config"}
  BY Zenon DEF Probed
<1>2. RuledOut(w, LockOf(bd), bd) /\ \E k \in 0..16 : StageOK(w, k, LockOf(bd), bd, u, x, l, g)
  BY <1>1, Zenon DEF Here
<1>3. w # "wf address"
  <2>1. SUFFICES ASSUME w = "wf address" PROVE FALSE
    OBVIOUS
  <2>2. PICK k : WfAddress(k, LockOf(bd), bd, u, x, l, g)
    BY <1>2, <2>1, Zenon DEF StageOK
  <2>3. LockOf(bd) = "wf"
    BY <2>2, Zenon DEF WfAddress
  <2> QED BY <2>3, Zenon
<1>4. PresentOn(bd) = "null"
  <2>1. LockOf(bd) # "wf" /\ bd.at = 2
    BY Zenon
  <2> QED BY <2>1, BehindSecond, Zenon
<1>5. w # "w vendor" /\ w # "w source"
  BY <1>2, <1>4, Zenon DEF RuledOut
<1>6. w \in {"wf id", "wf exit", "smsc id", "smsc exit"}
  BY <1>1, <1>3, <1>5, Zenon DEF Probing, Ids, Vendors
<1> QED BY <1>1, <1>6, HereFirst, Zenon

\* One access of a program that probes.
LEMMA ProbeAccess ==
    ASSUME SharedInv, TypeInv, ChipInv, ProbeInv, NEW p \in Programs, PortAccess(p), UNCHANGED update,
           NEW w \in Probing, w = pc[p]
    PROVE  /\ Probed(w, port[p], script'[p], got'[p], obj[p].kind, board, unlock', cindex', ldn')
           /\ LockOf(board) = "ite" /\ board.at = 2 => unlock' \in {0, 1}
<1>1. PICK s \in OpSeq : s = script[p] /\ s # << >> /\ script'[p] = Tail(s)
  BY PortIs
<1>2. PICK n \in {1, 2} : n = port[p]
  BY DEF TypeInv, ScriptsTyped
<1>3. PICK bd \in Boards : bd = board
  BY DEF ProbeInv
<1>4. PICK u \in 0..KeyCount(LockOf(bd)) : u = unlock
  BY <1>3 DEF ProbeInv
<1>5. PICK x, l, u2, x2, l2, g, g2, kind :
          /\ x = cindex /\ l = ldn /\ u2 = unlock' /\ x2 = cindex' /\ l2 = ldn'
          /\ g = got[p] /\ g2 = got'[p] /\ kind = obj[p].kind
  OBVIOUS
<1>6. Probed(w, n, s, g, kind, bd, u, x, l)
  <2>1. ProgramProbed(p)
    BY Zenon DEF ProbeInv
  <2> QED BY <1>1, <1>2, <1>3, <1>4, <1>5, <2>1, Zenon DEF ProgramProbed
<1>7. PICK op : op = s[1]
  OBVIOUS
<1>8. /\ op \in Ops
      /\ OnChip(op, bd) => Effect(op, LockOf(bd), bd, u, x, l, g, u2, x2, l2, g2)
      /\ \A m : m # bd.at /\ op.port \in {<<"index", m>>, <<"value", m>>} => u2 = u
      /\ \A m : m # bd.at /\ op.port = <<"value", m>> /\ op.dir = "in" => g2 = Append(g, "none")
      /\ op.dir = "out" => g2 = g
      /\ LockOf(bd) = "ite" /\ u \in {0, 1} /\ op.dir = "out" /\ op.port[1] = "index" /\ op.v # 1 => u2 \in {0, 1}
  BY <1>1, <1>3, <1>4, <1>5, <1>7, PortEffect
<1>9. LockOf(bd) = "ite" /\ bd.at = 2 => u \in {0, 1}
  BY <1>3, <1>4 DEF ProbeInv, Untouched, LockOf
<1>10. w # "detected"
  BY Zenon DEF Probing, Ids, Vendors
<1>11. CASE n = bd.at
  <2>1. Here(w, n, s, g, kind, bd, u, x, l)
    BY <1>6, <1>11, Zenon DEF Probed
  <2>2. OnPorts(op, n)
    BY <1>1, <1>7, <2>1, HereFirst, Zenon
  <2>3. OnChip(op, bd)
    BY <1>11, <2>2, Zenon DEF OnPorts, OnChip
  <2>4. Effect(s[1], LockOf(bd), bd, u, x, l, g, u2, x2, l2, g2)
    BY <1>7, <1>8, <2>3, Zenon
  <2>5. Here(w, n, Tail(s), g2, kind, bd, u2, x2, l2)
    BY <1>1, <2>1, <2>4, HereStep, Zenon
  <2>6. Probed(w, n, Tail(s), g2, kind, bd, u2, x2, l2)
    BY <1>6, <1>10, <1>11, <2>5, Zenon DEF Probed
  <2>7. ASSUME LockOf(bd) = "ite", bd.at = 2 PROVE u2 \in {0, 1}
    <3>1. NoKey(s[1])
      BY <1>1, <1>6, <1>11, <2>7, SecondQuiet, Zenon
    <3>2. NoKey(op)
      BY <1>7, <3>1, Zenon
    <3>3. CASE op.dir = "in"
      BY <1>8, <1>9, <2>3, <2>7, <3>3 DEF Effect
    <3>4. CASE op.dir = "out" /\ op.port[1] = "index" /\ op.v # 1
      BY <1>8, <1>9, <2>7, <3>4
    <3> QED BY <3>2, <3>3, <3>4 DEF NoKey
  <2> QED BY <1>1, <1>2, <1>3, <1>5, <2>6, <2>7, Zenon
<1>12. CASE n # bd.at
  <2>1. Nowhere(w, n, s, g, kind, bd, u)
    BY <1>6, <1>12, Zenon DEF Probed
  <2>2. NoneRead(s, g, n)
    BY <2>1, Zenon DEF Nowhere
  <2>3. op.port \in {<<"index", n>>, <<"value", n>>} /\ (op.dir = "in" => op.port = <<"value", n>>)
    <3>1. 1 \in 1..Len(s)
      BY <1>1, TailIs
    <3> QED BY <1>7, <2>2, <3>1, Zenon DEF NoneRead, OnPair
  <2>4. u2 = u
    BY <1>8, <1>12, <2>3, Zenon
  <2>6. NoneRead(Tail(s), g2, n)
    <3>1. (op.dir = "in" => g2 = Append(g, "none")) /\ (op.dir = "out" => g2 = g)
      BY <1>8, <1>12, <2>3, Zenon
    <3>2. op.dir \in {"in", "out"}
      BY <1>8, PortShapes, Zenon
    <3> QED BY <1>1, <1>7, <2>2, <3>1, <3>2, NoneReadStep, Zenon
  <2>7. Nowhere(w, n, Tail(s), g2, kind, bd, u2)
    BY <2>1, <2>4, <2>6, Zenon DEF Nowhere
  <2>8. Probed(w, n, Tail(s), g2, kind, bd, u2, x2, l2)
    BY <1>6, <1>10, <1>12, <2>7, Zenon DEF Probed
  <2> QED BY <1>1, <1>2, <1>3, <1>5, <1>9, <2>4, <2>8, Zenon
<1> QED BY <1>11, <1>12

LEMMA ProbePort ==
    ASSUME SharedInv, TypeInv, ChipInv, ProbeInv, NEW p \in Programs, PortAccess(p), UNCHANGED update
    PROVE  ProbeInv'
<1>1. owner = p /\ script[p] # << >> /\ Rest(p)
  BY PortIs
<1>2. UNCHANGED <<pc, obj, port>>
  BY DEF PortAccess
<1>3. OnlyProbes(p)
  <2>1. DOMAIN port = Programs
    BY DEF TypeInv, ScriptsTyped
  <2>2. Only(p, port, port')
    BY <1>2, <2>1, OnlyIs
  <2> QED BY <1>1, <2>2 DEF Rest, OnlyProbes
<1>4. unlock' \in 0..KeyCount(LockOf(board))
  BY PortEffect
<1>5. PICK w : w = pc[p] /\ w = pc'[p]
  BY <1>2
<1>6. PICK n, kind : n = port[p] /\ n = port'[p] /\ kind = obj[p].kind /\ kind = obj'[p].kind
  BY <1>2
<1>7. LockOf(board) = "ite" <=> board.family = "ite"
  BY LockState DEF ProbeInv
<1>8. board.family = "ite" /\ board.at = 2 => kind = "null"
  BY <1>6, Zenon DEF ProbeInv, Untouched
<1>9. CASE w \in Probing
  <2>1. /\ Probed(w, n, script'[p], got'[p], kind, board, unlock', cindex', ldn')
        /\ LockOf(board) = "ite" /\ board.at = 2 => unlock' \in {0, 1}
    BY <1>5, <1>6, <1>9, ProbeAccess, Zenon
  <2>2. Probed(pc'[p], port'[p], script'[p], got'[p], obj'[p].kind, board, unlock', cindex', ldn')
    BY <1>5, <1>6, <2>1, Zenon
  <2>3. board.family = "ite" /\ board.at = 2 => unlock' \in {0, 1} /\ obj'[p].kind = "null"
    BY <1>6, <1>7, <1>8, <2>1, Zenon
  <2> QED BY <1>1, <1>3, <1>4, <2>2, <2>3, ProbeGoal, Zenon
<1>10. CASE w \notin Probing
  <2>1. w # "detected"
    <3>1. Probed(w, n, script[p], got[p], kind, board, unlock, cindex, ldn)
      BY <1>5, <1>6, Zenon DEF ProbeInv, ProgramProbed
    <3> QED BY <1>1, <3>1, Zenon DEF Probed
  <2>2. Probed(pc'[p], port'[p], script'[p], got'[p], obj'[p].kind, board, unlock', cindex', ldn')
    BY <1>5, <1>10, <2>1, Harmless, Zenon
  <2>3. ~(board.family = "ite" /\ board.at = 2)
    <3>1. w \in Locked
      BY <1>1, <1>5, Zenon DEF SharedInv, MutexInv, Asks
    <3>2. w \in {"reading", "writing"}
      BY <1>10, <2>1, <3>1, Zenon DEF Locked, Probing, Ids, Vendors
    <3>3. ObjectOK(w, obj[p], board, intruded)
      BY <1>5, Zenon DEF ChipInv, ProgramOK
    <3>4. kind # "null"
      BY <1>6, <3>2, <3>3, Zenon DEF ObjectOK
    <3> QED BY <1>8, <3>4
  <2> QED BY <1>1, <1>3, <1>4, <2>2, <2>3, ProbeGoal, Zenon
<1> QED BY <1>9, <1>10

\* p works on the ports n after a step.
OnPairOf(p, n) == port' = [port EXCEPT ![p] = n] \/ (port' = port /\ port[p] = n)

\* A step that begins a stage.
LEMMA ProbeMoves ==
    ASSUME SharedInv, TypeInv, ChipInv, NEW p \in Programs, NEW w, NEW n, NEW chip, Stage(p, w, n, chip),
           OnPairOf(p, n), obj' = obj \/ \E o : obj' = [obj EXCEPT ![p] = o]
    PROVE  /\ OnlyProbes(p) /\ UNCHANGED <<unlock, cindex, ldn>>
           /\ pc'[p] = w /\ port'[p] = n /\ script'[p] = Script(w, n, chip) /\ got'[p] = << >>
<1>1. /\ pc' = [pc EXCEPT ![p] = w] /\ script' = [script EXCEPT ![p] = Script(w, n, chip)]
      /\ got' = [got EXCEPT ![p] = << >>] /\ UNCHANGED <<board, unlock, cindex, ldn>>
  BY DEF Stage, Goto, hardware
<1>2. DOMAIN port = Programs
  BY DEF TypeInv, ScriptsTyped
<1>3. Moves(p)
  BY <1>1 DEF Moves, OnPairOf
<1>4. OnlyProbes(p)
  BY <1>3, MovesOnly
<1>5. pc'[p] = w /\ script'[p] = Script(w, n, chip) /\ got'[p] = << >>
  BY <1>1, Domains, OnlyIs
<1>6. port'[p] = n
  BY <1>2, OnlyIs DEF OnPairOf
<1> QED BY <1>1, <1>4, <1>5, <1>6

LEMMA ProbeBegins ==
    ASSUME SharedInv, TypeInv, ChipInv, ProbeInv, NEW p \in Programs, NEW w, NEW n \in {1, 2}, NEW chip,
           Stage(p, w, n, chip), OnPairOf(p, n), obj' = obj \/ \E o : obj' = [obj EXCEPT ![p] = o],
           NEW kind, kind = obj'[p].kind, board.family = "ite" /\ board.at = 2 => kind = "null",
           Probed(w, n, Script(w, n, chip), << >>, kind, board, unlock, cindex, ldn)
    PROVE  ProbeInv'
<1>1. /\ OnlyProbes(p) /\ UNCHANGED <<unlock, cindex, ldn>>
      /\ pc'[p] = w /\ port'[p] = n /\ script'[p] = Script(w, n, chip) /\ got'[p] = << >>
  BY ProbeMoves
<1>2. PICK s, g : s = Script(w, n, chip) /\ s = script'[p] /\ g = << >> /\ g = got'[p]
  BY <1>1
<1>3. unlock' = unlock /\ cindex' = cindex /\ ldn' = ldn
  BY <1>1
<1>4. Probed(w, n, s, g, kind, board, unlock, cindex, ldn)
  BY <1>2, Zenon
<1>5. Probed(pc'[p], port'[p], script'[p], got'[p], obj'[p].kind, board, unlock', cindex', ldn')
  BY <1>1, <1>2, <1>3, <1>4, Zenon
<1>6. board.family = "ite" /\ board.at = 2 => unlock' \in {0, 1} /\ obj'[p].kind = "null"
  BY <1>3 DEF ProbeInv, Untouched
<1>7. unlock' \in 0..KeyCount(LockOf(board))
  BY <1>3 DEF ProbeInv
<1> QED BY <1>1, <1>5, <1>6, <1>7, ProbeGoal, Zenon

\* A step to another stage on the same ports.
LEMMA ProbeStage ==
    ASSUME SharedInv, TypeInv, ChipInv, ProbeInv, NEW p \in Programs, NEW w, NEW n \in {1, 2}, NEW chip,
           n = port[p], Stage(p, w, n, chip), UNCHANGED <<port, obj>>,
           Starts(w, n, obj[p].kind, board, unlock, cindex, ldn), w # "wf address" \/ chip = board.model
    PROVE  ProbeInv'
<1>1. PICK kind, bd, u, x, l : kind = obj[p].kind /\ bd = board /\ u = unlock /\ x = cindex /\ l = ldn
  OBVIOUS
<1>2. Starts(w, n, kind, bd, u, x, l) /\ (w # "wf address" \/ chip = bd.model)
  BY <1>1, Zenon
<1>3. Probed(w, n, Script(w, n, chip), << >>, kind, bd, u, x, l)
  BY <1>2, Started, Zenon
<1>4. Probed(w, n, Script(w, n, chip), << >>, kind, board, unlock, cindex, ldn)
  BY <1>1, <1>3, Zenon
<1>5. OnPairOf(p, n) /\ obj' = obj
  BY Zenon DEF OnPairOf
<1>6. kind = obj'[p].kind /\ (board.family = "ite" /\ board.at = 2 => kind = "null")
  BY <1>1, <1>5, Zenon DEF ProbeInv, Untouched
<1> QED BY <1>4, <1>5, <1>6, ProbeBegins, Zenon

LEMMA ReadyQuiet ==
    ASSUME NEW n \in {1, 2}, NEW kind, NEW bd \in Boards, NEW u, NEW x, NEW l, Ready(n, kind, bd, u, x, l),
           bd.family = "ite", bd.at = 2
    PROVE  kind = "null"
<1>1. LockOf(bd) # "wf"
  BY DEF LockOf
<1>2. PresentOn(bd) = "null"
  BY <1>1, BehindSecond
<1> QED BY <1>2 DEF Ready

\* A step to the second ports, or to the end of the detection behind them.
LEMMA ProbePorts ==
    ASSUME SharedInv, TypeInv, ChipInv, ProbeInv, NEW p \in Programs, NEW n \in {1, 2}, n = port[p],
           NextPort(p), obj' = obj \/ \E o : obj' = [obj EXCEPT ![p] = o],
           NEW kind, kind = obj'[p].kind, Ready(n, kind, board, unlock, cindex, ldn)
    PROVE  ProbeInv'
<1>1. PICK bd \in Boards : bd = board
  BY Zenon DEF ProbeInv
<1>2. PICK u, x, l : u = unlock /\ x = cindex /\ l = ldn
  OBVIOUS
<1>3. Ready(n, kind, bd, u, x, l)
  BY <1>1, <1>2, Zenon
<1>4. board.family = "ite" /\ board.at = 2 => kind = "null"
  BY <1>1, <1>3, ReadyQuiet, Zenon
<1>5. /\ n = 1 => Starts("wf id", 2, kind, bd, u, x, l)
      /\ n = 2 => kind = PresentOn(bd) /\ u # KeyCount(LockOf(bd))
  BY <1>3, PortNext, Zenon
<1>6. 2 \in {1, 2}
  OBVIOUS
<1>7. CASE n = 1
  <2>1. Stage(p, "wf id", 2, "none") /\ OnPairOf(p, 2)
    BY <1>7, Zenon DEF NextPort, OnPairOf
  <2>2. Starts("wf id", 2, kind, bd, u, x, l) /\ "wf id" # "wf address"
    BY <1>5, <1>7, Zenon
  <2>3. Probed("wf id", 2, Script("wf id", 2, "none"), << >>, kind, bd, u, x, l)
    BY <1>6, <2>2, Started, Zenon
  <2>4. Probed("wf id", 2, Script("wf id", 2, "none"), << >>, kind, board, unlock, cindex, ldn)
    BY <1>1, <1>2, <2>3, Zenon
  <2> QED BY <1>4, <1>6, <2>1, <2>4, ProbeBegins, Zenon
<1>8. CASE n = 2
  <2>1. n # 1
    BY <1>8
  <2>2. Stage(p, "detected", 2, "none") /\ OnPairOf(p, 2)
    BY <1>8, <2>1, Zenon DEF NextPort, OnPairOf
  <2>3. Script("detected", 2, "none") = << >>
    BY Zenon DEF Script
  <2>4. "detected" \notin Probing
    BY Zenon DEF Probing, Ids, Vendors
  <2>5. kind = PresentOn(board) /\ unlock # KeyCount(LockOf(board))
    BY <1>1, <1>2, <1>5, <1>8, Zenon
  <2>6. Probed("detected", 2, Script("detected", 2, "none"), << >>, kind, board, unlock, cindex, ldn)
    BY <2>3, <2>4, <2>5, Zenon DEF Probed
  <2> QED BY <1>4, <1>6, <2>2, <2>6, ProbeBegins, Zenon
<1> QED BY <1>7, <1>8
-----------------------------------------------------------------------------
(* The decisions of the detection.                                          *)

\* p is done with the accesses of the stage w; it may begin the stage w on the
\* ports it is at; it may leave them with an object of this kind.
DoneWith(p, w) ==
    /\ port[p] \in {1, 2} /\ board \in Boards /\ unlock \in 0..KeyCount(LockOf(board))
    /\ LockOf(board) = "ite" /\ board.at = 2 => unlock \in {0, 1}
    /\ Probed(w, port[p], << >>, got[p], obj[p].kind, board, unlock, cindex, ldn)
MayStart(p, w) == Starts(w, port[p], obj[p].kind, board, unlock, cindex, ldn)
MayLeave(p, kind) == Ready(port[p], kind, board, unlock, cindex, ldn)

LEMMA DoneAt == ASSUME TypeInv, ProbeInv, NEW p \in Programs, NEW w, At(p, w) PROVE DoneWith(p, w)
<1>1. port[p] \in {1, 2}
  BY DEF TypeInv, ScriptsTyped
<1>2. board \in Boards /\ unlock \in 0..KeyCount(LockOf(board))
  BY DEF ProbeInv
<1>3. LockOf(board) = "ite" /\ board.at = 2 => unlock \in {0, 1}
  BY <1>2, LockState DEF ProbeInv, Untouched
<1>4. pc[p] = w /\ script[p] = << >>
  BY DEF At
<1>5. Probed(w, port[p], << >>, got[p], obj[p].kind, board, unlock, cindex, ldn)
  BY <1>4, Zenon DEF ProbeInv, ProgramProbed
<1> QED BY <1>1, <1>2, <1>3, <1>5, Zenon DEF DoneWith

LEMMA ProbeSmsc ==
    ASSUME SharedInv, TypeInv, ChipInv, ProbeInv, NEW p \in Programs, port[p] \in {1, 2}, TrySMSC(p),
           MayStart(p, "smsc id")
    PROVE  ProbeInv'
<1>1. PICK n \in {1, 2} : n = port[p]
  OBVIOUS
<1>2. Stage(p, "smsc id", n, "none") /\ UNCHANGED <<port, obj>>
  BY <1>1, Zenon DEF TrySMSC
<1>3. Starts("smsc id", n, obj[p].kind, board, unlock, cindex, ldn)
  BY <1>1, Zenon DEF MayStart
<1>4. "smsc id" # "wf address"
  BY Zenon
<1> QED BY <1>1, <1>2, <1>3, <1>4, ProbeStage, Zenon

LEMMA ProbeTry ==
    ASSUME SharedInv, TypeInv, ChipInv, ProbeInv, NEW p \in Programs, port[p] \in {1, 2}, TryIT87(p),
           port[p] = 1 => MayStart(p, "it id"), port[p] = 2 => MayStart(p, "smsc id")
    PROVE  ProbeInv'
<1>1. PICK n \in {1, 2} : n = port[p]
  OBVIOUS
<1>3. CASE n = 1
  <2>1. Stage(p, "it id", n, "none") /\ UNCHANGED <<port, obj>>
    BY <1>1, <1>3, Zenon DEF TryIT87
  <2>2. Starts("it id", n, obj[p].kind, board, unlock, cindex, ldn) /\ "it id" # "wf address"
    BY <1>1, <1>3, Zenon DEF MayStart
  <2> QED BY <1>1, <2>1, <2>2, ProbeStage, Zenon
<1>4. CASE n = 2
  <2>1. n # 1
    BY <1>4, OneTwo, Zenon
  <2>2. Stage(p, "smsc id", n, "none") /\ UNCHANGED <<port, obj>>
    BY <1>1, <2>1, Zenon DEF TryIT87
  <2>3. Starts("smsc id", n, obj[p].kind, board, unlock, cindex, ldn) /\ "smsc id" # "wf address"
    BY <1>1, <1>4, Zenon DEF MayStart
  <2> QED BY <1>1, <2>2, <2>3, ProbeStage, Zenon
<1> QED BY <1>3, <1>4

\* A stage that begins on the ports p is at.
LEMMA ProbeOn ==
    ASSUME SharedInv, TypeInv, ChipInv, ProbeInv, NEW p \in Programs, port[p] \in {1, 2}, NEW w, NEW chip,
           Stage(p, w, port[p], chip), UNCHANGED <<port, obj>>, MayStart(p, w), w # "wf address" \/ chip = board.model
    PROVE  ProbeInv'
<1>1. PICK n \in {1, 2} : n = port[p]
  OBVIOUS
<1>2. Stage(p, w, n, chip) /\ Starts(w, n, obj[p].kind, board, unlock, cindex, ldn)
  BY <1>1, Zenon DEF MayStart
<1> QED BY <1>1, <1>2, ProbeStage, Zenon

\* The ports are left, with an object or without.
LEMMA ProbeLeft ==
    ASSUME SharedInv, TypeInv, ChipInv, ProbeInv, NEW p \in Programs, port[p] \in {1, 2}, NextPort(p),
           NEW kind, MayLeave(p, kind), (kind = obj[p].kind /\ UNCHANGED obj) \/ \E i : Detected(p, kind, i)
    PROVE  ProbeInv'
<1>1. PICK n \in {1, 2} : n = port[p]
  OBVIOUS
<1>2. Ready(n, kind, board, unlock, cindex, ldn)
  BY <1>1, Zenon DEF MayLeave
<1>3. (obj' = obj \/ \E o : obj' = [obj EXCEPT ![p] = o]) /\ kind = obj'[p].kind
  <2>1. ASSUME NEW i, Detected(p, kind, i)
        PROVE  (\E o : obj' = [obj EXCEPT ![p] = o]) /\ kind = obj'[p].kind
    <3>1. PICK o : o = [kind |-> kind, inited |-> i]
      OBVIOUS
    <3>2. o.kind = kind
      BY <3>1
    <3>3. obj' = [obj EXCEPT ![p] = o]
      BY <2>1, <3>1 DEF Detected
    <3>4. obj'[p] = o
      BY <3>3, Domains, OnlyIs
    <3> QED BY <3>2, <3>3, <3>4
  <2> QED BY <2>1
<1> QED BY <1>1, <1>2, <1>3, ProbePorts, Zenon

LEMMA WfIdDone ==
    ASSUME NEW p \in Programs, DoneWith(p, "wf id")
    PROVE  /\ got[p][1] \in WfChips => got[p][1] = board.model /\ MayStart(p, "wf address")
           /\ got[p][1] \notin WfChips \cup {"none"} => MayStart(p, "wf exit")
           /\ got[p][1] = "none" /\ port[p] = 1 => MayStart(p, "it id")
           /\ got[p][1] = "none" /\ port[p] = 2 => MayStart(p, "smsc id")
<1>1. PICK n, g, kind, bd, u, x, l :
          n = port[p] /\ g = got[p] /\ kind = obj[p].kind /\ bd = board /\ u = unlock /\ x = cindex /\ l = ldn
  OBVIOUS
<1>2. n \in {1, 2} /\ bd \in Boards /\ u \in 0..KeyCount(LockOf(bd)) /\ Probed("wf id", n, << >>, g, kind, bd, u, x, l)
  BY <1>1, Zenon DEF DoneWith
<1>3. /\ g[1] \in WfChips => g[1] = bd.model /\ Starts("wf address", n, kind, bd, u, x, l)
      /\ g[1] \notin WfChips \cup {"none"} => Starts("wf exit", n, kind, bd, u, x, l)
      /\ g[1] = "none" /\ n = 1 => Starts("it id", n, kind, bd, u, x, l)
      /\ g[1] = "none" /\ n = 2 => Starts("smsc id", n, kind, bd, u, x, l)
  BY <1>2, WfIdNext, Zenon
<1> QED BY <1>1, <1>3, Zenon DEF MayStart

LEMMA ProbeWfId ==
    ASSUME SharedInv, TypeInv, ChipInv, ProbeInv, NEW p \in Programs, DetectWinbondFintek(p) PROVE ProbeInv'
<1>1. DoneWith(p, "wf id")
  BY DoneAt, Zenon DEF DetectWinbondFintek
<1>2. port[p] \in {1, 2}
  BY <1>1, Zenon DEF DoneWith
<1>3. PICK id : id = got[p][1]
  OBVIOUS
<1>4. /\ id \in WfChips => id = board.model /\ MayStart(p, "wf address")
      /\ id \notin WfChips \cup {"none"} => MayStart(p, "wf exit")
      /\ id = "none" /\ port[p] = 1 => MayStart(p, "it id")
      /\ id = "none" /\ port[p] = 2 => MayStart(p, "smsc id")
  BY <1>1, <1>3, WfIdDone, Zenon
<1>5. \/ id \in WfChips /\ Stage(p, "wf address", port[p], id) /\ UNCHANGED <<port, obj>>
      \/ id \notin WfChips \cup {"none"} /\ Stage(p, "wf exit", port[p], id) /\ UNCHANGED <<port, obj>>
      \/ id = "none" /\ TryIT87(p)
  BY <1>3, Zenon DEF DetectWinbondFintek, WfChips
<1>6. CASE id \in WfChips /\ Stage(p, "wf address", port[p], id) /\ UNCHANGED <<port, obj>>
  <2>1. MayStart(p, "wf address") /\ id = board.model
    BY <1>4, <1>6, Zenon
  <2> QED BY <1>2, <1>6, <2>1, ProbeOn, Zenon
<1>7. CASE id \notin WfChips \cup {"none"} /\ Stage(p, "wf exit", port[p], id) /\ UNCHANGED <<port, obj>>
  <2>1. MayStart(p, "wf exit") /\ "wf exit" # "wf address"
    BY <1>4, <1>7, Zenon
  <2> QED BY <1>2, <1>7, <2>1, ProbeOn, Zenon
<1>8. CASE id = "none" /\ TryIT87(p)
  <2>1. (port[p] = 1 => MayStart(p, "it id")) /\ (port[p] = 2 => MayStart(p, "smsc id"))
    BY <1>4, <1>8, Zenon
  <2> QED BY <1>2, <1>8, <2>1, ProbeTry, Zenon
<1> QED BY <1>5, <1>6, <1>7, <1>8, Zenon

LEMMA ProbeWfExit ==
    ASSUME SharedInv, TypeInv, ChipInv, ProbeInv, NEW p \in Programs, WinbondUnknown(p) PROVE ProbeInv'
<1>1. DoneWith(p, "wf exit") /\ TryIT87(p)
  BY DoneAt, Zenon DEF WinbondUnknown
<1>2. PICK n, g, kind, bd, u, x, l :
          n = port[p] /\ g = got[p] /\ kind = obj[p].kind /\ bd = board /\ u = unlock /\ x = cindex /\ l = ldn
  OBVIOUS
<1>3. n \in {1, 2} /\ bd \in Boards /\ Probed("wf exit", n, << >>, g, kind, bd, u, x, l)
  BY <1>1, <1>2, Zenon DEF DoneWith
<1>4. LockOf(bd) = "ite" /\ bd.at = 2 => u \in {0, 1}
  BY <1>1, <1>2, Zenon DEF DoneWith
<1>5. /\ n = 1 => Starts("it id", n, kind, bd, u, x, l)
      /\ n = 2 => Starts("smsc id", n, kind, bd, u, x, l)
  BY <1>3, <1>4, WfExitNext, Zenon
<1>6. (port[p] = 1 => MayStart(p, "it id")) /\ (port[p] = 2 => MayStart(p, "smsc id")) /\ port[p] \in {1, 2}
  BY <1>2, <1>3, <1>5, Zenon DEF MayStart
<1> QED BY <1>1, <1>6, ProbeTry, Zenon

LEMMA WfAddressDone ==
    ASSUME NEW p \in Programs, DoneWith(p, "wf address"),
           NEW good, good <=> (got[p][1] = got[p][2] /\ got[p][1] = "good")
    PROVE  /\ ~good \/ (board.model \in F718Chips /\ got[p][3] # "1934") =>
                  /\ port[p] = 1 => MayStart(p, "it id")
                  /\ port[p] = 2 => MayStart(p, "smsc id")
           /\ good /\ board.model \in W836Chips => MayStart(p, "w vendor")
           /\ good /\ board.model \in NctChips => MayLeave(p, obj[p].kind)
           /\ good /\ board.model \in F718Chips /\ got[p][3] = "1934" => MayLeave(p, "F718XX")
<1>1. PICK n, g, kind, bd, u, x, l :
          n = port[p] /\ g = got[p] /\ kind = obj[p].kind /\ bd = board /\ u = unlock /\ x = cindex /\ l = ldn
  OBVIOUS
<1>2. n \in {1, 2} /\ bd \in Boards /\ Probed("wf address", n, << >>, g, kind, bd, u, x, l)
  BY <1>1, Zenon DEF DoneWith
<1>3. good <=> (g[1] = g[2] /\ g[1] = "good")
  BY <1>1, Zenon
<1>4. /\ ~good \/ (bd.model \in F718Chips /\ g[3] # "1934") =>
             /\ n = 1 => Starts("it id", n, kind, bd, u, x, l)
             /\ n = 2 => Starts("smsc id", n, kind, bd, u, x, l)
      /\ good /\ bd.model \in W836Chips => Starts("w vendor", n, kind, bd, u, x, l)
      /\ good /\ bd.model \in NctChips => Ready(n, kind, bd, u, x, l)
      /\ good /\ bd.model \in F718Chips /\ g[3] = "1934" => Ready(n, "F718XX", bd, u, x, l)
  BY <1>2, <1>3, WfAddressNext, Zenon
<1> QED BY <1>1, <1>4, Zenon DEF MayStart, MayLeave

LEMMA ProbeWfAddress ==
    ASSUME SharedInv, TypeInv, ChipInv, ProbeInv, NEW p \in Programs, WinbondAddress(p) PROVE ProbeInv'
<1>1. DoneWith(p, "wf address")
  BY DoneAt, Zenon DEF WinbondAddress
<1>2. port[p] \in {1, 2}
  BY <1>1, Zenon DEF DoneWith
<1>3. PICK good : good <=> (got[p][1] = got[p][2] /\ got[p][1] = "good")
  OBVIOUS
<1>4. PICK chip : chip = board.model
  OBVIOUS
<1>5. /\ ~good \/ (chip \in F718Chips /\ got[p][3] # "1934") =>
             /\ port[p] = 1 => MayStart(p, "it id")
             /\ port[p] = 2 => MayStart(p, "smsc id")
      /\ good /\ chip \in W836Chips => MayStart(p, "w vendor")
      /\ good /\ chip \in NctChips => MayLeave(p, obj[p].kind)
      /\ good /\ chip \in F718Chips /\ got[p][3] = "1934" => MayLeave(p, "F718XX")
  BY <1>1, <1>3, <1>4, WfAddressDone, Zenon
<1>6. \/ (~good \/ (chip \in F718Chips /\ got[p][3] # "1934")) /\ TryIT87(p)
      \/ good /\ chip \in W836Chips /\ Stage(p, "w vendor", port[p], chip) /\ UNCHANGED <<port, obj>>
      \/ good /\ chip \in NctChips /\ NextPort(p) /\ UNCHANGED obj
      \/ good /\ chip \in F718Chips /\ got[p][3] = "1934" /\ NextPort(p) /\ Detected(p, "F718XX", TRUE)
  BY <1>3, <1>4, Zenon DEF WinbondAddress
<1>7. CASE (~good \/ (chip \in F718Chips /\ got[p][3] # "1934")) /\ TryIT87(p)
  <2>1. (port[p] = 1 => MayStart(p, "it id")) /\ (port[p] = 2 => MayStart(p, "smsc id"))
    BY <1>5, <1>7, Zenon
  <2> QED BY <1>2, <1>7, <2>1, ProbeTry, Zenon
<1>8. CASE good /\ chip \in W836Chips /\ Stage(p, "w vendor", port[p], chip) /\ UNCHANGED <<port, obj>>
  <2>1. MayStart(p, "w vendor") /\ "w vendor" # "wf address"
    BY <1>5, <1>8, Zenon
  <2> QED BY <1>2, <1>8, <2>1, ProbeOn, Zenon
<1>9. CASE good /\ chip \in NctChips /\ NextPort(p) /\ UNCHANGED obj
  <2>1. MayLeave(p, obj[p].kind)
    BY <1>5, <1>9, Zenon
  <2> QED BY <1>2, <1>9, <2>1, ProbeLeft, Zenon
<1>10. CASE good /\ chip \in F718Chips /\ got[p][3] = "1934" /\ NextPort(p) /\ Detected(p, "F718XX", TRUE)
  <2>1. MayLeave(p, "F718XX")
    BY <1>5, <1>10, Zenon
  <2> QED BY <1>2, <1>10, <2>1, ProbeLeft, Zenon
<1> QED BY <1>6, <1>7, <1>8, <1>9, <1>10, Zenon

LEMMA VendorsDone ==
    ASSUME NEW p \in Programs, NEW w, w \in {"w vendor", "w source"}, DoneWith(p, w)
    PROVE  MayStart(p, "w source") /\ MayLeave(p, "W836XX")
<1>1. PICK n, g, kind, bd, u, x, l :
          n = port[p] /\ g = got[p] /\ kind = obj[p].kind /\ bd = board /\ u = unlock /\ x = cindex /\ l = ldn
  OBVIOUS
<1>2. n \in {1, 2} /\ bd \in Boards /\ Probed(w, n, << >>, g, kind, bd, u, x, l)
  BY <1>1, Zenon DEF DoneWith
<1>3. Starts("w source", n, kind, bd, u, x, l) /\ Ready(n, "W836XX", bd, u, x, l)
  BY <1>2, VendorNext, Zenon
<1> QED BY <1>1, <1>3, Zenon DEF MayStart, MayLeave

LEMMA ProbeVendor ==
    ASSUME SharedInv, TypeInv, ChipInv, ProbeInv, NEW p \in Programs, WinbondVendor(p) \/ WinbondSource(p)
    PROVE  ProbeInv'
<1>1. PICK w \in {"w vendor", "w source"} : At(p, w)
  BY Zenon DEF WinbondVendor, WinbondSource
<1>2. DoneWith(p, w)
  BY <1>1, DoneAt, Zenon
<1>3. port[p] \in {1, 2} /\ MayStart(p, "w source") /\ MayLeave(p, "W836XX")
  BY <1>1, <1>2, VendorsDone, Zenon DEF DoneWith
<1>4. \/ Stage(p, "w source", port[p], board.model) /\ UNCHANGED <<port, obj>>
      \/ NextPort(p) /\ \E i : Detected(p, "W836XX", i)
  BY Zenon DEF WinbondVendor, WinbondSource
<1>5. CASE Stage(p, "w source", port[p], board.model) /\ UNCHANGED <<port, obj>>
  <2>1. "w source" # "wf address"
    BY Zenon
  <2> QED BY <1>3, <1>5, <2>1, ProbeOn, Zenon
<1>6. CASE NextPort(p) /\ \E i : Detected(p, "W836XX", i)
  BY <1>3, <1>6, ProbeLeft, Zenon
<1> QED BY <1>4, <1>5, <1>6, Zenon

LEMMA SmscDone ==
    ASSUME NEW p \in Programs
    PROVE  /\ DoneWith(p, "smsc id") => /\ got[p][1] # "none" => MayStart(p, "smsc exit")
                                        /\ got[p][1] = "none" => MayLeave(p, obj[p].kind)
           /\ DoneWith(p, "smsc exit") => MayLeave(p, obj[p].kind)
<1>1. PICK n, g, kind, bd, u, x, l :
          n = port[p] /\ g = got[p] /\ kind = obj[p].kind /\ bd = board /\ u = unlock /\ x = cindex /\ l = ldn
  OBVIOUS
<1>2. ASSUME DoneWith(p, "smsc id")
      PROVE  (got[p][1] # "none" => MayStart(p, "smsc exit")) /\ (got[p][1] = "none" => MayLeave(p, obj[p].kind))
  <2>1. n \in {1, 2} /\ bd \in Boards /\ u \in 0..KeyCount(LockOf(bd)) /\ Probed("smsc id", n, << >>, g, kind, bd, u, x, l)
    BY <1>1, <1>2, Zenon DEF DoneWith
  <2>2. /\ g[1] # "none" => Starts("smsc exit", n, kind, bd, u, x, l)
        /\ g[1] = "none" => Ready(n, kind, bd, u, x, l)
    BY <2>1, SmscIdNext, Zenon
  <2> QED BY <1>1, <2>2, Zenon DEF MayStart, MayLeave
<1>3. ASSUME DoneWith(p, "smsc exit") PROVE MayLeave(p, obj[p].kind)
  <2>1. n \in {1, 2} /\ bd \in Boards /\ Probed("smsc exit", n, << >>, g, kind, bd, u, x, l)
    BY <1>1, <1>3, Zenon DEF DoneWith
  <2>2. Ready(n, kind, bd, u, x, l)
    BY <2>1, SmscExitNext, Zenon
  <2> QED BY <1>1, <2>2, Zenon DEF MayLeave
<1> QED BY <1>2, <1>3, Zenon

LEMMA ProbeSmscIds ==
    ASSUME SharedInv, TypeInv, ChipInv, ProbeInv, NEW p \in Programs, DetectSMSC(p) \/ SMSCUnknown(p)
    PROVE  ProbeInv'
<1>1. CASE DetectSMSC(p)
  <2>1. DoneWith(p, "smsc id")
    BY <1>1, DoneAt, Zenon DEF DetectSMSC
  <2>2. /\ got[p][1] # "none" => MayStart(p, "smsc exit")
        /\ got[p][1] = "none" => MayLeave(p, obj[p].kind)
    BY <2>1, SmscDone, Zenon
  <2>3. port[p] \in {1, 2} /\ "smsc exit" # "wf address"
    BY <2>1, Zenon DEF DoneWith
  <2>4. CASE got[p][1] # "none"
    <3>1. Stage(p, "smsc exit", port[p], "none") /\ UNCHANGED <<port, obj>>
      BY <1>1, <2>4, Zenon DEF DetectSMSC
    <3>2. MayStart(p, "smsc exit")
      BY <2>2, <2>4, Zenon
    <3> QED BY <2>3, <3>1, <3>2, ProbeOn, Zenon
  <2>5. CASE got[p][1] = "none"
    <3>1. NextPort(p) /\ UNCHANGED obj
      BY <1>1, <2>5, Zenon DEF DetectSMSC
    <3>2. MayLeave(p, obj[p].kind)
      BY <2>2, <2>5, Zenon
    <3> QED BY <2>3, <3>1, <3>2, ProbeLeft, Zenon
  <2> QED BY <2>4, <2>5, Zenon
<1>2. CASE SMSCUnknown(p)
  <2>1. DoneWith(p, "smsc exit") /\ NextPort(p) /\ UNCHANGED obj
    BY <1>2, DoneAt, Zenon DEF SMSCUnknown
  <2>2. port[p] \in {1, 2} /\ MayLeave(p, obj[p].kind)
    BY <2>1, SmscDone, Zenon DEF DoneWith
  <2> QED BY <2>1, <2>2, ProbeLeft, Zenon
<1> QED BY <1>1, <1>2, Zenon

LEMMA ItDone ==
    ASSUME NEW p \in Programs, NEW w, w \in {"it id", "it exit", "it address", "it vendor", "it config"}, DoneWith(p, w)
    PROVE  port[p] = 1
<1>1. PICK n, g, kind, bd, u, x, l :
          n = port[p] /\ g = got[p] /\ kind = obj[p].kind /\ bd = board /\ u = unlock /\ x = cindex /\ l = ldn
  OBVIOUS
<1>2. n \in {1, 2} /\ Probed(w, n, << >>, g, kind, bd, u, x, l)
  BY <1>1, Zenon DEF DoneWith
<1>3. n = 1
  BY <1>2, FirstPorts, Zenon
<1> QED BY <1>1, <1>3, Zenon

LEMMA ItIdDone ==
    ASSUME NEW p \in Programs, DoneWith(p, "it id")
    PROVE  /\ got[p][1] \in IT87Chips => MayStart(p, "it address")
           /\ got[p][1] \notin IT87Chips \cup {"none"} => MayStart(p, "it exit")
           /\ got[p][1] = "none" => MayStart(p, "smsc id")
<1>1. PICK n, g, kind, bd, u, x, l :
          n = port[p] /\ g = got[p] /\ kind = obj[p].kind /\ bd = board /\ u = unlock /\ x = cindex /\ l = ldn
  OBVIOUS
<1>2. n \in {1, 2} /\ bd \in Boards /\ u \in 0..KeyCount(LockOf(bd)) /\ Probed("it id", n, << >>, g, kind, bd, u, x, l)
  BY <1>1, Zenon DEF DoneWith
<1>3. n = 1
  BY <1>1, ItDone, Zenon
<1>4. /\ g[1] \in IT87Chips => Starts("it address", n, kind, bd, u, x, l)
      /\ g[1] \notin IT87Chips \cup {"none"} => Starts("it exit", n, kind, bd, u, x, l)
      /\ g[1] = "none" => Starts("smsc id", n, kind, bd, u, x, l)
  BY <1>2, <1>3, ItIdNext, Zenon
<1> QED BY <1>1, <1>4, Zenon DEF MayStart

LEMMA ItExitDone == ASSUME NEW p \in Programs, DoneWith(p, "it exit") PROVE MayStart(p, "smsc id")
<1>1. PICK n, g, kind, bd, u, x, l :
          n = port[p] /\ g = got[p] /\ kind = obj[p].kind /\ bd = board /\ u = unlock /\ x = cindex /\ l = ldn
  OBVIOUS
<1>2. n \in {1, 2} /\ bd \in Boards /\ Probed("it exit", n, << >>, g, kind, bd, u, x, l)
  BY <1>1, Zenon DEF DoneWith
<1>3. n = 1
  BY <1>1, ItDone, Zenon
<1>4. Starts("smsc id", n, kind, bd, u, x, l)
  BY <1>2, <1>3, ItExitNext, Zenon
<1> QED BY <1>1, <1>4, Zenon DEF MayStart

LEMMA ItAddressDone ==
    ASSUME NEW p \in Programs, DoneWith(p, "it address"),
           NEW good, good <=> /\ got[p][1] = got[p][2] /\ got[p][1] = "good"
                              /\ got[p][4] = "zero" \/ (got[p][4] = got[p][5] /\ got[p][4] = "good")
    PROVE  /\ good => MayStart(p, "it vendor")
           /\ ~good => MayStart(p, "smsc id")
<1>1. PICK n, g, kind, bd, u, x, l :
          n = port[p] /\ g = got[p] /\ kind = obj[p].kind /\ bd = board /\ u = unlock /\ x = cindex /\ l = ldn
  OBVIOUS
<1>2. n \in {1, 2} /\ bd \in Boards /\ Probed("it address", n, << >>, g, kind, bd, u, x, l)
  BY <1>1, Zenon DEF DoneWith
<1>3. n = 1
  BY <1>1, ItDone, Zenon
<1>4. good <=> /\ g[1] = g[2] /\ g[1] = "good"
               /\ g[4] = "zero" \/ (g[4] = g[5] /\ g[4] = "good")
  BY <1>1, Zenon
<1>5. /\ good => Starts("it vendor", n, kind, bd, u, x, l)
      /\ ~good => Starts("smsc id", n, kind, bd, u, x, l)
  BY <1>2, <1>3, <1>4, ItAddressNext, Zenon
<1> QED BY <1>1, <1>5, Zenon DEF MayStart

LEMMA ItVendorDone ==
    ASSUME NEW p \in Programs, NEW w, w \in {"it vendor", "it config"}, DoneWith(p, w)
    PROVE  MayStart(p, "it config") /\ MayLeave(p, "IT87XX")
<1>1. PICK n, g, kind, bd, u, x, l :
          n = port[p] /\ g = got[p] /\ kind = obj[p].kind /\ bd = board /\ u = unlock /\ x = cindex /\ l = ldn
  OBVIOUS
<1>2. n \in {1, 2} /\ bd \in Boards /\ Probed(w, n, << >>, g, kind, bd, u, x, l)
  BY <1>1, Zenon DEF DoneWith
<1>3. n = 1
  <2>1. w \in {"it id", "it exit", "it address", "it vendor", "it config"}
    BY Zenon
  <2> QED BY <1>1, <2>1, ItDone, Zenon
<1>4. Starts("it config", n, kind, bd, u, x, l) /\ Ready(n, "IT87XX", bd, u, x, l)
  BY <1>2, <1>3, ItVendorNext, Zenon
<1> QED BY <1>1, <1>4, Zenon DEF MayStart, MayLeave

LEMMA ProbeIt ==
    ASSUME SharedInv, TypeInv, ChipInv, ProbeInv, NEW p \in Programs, DetectIT87(p) \/ IT87Unknown(p)
    PROVE  ProbeInv'
<1>1. PICK w \in {"it id", "it exit"} : At(p, w)
  BY Zenon DEF DetectIT87, IT87Unknown
<1>2. DoneWith(p, w)
  BY <1>1, DoneAt, Zenon
<1>3. port[p] = 1 /\ port[p] \in {1, 2}
  BY <1>1, <1>2, ItDone, Zenon DEF DoneWith
<1>4. CASE DetectIT87(p)
  <2>1. DoneWith(p, "it id")
    BY <1>4, DoneAt, Zenon DEF DetectIT87
  <2>2. PICK id : id = got[p][1]
    OBVIOUS
  <2>3. /\ id \in IT87Chips => MayStart(p, "it address")
        /\ id \notin IT87Chips \cup {"none"} => MayStart(p, "it exit")
        /\ id = "none" => MayStart(p, "smsc id")
    BY <2>1, <2>2, ItIdDone, Zenon
  <2>4. \/ id \in IT87Chips /\ Stage(p, "it address", port[p], id) /\ UNCHANGED <<port, obj>>
        \/ id \notin IT87Chips \cup {"none"} /\ Stage(p, "it exit", port[p], id) /\ UNCHANGED <<port, obj>>
        \/ id = "none" /\ TrySMSC(p)
    BY <1>3, <1>4, <2>2, Zenon DEF DetectIT87
  <2>5. "it address" # "wf address" /\ "it exit" # "wf address"
    BY Zenon
  <2>6. CASE id \in IT87Chips /\ Stage(p, "it address", port[p], id) /\ UNCHANGED <<port, obj>>
    <3>1. MayStart(p, "it address")
      BY <2>3, <2>6, Zenon
    <3> QED BY <1>3, <2>5, <2>6, <3>1, ProbeOn, Zenon
  <2>7. CASE id \notin IT87Chips \cup {"none"} /\ Stage(p, "it exit", port[p], id) /\ UNCHANGED <<port, obj>>
    <3>1. MayStart(p, "it exit")
      BY <2>3, <2>7, Zenon
    <3> QED BY <1>3, <2>5, <2>7, <3>1, ProbeOn, Zenon
  <2>8. CASE id = "none" /\ TrySMSC(p)
    <3>1. MayStart(p, "smsc id")
      BY <2>3, <2>8, Zenon
    <3> QED BY <1>3, <2>8, <3>1, ProbeSmsc, Zenon
  <2> QED BY <2>4, <2>6, <2>7, <2>8, Zenon
<1>5. CASE IT87Unknown(p)
  <2>1. DoneWith(p, "it exit") /\ TrySMSC(p)
    BY <1>5, DoneAt, Zenon DEF IT87Unknown
  <2>2. MayStart(p, "smsc id")
    BY <2>1, ItExitDone, Zenon
  <2> QED BY <1>3, <2>1, <2>2, ProbeSmsc, Zenon
<1> QED BY <1>4, <1>5, Zenon

LEMMA ProbeItAddress ==
    ASSUME SharedInv, TypeInv, ChipInv, ProbeInv, NEW p \in Programs, IT87Address(p) PROVE ProbeInv'
<1>1. DoneWith(p, "it address")
  BY DoneAt, Zenon DEF IT87Address
<1>2. port[p] = 1 /\ port[p] \in {1, 2}
  BY <1>1, ItDone, Zenon DEF DoneWith
<1>3. PICK good : good <=> /\ got[p][1] = got[p][2] /\ got[p][1] = "good"
                           /\ got[p][4] = "zero" \/ (got[p][4] = got[p][5] /\ got[p][4] = "good")
  OBVIOUS
<1>4. (good => MayStart(p, "it vendor")) /\ (~good => MayStart(p, "smsc id"))
  BY <1>1, <1>3, ItAddressDone, Zenon
<1>5. \/ good /\ Stage(p, "it vendor", port[p], board.model) /\ UNCHANGED <<port, obj>>
      \/ ~good /\ TrySMSC(p)
  BY <1>2, <1>3, Zenon DEF IT87Address
<1>6. CASE good /\ Stage(p, "it vendor", port[p], board.model) /\ UNCHANGED <<port, obj>>
  <2>1. MayStart(p, "it vendor") /\ "it vendor" # "wf address"
    BY <1>4, <1>6, Zenon
  <2> QED BY <1>2, <1>6, <2>1, ProbeOn, Zenon
<1>7. CASE ~good /\ TrySMSC(p)
  <2>1. MayStart(p, "smsc id")
    BY <1>4, <1>7, Zenon
  <2> QED BY <1>2, <1>7, <2>1, ProbeSmsc, Zenon
<1> QED BY <1>5, <1>6, <1>7, Zenon

LEMMA ProbeItVendor ==
    ASSUME SharedInv, TypeInv, ChipInv, ProbeInv, NEW p \in Programs, IT87Vendor(p) \/ IT87Config(p)
    PROVE  ProbeInv'
<1>1. PICK w \in {"it vendor", "it config"} : At(p, w)
  BY Zenon DEF IT87Vendor, IT87Config
<1>2. DoneWith(p, w)
  BY <1>1, DoneAt, Zenon
<1>3. MayStart(p, "it config") /\ MayLeave(p, "IT87XX")
  BY <1>1, <1>2, ItVendorDone, Zenon
<1>4. port[p] = 1 /\ port[p] \in {1, 2}
  <2>1. w \in {"it id", "it exit", "it address", "it vendor", "it config"}
    BY <1>1, Zenon
  <2> QED BY <1>2, <2>1, ItDone, Zenon DEF DoneWith
<1>5. \/ Stage(p, "it config", port[p], board.model) /\ UNCHANGED <<port, obj>>
      \/ NextPort(p) /\ \E i : Detected(p, "IT87XX", i)
  BY <1>4, Zenon DEF IT87Vendor, IT87Config
<1>6. CASE Stage(p, "it config", port[p], board.model) /\ UNCHANGED <<port, obj>>
  <2>1. "it config" # "wf address"
    BY Zenon
  <2> QED BY <1>3, <1>4, <1>6, <2>1, ProbeOn, Zenon
<1>7. CASE NextPort(p) /\ \E i : Detected(p, "IT87XX", i)
  BY <1>3, <1>4, <1>7, ProbeLeft, Zenon
<1> QED BY <1>5, <1>6, <1>7, Zenon

\* The detection begins at the first ports.
LEMMA FirstStarts ==
    ASSUME NEW bd \in Boards, NEW u, NEW x, NEW l, NEW w, w = "wf id",
           NEW n \in {1, 2}, n = 1, NEW kind, kind = "null"
    PROVE  Starts(w, n, kind, bd, u, x, l)
<1>1. n # 2
  BY OneTwo, Zenon
<1>2. w \in Probing /\ w \in Ids /\ w \notin {"it id", "it exit", "it address", "it vendor", "it config"}
  BY Zenon DEF Probing, Ids
<1>3. CASE n = bd.at
  <2>1. PICK lock : lock = LockOf(bd)
    OBVIOUS
  <2>2. Fresh(w, bd, u, x, l)
    BY <2>1, FreshIds, Zenon
  <2> QED BY <1>1, <1>2, <1>3, <2>2, StartHere, Zenon
<1>4. CASE n # bd.at
  BY <1>1, <1>2, <1>4, StartElsewhere, Zenon
<1> QED BY <1>3, <1>4, Zenon

LEMMA ProbeCreate ==
    ASSUME SharedInv, TypeInv, ChipInv, ProbeInv, NEW p \in Programs, CreateLPCIO(p) PROVE ProbeInv'
<1>1. obj' = [obj EXCEPT ![p] = NoObject] /\ UNCHANGED <<board, unlock, cindex, ldn>>
  BY Zenon DEF CreateLPCIO, hardware
<1>2. obj'[p] = NoObject
  BY <1>1, Domains, OnlyIs, Zenon
<1>3. CASE pc' = [pc EXCEPT ![p] = "created"] /\ UNCHANGED <<script, got, port>>
  <2>1. Moves(p)
    BY <1>1, <1>3, Zenon DEF Moves
  <2>2. pc'[p] = "created"
    BY <1>3, Domains, OnlyIs, Zenon
  <2>3. "created" \in Apart
    BY Zenon DEF Apart
  <2> QED BY <1>1, <1>2, <2>1, <2>2, <2>3, ProbeApart, Zenon
<1>4. CASE /\ pc' = [pc EXCEPT ![p] = "wf id"] /\ port' = [port EXCEPT ![p] = 1]
           /\ script' = [script EXCEPT ![p] = Script("wf id", 1, "none")] /\ got' = [got EXCEPT ![p] = << >>]
  <2>1. Moves(p)
    BY <1>1, <1>4, Zenon DEF Moves
  <2>2. OnlyProbes(p)
    BY <2>1, MovesOnly, Zenon
  <2>3. DOMAIN port = Programs
    BY Zenon DEF TypeInv, ScriptsTyped
  <2>4. pc'[p] = "wf id" /\ script'[p] = Script("wf id", 1, "none") /\ got'[p] = << >>
    BY <1>4, Domains, OnlyIs, Zenon
  <2>5. port'[p] = 1
    BY <1>4, <2>3, OnlyIs, Zenon
  <2>6. PICK kind : kind = "null" /\ kind = obj'[p].kind
    <3>1. NoObject.kind = "null"
      BY DEF NoObject
    <3> QED BY <1>2, <3>1
  <2>7. PICK bd \in Boards : bd = board
    BY Zenon DEF ProbeInv
  <2>8. PICK u, x, l : u = unlock /\ x = cindex /\ l = ldn
    OBVIOUS
  <2>9. u = unlock' /\ x = cindex' /\ l = ldn'
    BY <1>1, <2>8, Zenon
  <2>10. 1 \in {1, 2} /\ "wf id" # "wf address"
    BY Zenon
  <2>11. Starts("wf id", 1, kind, bd, u, x, l)
    BY <2>6, <2>7, <2>10, FirstStarts, Zenon
  <2>12. Probed("wf id", 1, Script("wf id", 1, "none"), << >>, kind, bd, u, x, l)
    BY <2>10, <2>11, Started, Zenon
  <2>13. Probed(pc'[p], port'[p], script'[p], got'[p], obj'[p].kind, board, unlock', cindex', ldn')
    BY <2>4, <2>5, <2>6, <2>7, <2>9, <2>12, Zenon
  <2>14. board.family = "ite" /\ board.at = 2 => unlock' \in {0, 1} /\ obj'[p].kind = "null"
    BY <1>1, <2>6, Zenon DEF ProbeInv, Untouched
  <2>15. unlock' \in 0..KeyCount(LockOf(board))
    BY <1>1, Zenon DEF ProbeInv
  <2> QED BY <1>1, <2>2, <2>13, <2>14, <2>15, ProbeGoal, Zenon
<1> QED BY <1>3, <1>4, Zenon DEF CreateLPCIO, Goto

LEMMA ProbeDetectionDone ==
    ASSUME SharedInv, TypeInv, ChipInv, ProbeInv, NEW p \in Programs, DetectionDone(p) PROVE ProbeInv'
<1>1. UNCHANGED <<board, unlock, cindex, ldn, obj, script, got, port>> /\ Goto(p, "created")
  BY DEF DetectionDone, hardware, lpc
<1>2. "created" \in Apart
  BY DEF Apart
<1> QED BY <1>1, <1>2, ProbeGoes

LEMMA ProbeDetection ==
    ASSUME SharedInv, TypeInv, ChipInv, ProbeInv, NEW p \in Programs, Detection(p) PROVE ProbeInv'
<1>1. LpcNext(p) /\ UNCHANGED update
  BY Zenon DEF Detection
<1> QED BY <1>1, ProbePort, ProbeCreate, ProbeWfId, ProbeWfExit, ProbeWfAddress, ProbeVendor, ProbeIt, ProbeItAddress,
           ProbeItVendor, ProbeSmscIds, ProbeDetectionDone, Zenon DEF LpcNext

LEMMA ProbeInit == ASSUME Init PROVE ProbeInv
<1>1. board \in Boards /\ unlock = 0
  BY DEF Init, BusInit
<1>2. unlock \in 0..KeyCount(LockOf(board))
  BY <1>1, LockIs DEF KeyCount, Locks
<1>3. ASSUME NEW p \in Programs PROVE ProgramProbed(p) /\ obj[p].kind = "null"
  <2>1. PICK w : w = "off" /\ w = pc[p]
    BY DEF Init, OsInit
  <2>2. w \in Apart
    BY <2>1, Zenon DEF Apart
  <2>3. w \notin Probing /\ w # "detected"
    BY <2>2, ApartIs, Zenon
  <2>4. ProgramProbed(p)
    BY <2>1, <2>3, Harmless, Zenon DEF ProgramProbed
  <2>5. obj[p].kind = "null"
    BY DEF Init, LpcInit, NoObject
  <2> QED BY <2>4, <2>5
<1>4. Untouched
  BY <1>1, <1>3 DEF Untouched
<1> QED BY <1>1, <1>2, <1>3, <1>4, Zenon DEF ProbeInv

LEMMA ProbeNext == ASSUME SharedInv, TypeInv, ChipInv, ProbeInv, [Next]_vars PROVE ProbeInv'
<1>1. CASE UNCHANGED vars
  <2>1. UNCHANGED <<board, unlock, cindex, ldn, pc, obj, script, got, port>>
    BY <1>1 DEF vars, hardware, lpc
  <2> QED BY <2>1, ProbeStands
<1>2. CASE Intrude /\ UNCHANGED <<pc, os, lpc, update, show, coresel>>
  <2>1. UNCHANGED <<board, unlock, cindex, ldn, pc, obj, script, got, port>>
    BY <1>2 DEF Intrude, lpc
  <2> QED BY <2>1, ProbeStands
<1>3. ASSUME NEW p \in Programs, Ends(p) \/ Killed(p) \/ Crashes(p) \/ Leave(p) PROVE ProbeInv'
  <2>1. Goto(p, "off") /\ Forget(p)
    BY <1>3 DEF Ends, Killed, Crashes, Leave, Exit, Kill, Ended
  <2> QED BY <2>1, ProbeEnded
<1>4. ASSUME NEW p \in Programs, RefreshUnopened(p) PROVE ProbeInv'
  <2>1. UNCHANGED <<board, unlock, cindex, ldn, pc, obj, script, got, port>>
    BY <1>4 DEF RefreshUnopened, hardware, lpc
  <2> QED BY <2>1, ProbeStands
<1>5. ASSUME NEW p \in Programs, Device(p) \/ OnRefresh(p) \/ OnCancel(p) PROVE ProbeInv'
  BY <1>5, ProbeDevice
<1>6. ASSUME NEW p \in Programs, Runs(p) PROVE ProbeInv'
  BY <1>6, ProbeDetection, ProbeReading, ProbeDevice, ProbeShown DEF Runs, Reading
<1> QED BY <1>1, <1>2, <1>3, <1>4, <1>5, <1>6 DEF Next

\* LPCIO.cpp:25-407: on every board, with any number of programs killed between
\* two port accesses and started again, a detection that comes to its end has
\* found the chip the board has, no other one, and has left it locked.
THEOREM ChipFound == Spec => []DetectionSound
<1>1. Init => TypeInv /\ ProbeInv
  BY TypeInit, ProbeInit
<1>2. SharedInv /\ TypeInv /\ ChipInv /\ ProbeInv /\ [Next]_vars => TypeInv' /\ ProbeInv'
  <2>1. SharedInv => DOMAIN pc = Programs
    BY DEF SharedInv, DeviceInv
  <2>2. SharedInv /\ TypeInv /\ ChipInv /\ ProbeInv /\ [Next]_vars => ProbeInv'
    BY ProbeNext, Zenon
  <2>3. SharedInv /\ TypeInv /\ [Next]_vars => TypeInv'
    BY <2>1, TypeNext
  <2> QED BY <2>2, <2>3, Zenon
<1>3. ProbeInv => DetectionSound
  <2>1. SUFFICES ASSUME ProbeInv, NEW p \in Programs, pc[p] = "detected" PROVE obj[p].kind = Present /\ ~InConfig
    BY DEF DetectionSound
  <2>2. Probed("detected", port[p], script[p], got[p], obj[p].kind, board, unlock, cindex, ldn)
    BY <2>1, Zenon DEF ProbeInv, ProgramProbed
  <2>3. obj[p].kind = PresentOn(board) /\ unlock # KeyCount(LockOf(board))
    BY <2>2, Zenon DEF Probed
  <2>4. Present = PresentOn(board)
    BY Zenon DEF Present, PresentOn
  <2>5. ~InConfig
    BY <2>1, <2>3, LockState DEF ProbeInv
  <2> QED BY <2>3, <2>4, <2>5
<1> QED BY <1>1, <1>2, <1>3, SharedInvariant, ChipInvariant, PTL DEF Spec
=============================================================================
