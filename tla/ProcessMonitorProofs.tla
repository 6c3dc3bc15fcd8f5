------------------------ MODULE ProcessMonitorProofs ------------------------
(***************************************************************************)
(* Theorems about ProcessMonitor, for every set of processes, names,       *)
(* windows and configurations.                                             *)
(***************************************************************************)
EXTENDS ProcessMonitor, FiniteSetTheorems, WellFoundedInduction, TLAPS

\* The record a Msg builds is a Message.
LEMMA MsgType ==
    ASSUME NEW kind \in {"hung", "dialog", "notfound", "END"},
           NEW p \in PID \cup {NoPid}, NEW i \in Nat, NEW n \in Name,
           NEW t \in Text \cup {""}
    PROVE  Msg(kind, p, i, n, t) \in Message
BY DEF Msg, Message

\* Windows are only ever taken from processes that run, and are Dialogs.
LEMMA DialogsOfType ==
    ASSUME TypeOK, NEW p \in PID \cup {NoPid}
    PROVE  /\ DialogsOf(p) \in SUBSET Dialog
           /\ \A d \in DialogsOf(p) : p \in PID /\ os[p] \in Process
BY ConstantsAssumption DEF TypeOK, DialogsOf, Live, Process

\* The name of a process is a Name, whether it could be read or not.
LEMMA NameReadType ==
    ASSUME TypeOK, NEW p \in PID
    PROVE  NameRead(p) \in Name
BY ConstantsAssumption DEF TypeOK, NameRead, Live, Process

\* A process that opens, closes, hangs or resumes a window remains the same
\* process: its name and its access do not change.
LEMMA ChangeWindowsEffect ==
    ASSUME TypeOK, NEW p \in PID, ChangeWindows(p)
    PROVE  /\ os[p] \in Process
           /\ \E q \in Process : /\ os' = [os EXCEPT ![p] = q]
                                 /\ q.name = os[p].name /\ q.access = os[p].access
<1>1. os[p] \in Process /\ os \in [PID -> Process \cup {NoProcess}]
  BY DEF ChangeWindows, Live, TypeOK
<1>2. PICK d \in Dialog :
         \/ os' = [os EXCEPT ![p].dialogs = @ \cup {d}]
         \/ os' = [os EXCEPT ![p].dialogs = @ \ {d}, ![p].hung = @ \ {d}]
         \/ os' = [os EXCEPT ![p].hung = @ \cup {d}]
         \/ os' = [os EXCEPT ![p].hung = @ \ {d}]
  BY DEF ChangeWindows
<1> DEFINE q1 == [os[p] EXCEPT !.dialogs = @ \cup {d}]
           q2 == [os[p] EXCEPT !.dialogs = @ \ {d}, !.hung = @ \ {d}]
           q3 == [os[p] EXCEPT !.hung = @ \cup {d}]
           q4 == [os[p] EXCEPT !.hung = @ \ {d}]
           Same(q) == q \in Process /\ q.name = os[p].name /\ q.access = os[p].access
<1>3. Same(q1) /\ Same(q2) /\ Same(q3) /\ Same(q4)
  <2>1. Same(q1)
    BY <1>1 DEF Process
  <2>2. Same(q2)
    BY <1>1 DEF Process
  <2>3. Same(q3)
    BY <1>1 DEF Process
  <2>4. Same(q4)
    BY <1>1 DEF Process
  <2> QED
    BY <2>1, <2>2, <2>3, <2>4
<1>4. \E q \in {q1, q2, q3, q4} : os' = [os EXCEPT ![p] = q]
  BY <1>1, <1>2
<1> HIDE DEF q1, q2, q3, q4
<1> QED
  BY <1>1, <1>3, <1>4

LEMMA TypeOKInit == Init => TypeOK
<1> SUFFICES ASSUME Init PROVE TypeOK
  OBVIOUS
<1>1. procItems \in Seq(ProcessItem) /\ gProcSize = Len(procItems) /\ gProcSize = 0
  BY DEF Init
<1>2. ProcExist \in [1..gProcSize -> BOOLEAN]
  BY <1>1 DEF Init
<1>3. param \in Param
  BY ConstantsAssumption DEF Init, NoParam, Param
<1>4. msgs \in Seq(Message)
  BY DEF Init
<1>5. os \in [PID -> Process \cup {NoProcess}]
  BY DEF Init
<1>6. fresh \in BOOLEAN
  BY DEF Init
<1>7. exitIdx \in Nat \ {0} /\ (pc = "exit" => exitIdx <= gProcSize + 1)
  BY DEF Init
<1>8. /\ running \in SUBSET PID /\ unchanged \in SUBSET running /\ ran \in SUBSET Name
      /\ listed \in SUBSET Dialog /\ seen \in SUBSET Dialog /\ kids \in SUBSET Text
      /\ aProcesses \in SUBSET PID /\ handle \in PID \cup {NoPid}
  BY DEF Init
<1>9. config \in Config \cup {NoFile} /\ pc = "read"
  BY DEF Init
<1> QED
  BY <1>1, <1>2, <1>3, <1>4, <1>5, <1>6, <1>7, <1>8, <1>9 DEF TypeOK, Checking

\* The monitoring thread keeps every variable in its type and every index in
\* range (ReadConfig replaces the items, their number and the flags together).
LEMMA TypeOKNext == TypeOK /\ [Next]_vars => TypeOK'
<1> SUFFICES ASSUME TypeOK, [Next]_vars PROVE TypeOK'
  OBVIOUS
<1> USE ConstantsAssumption
<1>1. CASE ReadConfig
  <2>1. config \in Seq(ProcessItem)
    BY <1>1 DEF ReadConfig, TypeOK
  <2>2. /\ procItems' \in Seq(ProcessItem) /\ gProcSize' = Len(procItems')
        /\ ProcExist' \in [1..gProcSize' -> BOOLEAN]
    BY <1>1, <2>1 DEF ReadConfig
  <2> QED
    BY <1>1, <2>2 DEF ReadConfig, TypeOK, Checking, system, windows
<1>2. CASE ReadConfigFails
  BY <1>2 DEF ReadConfigFails, TypeOK, Checking, system, items, windows
<1>3. CASE BrowseProcesses
  <2>1. /\ aProcesses' \in SUBSET PID /\ running' \in SUBSET PID
        /\ unchanged' \in SUBSET running' /\ ran' \in SUBSET Name
    BY <1>3 DEF BrowseProcesses, TypeOK, Live, Process
  <2> QED
    BY <1>3, <2>1 DEF BrowseProcesses, TypeOK, Checking, system, items, windows
<1>4. CASE BrowseProcessesFails
  BY <1>4 DEF BrowseProcessesFails, TypeOK, Checking, system, items, windows, ghosts
<1>5. ASSUME NEW p \in PID, GetProcessName(p) PROVE TypeOK'
  <2> DEFINE n == NameRead(p)
             nItem == FindProecss(procItems, n)
  <2>1. n \in Name
    BY NameReadType
  <2>2. CASE nItem \in 1..gProcSize
    <3>1. /\ param' = [NoParam EXCEPT !.pid = p, !.nItem = nItem, !.ProcName = n]
          /\ handle' \in {p, NoPid} /\ pc' = "check"
          /\ ProcExist' = [ProcExist EXCEPT ![nItem] = TRUE]
          /\ UNCHANGED <<config, os, procItems, gProcSize, listed, seen, kids, exitIdx,
                         msgs, fresh, running, unchanged, ran>>
          /\ aProcesses' = aProcesses \ {p}
      BY <1>5, <2>2 DEF GetProcessName, system, ghosts
    <3>2. param' \in Param /\ param'.pid = p /\ param'.nItem = nItem
      <4>1. gProcSize \in Nat
        BY DEF TypeOK
      <4>2. nItem \in Nat
        BY <2>2, <4>1
      <4> HIDE DEF n, nItem
      <4>3. param' = [pid |-> p, nItem |-> nItem, ProcName |-> n,
                      WinReported |-> FALSE, HungReported |-> FALSE, dlg |-> {}]
        BY <3>1 DEF NoParam
      <4> QED
        BY <2>1, <4>2, <4>3 DEF Param
    <3> QED
      BY <2>2, <3>1, <3>2 DEF TypeOK, Checking
  <2>3. CASE nItem \notin 1..gProcSize
    BY <1>5, <2>3 DEF GetProcessName, TypeOK, Checking, system, ghosts
  <2> QED
    BY <2>2, <2>3
<1>6. CASE EnumThreadList
  <2>1. DialogsOf(param.pid) \in SUBSET Dialog
    BY DialogsOfType DEF TypeOK, Param
  <2> QED
    BY <1>6, <2>1 DEF EnumThreadList, TypeOK, Checking, system, items, ghosts
<1>7. CASE EnumThreadListFails
  BY <1>7 DEF EnumThreadListFails, TypeOK, Checking, system, items, NoParam, Param
<1>8. ASSUME NEW d \in Dialog, ThreadEnumFunc(d) PROVE TypeOK'
  <2>1. /\ param.pid \in PID /\ param.nItem \in 1..gProcSize /\ param.nItem \in Nat
        /\ param.ProcName \in Name
    BY <1>8 DEF ThreadEnumFunc, TypeOK, Checking, Param
  <2>2. HungMsg(param) \in Message /\ DialogMsg(param, TitleOf[d]) \in Message
    BY <2>1, MsgType DEF HungMsg, DialogMsg
  <2>3. msgs' \in Seq(Message)
    BY <1>8, <2>2 DEF ThreadEnumFunc, TypeOK
  <2>4. /\ param' \in Param /\ param'.pid = param.pid /\ param'.nItem = param.nItem
    <3>1. TitleMatches(procItems[param.nItem], TitleOf[d]) \in BOOLEAN
      BY DEF TitleMatches
    <3>2. param \in Param
      BY DEF TypeOK
    <3>3. \E h, m \in BOOLEAN :
             param' = [param EXCEPT !.HungReported = h, !.WinReported = m, !.dlg = {d}]
      BY <1>8, <3>1, <3>2 DEF ThreadEnumFunc, Param
    <3>4. PICK h \in BOOLEAN, m \in BOOLEAN :
             param' = [param EXCEPT !.HungReported = h, !.WinReported = m, !.dlg = {d}]
      BY <3>3
    <3> QED
      BY <3>2, <3>4 DEF Param
  <2> QED
    BY <1>8, <2>1, <2>3, <2>4 DEF ThreadEnumFunc, TypeOK, Checking, system, items, ghosts
<1>9. ASSUME NEW t \in Text, EnumThreadChildProc(t) PROVE TypeOK'
  <2>1. DialogMsg(param, t) \in Message
    BY <1>9, MsgType DEF EnumThreadChildProc, TypeOK, Checking, Param, DialogMsg
  <2>2. msgs' \in Seq(Message)
    <3>1. msgs' = msgs \/ msgs' = Append(msgs, DialogMsg(param, t))
      BY <1>9 DEF EnumThreadChildProc
    <3>2. msgs \in Seq(Message)
      BY DEF TypeOK
    <3> QED
      BY <2>1, <3>1, <3>2
  <2> QED
    BY <1>9, <2>2 DEF EnumThreadChildProc, TypeOK, Checking, system, items, ghosts
<1>10. CASE ChildrenDone
  BY <1>10 DEF ChildrenDone, TypeOK, Checking, system, items, ghosts
<1>11. CASE ThreadsDone
  BY <1>11 DEF ThreadsDone, TypeOK, Checking, system, items, ghosts, NoParam, Param
<1>12. CASE ProcessesDone
  BY <1>12 DEF ProcessesDone, TypeOK, Checking, system, items, windows, ghosts
<1>13. CASE IfAnyProcessExit
  <2>1. exitIdx \in 1..gProcSize /\ exitIdx \in 1..Len(procItems) /\ gProcSize \in Nat
    BY <1>13 DEF IfAnyProcessExit, TypeOK
  <2>2. procItems[exitIdx].name \in Name
    <3>1. procItems \in Seq(ProcessItem)
      BY DEF TypeOK
    <3>2. procItems[exitIdx] \in ProcessItem
      BY <2>1, <3>1
    <3> QED
      BY <3>2 DEF ProcessItem
  <2>3. NotFoundMsg(exitIdx) \in Message
    <3>1. NoPid \in PID \cup {NoPid} /\ exitIdx \in Nat /\ "" \in Text \cup {""}
      BY <2>1
    <3> QED
      BY <3>1, <2>2, MsgType DEF NotFoundMsg
  <2>4. msgs' \in Seq(Message)
    <3>1. msgs' = msgs \/ msgs' = Append(msgs, NotFoundMsg(exitIdx))
      BY <1>13 DEF IfAnyProcessExit
    <3>2. msgs \in Seq(Message)
      BY DEF TypeOK
    <3> QED
      BY <2>3, <3>1, <3>2
  <2>5. exitIdx' \in Nat \ {0} /\ exitIdx' <= gProcSize + 1
    BY <1>13, <2>1 DEF IfAnyProcessExit
  <2> QED
    BY <1>13, <2>4, <2>5 DEF IfAnyProcessExit, TypeOK, Checking, system, items, windows, ghosts
<1>14. CASE EndOfScan
  <2>1. EndMsg \in Message
    BY MsgType DEF EndMsg
  <2> QED
    BY <1>14, <2>1 DEF EndOfScan, TypeOK, Checking, system, items, windows, ghosts
<1>15. CASE Wake
  BY <1>15 DEF Wake, TypeOK, Checking, system, items, windows
<1>16. ASSUME NEW p \in PID, StartProcess(p) PROVE TypeOK'
  <2>1. os' \in [PID -> Process \cup {NoProcess}] /\ ran' \in SUBSET Name
    BY <1>16 DEF StartProcess, TypeOK, Process
  <2> QED
    BY <1>16, <2>1 DEF StartProcess, TypeOK, Checking, items, windows
<1>17. ASSUME NEW p \in PID, ExitProcess(p) PROVE TypeOK'
  BY <1>17 DEF ExitProcess, TypeOK, Checking, items, windows
<1>18. ASSUME NEW p \in PID, ChangeWindows(p) PROVE TypeOK'
  <2>1. PICK q \in Process : os' = [os EXCEPT ![p] = q]
    BY <1>18, ChangeWindowsEffect
  <2>2. os' \in [PID -> Process \cup {NoProcess}]
    BY <2>1 DEF TypeOK
  <2> QED
    BY <1>18, <2>2 DEF ChangeWindows, TypeOK, Checking, items, windows
<1>19. CASE EditConfig
  BY <1>19 DEF EditConfig, TypeOK, Checking, items, windows, ghosts
<1>20. CASE DismissMessageBox
  BY <1>20 DEF DismissMessageBox, TypeOK, Checking, system, items, windows, ghosts
<1>21. CASE UNCHANGED vars
  BY <1>21 DEF vars, TypeOK, Checking, system, items, windows, ghosts
<1> QED
  BY <1>1, <1>2, <1>3, <1>4, <1>5, <1>6, <1>7, <1>8, <1>9, <1>10, <1>11, <1>12, <1>13,
     <1>14, <1>15, <1>16, <1>17, <1>18, <1>19, <1>20, <1>21
     DEF Next, Monitor, Check, Environment

\* TypeOK, for every set of processes and every configuration: in particular
\* no callback and no loop indexes procItems or ProcExist out of range.
THEOREM TypeCorrect == Spec => []TypeOK
BY TypeOKInit, TypeOKNext, PTL DEF Spec
-----------------------------------------------------------------------------
(* "process not found" is not said of what runs.                           *)

BeforeScan == pc \in {"read", "msgbox", "enum"}

\* Process p has been visited and found to belong to an item: its flag is up.
Marked(p) ==
    LET i == FindProecss(procItems, os[p].name)
    IN  os[p].access = "full" /\ i \in 1..gProcSize => ProcExist[i]

\* The invariant behind NotFoundSound: every steady process whose turn in
\* aProcesses has passed has raised the flag of its item.  NotFoundSound alone
\* is not inductive: it says nothing of the flags before they are read.
NotFoundInv ==
    /\ TypeOK
    /\ running \subseteq Live
    /\ BeforeScan => running = {} /\ msgs = << >>
    /\ pc = "exit" => aProcesses = {}
    /\ \A p \in running \ aProcesses : Marked(p)
    /\ NotFoundSound

\* A steady process keeps its name and its access in every step of the scan.
LEMMA SteadyStep ==
    ASSUME TypeOK, running \subseteq Live, [Next]_vars, ~BrowseProcesses,
           NEW q \in running'
    PROVE  /\ q \in running /\ os'[q] # NoProcess
           /\ os'[q].name = os[q].name /\ os'[q].access = os[q].access
<1> USE ConstantsAssumption
<1>1. os \in [PID -> Process \cup {NoProcess}] /\ running \subseteq PID
  BY DEF TypeOK
<1>2. CASE os' = os /\ running' \subseteq running
  BY <1>1, <1>2 DEF Live
<1>3. ASSUME NEW p \in PID, StartProcess(p) PROVE os'[q] = os[q] /\ q \in running
  BY <1>1, <1>3 DEF StartProcess, Live
<1>4. ASSUME NEW p \in PID, ExitProcess(p) PROVE os'[q] = os[q] /\ q \in running
  BY <1>1, <1>4 DEF ExitProcess, Live
<1>5. ASSUME NEW p \in PID, ChangeWindows(p)
      PROVE  /\ q \in running /\ os'[q] # NoProcess
             /\ os'[q].name = os[q].name /\ os'[q].access = os[q].access
  <2>1. running' = running /\ os[p] \in Process
    BY <1>1, <1>5 DEF ChangeWindows, Live
  <2>2. CASE q # p
    BY <1>1, <1>5, <2>1, <2>2 DEF ChangeWindows, Live
  <2>3. CASE q = p
    <3>1. PICK r \in Process : /\ os' = [os EXCEPT ![p] = r]
                               /\ r.name = os[p].name /\ r.access = os[p].access
      BY <1>5, ChangeWindowsEffect
    <3>3. os'[p] \in Process /\ os'[p].name = os[p].name /\ os'[p].access = os[p].access
      BY <1>1, <3>1
    <3> QED
      BY <2>1, <2>3, <3>3
  <2> QED
    BY <2>2, <2>3
<1>6. CASE ~\E p \in PID : StartProcess(p) \/ ExitProcess(p) \/ ChangeWindows(p)
  <2>1. os' = os /\ running' \subseteq running
    BY <1>6 DEF Next, Monitor, Check, Environment, ReadConfig, ReadConfigFails,
         BrowseProcessesFails, GetProcessName, EnumThreadList, EnumThreadListFails,
         ThreadEnumFunc, EnumThreadChildProc, ChildrenDone, ThreadsDone, ProcessesDone,
         IfAnyProcessExit, EndOfScan, Wake, EditConfig, DismissMessageBox,
         vars, system, ghosts
  <2> QED
    BY <2>1, <1>2
<1> QED
  BY <1>1, <1>3, <1>4, <1>5, <1>6 DEF Live

\* Every action but these two leaves the "process not found" messages alone,
\* or starts from none.
LEMMA NotFoundStep ==
    ASSUME NotFoundInv, [Next]_vars, ~BrowseProcesses, ~ReadConfig, ~Wake
    PROVE  NotFoundSound'
<1>1. /\ TypeOK /\ NotFoundSound /\ msgs \in Seq(Message) /\ procItems \in Seq(ProcessItem)
      /\ running \subseteq Live
  BY DEF NotFoundInv, TypeOK
<1>2. SUFFICES ASSUME NEW k \in Said("notfound")', NEW p \in running', os'[p].access = "full"
               PROVE  FindProecss(procItems', os'[p].name) # msgs'[k].item
  BY DEF NotFoundSound
<1>3. /\ p \in running /\ os'[p].name = os[p].name /\ os[p].access = "full"
      /\ p \in PID
  BY <1>1, <1>2, SteadyStep DEF TypeOK
<1>4. procItems' = procItems
  BY DEF Next, Monitor, Check, Environment, ReadConfigFails,
     BrowseProcessesFails, GetProcessName, EnumThreadList, EnumThreadListFails,
     ThreadEnumFunc, EnumThreadChildProc, ChildrenDone, ThreadsDone, ProcessesDone,
     IfAnyProcessExit, EndOfScan, StartProcess, ExitProcess, ChangeWindows,
     EditConfig, DismissMessageBox, vars, items
<1>5. CASE k \in Said("notfound") /\ msgs'[k] = msgs[k]
  BY <1>1, <1>3, <1>4, <1>5 DEF NotFoundSound
<1>6. CASE UNCHANGED msgs
  BY <1>2, <1>5, <1>6 DEF Said
<1>7. ASSUME NEW d \in Dialog, ThreadEnumFunc(d) PROVE k \in Said("notfound") /\ msgs'[k] = msgs[k]
  <2> DEFINE s == LET item == procItems[param.nItem]
                      hung == d \in os[param.pid].hung /\ ~param.HungReported /\ item.hung
                  IN  IF hung THEN <<HungMsg(param)>> ELSE << >>
             t == IF TitleMatches(procItems[param.nItem], TitleOf[d])
                  THEN <<DialogMsg(param, TitleOf[d])>> ELSE << >>
  <2>1. msgs' = msgs \o s \o t
    BY <1>7 DEF ThreadEnumFunc
  <2>2. s = << >> \/ s = <<HungMsg(param)>>
    OBVIOUS
  <2>3. t = << >> \/ t = <<DialogMsg(param, TitleOf[d])>>
    OBVIOUS
  <2>4. HungMsg(param).kind = "hung" /\ DialogMsg(param, TitleOf[d]).kind = "dialog"
    BY DEF HungMsg, DialogMsg, Msg
  <2> HIDE DEF s, t
  <2>5. k \in 1..Len(msgs') /\ msgs'[k].kind = "notfound"
    BY <1>2 DEF Said
  <2> QED
    BY <1>1, <2>1, <2>2, <2>3, <2>4, <2>5 DEF Said
<1>8. ASSUME NEW t \in Text, EnumThreadChildProc(t)
      PROVE  k \in Said("notfound") /\ msgs'[k] = msgs[k]
  <2>1. DialogMsg(param, t).kind = "dialog"
    BY DEF DialogMsg, Msg
  <2> QED
    BY <1>1, <1>2, <1>8, <2>1 DEF EnumThreadChildProc, Said
<1>9. ASSUME EndOfScan PROVE k \in Said("notfound") /\ msgs'[k] = msgs[k]
  <2>1. EndMsg.kind = "END"
    BY DEF EndMsg, Msg
  <2> QED
    BY <1>1, <1>2, <1>9, <2>1 DEF EndOfScan, Said
<1>10. CASE IfAnyProcessExit
  <2>1. CASE UNCHANGED msgs
    BY <2>1, <1>6
  <2>2. CASE ~ProcExist[exitIdx] /\ msgs' = Append(msgs, NotFoundMsg(exitIdx))
    <3>1. exitIdx \in 1..gProcSize
      BY <1>1, <1>10 DEF IfAnyProcessExit, TypeOK
    <3>2. FindProecss(procItems, os[p].name) # exitIdx
      BY <1>3, <1>10, <2>2, <3>1 DEF IfAnyProcessExit, NotFoundInv, Marked
    <3>3. NotFoundMsg(exitIdx).item = exitIdx
      BY DEF NotFoundMsg, Msg
    <3>4. CASE k = Len(msgs) + 1
      BY <1>1, <1>3, <1>4, <2>2, <3>2, <3>3, <3>4
    <3>5. CASE k # Len(msgs) + 1
      BY <1>1, <1>2, <1>5, <2>2, <3>5 DEF Said
    <3> QED
      BY <3>4, <3>5
  <2> QED
    BY <1>10, <2>1, <2>2 DEF IfAnyProcessExit
<1>11. CASE /\ ~\E d \in Dialog : ThreadEnumFunc(d)
            /\ ~\E t \in Text : EnumThreadChildProc(t)
            /\ ~EndOfScan
            /\ ~IfAnyProcessExit
  <2>1. ASSUME Monitor PROVE msgs' = msgs
    BY <1>11, <2>1 DEF Monitor, Check, ReadConfigFails,
       BrowseProcessesFails, GetProcessName, EnumThreadList, EnumThreadListFails,
       ChildrenDone, ThreadsDone, ProcessesDone, ghosts
  <2>2. ASSUME Environment PROVE msgs' = msgs
    BY <2>2 DEF Environment, StartProcess, ExitProcess, ChangeWindows,
       EditConfig, DismissMessageBox
  <2>3. UNCHANGED msgs
    BY <2>1, <2>2 DEF Next, vars
  <2> QED
    BY <1>6, <2>3
<1> QED
  BY <1>5, <1>7, <1>8, <1>9, <1>10, <1>11

\* The flag of every steady process whose turn has passed stays up: an action
\* that changes neither the flags nor whose turn has passed keeps it so.
LEMMA MarkedStep ==
    ASSUME NotFoundInv, [Next]_vars, ~BrowseProcesses,
           UNCHANGED items, UNCHANGED aProcesses
    PROVE  \A p \in running' \ aProcesses' : Marked(p)'
<1> SUFFICES ASSUME NEW p \in running' \ aProcesses' PROVE Marked(p)'
  OBVIOUS
<1>1. /\ p \in running /\ os'[p].name = os[p].name /\ os'[p].access = os[p].access
  BY SteadyStep DEF NotFoundInv
<1>2. Marked(p)
  BY <1>1 DEF NotFoundInv
<1> QED
  BY <1>1, <1>2 DEF Marked, items

LEMMA NotFoundInvInit == Init => NotFoundInv
BY TypeOKInit DEF Init, NotFoundInv, BeforeScan, Live, NotFoundSound, Said

LEMMA NotFoundInvNext == NotFoundInv /\ [Next]_vars => NotFoundInv'
<1> SUFFICES ASSUME NotFoundInv, [Next]_vars PROVE NotFoundInv'
  OBVIOUS
<1>1. /\ TypeOK' /\ TypeOK /\ running \subseteq Live
      /\ BeforeScan => running = {} /\ msgs = << >>
      /\ pc = "exit" => aProcesses = {}
  BY TypeOKNext DEF NotFoundInv
<1>2. CASE BrowseProcesses
  <2>1. /\ running' = aProcesses' /\ running' \subseteq Live /\ pc = "enum" /\ pc' = "next"
        /\ UNCHANGED <<os, msgs>>
    BY <1>2 DEF BrowseProcesses, system
  <2>2. msgs' = << >>
    BY <1>1, <2>1 DEF BeforeScan
  <2> QED
    BY <1>1, <2>1, <2>2 DEF NotFoundInv, BeforeScan, Live, NotFoundSound, Said
<1>3. CASE ReadConfig
  <2>1. /\ pc = "read" /\ pc' = "enum" /\ UNCHANGED <<os, msgs, running>>
    BY <1>3 DEF ReadConfig, system
  <2>2. running' = {} /\ msgs' = << >>
    BY <1>1, <2>1 DEF BeforeScan
  <2> QED
    BY <1>1, <2>1, <2>2 DEF NotFoundInv, BeforeScan, NotFoundSound, Said
<1>4. CASE Wake
  <2>1. running' = {} /\ msgs' = << >> /\ pc' = "read"
    BY <1>4 DEF Wake
  <2> QED
    BY <1>1, <2>1 DEF NotFoundInv, BeforeScan, NotFoundSound, Said
<1>5. CASE ~BrowseProcesses /\ ~ReadConfig /\ ~Wake
  <2>1. NotFoundSound'
    BY <1>5, NotFoundStep
  <2>2. (running \subseteq Live)'
    BY <1>1, <1>5, SteadyStep DEF TypeOK, Live
  <2>3. (BeforeScan => running = {} /\ msgs = << >>)'
    <3>1. BeforeScan' => BeforeScan /\ msgs' = msgs
      BY <1>1, <1>5 DEF Next, Monitor, Check, Environment, ReadConfigFails,
         BrowseProcessesFails, GetProcessName, EnumThreadList, EnumThreadListFails,
         ThreadEnumFunc, EnumThreadChildProc, ChildrenDone, ThreadsDone, ProcessesDone,
         IfAnyProcessExit, EndOfScan, StartProcess, ExitProcess, ChangeWindows,
         EditConfig, DismissMessageBox, vars, BeforeScan, ghosts
    <3>2. running' \subseteq running
      BY <1>1, <1>5, SteadyStep
    <3> QED
      BY <1>1, <3>1, <3>2
  <2>4. (pc = "exit" => aProcesses = {})'
    BY <1>1, <1>5 DEF Next, Monitor, Check, Environment, ReadConfigFails,
       BrowseProcessesFails, GetProcessName, EnumThreadList, EnumThreadListFails,
       ThreadEnumFunc, EnumThreadChildProc, ChildrenDone, ThreadsDone, ProcessesDone,
       IfAnyProcessExit, EndOfScan, StartProcess, ExitProcess, ChangeWindows,
       EditConfig, DismissMessageBox, vars
  <2>5. (\A p \in running \ aProcesses : Marked(p))'
    <3>1. ASSUME NEW p \in PID, GetProcessName(p)
          PROVE  (\A q \in running \ aProcesses : Marked(q))'
      <4> SUFFICES ASSUME NEW q \in running' \ aProcesses' PROVE Marked(q)'
        OBVIOUS
      <4>1. /\ q \in running /\ os' = os /\ procItems' = procItems /\ gProcSize' = gProcSize
            /\ aProcesses' = aProcesses \ {p} /\ os[q] # NoProcess /\ q \in PID
        BY <1>1, <3>1 DEF GetProcessName, system, ghosts, Live, TypeOK
      <4> DEFINE nItem == FindProecss(procItems, NameRead(p))
      <4>2. \/ nItem \in 1..gProcSize /\ ProcExist' = [ProcExist EXCEPT ![nItem] = TRUE]
            \/ nItem \notin 1..gProcSize /\ ProcExist' = ProcExist
        BY <3>1 DEF GetProcessName
      <4>3. ProcExist \in [1..gProcSize -> BOOLEAN]
        BY <1>1 DEF TypeOK
      <4>4. CASE q = p
        <5>1. os[q].access = "full" => NameRead(p) = os[q].name
          BY <4>1, <4>4 DEF NameRead, Live
        <5> QED
          BY <4>1, <4>2, <4>3, <5>1 DEF Marked
      <4>5. CASE q # p
        <5>1. Marked(q)
          BY <4>1, <4>5 DEF NotFoundInv
        <5> QED
          BY <4>1, <4>2, <4>3, <5>1 DEF Marked
      <4> QED
        BY <4>4, <4>5
    <3>2. CASE ~\E p \in PID : GetProcessName(p)
      <4>1. UNCHANGED items /\ UNCHANGED aProcesses
        BY <1>5, <3>2 DEF Next, Monitor, Check, Environment, ReadConfigFails,
           BrowseProcessesFails, EnumThreadList, EnumThreadListFails,
           ThreadEnumFunc, EnumThreadChildProc, ChildrenDone, ThreadsDone, ProcessesDone,
           IfAnyProcessExit, EndOfScan, StartProcess, ExitProcess, ChangeWindows,
           EditConfig, DismissMessageBox, vars
      <4> QED
        BY <1>5, <4>1, MarkedStep
    <3> QED
      BY <3>1, <3>2
  <2> QED
    BY <1>1, <2>1, <2>2, <2>3, <2>4, <2>5 DEF NotFoundInv
<1> QED
  BY <1>2, <1>3, <1>4, <1>5

\* No configured process that can be read, and that runs from the enumeration
\* on, is reported as not found, whatever happens around it.
THEOREM NoFalseNotFound == Spec => []NotFoundSound
<1>1. NotFoundInv => NotFoundSound
  BY DEF NotFoundInv
<1> QED
  BY <1>1, NotFoundInvInit, NotFoundInvNext, PTL DEF Spec
-----------------------------------------------------------------------------
(* One hung report per process and scan.                                   *)

\* The invariant behind HungOncePerScan: a process still in aProcesses has not
\* been reported, nor has the one being checked unless HungReported says so.
HungInv ==
    /\ TypeOK
    /\ BeforeScan => msgs = << >>
    /\ Checking => param.pid \notin aProcesses
    /\ \A k \in Said("hung") :
          /\ msgs[k].pid \notin aProcesses
          /\ Checking /\ ~param.HungReported => msgs[k].pid # param.pid
    /\ HungOncePerScan

LEMMA HungInvInit == Init => HungInv
BY TypeOKInit DEF Init, HungInv, BeforeScan, Checking, HungOncePerScan, Said

\* A step that adds no hung message, takes nothing back into aProcesses and
\* checks no other process keeps the invariant.
LEMMA HungFrame ==
    ASSUME HungInv, TypeOK',
           \A k \in Said("hung")' : k \in Said("hung") /\ msgs'[k] = msgs[k],
           aProcesses' \subseteq aProcesses,
           BeforeScan' => msgs' = << >>,
           Checking' => /\ param'.pid \notin aProcesses'
                        /\ \/ param'.pid \in aProcesses
                           \/ /\ Checking /\ param'.pid = param.pid
                              /\ ~param'.HungReported => ~param.HungReported
    PROVE  HungInv'
BY DEF HungInv, HungOncePerScan

LEMMA HungInvNext == HungInv /\ [Next]_vars => HungInv'
<1> SUFFICES ASSUME HungInv, [Next]_vars PROVE HungInv'
  OBVIOUS
<1>1. TypeOK /\ TypeOK' /\ msgs \in Seq(Message) /\ param \in Param
  BY TypeOKNext DEF HungInv, TypeOK
<1>2. CASE BrowseProcesses
  <2>1. msgs' = << >> /\ pc' = "next"
    BY <1>2 DEF BrowseProcesses, HungInv, BeforeScan
  <2> QED
    BY <1>1, <2>1 DEF HungInv, BeforeScan, Checking, HungOncePerScan, Said
<1>3. CASE Wake
  <2>1. msgs' = << >> /\ pc' = "read"
    BY <1>3 DEF Wake
  <2> QED
    BY <1>1, <2>1 DEF HungInv, BeforeScan, Checking, HungOncePerScan, Said
<1>4. ASSUME NEW d \in Dialog, ThreadEnumFunc(d) PROVE HungInv'
  <2> DEFINE item == procItems[param.nItem]
             hung == d \in os[param.pid].hung /\ ~param.HungReported /\ item.hung
             s == IF hung THEN <<HungMsg(param)>> ELSE << >>
             t == IF TitleMatches(item, TitleOf[d])
                  THEN <<DialogMsg(param, TitleOf[d])>> ELSE << >>
  <2>1. /\ msgs' = msgs \o s \o t /\ pc = "window" /\ pc' = "child"
        /\ aProcesses' = aProcesses
        /\ param' = [param EXCEPT !.HungReported = @ \/ hung,
                                  !.WinReported = TitleMatches(item, TitleOf[d]),
                                  !.dlg = {d}]
    BY <1>4 DEF ThreadEnumFunc
  <2>2. param'.pid = param.pid /\ param'.HungReported = (param.HungReported \/ hung)
    BY <1>1, <2>1 DEF Param
  <2>3. t = << >> \/ t = <<DialogMsg(param, TitleOf[d])>>
    OBVIOUS
  <2>4. /\ HungMsg(param).kind = "hung" /\ HungMsg(param).pid = param.pid
        /\ DialogMsg(param, TitleOf[d]).kind = "dialog"
    BY DEF HungMsg, DialogMsg, Msg
  <2>5. Checking /\ param.pid \notin aProcesses
    BY <2>1 DEF HungInv, Checking
  <2>8. /\ param.HungReported => param'.HungReported
        /\ hung => param'.HungReported
        /\ ~BeforeScan'
    BY <2>1, <2>2 DEF BeforeScan
  <2>6. CASE ~hung
    <3>1. s = << >>
      BY <2>6
    <3> HIDE DEF s, t, hung
    <3>2. \A k \in Said("hung")' : k \in Said("hung") /\ msgs'[k] = msgs[k]
      BY <1>1, <2>1, <2>3, <2>4, <3>1 DEF Said
    <3>3. Checking' => /\ param'.pid \notin aProcesses'
                       /\ Checking /\ param'.pid = param.pid
                       /\ ~param'.HungReported => ~param.HungReported
      BY <2>1, <2>2, <2>5, <2>8
    <3>4. aProcesses' \subseteq aProcesses
      BY <2>1
    <3> QED
      BY <1>1, <2>8, <3>2, <3>3, <3>4, HungFrame
  <2>7. CASE hung
    <3>1. s = <<HungMsg(param)>>
      BY <2>7
    <3>2. ~param.HungReported
      BY <2>7
    <3> HIDE DEF s, t, hung
    <3>3. \A k \in Said("hung")' : \/ k \in Said("hung") /\ msgs'[k] = msgs[k]
                                   \/ k = Len(msgs) + 1 /\ msgs'[k].pid = param.pid
      BY <1>1, <2>1, <2>3, <2>4, <3>1 DEF Said
    <3>4. \A k \in Said("hung") : msgs[k].pid # param.pid /\ msgs[k].pid \notin aProcesses
      BY <2>1, <2>5, <3>2 DEF HungInv
    <3>5. HungOncePerScan'
      BY <3>3, <3>4 DEF HungInv, HungOncePerScan
    <3>6. param'.HungReported
      BY <2>7, <2>8
    <3>7. \A k \in Said("hung")' : msgs'[k].pid \notin aProcesses'
      BY <2>1, <2>5, <3>3, <3>4
    <3>8. param'.pid \notin aProcesses'
      BY <2>1, <2>2, <2>5
    <3> QED
      BY <1>1, <2>8, <3>5, <3>6, <3>7, <3>8 DEF HungInv
  <2> QED
    BY <2>6, <2>7
<1>5. ASSUME NEW t \in Text, EnumThreadChildProc(t) PROVE HungInv'
  <2>1. DialogMsg(param, t).kind = "dialog"
    BY DEF DialogMsg, Msg
  <2>2. \A k \in Said("hung")' : k \in Said("hung") /\ msgs'[k] = msgs[k]
    BY <1>1, <1>5, <2>1 DEF EnumThreadChildProc, Said
  <2>3. Checking /\ param.pid \notin aProcesses
    BY <1>5 DEF HungInv, Checking, EnumThreadChildProc
  <2> QED
    BY <1>1, <1>5, <2>2, <2>3, HungFrame DEF EnumThreadChildProc, BeforeScan
<1>6. CASE IfAnyProcessExit
  <2>1. NotFoundMsg(exitIdx).kind = "notfound"
    BY DEF NotFoundMsg, Msg
  <2>2. \A k \in Said("hung")' : k \in Said("hung") /\ msgs'[k] = msgs[k]
    BY <1>1, <1>6, <2>1 DEF IfAnyProcessExit, Said
  <2> QED
    BY <1>1, <1>6, <2>2, HungFrame DEF IfAnyProcessExit, BeforeScan, Checking
<1>7. CASE EndOfScan
  <2>1. EndMsg.kind = "END"
    BY DEF EndMsg, Msg
  <2>2. \A k \in Said("hung")' : k \in Said("hung") /\ msgs'[k] = msgs[k]
    BY <1>1, <1>7, <2>1 DEF EndOfScan, Said
  <2> QED
    BY <1>1, <1>7, <2>2, HungFrame DEF EndOfScan, BeforeScan, Checking
<1>8. ASSUME NEW p \in PID, GetProcessName(p) PROVE HungInv'
  <2>1. /\ pc = "next" /\ p \in aProcesses /\ aProcesses' = aProcesses \ {p}
        /\ msgs' = msgs /\ pc' \in {"next", "check"}
        /\ Checking' => param'.pid = p
    <3> DEFINE nItem == FindProecss(procItems, NameRead(p))
    <3>1. CASE nItem \in 1..gProcSize
      <4>1. param' = [NoParam EXCEPT !.pid = p, !.nItem = nItem, !.ProcName = NameRead(p)]
        BY <1>8, <3>1 DEF GetProcessName
      <4> HIDE DEF nItem
      <4>2. param'.pid = p
        BY <4>1 DEF NoParam
      <4> QED
        BY <1>8, <4>2 DEF GetProcessName
    <3>2. CASE nItem \notin 1..gProcSize
      BY <1>8, <3>2 DEF GetProcessName, Checking
    <3> QED
      BY <3>1, <3>2
  <2>2. \A k \in Said("hung")' : k \in Said("hung") /\ msgs'[k] = msgs[k]
    BY <2>1 DEF Said
  <2> QED
    BY <1>1, <2>1, <2>2, HungFrame DEF BeforeScan
<1>9. CASE /\ ~BrowseProcesses /\ ~Wake /\ ~IfAnyProcessExit /\ ~EndOfScan
           /\ ~\E d \in Dialog : ThreadEnumFunc(d)
           /\ ~\E t \in Text : EnumThreadChildProc(t)
           /\ ~\E p \in PID : GetProcessName(p)
  <2>1. msgs' = msgs /\ aProcesses' = aProcesses
    BY <1>9 DEF Next, Monitor, Check, Environment, ReadConfig, ReadConfigFails,
       BrowseProcessesFails, EnumThreadList, EnumThreadListFails,
       ChildrenDone, ThreadsDone, ProcessesDone, StartProcess, ExitProcess, ChangeWindows,
       EditConfig, DismissMessageBox, vars
  <2>2. /\ BeforeScan' => BeforeScan
        /\ Checking' => Checking /\ param' = param
    BY <1>9 DEF Next, Monitor, Check, Environment, ReadConfig, ReadConfigFails,
       BrowseProcessesFails, EnumThreadList, EnumThreadListFails,
       ChildrenDone, ThreadsDone, ProcessesDone, StartProcess, ExitProcess, ChangeWindows,
       EditConfig, DismissMessageBox, vars, windows, BeforeScan, Checking
  <2>3. \A k \in Said("hung")' : k \in Said("hung") /\ msgs'[k] = msgs[k]
    BY <2>1 DEF Said
  <2> QED
    BY <1>1, <2>1, <2>2, <2>3, HungFrame DEF HungInv
<1> QED
  BY <1>2, <1>3, <1>4, <1>5, <1>6, <1>7, <1>8, <1>9

\* A process is reported hung at most once in a scan, however many of its
\* windows do not respond and whatever starts and exits meanwhile.
THEOREM HungOnce == Spec => []HungOncePerScan
<1>1. HungInv => HungOncePerScan
  BY DEF HungInv
<1> QED
  BY <1>1, HungInvInit, HungInvNext, PTL DEF Spec
-----------------------------------------------------------------------------
(* A report about a window names the process that owns it.                 *)

\* While a process whose name was read is checked, its handle is open, so its
\* pid is its own or nobody's.
OwnerInv ==
    /\ TypeOK
    /\ Checking /\ param.ProcName # Unknown =>
          /\ handle = param.pid
          /\ os[param.pid] # NoProcess => os[param.pid].name = param.ProcName

\* What the action property says of one step.
ReportNamesOwner ==
    \A k \in (Len(msgs) + 1)..Len(msgs') :
        msgs'[k].kind \in {"hung", "dialog"} /\ msgs'[k].name # Unknown
           /\ os[msgs'[k].pid] # NoProcess
        => os[msgs'[k].pid].name = msgs'[k].name

LEMMA OwnerInvInit == Init => OwnerInv
BY TypeOKInit DEF Init, OwnerInv, Checking

LEMMA OwnerInvNext == OwnerInv /\ [Next]_vars => OwnerInv'
<1> SUFFICES ASSUME OwnerInv, [Next]_vars, Checking', param'.ProcName # Unknown
             PROVE  /\ handle' = param'.pid
                    /\ os'[param'.pid] # NoProcess
                          => os'[param'.pid].name = param'.ProcName
  BY TypeOKNext DEF OwnerInv
<1>1. TypeOK /\ param \in Param /\ os \in [PID -> Process \cup {NoProcess}]
  BY DEF OwnerInv, TypeOK
<1>2. ASSUME NEW p \in PID, GetProcessName(p)
      PROVE  /\ handle' = param'.pid
             /\ os'[param'.pid] # NoProcess => os'[param'.pid].name = param'.ProcName
  <2> DEFINE n == NameRead(p)
             nItem == FindProecss(procItems, n)
  <2>1. CASE nItem \in 1..gProcSize
    <3>1. /\ param' = [NoParam EXCEPT !.pid = p, !.nItem = nItem, !.ProcName = n]
          /\ handle' = IF p \in Live /\ os[p].access # "none" THEN p ELSE NoPid
          /\ os' = os
      BY <1>2, <2>1 DEF GetProcessName, system
    <3> HIDE DEF nItem, n
    <3>2. param'.pid = p /\ param'.ProcName = n
      BY <3>1 DEF NoParam
    <3>3. p \in Live /\ os[p].access = "full" /\ n = os[p].name
      BY <3>2 DEF n, NameRead
    <3> QED
      BY <3>1, <3>2, <3>3
  <2>2. CASE nItem \notin 1..gProcSize
    BY <1>2, <2>2 DEF GetProcessName, Checking
  <2> QED
    BY <2>1, <2>2
<1>3. ASSUME NEW d \in Dialog, ThreadEnumFunc(d)
      PROVE  /\ handle' = param'.pid
             /\ os'[param'.pid] # NoProcess => os'[param'.pid].name = param'.ProcName
  <2>1. /\ \E h, m : param' = [param EXCEPT !.HungReported = h, !.WinReported = m, !.dlg = {d}]
        /\ Checking /\ handle' = handle /\ os' = os
    BY <1>3 DEF ThreadEnumFunc, Checking, system
  <2>2. param'.pid = param.pid /\ param'.ProcName = param.ProcName
    BY <1>1, <2>1 DEF Param
  <2> QED
    BY <2>1, <2>2 DEF OwnerInv
<1>4. ASSUME NEW p \in PID, StartProcess(p) \/ ExitProcess(p) \/ ChangeWindows(p)
      PROVE  /\ handle' = param'.pid
             /\ os'[param'.pid] # NoProcess => os'[param'.pid].name = param'.ProcName
  <2>1. /\ Checking /\ handle' = handle /\ param' = param /\ param.pid \in PID
        /\ handle = param.pid
        /\ os[param.pid] # NoProcess => os[param.pid].name = param.ProcName
    BY <1>1, <1>4 DEF StartProcess, ExitProcess, ChangeWindows, Checking, windows,
       OwnerInv, TypeOK
  <2>2. CASE StartProcess(p)
    <3>1. os'[param.pid] = os[param.pid]
      BY <1>1, <2>1, <2>2 DEF StartProcess
    <3> QED
      BY <2>1, <3>1
  <2>3. CASE ExitProcess(p)
    BY <1>1, <2>1, <2>3 DEF ExitProcess
  <2>4. CASE ChangeWindows(p)
    <3>1. os[p] \in Process
      BY <1>1, <2>4, ChangeWindowsEffect
    <3>2. PICK q \in Process : /\ os' = [os EXCEPT ![p] = q]
                               /\ q.name = os[p].name /\ q.access = os[p].access
      BY <1>1, <2>4, ChangeWindowsEffect
    <3> QED
      BY <1>1, <2>1, <3>1, <3>2, ConstantsAssumption
  <2> QED
    BY <1>4, <2>2, <2>3, <2>4
<1>5. CASE /\ ~\E p \in PID : GetProcessName(p)
           /\ ~\E d \in Dialog : ThreadEnumFunc(d)
           /\ ~\E p \in PID : StartProcess(p) \/ ExitProcess(p) \/ ChangeWindows(p)
  <2>1. Checking /\ param' = param /\ handle' = handle /\ os' = os
    BY <1>5 DEF Next, Monitor, Check, Environment, ReadConfig, ReadConfigFails,
       BrowseProcesses, BrowseProcessesFails, EnumThreadList, EnumThreadListFails,
       EnumThreadChildProc, ChildrenDone, ThreadsDone, ProcessesDone, IfAnyProcessExit,
       EndOfScan, Wake, EditConfig, DismissMessageBox, vars, windows, system, Checking
  <2> QED
    BY <2>1 DEF OwnerInv
<1> QED
  BY <1>2, <1>3, <1>4, <1>5

LEMMA OwnerStep == OwnerInv /\ [Next]_vars => [ReportNamesOwner]_vars
<1> SUFFICES ASSUME OwnerInv, [Next]_vars,
                    NEW k \in (Len(msgs) + 1)..Len(msgs'),
                    msgs'[k].kind \in {"hung", "dialog"}, msgs'[k].name # Unknown,
                    os[msgs'[k].pid] # NoProcess
             PROVE  os[msgs'[k].pid].name = msgs'[k].name
  BY DEF ReportNamesOwner
<1>1. TypeOK /\ msgs \in Seq(Message) /\ Len(msgs) \in Nat
  BY DEF OwnerInv, TypeOK
<1>2. SUFFICES Checking /\ msgs'[k].pid = param.pid /\ msgs'[k].name = param.ProcName
  BY DEF OwnerInv
<1>3. ASSUME NEW d \in Dialog, ThreadEnumFunc(d)
      PROVE  Checking /\ msgs'[k].pid = param.pid /\ msgs'[k].name = param.ProcName
  <2> DEFINE item == procItems[param.nItem]
             s == IF d \in os[param.pid].hung /\ ~param.HungReported /\ item.hung
                  THEN <<HungMsg(param)>> ELSE << >>
             t == IF TitleMatches(item, TitleOf[d])
                  THEN <<DialogMsg(param, TitleOf[d])>> ELSE << >>
  <2>1. msgs' = msgs \o s \o t /\ Checking
    BY <1>3 DEF ThreadEnumFunc, Checking
  <2>2. s = << >> \/ s = <<HungMsg(param)>>
    OBVIOUS
  <2>3. t = << >> \/ t = <<DialogMsg(param, TitleOf[d])>>
    OBVIOUS
  <2> HIDE DEF s, t
  <2>4. msgs'[k] = HungMsg(param) \/ msgs'[k] = DialogMsg(param, TitleOf[d])
    BY <1>1, <2>1, <2>2, <2>3
  <2>5. /\ HungMsg(param).pid = param.pid /\ HungMsg(param).name = param.ProcName
        /\ DialogMsg(param, TitleOf[d]).pid = param.pid
        /\ DialogMsg(param, TitleOf[d]).name = param.ProcName
    BY DEF HungMsg, DialogMsg, Msg
  <2> QED
    BY <2>1, <2>4, <2>5
<1>4. ASSUME NEW t \in Text, EnumThreadChildProc(t)
      PROVE  Checking /\ msgs'[k].pid = param.pid /\ msgs'[k].name = param.ProcName
  <2>1. msgs'[k] = DialogMsg(param, t) /\ Checking
    BY <1>1, <1>4 DEF EnumThreadChildProc, Checking
  <2> QED
    BY <2>1 DEF DialogMsg, Msg
<1>5. ASSUME IfAnyProcessExit \/ EndOfScan PROVE FALSE
  <2>1. msgs'[k] = NotFoundMsg(exitIdx) \/ msgs'[k] = EndMsg
    BY <1>1, <1>5 DEF IfAnyProcessExit, EndOfScan
  <2>2. NotFoundMsg(exitIdx).kind = "notfound" /\ EndMsg.kind = "END"
    BY DEF NotFoundMsg, EndMsg, Msg
  <2> QED
    BY <2>1, <2>2
<1>6. ASSUME Wake PROVE FALSE
  <2>1. Len(msgs') = 0
    BY <1>6 DEF Wake
  <2> QED
    BY <1>1, <2>1
<1>7. ASSUME /\ ~\E d \in Dialog : ThreadEnumFunc(d)
             /\ ~\E t \in Text : EnumThreadChildProc(t)
             /\ ~IfAnyProcessExit /\ ~EndOfScan /\ ~Wake
      PROVE  FALSE
  <2>1. msgs' = msgs
    BY <1>7 DEF Next, Monitor, Check, Environment, ReadConfig, ReadConfigFails,
       BrowseProcesses, BrowseProcessesFails, GetProcessName, EnumThreadList,
       EnumThreadListFails, ChildrenDone, ThreadsDone, ProcessesDone, StartProcess,
       ExitProcess, ChangeWindows, EditConfig, DismissMessageBox, vars, ghosts
  <2> QED
    BY <1>1, <2>1
<1> QED
  BY <1>3, <1>4, <1>5, <1>6, <1>7

\* A hung or dialog report never names another process than the one that owns
\* the window, although pids are reused: the handle is held until the windows
\* have been looked at.
THEOREM OwnerNamed == Spec => WindowReportNamesOwner
<1>1. OwnerInv /\ [Next]_vars => [ReportNamesOwner]_vars
  BY OwnerStep
<1>2. Spec => []OwnerInv
  BY OwnerInvInit, OwnerInvNext, PTL DEF Spec
<1>3. Spec => [][ReportNamesOwner]_vars
  BY <1>1, <1>2, PTL DEF Spec
<1> QED
  BY <1>3, PTL DEF WindowReportNamesOwner, ReportNamesOwner
-----------------------------------------------------------------------------
(* What was nowhere to be seen is reported.                                *)

Scanning == pc \in {"next", "check", "window", "child", "exit"}

\* The names that run are among those the scan remembers.
NamesRemembered == Scanning => \A p \in Live : os[p].name \in ran

\* A flag that is up has its reason in this scan, not in one before it.
FlagsHaveReason ==
    fresh /\ pc # "read" =>
        \A i \in 1..gProcSize :
            ProcExist[i] => \E n \in ran \cup {Unknown} : FindProecss(procItems, n) = i

\* IfAnyProcessExit has reported every item behind exitIdx whose flag is down.
ReportedSoFar ==
    pc = "exit" \/ Said("END") # {} =>
        \A i \in 1..gProcSize :
            i < exitIdx /\ ~ProcExist[i] => \E k \in Said("notfound") : msgs[k].item = i

\* The invariant behind ExitReported, which says nothing before the END.
ExitInv ==
    /\ TypeOK
    /\ BeforeScan => ran = {} /\ msgs = << >>
    /\ NamesRemembered
    /\ FlagsHaveReason
    /\ ReportedSoFar
    /\ Said("END") # {} => pc = "sleep" /\ exitIdx > gProcSize

\* MsgFunc only appends: until the thread wakes, what was said stays said.
LEMMA MessagesKept ==
    ASSUME TypeOK, [Next]_vars, ~Wake
    PROVE  Len(msgs) <= Len(msgs') /\ \A k \in 1..Len(msgs) : msgs'[k] = msgs[k]
<1>1. msgs \in Seq(Message)
  BY DEF TypeOK
<1>2. ASSUME NEW e, msgs' = Append(msgs, e)
      PROVE  Len(msgs) <= Len(msgs') /\ \A k \in 1..Len(msgs) : msgs'[k] = msgs[k]
  BY <1>1, <1>2
<1>3. CASE msgs' = msgs
  BY <1>1, <1>3
<1>4. ASSUME NEW d \in Dialog, ThreadEnumFunc(d)
      PROVE  Len(msgs) <= Len(msgs') /\ \A k \in 1..Len(msgs) : msgs'[k] = msgs[k]
  <2> DEFINE item == procItems[param.nItem]
             s == IF d \in os[param.pid].hung /\ ~param.HungReported /\ item.hung
                  THEN <<HungMsg(param)>> ELSE << >>
             t == IF TitleMatches(item, TitleOf[d])
                  THEN <<DialogMsg(param, TitleOf[d])>> ELSE << >>
  <2>1. msgs' = msgs \o s \o t
    BY <1>4 DEF ThreadEnumFunc
  <2>2. s = << >> \/ s = <<HungMsg(param)>>
    OBVIOUS
  <2>3. t = << >> \/ t = <<DialogMsg(param, TitleOf[d])>>
    OBVIOUS
  <2> HIDE DEF s, t
  <2> QED
    BY <1>1, <2>1, <2>2, <2>3
<1>5. CASE ~\E d \in Dialog : ThreadEnumFunc(d)
  <2>1. msgs' = msgs \/ \E e : msgs' = Append(msgs, e)
    BY <1>5 DEF Next, Monitor, Check, Environment, ReadConfig, ReadConfigFails,
       BrowseProcesses, BrowseProcessesFails, GetProcessName, EnumThreadList,
       EnumThreadListFails, EnumThreadChildProc, ChildrenDone, ThreadsDone, ProcessesDone,
       IfAnyProcessExit, EndOfScan, StartProcess, ExitProcess, ChangeWindows,
       EditConfig, DismissMessageBox, vars, ghosts
  <2> QED
    BY <1>2, <1>3, <2>1
<1> QED
  BY <1>4, <1>5

\* Only EndOfScan says "END".
LEMMA EndSaid ==
    ASSUME TypeOK, [Next]_vars, ~EndOfScan
    PROVE  Said("END")' \subseteq Said("END")
<1>1. msgs \in Seq(Message)
  BY DEF TypeOK
<1>2. ASSUME NEW e, e.kind # "END", msgs' = Append(msgs, e)
      PROVE  Said("END")' \subseteq Said("END")
  BY <1>1, <1>2 DEF Said
<1>3. CASE msgs' = msgs \/ msgs' = << >>
  BY <1>1, <1>3 DEF Said
<1>4. ASSUME NEW d \in Dialog, ThreadEnumFunc(d)
      PROVE  Said("END")' \subseteq Said("END")
  <2> DEFINE item == procItems[param.nItem]
             s == IF d \in os[param.pid].hung /\ ~param.HungReported /\ item.hung
                  THEN <<HungMsg(param)>> ELSE << >>
             t == IF TitleMatches(item, TitleOf[d])
                  THEN <<DialogMsg(param, TitleOf[d])>> ELSE << >>
  <2>1. msgs' = msgs \o s \o t
    BY <1>4 DEF ThreadEnumFunc
  <2>2. s = << >> \/ s = <<HungMsg(param)>>
    OBVIOUS
  <2>3. t = << >> \/ t = <<DialogMsg(param, TitleOf[d])>>
    OBVIOUS
  <2>4. HungMsg(param).kind = "hung" /\ DialogMsg(param, TitleOf[d]).kind = "dialog"
    BY DEF HungMsg, DialogMsg, Msg
  <2> HIDE DEF s, t
  <2> QED
    BY <1>1, <2>1, <2>2, <2>3, <2>4 DEF Said
<1>5. ASSUME NEW t \in Text, EnumThreadChildProc(t)
      PROVE  Said("END")' \subseteq Said("END")
  <2>1. msgs' = msgs \/ msgs' = Append(msgs, DialogMsg(param, t))
    BY <1>5 DEF EnumThreadChildProc
  <2>2. DialogMsg(param, t).kind # "END"
    BY DEF DialogMsg, Msg
  <2> QED
    BY <1>2, <1>3, <2>1, <2>2
<1>6. CASE IfAnyProcessExit
  <2>1. msgs' = msgs \/ msgs' = Append(msgs, NotFoundMsg(exitIdx))
    BY <1>6 DEF IfAnyProcessExit
  <2>2. NotFoundMsg(exitIdx).kind # "END"
    BY DEF NotFoundMsg, Msg
  <2> QED
    BY <1>2, <1>3, <2>1, <2>2
<1>7. CASE /\ ~\E d \in Dialog : ThreadEnumFunc(d)
           /\ ~\E t \in Text : EnumThreadChildProc(t)
           /\ ~IfAnyProcessExit
  <2>1. msgs' = msgs \/ msgs' = << >>
    BY <1>7 DEF Next, Monitor, Check, Environment, ReadConfig, ReadConfigFails,
       BrowseProcesses, BrowseProcessesFails, GetProcessName, EnumThreadList,
       EnumThreadListFails, ChildrenDone, ThreadsDone, ProcessesDone, Wake,
       StartProcess, ExitProcess, ChangeWindows, EditConfig, DismissMessageBox, vars, ghosts
  <2> QED
    BY <1>3, <2>1
<1> QED
  BY <1>4, <1>5, <1>6, <1>7

\* A process that starts during the scan is remembered, and a live one keeps
\* the name it is remembered by.
LEMMA NamesStep ==
    ASSUME TypeOK, NamesRemembered, [Next]_vars
    PROVE  NamesRemembered'
<1> USE ConstantsAssumption
<1>1. os \in [PID -> Process \cup {NoProcess}] /\ Live \subseteq PID
  BY DEF TypeOK, Live
<1>2. CASE BrowseProcesses
  BY <1>1, <1>2 DEF BrowseProcesses, NamesRemembered, system, Live
<1>3. ASSUME NEW p \in PID, StartProcess(p) PROVE NamesRemembered'
  <2> SUFFICES ASSUME Scanning', NEW q \in Live' PROVE os'[q].name \in ran'
    BY DEF NamesRemembered
  <2>1. PICK n \in Name \ {Unknown}, a \in Access :
           /\ os' = [os EXCEPT ![p] = [name |-> n, access |-> a, dialogs |-> {}, hung |-> {}]]
           /\ ran' = IF pc \in {"next", "check", "window", "child", "exit"}
                     THEN ran \cup {n} ELSE ran
    BY <1>3 DEF StartProcess
  <2>2. Scanning /\ ran' = ran \cup {n} /\ q \in PID
    BY <1>3, <2>1 DEF StartProcess, Scanning, Live
  <2>3. CASE q = p
    BY <1>1, <2>1, <2>2, <2>3
  <2>4. CASE q # p
    BY <1>1, <2>1, <2>2, <2>4 DEF Live, NamesRemembered
  <2> QED
    BY <2>3, <2>4
<1>4. ASSUME NEW p \in PID, ExitProcess(p) PROVE NamesRemembered'
  BY <1>1, <1>4 DEF ExitProcess, NamesRemembered, Scanning, Live
<1>5. ASSUME NEW p \in PID, ChangeWindows(p) PROVE NamesRemembered'
  <2>1. PICK r \in Process : /\ os' = [os EXCEPT ![p] = r]
                             /\ r.name = os[p].name /\ r.access = os[p].access
    BY <1>5, ChangeWindowsEffect
  <2>2. Live' = Live /\ \A q \in Live : os'[q].name = os[q].name
    BY <1>1, <1>5, <2>1 DEF ChangeWindows, Live
  <2> QED
    BY <1>5, <2>2 DEF ChangeWindows, NamesRemembered, Scanning
<1>6. CASE /\ ~BrowseProcesses
           /\ ~\E p \in PID : StartProcess(p) \/ ExitProcess(p) \/ ChangeWindows(p)
  <2>1. os' = os /\ (Scanning' => Scanning /\ ran' = ran)
    BY <1>6 DEF Next, Monitor, Check, Environment, ReadConfig, ReadConfigFails,
       BrowseProcessesFails, GetProcessName, EnumThreadList, EnumThreadListFails,
       ThreadEnumFunc, EnumThreadChildProc, ChildrenDone, ThreadsDone, ProcessesDone,
       IfAnyProcessExit, EndOfScan, Wake, EditConfig, DismissMessageBox,
       vars, system, ghosts, Scanning
  <2> QED
    BY <2>1 DEF NamesRemembered, Live
<1> QED
  BY <1>2, <1>3, <1>4, <1>5, <1>6

\* A flag is raised for the name of the process that is met, which runs.
LEMMA ReasonStep ==
    ASSUME TypeOK, NamesRemembered, FlagsHaveReason, BeforeScan => ran = {}, [Next]_vars
    PROVE  FlagsHaveReason'
<1>1. /\ ProcExist \in [1..gProcSize -> BOOLEAN] /\ gProcSize \in Nat /\ Live \subseteq PID
      /\ os \in [PID -> Process \cup {NoProcess}]
  BY DEF TypeOK, Live
<1>2. CASE ReadConfig
  BY <1>2 DEF ReadConfig, FlagsHaveReason
<1>3. CASE Wake
  BY <1>3 DEF Wake, FlagsHaveReason
<1>4. ASSUME NEW p \in PID, GetProcessName(p) PROVE FlagsHaveReason'
  <2> DEFINE n == NameRead(p)
             nItem == FindProecss(procItems, n)
  <2>1. /\ pc = "next" /\ ran' = ran /\ fresh' = fresh
        /\ procItems' = procItems /\ gProcSize' = gProcSize
        /\ \/ nItem \in 1..gProcSize /\ ProcExist' = [ProcExist EXCEPT ![nItem] = TRUE]
           \/ ProcExist' = ProcExist
    BY <1>4 DEF GetProcessName, ghosts
  <2>2. n \in ran \cup {Unknown}
    BY <1>1, <2>1 DEF NameRead, NamesRemembered, Scanning
  <2> SUFFICES ASSUME fresh, NEW i \in 1..gProcSize, ProcExist'[i]
               PROVE  \E m \in ran \cup {Unknown} : FindProecss(procItems, m) = i
    BY <2>1 DEF FlagsHaveReason
  <2>3. i = nItem \/ ProcExist[i]
    BY <1>1, <2>1
  <2> HIDE DEF n
  <2> QED
    BY <2>1, <2>2, <2>3 DEF FlagsHaveReason
<1>5. CASE ~ReadConfig /\ ~Wake /\ ~\E p \in PID : GetProcessName(p)
  <2>1. UNCHANGED items
    BY <1>5 DEF Next, Monitor, Check, Environment, ReadConfigFails,
       BrowseProcesses, BrowseProcessesFails, EnumThreadList, EnumThreadListFails,
       ThreadEnumFunc, EnumThreadChildProc, ChildrenDone, ThreadsDone, ProcessesDone,
       IfAnyProcessExit, EndOfScan, StartProcess, ExitProcess, ChangeWindows,
       EditConfig, DismissMessageBox, vars
  <2>3. fresh' /\ pc' # "read" => fresh /\ pc # "read"
    BY <1>5 DEF Next, Monitor, Check, Environment, ReadConfigFails,
       BrowseProcesses, BrowseProcessesFails, EnumThreadList, EnumThreadListFails,
       ThreadEnumFunc, EnumThreadChildProc, ChildrenDone, ThreadsDone, ProcessesDone,
       IfAnyProcessExit, EndOfScan, StartProcess, ExitProcess, ChangeWindows,
       EditConfig, DismissMessageBox, vars, ghosts
  <2>2. ran \subseteq ran'
    <3>1. CASE BrowseProcesses
      BY <3>1 DEF BrowseProcesses, BeforeScan
    <3>2. ASSUME NEW p \in PID, StartProcess(p) PROVE ran \subseteq ran'
      BY <3>2 DEF StartProcess
    <3>3. CASE ~BrowseProcesses /\ ~\E p \in PID : StartProcess(p)
      BY <1>5, <3>3 DEF Next, Monitor, Check, Environment, ReadConfigFails,
         BrowseProcessesFails, EnumThreadList, EnumThreadListFails,
         ThreadEnumFunc, EnumThreadChildProc, ChildrenDone, ThreadsDone, ProcessesDone,
         IfAnyProcessExit, EndOfScan, ExitProcess, ChangeWindows,
         EditConfig, DismissMessageBox, vars, ghosts
    <3> QED
      BY <3>1, <3>2, <3>3
  <2> QED
    BY <2>1, <2>2, <2>3 DEF FlagsHaveReason, items
<1> QED
  BY <1>2, <1>3, <1>4, <1>5

\* IfAnyProcessExit passes an item whose flag is down only by reporting it.
LEMMA ReportedStep ==
    ASSUME ExitInv, [Next]_vars
    PROVE  /\ ReportedSoFar'
           /\ Said("END")' # {} => pc' = "sleep" /\ exitIdx' > gProcSize'
<1>1. TypeOK /\ msgs \in Seq(Message) /\ exitIdx \in Nat \ {0} /\ gProcSize \in Nat
  BY DEF ExitInv, TypeOK
<1>2. CASE Wake
  BY <1>2 DEF Wake, ReportedSoFar, Said
<1>3. ASSUME ~Wake
      PROVE  \A k \in Said("notfound") :
                k \in Said("notfound")' /\ msgs'[k].item = msgs[k].item
  <2>1. /\ Len(msgs) <= Len(msgs') /\ Len(msgs') \in Nat /\ Len(msgs) \in Nat
        /\ \A k \in 1..Len(msgs) : msgs'[k] = msgs[k]
    BY <1>1, <1>3, MessagesKept, TypeOKNext DEF TypeOK
  <2> QED
    BY <2>1 DEF Said
<1>4. CASE EndOfScan
  <2>1. pc = "exit" /\ pc' = "sleep" /\ exitIdx > gProcSize /\ UNCHANGED <<items, exitIdx>>
    BY <1>4 DEF EndOfScan
  <2>2. ~Wake
    BY <2>1 DEF Wake
  <2> QED
    BY <1>3, <2>1, <2>2 DEF ExitInv, ReportedSoFar, items
<1>5. CASE IfAnyProcessExit
  <2>1. /\ pc = "exit" /\ pc' = "exit" /\ exitIdx' = exitIdx + 1 /\ UNCHANGED items
        /\ \/ ProcExist[exitIdx]
           \/ msgs' = Append(msgs, NotFoundMsg(exitIdx))
        /\ ~Wake /\ ~EndOfScan /\ exitIdx <= gProcSize
    BY <1>5 DEF IfAnyProcessExit, Wake, EndOfScan
  <2>2. Said("END")' = {}
    BY <1>1, <2>1, EndSaid DEF ExitInv
  <2>3. ASSUME NEW i \in 1..gProcSize, i < exitIdx', ~ProcExist[i]
        PROVE  \E k \in Said("notfound")' : msgs'[k].item = i
    <3>1. CASE i = exitIdx
      <4>1. msgs' = Append(msgs, NotFoundMsg(i))
        BY <2>1, <2>3, <3>1
      <4>2. NotFoundMsg(i).item = i /\ NotFoundMsg(i).kind = "notfound"
        BY DEF NotFoundMsg, Msg
      <4>3. Len(msgs) + 1 \in Said("notfound")' /\ msgs'[Len(msgs) + 1].item = i
        BY <1>1, <4>1, <4>2 DEF Said
      <4> QED
        BY <4>3
    <3>2. CASE i # exitIdx
      <4>1. i < exitIdx
        BY <1>1, <2>1, <2>3, <3>2
      <4>2. \E k \in Said("notfound") : msgs[k].item = i
        BY <2>1, <2>3, <4>1 DEF ExitInv, ReportedSoFar
      <4> QED
        BY <1>3, <2>1, <4>2
    <3> QED
      BY <3>1, <3>2
  <2> QED
    BY <2>1, <2>2, <2>3 DEF ReportedSoFar, items
<1>6. CASE ProcessesDone
  <2>1. exitIdx' = 1 /\ pc = "next" /\ ~EndOfScan /\ UNCHANGED items
    BY <1>6 DEF ProcessesDone, EndOfScan
  <2>2. Said("END")' = {}
    BY <1>1, <2>1, EndSaid DEF ExitInv
  <2> QED
    BY <1>1, <2>1, <2>2 DEF ReportedSoFar, items
<1>7. CASE ReadConfig \/ \E p \in PID : GetProcessName(p)
  <2>1. pc \in {"read", "next"} /\ pc' # "exit" /\ ~EndOfScan
    BY <1>7 DEF ReadConfig, GetProcessName, EndOfScan
  <2>2. Said("END")' = {}
    BY <1>1, <2>1, EndSaid DEF ExitInv
  <2> QED
    BY <2>1, <2>2 DEF ReportedSoFar
<1>8. CASE /\ ~Wake /\ ~EndOfScan /\ ~IfAnyProcessExit /\ ~ProcessesDone
           /\ ~ReadConfig /\ ~\E p \in PID : GetProcessName(p)
  <2>1. /\ UNCHANGED <<items, exitIdx>> /\ (pc' = "exit" => pc = "exit")
        /\ pc = "sleep" => pc' = "sleep"
    BY <1>8 DEF Next, Monitor, Check, Environment, ReadConfigFails,
       BrowseProcesses, BrowseProcessesFails, EnumThreadList, EnumThreadListFails,
       ThreadEnumFunc, EnumThreadChildProc, ChildrenDone, ThreadsDone,
       StartProcess, ExitProcess, ChangeWindows, EditConfig, DismissMessageBox, vars
  <2>2. Said("END")' \subseteq Said("END")
    BY <1>1, <1>8, EndSaid
  <2> QED
    BY <1>3, <1>8, <2>1, <2>2 DEF ExitInv, ReportedSoFar, items
<1> QED
  BY <1>2, <1>4, <1>5, <1>6, <1>7, <1>8

LEMMA ExitInvInit == Init => ExitInv
BY TypeOKInit DEF Init, ExitInv, BeforeScan, NamesRemembered, Scanning, FlagsHaveReason,
   ReportedSoFar, Said

LEMMA ExitInvNext == ExitInv /\ [Next]_vars => ExitInv'
<1> SUFFICES ASSUME ExitInv, [Next]_vars PROVE ExitInv'
  OBVIOUS
<1>1. TypeOK' /\ NamesRemembered' /\ FlagsHaveReason'
  BY TypeOKNext, NamesStep, ReasonStep DEF ExitInv
<1>2. (BeforeScan => ran = {} /\ msgs = << >>)'
  <2>1. CASE Wake
    BY <2>1 DEF Wake
  <2>2. CASE ~Wake
    <3>1. BeforeScan' => BeforeScan /\ ran' = ran /\ msgs' = msgs
      BY <2>2 DEF Next, Monitor, Check, Environment, ReadConfig, ReadConfigFails,
         BrowseProcesses, BrowseProcessesFails, GetProcessName, EnumThreadList,
         EnumThreadListFails, ThreadEnumFunc, EnumThreadChildProc, ChildrenDone,
         ThreadsDone, ProcessesDone, IfAnyProcessExit, EndOfScan, StartProcess,
         ExitProcess, ChangeWindows, EditConfig, DismissMessageBox, vars, BeforeScan, ghosts
    <3> QED
      BY <3>1 DEF ExitInv
  <2> QED
    BY <2>1, <2>2
<1> QED
  BY <1>1, <1>2, ReportedStep DEF ExitInv

\* A complete scan of a configuration that could be read says "process not
\* found" of every item nothing belonged to at any moment of it, however many
\* items, processes and scans there are.
THEOREM NothingForgotten == Spec => []ExitReported
<1>1. ExitInv => ExitReported
  <2> SUFFICES ASSUME ExitInv, fresh, Said("END") # {}, NEW i \in 1..gProcSize,
                      \A n \in ran \cup {Unknown} : FindProecss(procItems, n) # i
               PROVE  \E k \in Said("notfound") : msgs[k].item = i
    BY DEF ExitReported
  <2>1. pc = "sleep" /\ i < exitIdx
    BY DEF ExitInv, TypeOK
  <2>2. ~ProcExist[i]
    BY <2>1 DEF ExitInv, FlagsHaveReason
  <2> QED
    BY <2>1, <2>2 DEF ExitInv, ReportedSoFar
<1> QED
  BY <1>1, ExitInvInit, ExitInvNext, PTL DEF Spec
-----------------------------------------------------------------------------
(* Every abnormal window of a steady process is reported exactly once.     *)

\* What a sequence of messages says of a process.
HungIn(ms, p) == \E k \in 1..Len(ms) : ms[k].kind = "hung" /\ ms[k].pid = p

DialogsIn(ms, p, t) ==
    {k \in 1..Len(ms) : ms[k].kind = "dialog" /\ ms[k].pid = p /\ ms[k].text = t}

DialogCount(ms, p, t) == Cardinality(DialogsIn(ms, p, t))

\* The processes SteadyWindowsReported speaks about, and their item.
ItemOf(p) == procItems[FindProecss(procItems, os[p].name)]

Steady(p) ==
    p \in unchanged /\ os[p].access = "full" /\ FindProecss(procItems, os[p].name) # 0

\* The windows among ds that item it has reported with text t: for their own
\* caption, and for a child's.
Tops(it, ds, t) == {d \in ds : TitleMatches(it, TitleOf[d]) /\ TitleOf[d] = t}

WithKid(it, ds, t) ==
    {d \in ds : /\ ~TitleMatches(it, TitleOf[d])
                /\ t \in KidsOf[d] /\ ContentMatches(it, t)}

TopCount(it, ds, t) == Cardinality(Tops(it, ds, t))
KidCount(it, ds, t) == Cardinality(WithKid(it, ds, t))

\* The messages about p, whose item is it, are those of its windows ds, but
\* for the children "left" of the window "last", still to be enumerated.
Reported(ms, p, it, hung, ds, last, left) ==
    /\ HungIn(ms, p) <=> it.hung /\ hung \cap ds # {}
    /\ \A t \in Text :
          DialogCount(ms, p, t) =
             TopCount(it, ds, t) + KidCount(it, IF t \in left THEN ds \ last ELSE ds, t)

\* The process that is being looked at.
UnderCheck(p) == Checking /\ param.pid = p

\* What CallbackParam and the lists say of the window last enumerated.
CallbackInv ==
    /\ pc \notin {"window", "child"} => seen = {}
    /\ pc # "child" => kids = {}
    /\ Checking => param.pid \notin aProcesses
    /\ IsFiniteSet(seen)
    /\ pc = "child" =>
          \E d \in seen : /\ param.dlg = {d} /\ kids \subseteq KidsOf[d]
                          /\ param.WinReported
                                <=> TitleMatches(procItems[param.nItem], TitleOf[d])

\* A steady process whose turn is to come has not been spoken of; of the one
\* under check, the windows seen have been reported; of the others, all.
WaitingInv  == \A p \in PID : Steady(p) /\ p \in aProcesses =>
                  ~HungIn(msgs, p) /\ \A t \in Text : DialogCount(msgs, p, t) = 0
CheckedInv  == \A p \in PID : Steady(p) /\ UnderCheck(p) =>
                  /\ param.nItem = FindProecss(procItems, os[p].name)
                  /\ pc # "check" => listed = os[p].dialogs
                  /\ seen \subseteq os[p].dialogs
                  /\ param.HungReported <=> HungIn(msgs, p)
                  /\ Reported(msgs, p, ItemOf(p), os[p].hung, seen, param.dlg, kids)
FinishedInv == \A p \in PID : Steady(p) /\ p \notin aProcesses /\ ~UnderCheck(p) =>
                  Reported(msgs, p, ItemOf(p), os[p].hung, os[p].dialogs, {}, {})

\* The invariant behind SteadyWindowsReported, which speaks of the end of the
\* scan only.  NotFoundInv is part of it: steady processes are running ones,
\* and there are none before the scan.
WindowsInv ==
    /\ NotFoundInv
    /\ Said("END") # {} => pc = "sleep" /\ aProcesses = {}
    /\ \A p \in Live : os[p].hung \subseteq os[p].dialogs
    /\ CallbackInv
    /\ WaitingInv
    /\ CheckedInv
    /\ FinishedInv

\* What one more message changes.
LEMMA SaidAppend ==
    ASSUME NEW ms \in Seq(Message), NEW e \in Message, NEW p, NEW t
    PROVE  /\ HungIn(Append(ms, e), p) <=> HungIn(ms, p) \/ (e.kind = "hung" /\ e.pid = p)
           /\ e.kind = "dialog" /\ e.pid = p /\ e.text = t =>
                 DialogCount(Append(ms, e), p, t) = DialogCount(ms, p, t) + 1
           /\ ~(e.kind = "dialog" /\ e.pid = p /\ e.text = t) =>
                 DialogCount(Append(ms, e), p, t) = DialogCount(ms, p, t)
<1> DEFINE more == Append(ms, e)
<1>1. /\ Len(ms) \in Nat /\ Len(more) = Len(ms) + 1 /\ more[Len(ms) + 1] = e
      /\ \A k \in 1..Len(ms) : more[k] = ms[k]
  OBVIOUS
<1>2. IsFiniteSet(DialogsIn(ms, p, t))
  <2>1. IsFiniteSet(1..Len(ms))
    BY <1>1, FS_Interval
  <2> QED
    BY <2>1, FS_Subset DEF DialogsIn
<1> HIDE DEF more
<1>3. HungIn(more, p) <=> HungIn(ms, p) \/ (e.kind = "hung" /\ e.pid = p)
  BY <1>1 DEF HungIn
<1>4. ASSUME e.kind = "dialog" /\ e.pid = p /\ e.text = t
      PROVE  DialogCount(more, p, t) = DialogCount(ms, p, t) + 1
  <2>1. DialogsIn(more, p, t) = DialogsIn(ms, p, t) \cup {Len(ms) + 1}
    BY <1>1, <1>4 DEF DialogsIn
  <2>2. Len(ms) + 1 \notin DialogsIn(ms, p, t)
    BY <1>1 DEF DialogsIn
  <2> QED
    BY <1>2, <2>1, <2>2, FS_AddElement DEF DialogCount
<1>5. ASSUME ~(e.kind = "dialog" /\ e.pid = p /\ e.text = t)
      PROVE  DialogCount(more, p, t) = DialogCount(ms, p, t)
  <2>1. DialogsIn(more, p, t) = DialogsIn(ms, p, t)
    BY <1>1, <1>5 DEF DialogsIn
  <2> QED
    BY <2>1 DEF DialogCount
<1> QED
  BY <1>3, <1>4, <1>5 DEF more

\* Messages about other processes do not count.
LEMMA ReportedSame ==
    ASSUME NEW ms, NEW more, NEW p, NEW it, NEW hung, NEW ds, NEW last, NEW left,
           HungIn(more, p) <=> HungIn(ms, p),
           \A t \in Text : DialogCount(more, p, t) = DialogCount(ms, p, t)
    PROVE  Reported(more, p, it, hung, ds, last, left)
              <=> Reported(ms, p, it, hung, ds, last, left)
BY DEF Reported

\* A process that counts as unchanged is the one it was.
LEMMA SteadyKept ==
    ASSUME NotFoundInv, [Next]_vars, ~BrowseProcesses, NEW p \in PID, Steady(p)'
    PROVE  Steady(p) /\ os'[p] = os[p] /\ UNCHANGED <<procItems, gProcSize>>
<1>1. /\ running \subseteq Live /\ unchanged \subseteq running
      /\ os \in [PID -> Process \cup {NoProcess}]
      /\ BeforeScan => running = {}
  BY DEF NotFoundInv, TypeOK
<1>2. p \in unchanged'
  BY DEF Steady
<1>3. p \in unchanged /\ os'[p] = os[p]
  <2>1. ASSUME NEW q \in PID, StartProcess(q) PROVE p \in unchanged /\ os'[p] = os[p]
    BY <1>1, <1>2, <2>1 DEF StartProcess, Live
  <2>2. ASSUME NEW q \in PID, ExitProcess(q) PROVE p \in unchanged /\ os'[p] = os[p]
    BY <1>1, <1>2, <2>2 DEF ExitProcess
  <2>3. ASSUME NEW q \in PID, ChangeWindows(q) PROVE p \in unchanged /\ os'[p] = os[p]
    <3>1. q # p /\ \E r : os' = [os EXCEPT ![q] = r]
      BY <1>2, <2>3, ChangeWindowsEffect DEF ChangeWindows, NotFoundInv
    <3> QED
      BY <1>1, <1>2, <2>3, <3>1 DEF ChangeWindows
  <2>4. CASE ~\E q \in PID : StartProcess(q) \/ ExitProcess(q) \/ ChangeWindows(q)
    BY <1>2, <2>4 DEF Next, Monitor, Check, Environment, ReadConfig, ReadConfigFails,
       BrowseProcessesFails, GetProcessName, EnumThreadList, EnumThreadListFails,
       ThreadEnumFunc, EnumThreadChildProc, ChildrenDone, ThreadsDone, ProcessesDone,
       IfAnyProcessExit, EndOfScan, Wake, EditConfig, DismissMessageBox,
       vars, system, ghosts
  <2> QED
    BY <2>1, <2>2, <2>3, <2>4
<1>4. ~ReadConfig
  BY <1>1, <1>3 DEF ReadConfig, BeforeScan
<1>5. UNCHANGED <<procItems, gProcSize>>
  BY <1>4 DEF Next, Monitor, Check, Environment, ReadConfigFails,
     BrowseProcesses, BrowseProcessesFails, GetProcessName, EnumThreadList,
     EnumThreadListFails, ThreadEnumFunc, EnumThreadChildProc, ChildrenDone, ThreadsDone,
     ProcessesDone, IfAnyProcessExit, EndOfScan, Wake, StartProcess, ExitProcess,
     ChangeWindows, EditConfig, DismissMessageBox, vars, items
<1> QED
  BY <1>3, <1>5 DEF Steady

LEMMA EnumMessages ==
    ASSUME TypeOK, NEW d \in Dialog, ThreadEnumFunc(d)
    PROVE  LET hung  == /\ d \in os[param.pid].hung /\ ~param.HungReported
                        /\ procItems[param.nItem].hung
               match == TitleMatches(procItems[param.nItem], TitleOf[d])
               one   == IF hung THEN Append(msgs, HungMsg(param)) ELSE msgs
           IN  /\ one \in Seq(Message) /\ HungMsg(param) \in Message
               /\ DialogMsg(param, TitleOf[d]) \in Message
               /\ msgs' = IF match THEN Append(one, DialogMsg(param, TitleOf[d])) ELSE one
<1> DEFINE hung  == /\ d \in os[param.pid].hung /\ ~param.HungReported
                    /\ procItems[param.nItem].hung
           match == TitleMatches(procItems[param.nItem], TitleOf[d])
           h     == HungMsg(param)
           m     == DialogMsg(param, TitleOf[d])
           one   == IF hung THEN Append(msgs, h) ELSE msgs
<1>1. msgs \in Seq(Message) /\ h \in Message /\ m \in Message
  <2>1. /\ param.pid \in PID /\ param.nItem \in Nat /\ param.ProcName \in Name
        /\ TitleOf[d] \in Text
    BY ConstantsAssumption DEF ThreadEnumFunc, TypeOK, Checking, Param
  <2> QED
    BY <2>1, MsgType DEF HungMsg, DialogMsg, TypeOK
<1>2. msgs' = msgs \o (IF hung THEN <<h>> ELSE << >>) \o (IF match THEN <<m>> ELSE << >>)
  BY DEF ThreadEnumFunc
<1> HIDE DEF hung, match, h, m
<1>3. one \in Seq(Message)
  BY <1>1
<1>4. msgs \o (IF hung THEN <<h>> ELSE << >>) = one
  BY <1>1
<1>5. msgs' = IF match THEN Append(one, m) ELSE one
  <2>1. msgs' = one \o (IF match THEN <<m>> ELSE << >>)
    BY <1>2, <1>4
  <2> HIDE DEF one
  <2>2. CASE match
    <3>1. msgs' = one \o <<m>>
      BY <2>1, <2>2
    <3> QED
      BY <1>1, <1>3, <2>2, <3>1
  <2>3. CASE ~match
    <3>1. msgs' = one \o << >>
      BY <2>1, <2>3
    <3> QED
      BY <1>3, <2>3, <3>1
  <2> QED
    BY <2>2, <2>3
<1> QED
  BY <1>1, <1>3, <1>5 DEF hung, match, h, m

\* Nothing is said of the windows of a process that is not under check, nor
\* of the one that is but by its window callbacks.
LEMMA OthersSilent ==
    ASSUME TypeOK, [Next]_vars, ~Wake, NEW p \in PID,
           UnderCheck(p) => /\ ~\E d \in Dialog : ThreadEnumFunc(d)
                            /\ ~\E t \in Text : EnumThreadChildProc(t)
    PROVE  /\ HungIn(msgs', p) <=> HungIn(msgs, p)
           /\ \A t \in Text : DialogCount(msgs', p, t) = DialogCount(msgs, p, t)
<1> DEFINE Silent(ms) == /\ HungIn(ms, p) <=> HungIn(msgs, p)
                         /\ \A t \in Text : DialogCount(ms, p, t) = DialogCount(msgs, p, t)
<1>1. TypeOK' /\ msgs \in Seq(Message)
  BY TypeOKNext DEF TypeOK
<1>2. ASSUME NEW ms \in Seq(Message), NEW e \in Message,
             e.pid # p \/ e.kind \notin {"hung", "dialog"}, Silent(ms)
      PROVE  Silent(Append(ms, e))
  BY <1>2, SaidAppend
<1>3. Silent(msgs)
  OBVIOUS
<1> SUFFICES Silent(msgs')
  OBVIOUS
<1>4. CASE msgs' = msgs
  BY <1>3, <1>4
<1> HIDE DEF Silent
<1>5. ASSUME NEW d \in Dialog, ThreadEnumFunc(d) PROVE Silent(msgs')
  <2>1. param.pid # p
    BY <1>5 DEF UnderCheck, Checking, ThreadEnumFunc
  <2> DEFINE hung  == /\ d \in os[param.pid].hung /\ ~param.HungReported
                      /\ procItems[param.nItem].hung
             match == TitleMatches(procItems[param.nItem], TitleOf[d])
             one   == IF hung THEN Append(msgs, HungMsg(param)) ELSE msgs
  <2>2. /\ one \in Seq(Message) /\ HungMsg(param) \in Message
        /\ DialogMsg(param, TitleOf[d]) \in Message
        /\ msgs' = IF match THEN Append(one, DialogMsg(param, TitleOf[d])) ELSE one
    BY <1>5, EnumMessages
  <2>3. HungMsg(param).pid # p /\ DialogMsg(param, TitleOf[d]).pid # p
    BY <2>1 DEF HungMsg, DialogMsg, Msg
  <2> HIDE DEF hung, match
  <2>4. Silent(one)
    BY <1>1, <1>2, <1>3, <2>2, <2>3
  <2> HIDE DEF one
  <2> QED
    BY <1>2, <2>2, <2>3, <2>4
<1>6. ASSUME NEW t \in Text, EnumThreadChildProc(t) PROVE Silent(msgs')
  <2>1. param.pid # p /\ param \in Param /\ param.pid \in PID
    BY <1>6 DEF UnderCheck, Checking, EnumThreadChildProc, TypeOK
  <2>2. DialogMsg(param, t) \in Message /\ DialogMsg(param, t).pid # p
    BY <2>1, MsgType DEF DialogMsg, Msg, Param
  <2> QED
    BY <1>1, <1>2, <1>3, <1>4, <1>6, <2>2 DEF EnumThreadChildProc
<1>7. CASE IfAnyProcessExit
  <2>1. CASE msgs' = Append(msgs, NotFoundMsg(exitIdx))
    <3>1. exitIdx \in 1..Len(procItems) /\ procItems \in Seq(ProcessItem)
      BY <1>7 DEF IfAnyProcessExit, TypeOK
    <3>2. procItems[exitIdx].name \in Name /\ exitIdx \in Nat
      <4>1. procItems[exitIdx] \in ProcessItem /\ exitIdx \in Nat
        BY <3>1
      <4> QED
        BY <4>1 DEF ProcessItem
    <3>3. NotFoundMsg(exitIdx) \in Message /\ NotFoundMsg(exitIdx).kind = "notfound"
      BY <3>2, MsgType DEF NotFoundMsg, Msg
    <3> QED
      BY <1>1, <1>2, <1>3, <2>1, <3>3
  <2> QED
    BY <1>4, <1>7, <2>1 DEF IfAnyProcessExit
<1>8. CASE EndOfScan
  <2>1. EndMsg \in Message /\ EndMsg.kind = "END"
    BY ConstantsAssumption, MsgType DEF EndMsg, Msg
  <2> QED
    BY <1>1, <1>2, <1>3, <1>8, <2>1 DEF EndOfScan
<1>9. CASE /\ ~\E d \in Dialog : ThreadEnumFunc(d)
           /\ ~\E t \in Text : EnumThreadChildProc(t)
           /\ ~IfAnyProcessExit /\ ~EndOfScan
  <2>1. msgs' = msgs
    BY <1>9 DEF Next, Monitor, Check, Environment, ReadConfig, ReadConfigFails,
       BrowseProcesses, BrowseProcessesFails, GetProcessName, EnumThreadList,
       EnumThreadListFails, ChildrenDone, ThreadsDone, ProcessesDone,
       StartProcess, ExitProcess, ChangeWindows, EditConfig, DismissMessageBox, vars, ghosts
  <2> QED
    BY <1>4, <2>1
<1> QED
  BY <1>5, <1>6, <1>7, <1>8, <1>9

\* What GetProcessName leaves behind when the process belongs to an item, and
\* when it does not.
LEMMA NameEffect ==
    ASSUME TypeOK, NEW q \in PID, GetProcessName(q)
    PROVE  LET nItem == FindProecss(procItems, NameRead(q))
           IN  /\ pc = "next" /\ q \in aProcesses /\ aProcesses' = aProcesses \ {q}
               /\ UNCHANGED <<os, procItems, gProcSize, listed, seen, kids, msgs, unchanged>>
               /\ nItem \in 1..gProcSize =>
                     /\ pc' = "check" /\ param'.pid = q /\ param'.nItem = nItem
                     /\ param'.HungReported = FALSE
               /\ nItem \notin 1..gProcSize => pc' = "next"
<1> DEFINE n     == NameRead(q)
           nItem == FindProecss(procItems, n)
<1>1. CASE nItem \in 1..gProcSize
  <2>1. param' = [NoParam EXCEPT !.pid = q, !.nItem = nItem, !.ProcName = n] /\ pc' = "check"
    BY <1>1 DEF GetProcessName
  <2> HIDE DEF nItem, n
  <2>2. param'.pid = q /\ param'.nItem = nItem /\ param'.HungReported = FALSE
    BY <2>1 DEF NoParam
  <2>3. /\ pc = "next" /\ q \in aProcesses /\ aProcesses' = aProcesses \ {q}
        /\ UNCHANGED <<os, procItems, gProcSize, listed, seen, kids, msgs, unchanged>>
    BY DEF GetProcessName, system, ghosts
  <2> QED
    BY <1>1, <2>1, <2>2, <2>3 DEF nItem, n
<1>2. CASE nItem \notin 1..gProcSize
  BY <1>2 DEF GetProcessName, system, ghosts
<1> QED
  BY <1>1, <1>2

\* And ThreadEnumFunc of CallbackParam.
LEMMA EnumParam ==
    ASSUME TypeOK, NEW d \in Dialog, ThreadEnumFunc(d)
    PROVE  /\ param'.pid = param.pid /\ param'.nItem = param.nItem /\ param'.dlg = {d}
           /\ param'.WinReported <=> TitleMatches(procItems[param.nItem], TitleOf[d])
           /\ param'.HungReported <=>
                 \/ param.HungReported
                 \/ d \in os[param.pid].hung /\ procItems[param.nItem].hung
<1> DEFINE hung  == d \in os[param.pid].hung /\ ~param.HungReported /\ procItems[param.nItem].hung
           match == TitleMatches(procItems[param.nItem], TitleOf[d])
           more  == param.HungReported \/ hung
<1>1. param' = [param EXCEPT !.HungReported = more, !.WinReported = match, !.dlg = {d}]
  BY DEF ThreadEnumFunc, TypeOK, Param
<1>2. param \in Param
  BY DEF TypeOK
<1> HIDE DEF match, more
<1>3. /\ param'.pid = param.pid /\ param'.nItem = param.nItem /\ param'.dlg = {d}
      /\ param'.WinReported = match /\ param'.HungReported = more
  BY <1>1, <1>2 DEF Param
<1> QED
  BY <1>3 DEF match, more

LEMMA CallbackStep ==
    ASSUME TypeOK, CallbackInv, [Next]_vars
    PROVE  CallbackInv'
<1>1. CASE BrowseProcesses \/ ReadConfig \/ ReadConfigFails \/ BrowseProcessesFails
           \/ ProcessesDone \/ IfAnyProcessExit \/ EndOfScan \/ Wake
  <2>1. pc' \notin {"window", "child", "check"} /\ pc \notin {"window", "child", "check"}
        /\ seen' = seen /\ kids' = kids
    BY <1>1 DEF BrowseProcesses, ReadConfig, ReadConfigFails, BrowseProcessesFails,
       ProcessesDone, IfAnyProcessExit, EndOfScan, Wake, windows
  <2> QED
    BY <2>1 DEF CallbackInv, Checking
<1>2. ASSUME NEW q \in PID, GetProcessName(q) PROVE CallbackInv'
  <2>1. /\ pc = "next" /\ aProcesses' = aProcesses \ {q} /\ UNCHANGED <<seen, kids>>
        /\ (pc' = "check" /\ param'.pid = q) \/ pc' = "next"
    BY <1>2, NameEffect
  <2> QED
    BY <2>1 DEF CallbackInv, Checking
<1>3. CASE EnumThreadList \/ EnumThreadListFails \/ ChildrenDone
  BY <1>3 DEF EnumThreadList, EnumThreadListFails, ChildrenDone, CallbackInv, Checking
<1>4. CASE ThreadsDone
  BY <1>4, FS_EmptySet DEF ThreadsDone, CallbackInv, Checking
<1>5. ASSUME NEW d \in Dialog, ThreadEnumFunc(d) PROVE CallbackInv'
  <2>1. /\ pc = "window" /\ pc' = "child" /\ seen' = seen \cup {d} /\ kids' = KidsOf[d]
        /\ aProcesses' = aProcesses /\ procItems' = procItems
    BY <1>5 DEF ThreadEnumFunc, items
  <2>2. /\ param'.pid = param.pid /\ param'.nItem = param.nItem /\ param'.dlg = {d}
        /\ param'.WinReported <=> TitleMatches(procItems[param.nItem], TitleOf[d])
    BY <1>5, EnumParam
  <2>3. IsFiniteSet(seen')
    BY <2>1, FS_AddElement DEF CallbackInv
  <2> QED
    BY <2>1, <2>2, <2>3 DEF CallbackInv, Checking
<1>6. ASSUME NEW t \in Text, EnumThreadChildProc(t) PROVE CallbackInv'
  BY <1>6 DEF EnumThreadChildProc, CallbackInv, Checking, items
<1>7. CASE Environment \/ UNCHANGED vars
  <2>1. UNCHANGED <<procItems, aProcesses, param, seen, kids>>
        /\ (pc' = pc \/ (pc = "msgbox" /\ pc' = "enum"))
    BY <1>7 DEF Environment, StartProcess, ExitProcess, ChangeWindows, EditConfig,
       DismissMessageBox, vars, windows, items
  <2> QED
    BY <2>1 DEF CallbackInv, Checking
<1> QED
  BY <1>1, <1>2, <1>3, <1>4, <1>5, <1>6, <1>7 DEF Next, Monitor, Check

\* A process whose turn is to come has not been spoken of.
LEMMA WaitingStep ==
    ASSUME WindowsInv, [Next]_vars
    PROVE  WaitingInv'
<1> SUFFICES ASSUME NEW p \in PID, Steady(p)', p \in aProcesses'
             PROVE  ~HungIn(msgs', p) /\ \A t \in Text : DialogCount(msgs', p, t) = 0
  BY DEF WaitingInv
<1>1. TypeOK /\ NotFoundInv
  BY DEF WindowsInv, NotFoundInv
<1>2. CASE BrowseProcesses \/ Wake
  <2>1. msgs' = << >>
    BY <1>2, <1>1 DEF BrowseProcesses, Wake, NotFoundInv, BeforeScan
  <2> QED
    BY <2>1, FS_EmptySet DEF HungIn, DialogsIn, DialogCount
<1>3. CASE ~BrowseProcesses /\ ~Wake
  <2>1. Steady(p)
    BY <1>1, <1>3, SteadyKept
  <2>2. aProcesses' \subseteq aProcesses
    BY <1>3 DEF Next, Monitor, Check, Environment, ReadConfig, ReadConfigFails,
       BrowseProcessesFails, GetProcessName, EnumThreadList, EnumThreadListFails,
       ThreadEnumFunc, EnumThreadChildProc, ChildrenDone, ThreadsDone, ProcessesDone,
       IfAnyProcessExit, EndOfScan, StartProcess, ExitProcess, ChangeWindows,
       EditConfig, DismissMessageBox, vars
  <2>3. ~UnderCheck(p)
    BY <2>2 DEF UnderCheck, WindowsInv, CallbackInv
  <2> QED
    BY <1>1, <1>3, <2>1, <2>2, <2>3, OthersSilent DEF WindowsInv, WaitingInv
<1> QED
  BY <1>2, <1>3

\* One window more: its caption counts at once, its children do not yet.
LEMMA WindowCounted ==
    ASSUME NEW it, NEW ds, IsFiniteSet(ds), NEW d, d \notin ds, NEW t
    PROVE  /\ TitleMatches(it, TitleOf[d]) /\ TitleOf[d] = t =>
                 TopCount(it, ds \cup {d}, t) = TopCount(it, ds, t) + 1
           /\ ~(TitleMatches(it, TitleOf[d]) /\ TitleOf[d] = t) =>
                 TopCount(it, ds \cup {d}, t) = TopCount(it, ds, t)
           /\ KidCount(it, IF t \in KidsOf[d] THEN (ds \cup {d}) \ {d} ELSE ds \cup {d}, t)
                 = KidCount(it, ds, t)
           /\ TopCount(it, ds, t) \in Nat /\ KidCount(it, ds, t) \in Nat
<1>1. IsFiniteSet(Tops(it, ds, t)) /\ IsFiniteSet(WithKid(it, ds, t))
  BY FS_Subset DEF Tops, WithKid
<1>2. ASSUME TitleMatches(it, TitleOf[d]), TitleOf[d] = t
      PROVE  TopCount(it, ds \cup {d}, t) = TopCount(it, ds, t) + 1
  <2>1. Tops(it, ds \cup {d}, t) = Tops(it, ds, t) \cup {d} /\ d \notin Tops(it, ds, t)
    BY <1>2 DEF Tops
  <2> QED
    BY <1>1, <2>1, FS_AddElement DEF TopCount
<1>3. ASSUME ~(TitleMatches(it, TitleOf[d]) /\ TitleOf[d] = t)
      PROVE  TopCount(it, ds \cup {d}, t) = TopCount(it, ds, t)
  <2>1. Tops(it, ds \cup {d}, t) = Tops(it, ds, t)
    BY <1>3 DEF Tops
  <2> QED
    BY <2>1 DEF TopCount
<1>4. KidCount(it, IF t \in KidsOf[d] THEN (ds \cup {d}) \ {d} ELSE ds \cup {d}, t)
         = KidCount(it, ds, t)
  <2>1. CASE t \in KidsOf[d]
    <3>1. (ds \cup {d}) \ {d} = ds
      OBVIOUS
    <3> QED
      BY <2>1, <3>1
  <2>2. CASE t \notin KidsOf[d]
    <3>1. WithKid(it, ds \cup {d}, t) = WithKid(it, ds, t)
      BY <2>2 DEF WithKid
    <3> QED
      BY <2>2, <3>1 DEF KidCount
  <2> QED
    BY <2>1, <2>2
<1>5. TopCount(it, ds, t) \in Nat /\ KidCount(it, ds, t) \in Nat
  BY <1>1, FS_CardinalityType DEF TopCount, KidCount
<1> QED
  BY <1>2, <1>3, <1>4, <1>5

\* One child more of a window that was counted without it.
LEMMA KidCounted ==
    ASSUME NEW it, NEW ds, IsFiniteSet(ds), NEW d \in ds, NEW t \in KidsOf[d]
    PROVE  /\ ContentMatches(it, t) /\ ~TitleMatches(it, TitleOf[d]) =>
                 KidCount(it, ds, t) = KidCount(it, ds \ {d}, t) + 1
           /\ ~(ContentMatches(it, t) /\ ~TitleMatches(it, TitleOf[d])) =>
                 KidCount(it, ds, t) = KidCount(it, ds \ {d}, t)
           /\ KidCount(it, ds \ {d}, t) \in Nat /\ TopCount(it, ds, t) \in Nat
<1>1. IsFiniteSet(WithKid(it, ds \ {d}, t)) /\ IsFiniteSet(Tops(it, ds, t))
  BY FS_Subset DEF WithKid, Tops
<1>2. ASSUME ContentMatches(it, t), ~TitleMatches(it, TitleOf[d])
      PROVE  KidCount(it, ds, t) = KidCount(it, ds \ {d}, t) + 1
  <2>1. /\ WithKid(it, ds, t) = WithKid(it, ds \ {d}, t) \cup {d}
        /\ d \notin WithKid(it, ds \ {d}, t)
    BY <1>2 DEF WithKid
  <2> QED
    BY <1>1, <2>1, FS_AddElement DEF KidCount
<1>3. ASSUME ~(ContentMatches(it, t) /\ ~TitleMatches(it, TitleOf[d]))
      PROVE  KidCount(it, ds, t) = KidCount(it, ds \ {d}, t)
  <2>1. WithKid(it, ds, t) = WithKid(it, ds \ {d}, t)
    BY <1>3 DEF WithKid
  <2> QED
    BY <2>1 DEF KidCount
<1>4. KidCount(it, ds \ {d}, t) \in Nat /\ TopCount(it, ds, t) \in Nat
  BY <1>1, FS_CardinalityType DEF TopCount, KidCount
<1> QED
  BY <1>2, <1>3, <1>4

\* Between ms and more, the caption of window d was told if item it asks for it.
CaptionAdded(ms, more, p, it, d) ==
    \A t \in Text :
       /\ TitleMatches(it, TitleOf[d]) /\ TitleOf[d] = t =>
             DialogCount(more, p, t) = DialogCount(ms, p, t) + 1
       /\ ~(TitleMatches(it, TitleOf[d]) /\ TitleOf[d] = t) =>
             DialogCount(more, p, t) = DialogCount(ms, p, t)

\* The caption of window d, when it is told.
LEMMA ReportTitle ==
    ASSUME NEW ms \in Seq(Message), NEW p, NEW it, NEW d,
           NEW m \in Message, m.kind = "dialog", m.pid = p, m.text = TitleOf[d],
           NEW more,
           TitleMatches(it, TitleOf[d]) => more = Append(ms, m),
           ~TitleMatches(it, TitleOf[d]) => more = ms
    PROVE  /\ HungIn(more, p) <=> HungIn(ms, p)
           /\ CaptionAdded(ms, more, p, it, d)
<1>1. CASE TitleMatches(it, TitleOf[d])
  <2>1. more = Append(ms, m)
    BY <1>1
  <2> QED
    BY <1>1, <2>1, SaidAppend DEF CaptionAdded
<1>2. CASE ~TitleMatches(it, TitleOf[d])
  BY <1>2 DEF CaptionAdded
<1> QED
  BY <1>1, <1>2

\* That window d hangs, when it is told.
LEMMA ReportHung ==
    ASSUME NEW ms \in Seq(Message), NEW p, NEW it, NEW hung, NEW d,
           NEW h \in Message, h.kind = "hung", h.pid = p,
           NEW one,
           d \in hung /\ ~HungIn(ms, p) /\ it.hung => one = Append(ms, h),
           ~(d \in hung /\ ~HungIn(ms, p) /\ it.hung) => one = ms
    PROVE  /\ HungIn(one, p) <=> HungIn(ms, p) \/ (d \in hung /\ it.hung)
           /\ \A t \in Text : DialogCount(one, p, t) = DialogCount(ms, p, t)
<1>1. CASE d \in hung /\ ~HungIn(ms, p) /\ it.hung
  <2>1. one = Append(ms, h)
    BY <1>1
  <2> QED
    BY <1>1, <2>1, SaidAppend
<1>2. CASE ~(d \in hung /\ ~HungIn(ms, p) /\ it.hung)
  <2>1. one = ms
    BY <1>2
  <2> QED
    BY <1>2, <2>1
<1> QED
  BY <1>1, <1>2

\* Both together are what the window adds.
LEMMA ReportWindow ==
    ASSUME NEW ms, NEW p, NEW it, NEW hung, NEW ds, IsFiniteSet(ds),
           NEW d, d \notin ds, NEW last, Reported(ms, p, it, hung, ds, last, {}),
           NEW more, HungIn(more, p) <=> HungIn(ms, p) \/ (d \in hung /\ it.hung),
           CaptionAdded(ms, more, p, it, d)
    PROVE  Reported(more, p, it, hung, ds \cup {d}, {d}, KidsOf[d])
<1>1. HungIn(ms, p) <=> it.hung /\ hung \cap ds # {}
  BY DEF Reported
<1>2. HungIn(more, p) <=> it.hung /\ hung \cap (ds \cup {d}) # {}
  BY <1>1
<1>3. ASSUME NEW t \in Text
      PROVE  DialogCount(more, p, t) =
                TopCount(it, ds \cup {d}, t)
                + KidCount(it, IF t \in KidsOf[d] THEN (ds \cup {d}) \ {d} ELSE ds \cup {d}, t)
  <2> DEFINE top == TitleMatches(it, TitleOf[d]) /\ TitleOf[d] = t
  <2>1. DialogCount(ms, p, t) = TopCount(it, ds, t) + KidCount(it, ds, t)
    BY DEF Reported
  <2>2. /\ top => TopCount(it, ds \cup {d}, t) = TopCount(it, ds, t) + 1
        /\ ~top => TopCount(it, ds \cup {d}, t) = TopCount(it, ds, t)
        /\ KidCount(it, IF t \in KidsOf[d] THEN (ds \cup {d}) \ {d} ELSE ds \cup {d}, t)
              = KidCount(it, ds, t)
        /\ TopCount(it, ds, t) \in Nat /\ KidCount(it, ds, t) \in Nat
    BY WindowCounted
  <2>3. /\ top => DialogCount(more, p, t) = DialogCount(ms, p, t) + 1
        /\ ~top => DialogCount(more, p, t) = DialogCount(ms, p, t)
    BY DEF CaptionAdded
  <2> HIDE DEF top
  <2> QED
    BY <2>1, <2>2, <2>3
<1> QED
  BY <1>2, <1>3 DEF Reported

\* What EnumThreadChildProc says of child t is what the child adds.
LEMMA ReportChild ==
    ASSUME NEW ms \in Seq(Message), NEW p, NEW it, NEW hung, NEW ds, IsFiniteSet(ds),
           NEW d \in ds, NEW left \in SUBSET KidsOf[d], NEW t \in left,
           Reported(ms, p, it, hung, ds, {d}, left),
           NEW m \in Message, m.kind = "dialog", m.pid = p, m.text = t,
           NEW more,
           ContentMatches(it, t) /\ ~TitleMatches(it, TitleOf[d]) => more = Append(ms, m),
           ~(ContentMatches(it, t) /\ ~TitleMatches(it, TitleOf[d])) => more = ms
    PROVE  /\ Reported(more, p, it, hung, ds, {d}, left \ {t})
           /\ HungIn(more, p) <=> HungIn(ms, p)
<1> DEFINE said == ContentMatches(it, t) /\ ~TitleMatches(it, TitleOf[d])
<1>1. /\ HungIn(more, p) <=> HungIn(ms, p)
      /\ \A u \in Text : DialogCount(more, p, u) = IF said /\ u = t
                                                   THEN DialogCount(ms, p, u) + 1
                                                   ELSE DialogCount(ms, p, u)
  <2>1. CASE said
    <3>1. more = Append(ms, m)
      BY <2>1
    <3> QED
      BY <2>1, <3>1, SaidAppend
  <2>2. CASE ~said
    BY <2>2
  <2> QED
    BY <2>1, <2>2
<1>2. /\ said => KidCount(it, ds, t) = KidCount(it, ds \ {d}, t) + 1
      /\ ~said => KidCount(it, ds, t) = KidCount(it, ds \ {d}, t)
      /\ KidCount(it, ds \ {d}, t) \in Nat /\ TopCount(it, ds, t) \in Nat
  <2>1. t \in KidsOf[d]
    OBVIOUS
  <2>2. said => KidCount(it, ds, t) = KidCount(it, ds \ {d}, t) + 1
    BY <2>1, KidCounted
  <2>3. ~said => KidCount(it, ds, t) = KidCount(it, ds \ {d}, t)
    BY <2>1, KidCounted
  <2>4. KidCount(it, ds \ {d}, t) \in Nat /\ TopCount(it, ds, t) \in Nat
    BY <2>1, KidCounted
  <2> QED
    BY <2>2, <2>3, <2>4
<1> HIDE DEF said
<1>3. ASSUME NEW u \in Text
      PROVE  DialogCount(more, p, u) =
                TopCount(it, ds, u) + KidCount(it, IF u \in left \ {t} THEN ds \ {d} ELSE ds, u)
  <2>1. DialogCount(ms, p, u) =
           TopCount(it, ds, u) + KidCount(it, IF u \in left THEN ds \ {d} ELSE ds, u)
    BY DEF Reported
  <2>2. CASE u = t
    <3>1. DialogCount(ms, p, t) = TopCount(it, ds, t) + KidCount(it, ds \ {d}, t)
      BY <2>1, <2>2
    <3>2. DialogCount(more, p, t) = IF said THEN DialogCount(ms, p, t) + 1
                                            ELSE DialogCount(ms, p, t)
      BY <1>1, <2>2
    <3>3. DialogCount(more, p, t) = TopCount(it, ds, t) + KidCount(it, ds, t)
      BY <1>2, <3>1, <3>2
    <3> QED
      BY <2>2, <3>3
  <2>3. CASE u # t
    BY <1>1, <2>1, <2>3
  <2> QED
    BY <2>2, <2>3
<1>4. HungIn(ms, p) <=> it.hung /\ hung \cap ds # {}
  BY DEF Reported
<1>5. HungIn(more, p) <=> it.hung /\ hung \cap ds # {}
  BY <1>1, <1>4
<1> QED
  BY <1>1, <1>3, <1>5 DEF Reported

\* A set of natural numbers that has a member has a least one.
LEMMA LeastNatural ==
    ASSUME NEW T, T \subseteq Nat, T # {}
    PROVE  \E m \in T : \A k \in T : m <= k
<1>1. PICK m \in T : \A k \in T : ~(<<k, m>> \in OpToRel(<, Nat))
  BY NatLessThanWellFounded, WFMin, Zenon
<1>2. ASSUME NEW k \in T PROVE m <= k
  <2>1. k \in Nat /\ m \in Nat
    OBVIOUS
  <2>2. <<k, m>> \notin {ss \in Nat \X Nat : ss[1] < ss[2]}
    BY <1>1, Zenon DEF OpToRel
  <2> QED
    BY <2>1, <2>2
<1> QED
  BY <1>2

\* What FindProecss finds is an item.
LEMMA FindProecssRange ==
    ASSUME NEW its \in Seq(ProcessItem), NEW n, FindProecss(its, n) # 0
    PROVE  FindProecss(its, n) \in 1..Len(its)
<1> DEFINE M == {i \in 1..Len(its) : IsPrefix(its[i].name, n)}
<1>1. M # {} /\ M \subseteq Nat /\ M \subseteq 1..Len(its)
  BY DEF FindProecss
<1>2. FindProecss(its, n) = CHOOSE i \in M : \A j \in M : i <= j
  BY <1>1 DEF FindProecss
<1> HIDE DEF M
<1>3. FindProecss(its, n) \in M
  BY <1>1, <1>2, LeastNatural
<1> QED
  BY <1>1, <1>3

\* No window has been seen, and nothing said.
LEMMA ReportedNone ==
    ASSUME NEW ms, NEW p, NEW it, NEW hung, NEW last,
           ~HungIn(ms, p), \A t \in Text : DialogCount(ms, p, t) = 0
    PROVE  Reported(ms, p, it, hung, {}, last, {})
<1>1. ASSUME NEW t PROVE TopCount(it, {}, t) = 0 /\ KidCount(it, {}, t) = 0
  <2>1. Tops(it, {}, t) = {} /\ WithKid(it, {}, t) = {}
    BY DEF Tops, WithKid
  <2> QED
    BY <2>1, FS_EmptySet DEF TopCount, KidCount
<1>2. ~(it.hung /\ hung \cap {} # {})
  OBVIOUS
<1> QED
  BY <1>1, <1>2 DEF Reported

\* A steady process has an item, which is found under the name that is read.
LEMMA SteadyFound ==
    ASSUME NotFoundInv, NEW p \in PID, Steady(p)
    PROVE  /\ p \in Live /\ NameRead(p) = os[p].name /\ DialogsOf(p) = os[p].dialogs
           /\ FindProecss(procItems, os[p].name) \in 1..gProcSize
<1>1. p \in Live
  BY DEF Steady, NotFoundInv, TypeOK
<1>2. FindProecss(procItems, os[p].name) \in 1..gProcSize
  BY FindProecssRange DEF Steady, NotFoundInv, TypeOK
<1> QED
  BY <1>1, <1>2 DEF Steady, NameRead, DialogsOf

\* ThreadEnumFunc reports what its window adds, if it is the steady process's.
LEMMA WindowReported ==
    ASSUME WindowsInv, [Next]_vars, NEW d \in Dialog, ThreadEnumFunc(d),
           NEW p \in PID, Steady(p), UnderCheck(p)
    PROVE  /\ Reported(msgs', p, ItemOf(p), os[p].hung, seen', param'.dlg, kids')
           /\ param'.HungReported <=> HungIn(msgs', p)
<1> DEFINE it   == procItems[param.nItem]
           h    == HungMsg(param)
           m    == DialogMsg(param, TitleOf[d])
           hung == d \in os[p].hung /\ ~param.HungReported /\ it.hung
           one  == IF hung THEN Append(msgs, h) ELSE msgs
<1>1. /\ TypeOK /\ msgs \in Seq(Message) /\ pc = "window" /\ param.pid = p
      /\ seen' = seen \cup {d} /\ kids' = KidsOf[d] /\ d \notin seen
  BY DEF WindowsInv, NotFoundInv, TypeOK, UnderCheck, ThreadEnumFunc
<1>2. /\ ItemOf(p) = it /\ (param.HungReported <=> HungIn(msgs, p))
      /\ Reported(msgs, p, it, os[p].hung, seen, param.dlg, {}) /\ IsFiniteSet(seen)
  BY <1>1 DEF WindowsInv, CheckedInv, CallbackInv, ItemOf
<1>3. /\ param'.dlg = {d}
      /\ param'.HungReported <=> param.HungReported \/ (d \in os[p].hung /\ it.hung)
  BY <1>1, EnumParam
<1>4. /\ one \in Seq(Message) /\ h \in Message /\ m \in Message
      /\ TitleMatches(it, TitleOf[d]) => msgs' = Append(one, m)
      /\ ~TitleMatches(it, TitleOf[d]) => msgs' = one
  BY <1>1, EnumMessages
<1>5. /\ h.kind = "hung" /\ h.pid = p
      /\ m.kind = "dialog" /\ m.pid = p /\ m.text = TitleOf[d]
  BY <1>1 DEF HungMsg, DialogMsg, Msg
<1>6. /\ d \in os[p].hung /\ ~HungIn(msgs, p) /\ it.hung => one = Append(msgs, h)
      /\ ~(d \in os[p].hung /\ ~HungIn(msgs, p) /\ it.hung) => one = msgs
  BY <1>2
<1> HIDE DEF one, h, m, it
<1>7. /\ HungIn(one, p) <=> HungIn(msgs, p) \/ (d \in os[p].hung /\ it.hung)
      /\ \A t \in Text : DialogCount(one, p, t) = DialogCount(msgs, p, t)
  BY <1>1, <1>4, <1>5, <1>6, ReportHung
<1>8. /\ HungIn(msgs', p) <=> HungIn(one, p)
      /\ CaptionAdded(one, msgs', p, it, d)
  BY <1>4, <1>5, ReportTitle
<1>10. CaptionAdded(msgs, msgs', p, it, d)
  BY <1>7, <1>8 DEF CaptionAdded
<1>9. Reported(msgs', p, it, os[p].hung, seen \cup {d}, {d}, KidsOf[d])
  BY <1>1, <1>2, <1>7, <1>8, <1>10, ReportWindow
<1> QED
  BY <1>1, <1>2, <1>3, <1>7, <1>8, <1>9

\* And so does EnumThreadChildProc with its child.
LEMMA ChildReported ==
    ASSUME WindowsInv, [Next]_vars, NEW t \in Text, EnumThreadChildProc(t),
           NEW p \in PID, Steady(p), UnderCheck(p)
    PROVE  /\ Reported(msgs', p, ItemOf(p), os[p].hung, seen, param.dlg, kids')
           /\ HungIn(msgs', p) <=> HungIn(msgs, p)
<1> DEFINE it == procItems[param.nItem]
           m  == DialogMsg(param, t)
<1>1. /\ TypeOK /\ msgs \in Seq(Message) /\ pc = "child" /\ param.pid = p
      /\ t \in kids /\ kids' = kids \ {t} /\ param \in Param
  BY DEF WindowsInv, NotFoundInv, TypeOK, UnderCheck, EnumThreadChildProc
<1>2. ItemOf(p) = it /\ Reported(msgs, p, it, os[p].hung, seen, param.dlg, kids)
  BY <1>1 DEF WindowsInv, CheckedInv, ItemOf
<1>3. PICK d \in seen : /\ param.dlg = {d} /\ kids \subseteq KidsOf[d]
                        /\ param.WinReported <=> TitleMatches(it, TitleOf[d])
  BY <1>1 DEF WindowsInv, CallbackInv
<1>4. m \in Message /\ m.kind = "dialog" /\ m.pid = p /\ m.text = t
  <2>1. param.pid \in PID /\ param.nItem \in Nat /\ param.ProcName \in Name
    BY <1>1 DEF Param
  <2> QED
    BY <1>1, <2>1, MsgType DEF DialogMsg, Msg
<1>5. /\ ContentMatches(it, t) /\ ~TitleMatches(it, TitleOf[d]) => msgs' = Append(msgs, m)
      /\ ~(ContentMatches(it, t) /\ ~TitleMatches(it, TitleOf[d])) => msgs' = msgs
  BY <1>3 DEF EnumThreadChildProc
<1>6. IsFiniteSet(seen)
  BY DEF WindowsInv, CallbackInv
<1> HIDE DEF it, m
<1>7. Reported(msgs, p, it, os[p].hung, seen, {d}, kids)
  BY <1>2, <1>3
<1>8. /\ Reported(msgs', p, it, os[p].hung, seen, {d}, kids \ {t})
      /\ HungIn(msgs', p) <=> HungIn(msgs, p)
  BY <1>1, <1>3, <1>4, <1>5, <1>6, <1>7, ReportChild
<1> QED
  BY <1>1, <1>2, <1>3, <1>8

\* Of the process under check, the windows seen have been reported.
LEMMA CheckedStep ==
    ASSUME WindowsInv, [Next]_vars
    PROVE  CheckedInv'
<1> DEFINE Good(p) == /\ param.nItem = FindProecss(procItems, os[p].name)
                      /\ pc # "check" => listed = os[p].dialogs
                      /\ seen \subseteq os[p].dialogs
                      /\ param.HungReported <=> HungIn(msgs, p)
                      /\ Reported(msgs, p, ItemOf(p), os[p].hung, seen, param.dlg, kids)
<1> SUFFICES ASSUME NEW p \in PID, Steady(p)', UnderCheck(p)' PROVE Good(p)'
  BY DEF CheckedInv
<1>1. TypeOK /\ NotFoundInv /\ CallbackInv
  BY DEF WindowsInv, NotFoundInv
<1>2. ~BrowseProcesses /\ ~Wake
  BY DEF UnderCheck, Checking, BrowseProcesses, Wake
<1>3. Steady(p) /\ os'[p] = os[p] /\ procItems' = procItems /\ ItemOf(p)' = ItemOf(p)
  BY <1>1, <1>2, SteadyKept DEF ItemOf
<1>4. /\ p \in Live /\ NameRead(p) = os[p].name /\ DialogsOf(p) = os[p].dialogs
      /\ FindProecss(procItems, os[p].name) \in 1..gProcSize
  BY <1>1, <1>3, SteadyFound
<1>5. ASSUME UnderCheck(p) PROVE Good(p)
  BY <1>3, <1>5 DEF WindowsInv, CheckedInv
<1>6. ASSUME NEW q \in PID, GetProcessName(q) PROVE Good(p)'
  <2>1. /\ pc = "next" /\ q \in aProcesses /\ UNCHANGED <<seen, kids, msgs>>
        /\ pc' = "check" /\ param'.pid = q
        /\ param'.nItem = FindProecss(procItems, NameRead(q)) /\ param'.HungReported = FALSE
    BY <1>1, <1>6, NameEffect DEF UnderCheck, Checking
  <2>2. q = p
    BY <2>1 DEF UnderCheck
  <2>3. seen = {} /\ kids = {}
    BY <1>1, <2>1 DEF CallbackInv
  <2>4. ~HungIn(msgs, p) /\ \A t \in Text : DialogCount(msgs, p, t) = 0
    BY <1>3, <2>1, <2>2 DEF WindowsInv, WaitingInv
  <2>5. Reported(msgs', p, ItemOf(p)', os'[p].hung, seen', param'.dlg, kids')
    BY <2>1, <2>3, <2>4, ReportedNone
  <2> QED
    BY <1>3, <1>4, <2>1, <2>2, <2>3, <2>4, <2>5
<1>7. CASE EnumThreadList
  <2>1. /\ UnderCheck(p) /\ listed' = DialogsOf(p)
        /\ UNCHANGED <<param, seen, kids, msgs>>
    BY <1>7 DEF EnumThreadList, UnderCheck, Checking
  <2> QED
    BY <1>3, <1>4, <1>5, <2>1
<1>8. ASSUME NEW d \in Dialog, ThreadEnumFunc(d) PROVE Good(p)'
  <2>1. /\ pc = "window" /\ pc' = "child" /\ listed' = listed /\ seen' = seen \cup {d}
        /\ d \in DialogsOf(param.pid)
    BY <1>8 DEF ThreadEnumFunc
  <2>2. param'.pid = param.pid /\ param'.nItem = param.nItem
    BY <1>1, <1>8, EnumParam
  <2>3. UnderCheck(p) /\ param.pid = p
    BY <2>1, <2>2 DEF UnderCheck, Checking
  <2>4. /\ Reported(msgs', p, ItemOf(p), os[p].hung, seen', param'.dlg, kids')
        /\ param'.HungReported <=> HungIn(msgs', p)
    BY <1>3, <1>8, <2>3, WindowReported
  <2> QED
    BY <1>3, <1>4, <1>5, <2>1, <2>2, <2>3, <2>4
<1>9. ASSUME NEW t \in Text, EnumThreadChildProc(t) PROVE Good(p)'
  <2>1. pc = "child" /\ pc' = pc /\ UNCHANGED <<param, listed, seen>>
    BY <1>9 DEF EnumThreadChildProc
  <2>2. UnderCheck(p)
    BY <2>1 DEF UnderCheck, Checking
  <2>3. /\ Reported(msgs', p, ItemOf(p), os[p].hung, seen, param.dlg, kids')
        /\ HungIn(msgs', p) <=> HungIn(msgs, p)
    BY <1>3, <1>9, <2>2, ChildReported
  <2> QED
    BY <1>3, <1>5, <2>1, <2>2, <2>3
<1>10. CASE ChildrenDone
  <2>1. /\ pc = "child" /\ (kids = {} \/ ~(param.dlg \subseteq DialogsOf(param.pid)))
        /\ kids' = {} /\ UNCHANGED <<param, listed, seen, msgs>>
    BY <1>10 DEF ChildrenDone
  <2>2. pc = "child" /\ UnderCheck(p) /\ param.pid = p
    BY <1>10, <2>1 DEF ChildrenDone, UnderCheck, Checking
  <2>3. param.dlg \subseteq os[p].dialogs
    BY <1>1, <1>5, <2>2 DEF CallbackInv
  <2>4. kids' = kids
    BY <1>4, <1>10, <2>2, <2>3 DEF ChildrenDone
  <2> QED
    BY <1>3, <1>5, <2>1, <2>2, <2>4
<1>11. CASE Environment \/ UNCHANGED vars
  <2>1. UNCHANGED <<param, listed, seen, kids, msgs>> /\ pc' = pc
    BY <1>11 DEF Environment, StartProcess, ExitProcess, ChangeWindows, EditConfig,
       DismissMessageBox, vars, windows, UnderCheck, Checking
  <2>2. UnderCheck(p)
    BY <2>1 DEF UnderCheck, Checking
  <2> QED
    BY <1>3, <1>5, <2>1, <2>2
<1>12. CASE ReadConfig \/ ReadConfigFails \/ BrowseProcessesFails \/ ProcessesDone
            \/ IfAnyProcessExit \/ EndOfScan \/ EnumThreadListFails \/ ThreadsDone
  <2>1. ~Checking'
    BY <1>12 DEF ReadConfig, ReadConfigFails, BrowseProcessesFails, ProcessesDone,
       IfAnyProcessExit, EndOfScan, EnumThreadListFails, ThreadsDone, Checking
  <2> QED
    BY <2>1 DEF UnderCheck
<1> QED
  BY <1>2, <1>6, <1>7, <1>8, <1>9, <1>10, <1>11, <1>12 DEF Next, Monitor, Check

\* Of the others whose turn has passed, all windows have.
LEMMA FinishedStep ==
    ASSUME WindowsInv, [Next]_vars
    PROVE  FinishedInv'
<1> DEFINE Done(p) == Reported(msgs, p, ItemOf(p), os[p].hung, os[p].dialogs, {}, {})
<1> SUFFICES ASSUME NEW p \in PID, Steady(p)', p \notin aProcesses', ~UnderCheck(p)'
             PROVE  Done(p)'
  BY DEF FinishedInv
<1>1. TypeOK /\ NotFoundInv /\ CallbackInv
  BY DEF WindowsInv, NotFoundInv
<1>2. ~BrowseProcesses /\ ~Wake
  BY DEF Steady, BrowseProcesses, Wake
<1>3. Steady(p) /\ os'[p] = os[p] /\ procItems' = procItems /\ ItemOf(p)' = ItemOf(p)
  BY <1>1, <1>2, SteadyKept DEF ItemOf
<1>4. /\ p \in Live /\ NameRead(p) = os[p].name /\ DialogsOf(p) = os[p].dialogs
      /\ FindProecss(procItems, os[p].name) \in 1..gProcSize
  BY <1>1, <1>3, SteadyFound
<1>5. ASSUME p \notin aProcesses, ~UnderCheck(p) PROVE Done(p)'
  <2>1. Reported(msgs, p, ItemOf(p), os[p].hung, os[p].dialogs, {}, {})
    BY <1>3, <1>5 DEF WindowsInv, FinishedInv
  <2>2. /\ HungIn(msgs', p) <=> HungIn(msgs, p)
        /\ \A t \in Text : DialogCount(msgs', p, t) = DialogCount(msgs, p, t)
    BY <1>1, <1>2, <1>5, OthersSilent
  <2>3. Reported(msgs', p, ItemOf(p), os[p].hung, os[p].dialogs, {}, {})
    BY <2>1, <2>2, ReportedSame
  <2> QED
    BY <1>3, <2>3
<1>6. ASSUME NEW q \in PID, GetProcessName(q) PROVE Done(p)'
  <2> DEFINE nItem == FindProecss(procItems, NameRead(q))
  <2>1. /\ pc = "next" /\ aProcesses' = aProcesses \ {q}
        /\ nItem \in 1..gProcSize => pc' = "check" /\ param'.pid = q
    BY <1>1, <1>6, NameEffect
  <2>2. q # p
    BY <1>4, <2>1 DEF UnderCheck, Checking
  <2>3. p \notin aProcesses /\ ~UnderCheck(p)
    BY <2>1, <2>2 DEF UnderCheck, Checking
  <2> QED
    BY <1>5, <2>3
<1>7. CASE ThreadsDone
  <2>1. /\ pc = "window" /\ listed \cap DialogsOf(param.pid) \subseteq seen
        /\ UNCHANGED <<msgs, aProcesses>>
    BY <1>7 DEF ThreadsDone
  <2>2. CASE UnderCheck(p)
    <3>1. /\ listed = os[p].dialogs /\ seen \subseteq os[p].dialogs /\ param.pid = p
          /\ Reported(msgs, p, ItemOf(p), os[p].hung, seen, param.dlg, kids)
      BY <1>3, <2>1, <2>2 DEF WindowsInv, CheckedInv, UnderCheck
    <3>2. seen = os[p].dialogs /\ kids = {}
      BY <1>1, <1>4, <2>1, <3>1 DEF CallbackInv
    <3>3. Reported(msgs, p, ItemOf(p), os[p].hung, os[p].dialogs, {}, {})
      BY <3>1, <3>2 DEF Reported
    <3> QED
      BY <1>3, <2>1, <3>3
  <2>3. CASE ~UnderCheck(p)
    BY <1>5, <2>1, <2>3
  <2> QED
    BY <2>2, <2>3
<1>8. CASE EnumThreadListFails
  <2>1. unchanged' = unchanged \ {param.pid} /\ aProcesses' = aProcesses
    BY <1>8 DEF EnumThreadListFails
  <2>2. ~UnderCheck(p)
    BY <2>1 DEF Steady, UnderCheck
  <2> QED
    BY <1>5, <2>1, <2>2
<1>9. ASSUME NEW d \in Dialog, ThreadEnumFunc(d) PROVE Done(p)'
  <2>1. /\ aProcesses' = aProcesses /\ pc' = "child" /\ param'.pid = param.pid
    BY <1>1, <1>9, EnumParam DEF ThreadEnumFunc
  <2> QED
    BY <1>5, <2>1 DEF UnderCheck, Checking
<1>10. CASE EnumThreadList \/ ChildrenDone \/ (\E t \in Text : EnumThreadChildProc(t))
            \/ Environment \/ UNCHANGED vars
  <2>1. /\ aProcesses' = aProcesses /\ param' = param
        /\ Checking => Checking'
    BY <1>10 DEF EnumThreadList, ChildrenDone, EnumThreadChildProc, Environment,
       StartProcess, ExitProcess, ChangeWindows, EditConfig, DismissMessageBox,
       vars, windows, Checking
  <2> QED
    BY <1>5, <2>1 DEF UnderCheck
<1>11. CASE ReadConfig \/ ReadConfigFails \/ BrowseProcessesFails \/ ProcessesDone
            \/ IfAnyProcessExit \/ EndOfScan
  <2>1. aProcesses' = aProcesses /\ ~Checking
    BY <1>11 DEF ReadConfig, ReadConfigFails, BrowseProcessesFails, ProcessesDone,
       IfAnyProcessExit, EndOfScan, Checking
  <2> QED
    BY <1>5, <2>1 DEF UnderCheck
<1> QED
  BY <1>2, <1>6, <1>7, <1>8, <1>9, <1>10, <1>11 DEF Next, Monitor, Check

\* Only a window that is there hangs.
LEMMA HungShownStep ==
    ASSUME TypeOK, [Next]_vars, \A p \in Live : os[p].hung \subseteq os[p].dialogs
    PROVE  (\A p \in Live : os[p].hung \subseteq os[p].dialogs)'
<1> SUFFICES ASSUME NEW p \in Live' PROVE os'[p].hung \subseteq os'[p].dialogs
  OBVIOUS
<1>1. os \in [PID -> Process \cup {NoProcess}] /\ p \in PID
  BY DEF TypeOK, Live
<1>2. CASE os'[p] = os[p]
  BY <1>1, <1>2 DEF Live
<1>3. ASSUME NEW q \in PID, StartProcess(q) PROVE os'[p].hung \subseteq os'[p].dialogs
  BY <1>1, <1>2, <1>3 DEF StartProcess
<1>4. ASSUME NEW q \in PID, ExitProcess(q) PROVE os'[p].hung \subseteq os'[p].dialogs
  BY <1>1, <1>2, <1>4 DEF ExitProcess, Live
<1>5. ASSUME NEW q \in PID, ChangeWindows(q) PROVE os'[p].hung \subseteq os'[p].dialogs
  <2>1. CASE q # p
    <3>1. \E r : os' = [os EXCEPT ![q] = r]
      BY <1>5, ChangeWindowsEffect
    <3> QED
      BY <1>1, <1>2, <2>1, <3>1
  <2>2. CASE q = p
    <3>1. p \in Live /\ os[p] \in Process /\ os[p].hung \subseteq os[p].dialogs
      BY <1>1, <1>5, <2>2 DEF ChangeWindows, Live
    <3>2. PICK d \in Dialog :
             \/ os' = [os EXCEPT ![p].dialogs = @ \cup {d}]
             \/ os' = [os EXCEPT ![p].dialogs = @ \ {d}, ![p].hung = @ \ {d}]
             \/ /\ d \in os[p].dialogs
                /\ os' = [os EXCEPT ![p].hung = @ \cup {d}]
             \/ os' = [os EXCEPT ![p].hung = @ \ {d}]
      BY <1>5, <2>2 DEF ChangeWindows
    <3>3. CASE os' = [os EXCEPT ![p].dialogs = @ \cup {d}]
      BY <1>1, <3>1, <3>3 DEF Process
    <3>4. CASE os' = [os EXCEPT ![p].dialogs = @ \ {d}, ![p].hung = @ \ {d}]
      BY <1>1, <3>1, <3>4 DEF Process
    <3>5. CASE d \in os[p].dialogs /\ os' = [os EXCEPT ![p].hung = @ \cup {d}]
      BY <1>1, <3>1, <3>5 DEF Process
    <3>6. CASE os' = [os EXCEPT ![p].hung = @ \ {d}]
      BY <1>1, <3>1, <3>6 DEF Process
    <3> QED
      BY <3>2, <3>3, <3>4, <3>5, <3>6
  <2> QED
    BY <2>1, <2>2
<1>6. CASE ~\E q \in PID : StartProcess(q) \/ ExitProcess(q) \/ ChangeWindows(q)
  <2>1. os' = os
    BY <1>6 DEF Next, Monitor, Check, Environment, ReadConfig, ReadConfigFails,
       BrowseProcesses, BrowseProcessesFails, GetProcessName, EnumThreadList,
       EnumThreadListFails, ThreadEnumFunc, EnumThreadChildProc, ChildrenDone,
       ThreadsDone, ProcessesDone, IfAnyProcessExit, EndOfScan, Wake, EditConfig,
       DismissMessageBox, vars, system
  <2> QED
    BY <1>2, <2>1
<1> QED
  BY <1>3, <1>4, <1>5, <1>6

\* The scan is over when its END is said, and no pid is left.
LEMMA EndStep ==
    ASSUME WindowsInv, [Next]_vars
    PROVE  (Said("END") # {} => pc = "sleep" /\ aProcesses = {})'
<1>1. TypeOK /\ NotFoundInv /\ (Said("END") # {} => pc = "sleep" /\ aProcesses = {})
  BY DEF WindowsInv, NotFoundInv
<1>2. CASE EndOfScan
  BY <1>1, <1>2 DEF EndOfScan, NotFoundInv
<1>3. CASE Wake
  BY <1>3 DEF Wake, Said
<1>4. CASE ~EndOfScan /\ ~Wake
  <2>1. Said("END")' \subseteq Said("END")
    BY <1>1, <1>4, EndSaid
  <2>2. pc = "sleep" => pc' = "sleep" /\ aProcesses' = aProcesses
    BY <1>4 DEF Next, Monitor, Check, Environment, ReadConfig, ReadConfigFails,
       BrowseProcesses, BrowseProcessesFails, GetProcessName, EnumThreadList,
       EnumThreadListFails, ThreadEnumFunc, EnumThreadChildProc, ChildrenDone,
       ThreadsDone, ProcessesDone, IfAnyProcessExit, StartProcess, ExitProcess,
       ChangeWindows, EditConfig, DismissMessageBox, vars
  <2> QED
    BY <1>1, <2>1, <2>2
<1> QED
  BY <1>2, <1>3, <1>4

LEMMA WindowsInvInit == Init => WindowsInv
<1> SUFFICES ASSUME Init PROVE WindowsInv
  OBVIOUS
<1>1. NotFoundInv
  BY NotFoundInvInit
<1>2. unchanged = {} /\ msgs = << >> /\ Live = {} /\ pc = "read" /\ seen = {} /\ kids = {}
  BY DEF Init, Live
<1>3. CallbackInv
  BY <1>2, FS_EmptySet DEF CallbackInv, Checking
<1>4. WaitingInv /\ CheckedInv /\ FinishedInv
  BY <1>2 DEF WaitingInv, CheckedInv, FinishedInv, Steady
<1> QED
  BY <1>1, <1>2, <1>3, <1>4 DEF WindowsInv, Said

LEMMA WindowsInvNext == WindowsInv /\ [Next]_vars => WindowsInv'
<1> SUFFICES ASSUME WindowsInv, [Next]_vars PROVE WindowsInv'
  OBVIOUS
<1>1. NotFoundInv'
  BY NotFoundInvNext DEF WindowsInv
<1>2. CallbackInv' /\ (\A p \in Live : os[p].hung \subseteq os[p].dialogs)'
  BY CallbackStep, HungShownStep DEF WindowsInv, NotFoundInv
<1>3. WaitingInv' /\ CheckedInv' /\ FinishedInv'
  BY WaitingStep, CheckedStep, FinishedStep
<1> QED
  BY <1>1, <1>2, <1>3, EndStep DEF WindowsInv

\* A complete scan reports a process that stayed as it was exactly: hung if a
\* window of it is and its item asks for that, and each abnormal window once,
\* whatever other processes do and in whatever order the windows come.
THEOREM SteadyReported == Spec => []SteadyWindowsReported
<1>1. WindowsInv => SteadyWindowsReported
  <2> SUFFICES ASSUME WindowsInv, Said("END") # {}, NEW p \in unchanged, Steady(p)
               PROVE  /\ (\E k \in Said("hung") : msgs[k].pid = p)
                            <=> (ItemOf(p).hung /\ os[p].hung # {})
                      /\ \A t \in Text :
                            Cardinality({k \in Said("dialog") : msgs[k].pid = p /\ msgs[k].text = t})
                               = Expected(p, t)
    BY DEF SteadyWindowsReported, Steady, ItemOf
  <2>1. p \in PID /\ p \in Live /\ p \notin aProcesses /\ ~UnderCheck(p)
    BY DEF WindowsInv, NotFoundInv, TypeOK, UnderCheck, Checking
  <2>2. Reported(msgs, p, ItemOf(p), os[p].hung, os[p].dialogs, {}, {})
    BY <2>1 DEF WindowsInv, FinishedInv
  <2>3. os[p].hung \subseteq os[p].dialogs
    BY <2>1 DEF WindowsInv
  <2>4. (\E k \in Said("hung") : msgs[k].pid = p) <=> HungIn(msgs, p)
    BY DEF Said, HungIn
  <2>5. HungIn(msgs, p) <=> ItemOf(p).hung /\ os[p].hung # {}
    BY <2>2, <2>3 DEF Reported
  <2>6. ASSUME NEW t \in Text
        PROVE  Cardinality({k \in Said("dialog") : msgs[k].pid = p /\ msgs[k].text = t})
                  = Expected(p, t)
    <3> DEFINE tops == {d \in os[p].dialogs : TitleMatches(ItemOf(p), TitleOf[d])}
    <3>1. {k \in Said("dialog") : msgs[k].pid = p /\ msgs[k].text = t} = DialogsIn(msgs, p, t)
      BY DEF Said, DialogsIn
    <3>2. {d \in tops : TitleOf[d] = t} = Tops(ItemOf(p), os[p].dialogs, t)
      BY DEF Tops
    <3>3. {d \in os[p].dialogs \ tops : t \in KidsOf[d] /\ ContentMatches(ItemOf(p), t)}
             = WithKid(ItemOf(p), os[p].dialogs, t)
      BY DEF WithKid
    <3>4. Expected(p, t) = TopCount(ItemOf(p), os[p].dialogs, t)
                           + KidCount(ItemOf(p), os[p].dialogs, t)
      BY <3>2, <3>3 DEF Expected, TopCount, KidCount, ItemOf
    <3>5. DialogCount(msgs, p, t) = TopCount(ItemOf(p), os[p].dialogs, t)
                                    + KidCount(ItemOf(p), os[p].dialogs, t)
      BY <2>2 DEF Reported
    <3> QED
      BY <3>1, <3>4, <3>5 DEF DialogCount
  <2> QED
    BY <2>4, <2>5, <2>6
<1> QED
  BY <1>1, WindowsInvInit, WindowsInvNext, PTL DEF Spec
=============================================================================
