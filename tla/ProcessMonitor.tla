--------------------------- MODULE ProcessMonitor ---------------------------
(***************************************************************************)
(* The monitoring loop of src/MonitorZSoftWare/monitor.cpp: MonitorFunc    *)
(* rereads config.ini, walks the running processes, looks at the windows   *)
(* of those the configuration names, reports the configured processes it   *)
(* did not meet, and sleeps.  The system it watches changes between any    *)
(* two of its steps: every message is a blocking mail, so a scan is long.  *)
(*                                                                         *)
(* Names and window texts are abstract values; PrefixOf is the relation    *)
(* wcsncmp(p, s, wcslen(p)) == 0 that the code compares them with.  Names  *)
(* are lower-cased on both sides before they are compared (Tolower), so    *)
(* Name holds lower-cased names.  Sequences are indexed from 1, and item 0 *)
(* stands for FindProecss's -1.                                            *)
(***************************************************************************)
EXTENDS Naturals, Sequences, FiniteSets

CONSTANTS
    PID,        \* process ids, without 0 (the idle process, which the loop skips)
    NoPid,      \* no process handle
    Name,       \* lower-cased process names
    Unknown,    \* "<unknown>", the name of a process that cannot be read
    Text,       \* window captions
    PrefixOf,   \* the pairs <<p, s>> of names or captions where s starts with p
    Dialog,     \* top-level windows
    TitleOf,    \* [Dialog -> Text]: the caption of a top-level window
    KidsOf,     \* [Dialog -> SUBSET Text]: the captions of its child windows
    Config,     \* what config.ini may say: sequences of process items
    NoFile,     \* config.ini cannot be opened
    NoProcess,  \* no process has the pid
    Access,     \* the ways a process may be readable, see Process
    MaxProcs    \* the length of aProcesses (1024)

ProcessItem == [name : Name, hung : BOOLEAN, wins : SUBSET [title : Text, content : Text]]

\* "full": the name can be read; "query": OpenProcess succeeds and
\* EnumProcessModules fails; "none": OpenProcess fails.
Process == [name : Name, access : Access,
            dialogs : SUBSET Dialog, hung : SUBSET Dialog]

ASSUME ConstantsAssumption ==
    /\ NoPid \notin PID
    /\ Unknown \in Name
    /\ Access \subseteq {"full", "query", "none"}
    /\ Config \subseteq Seq(ProcessItem)
    /\ NoFile \notin Config
    /\ NoProcess \notin Process
    /\ TitleOf \in [Dialog -> Text]
    /\ KidsOf \in [Dialog -> SUBSET Text]
    /\ MaxProcs \in Nat \ {0}

VARIABLES
    config,     \* the content of config.ini
    os,         \* the process behind each pid
    pc,         \* where MonitorFunc is
    procItems,  \* the items of the last configuration that could be read
    gProcSize,  \* their number
    ProcExist,  \* per item: was a process met that it names?
    aProcesses, \* the pids of this scan that have not been visited yet
    handle,     \* the pid whose handle GetProcessName holds open
    param,      \* CallbackParam of the process being looked at
    listed,     \* its windows when its threads were listed
    seen,       \* its windows ThreadEnumFunc was called for
    kids,       \* the child windows of param.dlg still to be enumerated
    exitIdx     \* i of IfAnyProcessExit

\* What the properties need to remember of the scan in progress.
VARIABLES
    msgs,       \* the calls of MsgFunc
    fresh,      \* did this scan's ReadConfig succeed?
    running,    \* processes EnumProcesses returned that have run ever since
    unchanged,  \* those of them whose windows have not changed either
    ran         \* names of the processes that ran at some moment of the scan

system  == <<config, os>>
items   == <<procItems, gProcSize, ProcExist>>
windows == <<param, listed, seen, kids>>
ghosts  == <<fresh, running, unchanged, ran>>
vars    == <<system, pc, items, aProcesses, handle, windows, exitIdx, msgs, ghosts>>
-----------------------------------------------------------------------------
IsPrefix(p, s) == <<p, s>> \in PrefixOf

Live == {p \in PID : os[p] # NoProcess}

DialogsOf(p) == IF p \in Live THEN os[p].dialogs ELSE {}

\* FindProecss: the first item whose name the process's name starts with.
FindProecss(its, n) ==
    LET M == {i \in 1..Len(its) : IsPrefix(its[i].name, n)}
    IN  IF M = {} THEN 0 ELSE CHOOSE i \in M : \A j \in M : i <= j

\* The name GetProcessName ends up with.
NameRead(p) ==
    IF p \in Live /\ os[p].access = "full" THEN os[p].name ELSE Unknown

NoParam == [pid |-> NoPid, nItem |-> 0, ProcName |-> Unknown,
            WinReported |-> FALSE, HungReported |-> FALSE, dlg |-> {}]

\* Does a window with this caption count as an abnormal dialog of the item?
TitleMatches(item, t)   == \E w \in item.wins : IsPrefix(w.title, t)
ContentMatches(item, t) == \E w \in item.wins : IsPrefix(w.content, t)

\* The four calls of MsgFunc.  "item" is not part of the message: it records
\* which item the message is about when two items have the same name.
Msg(kind, p, i, n, t) == [kind |-> kind, pid |-> p, item |-> i, name |-> n, text |-> t]

HungMsg(par)      == Msg("hung", par.pid, par.nItem, par.ProcName, "")
DialogMsg(par, t) == Msg("dialog", par.pid, par.nItem, par.ProcName, t)
NotFoundMsg(i)    == Msg("notfound", NoPid, i, procItems[i].name, "")
EndMsg            == Msg("END", NoPid, 0, Unknown, "")
-----------------------------------------------------------------------------
Init ==
    /\ config \in Config \cup {NoFile}
    /\ os = [p \in PID |-> NoProcess]
    /\ pc = "read"
    /\ procItems = << >> /\ gProcSize = 0 /\ ProcExist = [i \in 1..0 |-> FALSE]
    /\ aProcesses = {}
    /\ handle = NoPid
    /\ param = NoParam /\ listed = {} /\ seen = {} /\ kids = {}
    /\ exitIdx = 1
    /\ msgs = << >>
    /\ fresh = FALSE /\ running = {} /\ unchanged = {} /\ ran = {}

\* Mutant: the items of the scan before are not cleared.
ReadConfigNoClear ==
    /\ pc = "read"
    /\ config # NoFile
    /\ procItems' = procItems \o config
    /\ gProcSize' = Len(config)
    /\ ProcExist' = [i \in 1..Len(config) |-> FALSE]
    /\ pc' = "enum"
    /\ fresh' = TRUE
    /\ UNCHANGED <<system, aProcesses, handle, windows, exitIdx, msgs, running, unchanged, ran>>

\* Mutant: the flags of the scan before are not cleared.
ReadConfigKeepsFlags ==
    /\ pc = "read"
    /\ config # NoFile
    /\ procItems' = config
    /\ gProcSize' = Len(config)
    /\ ProcExist' = [i \in 1..Len(config) |-> i \in DOMAIN ProcExist /\ ProcExist[i]]
    /\ pc' = "enum"
    /\ fresh' = TRUE
    /\ UNCHANGED <<system, aProcesses, handle, windows, exitIdx, msgs, running, unchanged, ran>>

\* ReadConfig when config.ini opens: the items and their flags are replaced.
ReadConfig ==
    /\ pc = "read"
    /\ config # NoFile
    /\ procItems' = config
    /\ gProcSize' = Len(config)
    /\ ProcExist' = [i \in 1..Len(config) |-> FALSE]
    /\ pc' = "enum"
    /\ fresh' = TRUE
    /\ UNCHANGED <<system, aProcesses, handle, windows, exitIdx, msgs, running, unchanged, ran>>

\* ReadConfig when config.ini does not open: a modal MessageBox, and nothing
\* of the previous scan is cleared.
ReadConfigFails ==
    /\ pc = "read"
    /\ config = NoFile
    /\ pc' = "msgbox"
    /\ fresh' = FALSE
    /\ UNCHANGED <<system, items, aProcesses, handle, windows, exitIdx, msgs, running, unchanged, ran>>

\* The user answers the MessageBox; ReadConfig's -1 is ignored.
DismissMessageBox ==
    /\ pc = "msgbox"
    /\ pc' = "enum"
    /\ UNCHANGED <<system, items, aProcesses, handle, windows, exitIdx, msgs, ghosts>>

\* EnumProcesses fills aProcesses with as many pids as it holds.
BrowseProcesses ==
    /\ pc = "enum"
    /\ \E s \in SUBSET Live :
          /\ \/ s = Live /\ Cardinality(Live) <= MaxProcs
             \/ Cardinality(s) = MaxProcs
          /\ aProcesses' = s
          /\ running' = s
          /\ unchanged' = s
    /\ ran' = {os[p].name : p \in Live}
    /\ pc' = "next"
    /\ UNCHANGED <<system, items, handle, windows, exitIdx, msgs, fresh>>

\* EnumProcesses fails: BrowseProcesses returns at once.
BrowseProcessesFails ==
    /\ pc = "enum"
    /\ pc' = "sleep"
    /\ UNCHANGED <<system, items, aProcesses, handle, windows, exitIdx, msgs, ghosts>>

\* GetProcessName up to CheckProecss: open the process, read its name, and
\* mark the item it belongs to.  The handle stays open while it is checked.
GetProcessName(p) ==
    /\ pc = "next"
    /\ p \in aProcesses
    /\ aProcesses' = aProcesses \ {p}
    /\ LET n     == NameRead(p)
           nItem == FindProecss(procItems, n)
       IN  IF nItem \in 1..gProcSize
           THEN /\ ProcExist' = [ProcExist EXCEPT ![nItem] = TRUE]
                /\ param' = [NoParam EXCEPT !.pid = p, !.nItem = nItem, !.ProcName = n]
                /\ handle' = IF p \in Live /\ os[p].access # "none" THEN p ELSE NoPid
                /\ pc' = "check"
           ELSE UNCHANGED <<ProcExist, param, handle, pc>>
    /\ UNCHANGED <<system, procItems, gProcSize, listed, seen, kids, exitIdx, msgs, ghosts>>

\* Mutant: the handle is closed before the windows are looked at.
EnumThreadListClosed ==
    /\ pc = "check"
    /\ listed' = DialogsOf(param.pid)
    /\ handle' = NoPid
    /\ pc' = "window"
    /\ UNCHANGED <<system, items, aProcesses, param, seen, kids, exitIdx, msgs, ghosts>>

\* EnumThreadList: the threads, hence the windows, of the process are listed;
\* when the snapshot fails the process is not looked at any further.
EnumThreadList ==
    /\ pc = "check"
    /\ listed' = DialogsOf(param.pid)
    /\ pc' = "window"
    /\ UNCHANGED <<system, items, aProcesses, handle, param, seen, kids, exitIdx, msgs, ghosts>>

EnumThreadListFails ==
    /\ pc = "check"
    /\ pc' = "next"
    /\ handle' = NoPid
    /\ param' = NoParam
    /\ unchanged' = unchanged \ {param.pid}
    /\ UNCHANGED <<system, items, aProcesses, listed, seen, kids, exitIdx, msgs, fresh, running, ran>>

\* Mutant: HungReported is not looked at.
ThreadEnumFuncForgets(d) ==
    /\ pc = "window"
    /\ d \in DialogsOf(param.pid) \ seen
    /\ LET item  == procItems[param.nItem]
           hung  == d \in os[param.pid].hung /\ item.hung
           match == TitleMatches(item, TitleOf[d])
       IN  /\ param' = [param EXCEPT !.HungReported = @ \/ hung,
                                     !.WinReported = match,
                                     !.dlg = {d}]
           /\ msgs' = msgs \o (IF hung THEN <<HungMsg(param)>> ELSE << >>)
                           \o (IF match THEN <<DialogMsg(param, TitleOf[d])>> ELSE << >>)
    /\ seen' = seen \cup {d}
    /\ kids' = KidsOf[d]
    /\ pc' = "child"
    /\ UNCHANGED <<system, items, aProcesses, handle, listed, exitIdx, ghosts>>

\* ThreadEnumFunc for one top-level window.  A window opened after the threads
\* were listed may still be met, through a thread whose turn comes later.
ThreadEnumFunc(d) ==
    /\ pc = "window"
    /\ d \in DialogsOf(param.pid) \ seen
    /\ LET item  == procItems[param.nItem]
           hung  == d \in os[param.pid].hung /\ ~param.HungReported /\ item.hung
           match == TitleMatches(item, TitleOf[d])
       IN  /\ param' = [param EXCEPT !.HungReported = @ \/ hung,
                                     !.WinReported = match,
                                     !.dlg = {d}]
           /\ msgs' = msgs \o (IF hung THEN <<HungMsg(param)>> ELSE << >>)
                           \o (IF match THEN <<DialogMsg(param, TitleOf[d])>> ELSE << >>)
    /\ seen' = seen \cup {d}
    /\ kids' = KidsOf[d]
    /\ pc' = "child"
    /\ UNCHANGED <<system, items, aProcesses, handle, listed, exitIdx, ghosts>>

\* Mutant: WinReported is not looked at.
EnumThreadChildProcAlways(t) ==
    /\ pc = "child"
    /\ t \in kids
    /\ kids' = kids \ {t}
    /\ IF ContentMatches(procItems[param.nItem], t)
       THEN msgs' = Append(msgs, DialogMsg(param, t))
       ELSE UNCHANGED msgs
    /\ UNCHANGED <<system, items, pc, aProcesses, handle, param, listed, seen, exitIdx, ghosts>>

\* EnumThreadChildProc for one child of that window.
EnumThreadChildProc(t) ==
    /\ pc = "child"
    /\ t \in kids
    /\ kids' = kids \ {t}
    /\ IF ContentMatches(procItems[param.nItem], t) /\ ~param.WinReported
       THEN msgs' = Append(msgs, DialogMsg(param, t))
       ELSE UNCHANGED msgs
    /\ UNCHANGED <<system, items, pc, aProcesses, handle, param, listed, seen, exitIdx, ghosts>>

\* EnumChildWindows is done: no child is left, or the window is gone.
ChildrenDone ==
    /\ pc = "child"
    /\ kids = {} \/ ~(param.dlg \subseteq DialogsOf(param.pid))
    /\ kids' = {}
    /\ pc' = "window"
    /\ UNCHANGED <<system, items, aProcesses, handle, param, listed, seen, exitIdx, msgs, ghosts>>

\* Every window that was listed, and is still there, has been enumerated:
\* GetProcessName closes the handle and returns.
ThreadsDone ==
    /\ pc = "window"
    /\ listed \cap DialogsOf(param.pid) \subseteq seen
    /\ handle' = NoPid
    /\ param' = NoParam /\ listed' = {} /\ seen' = {}
    /\ pc' = "next"
    /\ UNCHANGED <<system, items, aProcesses, kids, exitIdx, msgs, ghosts>>

\* Mutant: the last pid is not visited.
ProcessesDoneEarly ==
    /\ pc = "next"
    /\ Cardinality(aProcesses) <= 1
    /\ exitIdx' = 1
    /\ pc' = "exit"
    /\ UNCHANGED <<system, items, aProcesses, handle, windows, msgs, ghosts>>

ProcessesDone ==
    /\ pc = "next"
    /\ aProcesses = {}
    /\ exitIdx' = 1
    /\ pc' = "exit"
    /\ UNCHANGED <<system, items, aProcesses, handle, windows, msgs, ghosts>>

\* Mutant: the loop does not advance past an item that is there.
IfAnyProcessExitStuck ==
    /\ pc = "exit"
    /\ exitIdx <= gProcSize
    /\ IF ProcExist[exitIdx]
       THEN UNCHANGED <<msgs, exitIdx>>
       ELSE msgs' = Append(msgs, NotFoundMsg(exitIdx)) /\ exitIdx' = exitIdx + 1
    /\ UNCHANGED <<system, items, pc, aProcesses, handle, windows, ghosts>>

\* One turn of IfAnyProcessExit's loop.
IfAnyProcessExit ==
    /\ pc = "exit"
    /\ exitIdx <= gProcSize
    /\ exitIdx' = exitIdx + 1
    /\ IF ProcExist[exitIdx]
       THEN UNCHANGED msgs
       ELSE msgs' = Append(msgs, NotFoundMsg(exitIdx))
    /\ UNCHANGED <<system, items, pc, aProcesses, handle, windows, ghosts>>

\* Mutant: the loop may stop before the last item.
EndOfScanEarly ==
    /\ pc = "exit"
    /\ exitIdx >= gProcSize
    /\ msgs' = Append(msgs, EndMsg)
    /\ pc' = "sleep"
    /\ UNCHANGED <<system, items, aProcesses, handle, windows, exitIdx, ghosts>>

EndOfScan ==
    /\ pc = "exit"
    /\ exitIdx > gProcSize
    /\ msgs' = Append(msgs, EndMsg)
    /\ pc' = "sleep"
    /\ UNCHANGED <<system, items, aProcesses, handle, windows, exitIdx, ghosts>>

\* Sleep(timer * 1000) returns and MonitorFunc starts over.
Wake ==
    /\ pc = "sleep"
    /\ pc' = "read"
    /\ exitIdx' = 1
    /\ msgs' = << >>
    /\ running' = {} /\ unchanged' = {} /\ ran' = {}
    /\ UNCHANGED <<system, items, aProcesses, handle, windows, fresh>>
-----------------------------------------------------------------------------
(* The system that is watched. *)

\* A pid is not given to a new process while a handle to the old one is open.
StartProcess(p) ==
    /\ p \notin Live
    /\ p # handle
    /\ \E n \in Name \ {Unknown}, a \in Access :
          /\ os' = [os EXCEPT ![p] = [name |-> n, access |-> a, dialogs |-> {}, hung |-> {}]]
          /\ ran' = IF pc \in {"next", "check", "window", "child", "exit"}
                    THEN ran \cup {n} ELSE ran
    /\ UNCHANGED <<config, pc, items, aProcesses, handle, windows, exitIdx, msgs,
                   fresh, running, unchanged>>

ExitProcess(p) ==
    /\ p \in Live
    /\ os' = [os EXCEPT ![p] = NoProcess]
    /\ running' = running \ {p}
    /\ unchanged' = unchanged \ {p}
    /\ UNCHANGED <<config, pc, items, aProcesses, handle, windows, exitIdx, msgs, fresh, ran>>

\* A process opens or closes a window, or one stops or resumes responding.
ChangeWindows(p) ==
    /\ p \in Live
    /\ \E d \in Dialog :
          \/ os' = [os EXCEPT ![p].dialogs = @ \cup {d}]
          \/ os' = [os EXCEPT ![p].dialogs = @ \ {d}, ![p].hung = @ \ {d}]
          \/ /\ d \in os[p].dialogs
             /\ os' = [os EXCEPT ![p].hung = @ \cup {d}]
          \/ os' = [os EXCEPT ![p].hung = @ \ {d}]
    /\ os' # os
    /\ unchanged' = unchanged \ {p}
    /\ UNCHANGED <<config, pc, items, aProcesses, handle, windows, exitIdx, msgs,
                   fresh, running, ran>>

EditConfig ==
    /\ config' \in (Config \cup {NoFile}) \ {config}
    /\ UNCHANGED <<os, pc, items, aProcesses, handle, windows, exitIdx, msgs, ghosts>>
-----------------------------------------------------------------------------
Check ==
    \/ EnumThreadList
    \/ EnumThreadListFails
    \/ \E d \in Dialog : ThreadEnumFunc(d)
    \/ \E t \in Text : EnumThreadChildProc(t)
    \/ ChildrenDone
    \/ ThreadsDone

\* Everything the monitoring thread does without the help of the user.
Monitor ==
    \/ ReadConfig
    \/ ReadConfigFails
    \/ BrowseProcesses
    \/ BrowseProcessesFails
    \/ \E p \in PID : GetProcessName(p)
    \/ Check
    \/ ProcessesDone
    \/ IfAnyProcessExit
    \/ EndOfScan
    \/ Wake

Environment ==
    \/ \E p \in PID : StartProcess(p) \/ ExitProcess(p) \/ ChangeWindows(p)
    \/ EditConfig
    \/ DismissMessageBox

Next == Monitor \/ Environment

Spec == Init /\ [][Next]_vars

\* The thread runs whenever it is not waiting for the user, and EnumProcesses
\* does not fail for ever.
FairSpec == Spec /\ WF_vars(Monitor) /\ SF_vars(BrowseProcesses)
-----------------------------------------------------------------------------
Param == [pid : PID \cup {NoPid}, nItem : Nat, ProcName : Name,
          WinReported : BOOLEAN, HungReported : BOOLEAN, dlg : SUBSET Dialog]

Message == [kind : {"hung", "dialog", "notfound", "END"}, pid : PID \cup {NoPid},
            item : Nat, name : Name, text : Text \cup {""}]

Checking == pc \in {"check", "window", "child"}

\* Every variable stays in its type, the three copies of the number of items
\* agree although they are written one after another, and the indices the
\* window callbacks and IfAnyProcessExit use stay inside procItems and
\* ProcExist, also across scans whose configuration could not be read.
TypeOK ==
    /\ config \in Config \cup {NoFile}
    /\ os \in [PID -> Process \cup {NoProcess}]
    /\ pc \in {"read", "msgbox", "enum", "next", "check", "window", "child", "exit", "sleep"}
    /\ procItems \in Seq(ProcessItem)
    /\ gProcSize = Len(procItems)
    /\ ProcExist \in [1..gProcSize -> BOOLEAN]
    /\ aProcesses \in SUBSET PID
    /\ handle \in PID \cup {NoPid}
    /\ param \in Param
    /\ Checking => param.pid \in PID /\ param.nItem \in 1..gProcSize
    /\ listed \in SUBSET Dialog /\ seen \in SUBSET Dialog /\ kids \in SUBSET Text
    /\ exitIdx \in Nat \ {0} /\ (pc = "exit" => exitIdx <= gProcSize + 1)
    /\ msgs \in Seq(Message)
    /\ fresh \in BOOLEAN
    /\ running \in SUBSET PID /\ unchanged \in SUBSET running /\ ran \in SUBSET Name

Said(kind) == {k \in 1..Len(msgs) : msgs[k].kind = kind}

\* "process not found" is never said of an item while a process that belongs
\* to it, whose name can be read, has been running since EnumProcesses
\* returned its pid, whatever started, exited or was reconfigured meanwhile.
NotFoundSound ==
    \A k \in Said("notfound"), p \in running :
        os[p].access = "full" => FindProecss(procItems, os[p].name) # msgs[k].item

\* A scan that read the configuration and got to its END has said "process not
\* found" of every item that no process, and no unreadable one, belonged to at
\* any moment of the scan: the flags of the scan before are gone.
ExitReported ==
    fresh /\ Said("END") # {} =>
        \A i \in 1..gProcSize :
            (\A n \in ran \cup {Unknown} : FindProecss(procItems, n) # i)
                => \E k \in Said("notfound") : msgs[k].item = i

\* A message about a window names the process the window belonged to: between
\* reading a process's name and reporting its windows, the pid does not pass
\* to another process.
WindowReportNamesOwner ==
    [][\A k \in (Len(msgs) + 1)..Len(msgs') :
          msgs'[k].kind \in {"hung", "dialog"} /\ msgs'[k].name # Unknown
             /\ os[msgs'[k].pid] # NoProcess
          => os[msgs'[k].pid].name = msgs'[k].name]_vars

\* However many of its windows do not respond, a process is reported hung at
\* most once in a scan (HungReported).
HungOncePerScan ==
    \A j, k \in Said("hung") : msgs[j].pid = msgs[k].pid => j = k

\* What a scan says of a process that does not change while the scan lasts:
\* hung if a window hangs and the item asks for it, every window whose caption
\* matches, and every matching child of a window that itself does not match.
Expected(p, text) ==
    LET item == procItems[FindProecss(procItems, os[p].name)]
        tops == {d \in os[p].dialogs : TitleMatches(item, TitleOf[d])}
    IN  Cardinality({d \in tops : TitleOf[d] = text})
        + Cardinality({d \in os[p].dialogs \ tops :
                          text \in KidsOf[d] /\ ContentMatches(item, text)})

\* A complete scan reports a process that stayed as it was, exactly: each of
\* its abnormal windows once, in whatever order processes and windows come.
SteadyWindowsReported ==
    Said("END") # {} =>
        \A p \in unchanged :
            os[p].access = "full" /\ FindProecss(procItems, os[p].name) # 0 =>
                LET item == procItems[FindProecss(procItems, os[p].name)]
                IN  /\ (\E k \in Said("hung") : msgs[k].pid = p)
                           <=> (item.hung /\ os[p].hung # {})
                    /\ \A t \in Text :
                          Cardinality({k \in Said("dialog") : msgs[k].pid = p /\ msgs[k].text = t})
                             = Expected(p, t)

\* The flag ProcExist[i] says that a process of item i ran during the scan
\* (the comment at monitor.cpp:376 says what the flag is for).
FlagsMeanRunning ==
    Said("END") # {} =>
        \A i \in 1..gProcSize :
            ProcExist[i] => \E n \in ran \cup {Unknown} : FindProecss(procItems, n) = i

\* PID 0 in a message says that the process does not exist
\* (MonitorZSoftWare.cpp:189): no process with the item's name was running
\* from the enumeration on.
NotFoundMeansAbsent ==
    \A k \in Said("notfound"), p \in running :
        os[p].access = "full" => ~IsPrefix(msgs[k].name, os[p].name)

\* monitor.cpp:339-346, 392-420: the scan of a thread that is not waiting for
\* the user comes to Sleep, while processes and windows come and go: every pid
\* is visited once and IfAnyProcessExit passes every item.  That Windows never
\* enumerates a window twice is assumed.
ScanEnds == (pc = "enum") ~> (pc = "sleep")

\* Item i of configuration c is absent: no process belongs to it.
Absent(c, i) ==
    /\ config = c
    /\ \A p \in PID : FindProecss(c, NameRead(p)) # i

\* An item whose process has gone for good is reported again and again, as
\* long as its configuration stays and no MessageBox stays open.
AbsentIsReported ==
    \A c \in Config : \A i \in 1..Len(c) :
        <>[]Absent(c, i) /\ []<>(pc # "msgbox")
            => []<>(\E k \in Said("notfound") : msgs[k].item = i)
=============================================================================
