---------------------------- MODULE ConfigReader ----------------------------
(***************************************************************************)
(* ReadConfig of src/MonitorZSoftWare/monitor.cpp, line by line: it reads  *)
(* config.ini again before every scan, into the items of the process       *)
(* monitor (ProcessMonitor takes the result as one step) and the timer.    *)
(*                                                                         *)
(* A header "[type=name]" is represented by the section its type is taken  *)
(* for and by its name, a line of a section by its field and its value     *)
(* ("y" is any value but "n").  None stands for a value that is not there: *)
(* the code then uses what its uninitialized buffer holds.  The fields     *)
(* start, cmd and the third part of wnd are parsed and never used, and are *)
(* left out, as are lines that are skipped: empty, comments, unknown.      *)
(***************************************************************************)
EXTENDS Integers, Sequences

CONSTANTS
    Name,       \* process names
    Text,       \* what a window line compares captions with
    Timer,      \* values of the timer field
    None,       \* a field without a value
    MaxLines,   \* bound: lines of a file
    MaxReads    \* bound: calls of ReadConfig

\* The type is compared over its own length: a prefix of "process" will do.
\* Nothing: swscanf matches no type ("[]"), and returns 0.  Bare: the line ends
\* before a type ("["), and swscanf returns EOF, which the code takes for a type.
Nothing == 4
Bare == 5
Header == [field : {"header"}, flag : {1}, name : Name \cup {None}]
          \cup [field : {"header"}, flag : {0, 2, 3, Nothing, Bare}, name : {None}]
Field  == [field : {"hung"}, val : {"n", "y", None}]
          \cup [field : {"wnd"}, title : Text, content : Text \cup {None}]
          \cup [field : {"wnd"}, title : {None}, content : {None}]
          \cup [field : {"timer"}, val : Timer \cup {None}]
Line   == Header \cup Field

ASSUME ConfigAssumption ==
    /\ None \notin Name /\ None \notin Text /\ None \notin Timer /\ None \notin {"n", "y"}
    /\ Timer \subseteq Int /\ Timer # {} /\ Text # {}
    /\ MaxLines \in Nat /\ MaxReads \in Nat

Item == [name : Name, hung : BOOLEAN, wins : Seq([title : Text, content : Text])]

VARIABLES
    procItems,  \* the items
    nCount,     \* their number, as ReadConfig counts it
    ItemFlag,   \* the section: 0 none, 1 process, 2 service, 3 setting
    type,       \* the section the buffer type names, by the same numbers
    timer,      \* seconds between two scans
    reading,    \* is ReadConfig in its loop?
    lines,      \* the lines read since the file was opened
    before,     \* the timer when it was opened
    reads       \* calls of ReadConfig so far

vars == <<procItems, nCount, ItemFlag, type, timer, reading, lines, before, reads>>
-----------------------------------------------------------------------------
\* StartMonitor has set the timer.
Init ==
    /\ procItems = << >> /\ nCount = 0 /\ ItemFlag = 0 /\ type = 0
    /\ timer \in Timer
    /\ reading = FALSE /\ lines = << >> /\ before = timer
    /\ reads = 0

\* The buffer type is not initialized: it may name any section.
Open ==
    /\ ~reading /\ reads < MaxReads
    /\ reads' = reads + 1
    /\ reading' = TRUE
    /\ procItems' = << >> /\ nCount' = 0 /\ ItemFlag' = 0 /\ type' \in 0..3
    /\ lines' = << >> /\ before' = timer
    /\ UNCHANGED timer

\* The file does not open: ReadConfig returns -1 and clears nothing.
OpenFails ==
    /\ ~reading /\ reads < MaxReads
    /\ reads' = reads + 1
    /\ UNCHANGED <<procItems, nCount, ItemFlag, type, timer, reading, lines, before>>

\* getline returns l.
Getline(l) ==
    /\ reading /\ Len(lines) < MaxLines
    /\ lines' = Append(lines, l)
    /\ UNCHANGED <<reading, before, reads>>

\* The section the type of a header names: what swscanf read, or what the
\* buffer held before.
TypeRead(l) == IF l.flag = Bare THEN type ELSE l.flag

PushItem(n) ==
    /\ procItems' = Append(procItems, [name |-> n, hung |-> FALSE, wins |-> << >>])
    /\ nCount' = nCount + 1

\* Mutant: the section is taken before the name is known to be there.
ReadHeaderEarly(l) ==
    /\ Getline(l)
    /\ IF l.flag = Nothing THEN UNCHANGED <<ItemFlag, type>>
       ELSE ItemFlag' = TypeRead(l) /\ type' = TypeRead(l)
    /\ IF l.flag = 1 /\ l.name # None THEN PushItem(l.name)
       ELSE UNCHANGED <<procItems, nCount>>
    /\ UNCHANGED timer

\* Mutant: a section of another type does not end the one before.
ReadHeaderKeeps(l) ==
    /\ Getline(l)
    /\ type' = IF l.flag = Nothing THEN type ELSE TypeRead(l)
    /\ IF l.flag = Nothing \/ TypeRead(l) = 0 \/ (TypeRead(l) = 1 /\ l.name = None)
       THEN UNCHANGED <<procItems, nCount, ItemFlag>>
       ELSE /\ ItemFlag' = TypeRead(l)
            /\ IF TypeRead(l) = 1 THEN PushItem(l.name)
               ELSE UNCHANGED <<procItems, nCount>>
    /\ UNCHANGED timer

\* A line that starts with "[".  Nothing happens, and the section before goes
\* on, when swscanf matched nothing or a process has no name.
ReadHeader(l) ==
    /\ Getline(l)
    /\ type' = IF l.flag = Nothing THEN type ELSE TypeRead(l)
    /\ IF l.flag = Nothing \/ (TypeRead(l) = 1 /\ l.name = None)
       THEN UNCHANGED <<procItems, nCount, ItemFlag>>
       ELSE /\ ItemFlag' = TypeRead(l)
            /\ IF TypeRead(l) = 1 THEN PushItem(l.name)
               ELSE UNCHANGED <<procItems, nCount>>
    /\ UNCHANGED timer

\* What a value that is not there may turn out to be.
Values(v, S) == IF v = None THEN S ELSE {v}

\* Mutant: the first value of hung counts.
ReadProcessConfigOnce(l) ==
    /\ Getline(l)
    /\ \/ /\ l.field = "hung"
          /\ \E v \in Values(l.val, {"n", "y"}) :
                procItems' = [procItems EXCEPT ![nCount].hung = @ \/ v # "n"]
       \/ /\ l.field = "wnd"
          /\ \E t \in Values(l.title, Text), c \in Values(l.content, Text) :
                procItems' = [procItems EXCEPT ![nCount].wins =
                                 Append(@, [title |-> t, content |-> c])]
       \/ l.field = "timer" /\ UNCHANGED procItems
    /\ UNCHANGED <<nCount, ItemFlag, type, timer>>

\* A line of a process section.  Everything but "n" turns hung on.
ReadProcessConfig(l) ==
    /\ Getline(l)
    /\ \/ /\ l.field = "hung"
          /\ \E v \in Values(l.val, {"n", "y"}) :
                procItems' = [procItems EXCEPT ![nCount].hung = (v # "n")]
       \/ /\ l.field = "wnd"
          /\ \E t \in Values(l.title, Text), c \in Values(l.content, Text) :
                procItems' = [procItems EXCEPT ![nCount].wins =
                                 Append(@, [title |-> t, content |-> c])]
       \/ l.field = "timer" /\ UNCHANGED procItems
    /\ UNCHANGED <<nCount, ItemFlag, type, timer>>

\* A line of a setting section.
ReadSettingConfig(l) ==
    /\ Getline(l)
    /\ IF l.field = "timer" THEN timer' \in Values(l.val, Timer) ELSE UNCHANGED timer
    /\ UNCHANGED <<procItems, nCount, ItemFlag, type>>

\* A line outside the sections, or in one of a service.
SkipLine(l) ==
    /\ Getline(l)
    /\ UNCHANGED <<procItems, nCount, ItemFlag, type, timer>>

ReadLine(l) ==
    IF l.field = "header" THEN ReadHeader(l)
    ELSE \/ ItemFlag = 1 /\ ReadProcessConfig(l)
         \/ ItemFlag = 3 /\ ReadSettingConfig(l)
         \/ ItemFlag \in {0, 2} /\ SkipLine(l)

EndOfFile ==
    /\ reading
    /\ reading' = FALSE
    /\ type' = 0
    /\ UNCHANGED <<procItems, nCount, ItemFlag, timer, lines, before, reads>>

Next ==
    \/ Open
    \/ OpenFails
    \/ \E l \in Line : ReadLine(l)
    \/ EndOfFile

Spec == Init /\ [][Next]_vars
-----------------------------------------------------------------------------
(* What a file says, given its lines f, without the loop. *)

\* The headers with a type, those of them that begin a section, and the last
\* of these up to line k.
Typed(f, k)  == f[k].field = "header" /\ f[k].flag \in 0..3
Begins(f, k) == Typed(f, k) /\ (f[k].flag = 1 => f[k].name # None)

Last(S) == CHOOSE h \in S : \A j \in S : j <= h

SectionOf(f, k) ==
    LET H == {h \in 1..k : Begins(f, h)}
    IN  IF H = {} THEN 0 ELSE Last(H)

\* The headers of processes, and the lines of a field in the section that line
\* h begins.
Processes(f) == {h \in 1..Len(f) : Begins(f, h) /\ f[h].flag = 1}

LinesOf(f, h, field) == {k \in 1..Len(f) : f[k].field = field /\ SectionOf(f, k) = h}

\* at lists the lines S, each of them once and in order.
Lists(at, S) ==
    /\ S = {at[j] : j \in DOMAIN at}
    /\ \A i, j \in DOMAIN at : i < j => at[i] < at[j]

\* hung is what the last of the hung lines H says, and wins what the window
\* lines W say, in order.
HungAs(f, H, hung) ==
    IF H = {} THEN hung = FALSE ELSE f[Last(H)].val # None => hung = (f[Last(H)].val = "y")

WindowAs(line, win) ==
    win.title \in Values(line.title, Text) /\ win.content \in Values(line.content, Text)

WindowsAs(f, W, wins) ==
    \E at \in [1..Len(wins) -> W] :
        Lists(at, W) /\ \A j \in 1..Len(wins) : WindowAs(f[at[j]], wins[j])

\* item is what the section of header h describes.
Describes(f, h, item) ==
    /\ item.name = f[h].name
    /\ HungAs(f, LinesOf(f, h, "hung"), item.hung)
    /\ WindowsAs(f, LinesOf(f, h, "wnd"), item.wins)
-----------------------------------------------------------------------------
\* Every item has its type, and the index nCount - 1 with which a line of a
\* process section is stored is that of the last item, however the headers
\* before it were malformed.
TypeOK ==
    /\ procItems \in Seq(Item)
    /\ nCount = Len(procItems)
    /\ type \in 0..3
    /\ ItemFlag \in 0..3 /\ (ItemFlag = 1 => nCount > 0)
    /\ timer \in Timer /\ before \in Timer
    /\ reading \in BOOLEAN
    /\ lines \in Seq(Line) /\ Len(lines) <= MaxLines
    /\ reads \in 0..MaxReads

\* At any line, also after later reads that failed to open the file: the items
\* are the process sections read, in order, each with the fields of its own
\* section, the last value of hung and all windows, and nothing of an earlier
\* file; a value that is there is never replaced with what a buffer holds.
ItemsAsWritten ==
    \E at \in [1..Len(procItems) -> Processes(lines)] :
        /\ Lists(at, Processes(lines))
        /\ \A j \in 1..Len(procItems) : Describes(lines, at[j], procItems[j])

\* A header without a type, before any that has one: which section follows is
\* up to what an uninitialized buffer holds.
Unknown(f, k) == /\ f[k].field = "header" /\ f[k].flag = Bare
                 /\ \A j \in 1..k : ~Typed(f, j)

\* The timer lines in setting sections, and those in a section nobody knows.
SetsTimer(f) ==
    {k \in 1..Len(f) : /\ f[k].field = "timer"
                       /\ SectionOf(f, k) # 0 /\ f[SectionOf(f, k)].flag = 3}
GuessesTimer(f) ==
    {k \in 1..Len(f) : /\ f[k].field = "timer"
                       /\ SectionOf(f, k) = 0 /\ \E h \in 1..k : Unknown(f, h)}

\* The timer is that of the last timer line in a setting section; a file
\* without one leaves the timer of the files before, unless a header without
\* a type comes first and a timer line follows it.  After any other header, one
\* without a type never changes the section.
TimerAsWritten ==
    IF SetsTimer(lines) # {} THEN timer \in Values(lines[Last(SetsTimer(lines))].val, Timer)
    ELSE \/ timer = before
         \/ \E k \in GuessesTimer(lines) : timer \in Values(lines[k].val, Timer)
=============================================================================
