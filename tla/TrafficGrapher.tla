--------------------------- MODULE TrafficGrapher ---------------------------
(***************************************************************************)
(* ttg-snmp.cpp: find an interface by its name, sample its two counters    *)
(* every interval, and print maximum, average and minimum at the end, or   *)
(* when the user presses Ctrl-C.  The SNMP library and the device are      *)
(* external; a request is answered, refused or not answered.               *)
(*                                                                         *)
(* finish is the handler of SIGINT too.  Elsewhere the handler keeps main  *)
(* waiting; on Windows it is a thread beside it.                           *)
(***************************************************************************)
EXTENDS Integers, Sequences

CONSTANTS
    Jobs,    \* what the program is called with, and on which device
    Wrap,    \* the counters count modulo Wrap, which stands for 2^32 and 2^64
    Growths, \* by how much a counter grows in an interval
    MaxRuns  \* bound: the iterations without a count

VARIABLES
    job,        \* the call
    pc,         \* where main is
    todo,       \* requests main makes one after the other
    then,       \* where main goes on after them
    at,         \* entries of ifDescr seen
    ifno,       \* the interface
    cur,        \* in and out, as sampled last
    rate,       \* ratein and rateout
    sum,        \* sumin and sumout, whose 64 bits are taken to suffice
    max, min,   \* maxin, maxout, minin and minout
    iterations,
    finishing,  \* where finish is: called by main, and as the handler
    closed,     \* ses has been closed
    exited,     \* how the program ended, or "no"
    misuse,     \* uses of ses after it was closed, and divisions by zero
    report,     \* what finish has printed
    counter,    \* the counters of the device
    grown,      \* their true growth that is not yet in the sums
    moved,      \* their true growth that is in the sums
    clean       \* finish was called with the sums complete, every growth was
                \* less than Wrap and the device was not started again

program == <<todo, then, at, ifno, cur, rate, sum, max, min, iterations>>
device  == <<counter, grown, moved>>
vars    == <<job, pc, program, finishing, closed, exited, misuse, report, device, clean>>

Unlimited == -1
Dirs == {"in", "out"}
Never == Wrap * Wrap \* minin and minout at the start, 2^64 - 1

\* after: the view goes on behind ifDescr; absent: an entry has no instance of
\* what ifstatus asks for; extended: v2c and 64 bits.
JobType == [mode : {"index", "name", "list"}, name : STRING, extended : BOOLEAN,
            count : (Nat \ {0}) \cup {Unlimited}, interval : Nat \ {0}, windows : BOOLEAN,
            after : BOOLEAN, absent : BOOLEAN, restarts : BOOLEAN, table : Seq(STRING)]

ASSUME TrafficAssumption ==
    Wrap \in Nat \ {0} /\ Growths \subseteq 0..Wrap /\ MaxRuns \in Nat /\ Jobs \subseteq JobType

Zero == [d \in Dirs |-> 0]
Threads == {"main", "handler"}

Init ==
    /\ job \in Jobs
    /\ pc = (IF job.mode = "index" THEN "thr" ELSE IF job.mode = "name" THEN "walk" ELSE "ask")
    /\ todo = (IF job.mode = "list" THEN <<"string", "string", "string">> ELSE << >>)
    /\ then = "walk" /\ at = 0 /\ ifno = 1
    /\ cur = Zero /\ rate = Zero /\ sum = Zero /\ max = Zero /\ min = [d \in Dirs |-> Never]
    /\ iterations = 0 /\ finishing = [t \in Threads |-> "no"] /\ closed = FALSE /\ exited = "no"
    /\ misuse = {} /\ report = << >>
    /\ counter = [d \in Dirs |-> Wrap - 1] /\ grown = Zero /\ moved = Zero /\ clean = TRUE
-----------------------------------------------------------------------------
\* Main waits while the handler runs, except on Windows.
Running == exited = "no" /\ finishing["main"] = "no" /\ (finishing["handler"] = "no" \/ job.windows)

UseSession == misuse' = IF closed THEN misuse \cup {"used closed"} ELSE misuse

\* prsnmpstr, ifstatus and prifalias: one GET; ifstatus does not look at the
\* type of the answer and follows a null pointer when there is no instance.
Ask ==
    /\ Running /\ pc = "ask" /\ UseSession
    /\ \/ /\ pc' = IF Len(todo) > 1 THEN "ask" ELSE then
          /\ todo' = Tail(todo) /\ UNCHANGED exited
       \/ /\ pc' = "perr" /\ UNCHANGED <<todo, exited>>
       \/ /\ Head(todo) = "status" /\ job.extended /\ job.absent
          /\ exited' = "crashed" /\ UNCHANGED <<pc, todo>>
    /\ UNCHANGED <<job, then, at, ifno, cur, rate, sum, max, min, iterations, finishing, closed,
                   report, device, clean>>

\* Mutant: the error status is not looked at; v1 repeats the name, too.
NextEntryUnchecked == CASE at < Len(job.table) -> "entry"
                        [] at = Len(job.table) /\ job.after -> "behind"
                        [] OTHER -> "end"

\* What GETNEXT after entry at gives: an entry of ifDescr, something behind it,
\* the end of the view, which in v2c bears the name that was asked for, or in
\* v1 an error.
NextEntry == CASE at < Len(job.table) -> "entry"
               [] at = Len(job.table) /\ job.after -> "behind"
               [] at = Len(job.table) /\ ~job.after /\ job.extended -> "end"
               [] OTHER -> "error"

Details == IF job.extended THEN <<"status", "status", "alias", "string">> ELSE <<"status", "status">>

\* One round of lsif.
Lsif ==
    /\ Running /\ pc = "walk" /\ UseSession
    /\ \/ /\ NextEntry = "entry" /\ job.mode = "name" /\ job.table[at + 1] = job.name
          /\ pc' = "thr" /\ ifno' = at + 1 /\ UNCHANGED <<todo, then, at>>
       \/ /\ NextEntry = "entry" /\ job.mode = "name" /\ job.table[at + 1] # job.name
          /\ at' = at + 1 /\ UNCHANGED <<pc, todo, then, ifno>>
       \/ /\ NextEntry = "entry" /\ job.mode = "list"
          /\ pc' = "ask" /\ todo' = Details /\ then' = "walk" /\ at' = at + 1 /\ UNCHANGED ifno
       \/ /\ NextEntry = "end" /\ job.mode = "name" /\ UNCHANGED <<pc, todo, then, at, ifno>>
       \/ /\ NextEntry = "end" /\ job.mode = "list"
          /\ pc' = "ask" /\ todo' = Details /\ then' = "walk" /\ UNCHANGED <<at, ifno>>
       \/ /\ NextEntry = "behind" /\ pc' = IF job.mode = "name" THEN "unable" ELSE "return"
          /\ UNCHANGED <<todo, then, at, ifno>>
       \/ /\ pc' = "perr" /\ UNCHANGED <<todo, then, at, ifno>>
    /\ UNCHANGED <<job, cur, rate, sum, max, min, iterations, finishing, closed, exited, report,
                   device, clean>>

\* The heading of thr, then signal.
Thr ==
    /\ Running /\ pc = "thr"
    /\ pc' = "ask" /\ todo' = <<"string", "string">> /\ then' = "top"
    /\ UNCHANGED <<job, at, ifno, cur, rate, sum, max, min, iterations, finishing, closed, exited,
                   misuse, report, device, clean>>

\* perr; exit(1) after a wrong type, an unknown name; the end of main.
CloseSession ==
    /\ closed' = TRUE
    /\ misuse' = IF closed THEN misuse \cup {"closed twice"} ELSE misuse
Leave(code) ==
    /\ Running /\ CloseSession
    /\ pc' = IF code = "1" THEN "exit 1" ELSE "exit 0"
    /\ UNCHANGED <<job, program, finishing, exited, report, device, clean>>
Perr == pc \in {"perr", "unable"} /\ Leave("1")
Return == pc = "return" /\ Leave("0")
Exit ==
    /\ Running /\ pc \in {"exit 0", "exit 1"}
    /\ exited' = IF pc = "exit 1" THEN "1" ELSE "0"
    /\ UNCHANGED <<job, pc, program, finishing, closed, misuse, report, device, clean>>
-----------------------------------------------------------------------------
\* Mutant: count is the number of samples, and one more is made.
TopLate ==
    /\ Running /\ pc = "top"
    /\ \/ job.count # Unlimited /\ iterations > job.count + 1
          /\ finishing' = [finishing EXCEPT !["main"] = "max"] /\ UNCHANGED pc
       \/ ~(job.count # Unlimited /\ iterations > job.count + 1) /\ pc' = "in" /\ UNCHANGED finishing
    /\ UNCHANGED <<job, program, closed, exited, misuse, report, device, clean>>

\* Mutant: the count is compared with >=, so that nothing is measured for 1.
TopEarly ==
    /\ Running /\ pc = "top"
    /\ IF job.count # Unlimited /\ iterations >= job.count
       THEN finishing' = [finishing EXCEPT !["main"] = "max"] /\ UNCHANGED pc
       ELSE pc' = "in" /\ UNCHANGED finishing
    /\ UNCHANGED <<job, program, closed, exited, misuse, report, device, clean>>

Top ==
    /\ Running /\ pc = "top" /\ (job.count = Unlimited => iterations < MaxRuns)
    /\ IF job.count # Unlimited /\ iterations > job.count
       THEN finishing' = [finishing EXCEPT !["main"] = "max"] /\ UNCHANGED pc
       ELSE pc' = "in" /\ UNCHANGED finishing
    /\ UNCHANGED <<job, program, closed, exited, misuse, report, device, clean>>

\* Mutant: the difference is not taken modulo the width of the counter.
SubtractPlain(new, old) == IF new >= old THEN new - old ELSE 0

\* Subtraction of unsigned numbers.
Subtract(new, old) == (new - old) % Wrap

\* getcntr64 or getcntr32 of one direction.
Getcntr(d, next) ==
    /\ Running /\ UseSession
    /\ \/ /\ pc' = next
          /\ cur' = [cur EXCEPT ![d] = counter[d]]
          /\ rate' = [rate EXCEPT ![d] = Subtract(counter[d], cur[d])]
       \/ /\ pc' \in {"perr", "unable"} \* no answer, or a type that is no counter
          /\ UNCHANGED <<cur, rate>>
    /\ UNCHANGED <<job, todo, then, at, ifno, sum, max, min, iterations, finishing, closed, exited,
                   report, device, clean>>
SampleIn == pc = "in" /\ Getcntr("in", "out")
SampleOut == pc = "out" /\ Getcntr("out", IF iterations > 0 THEN "sum" ELSE "count")

\* The statements that follow.
Quietly(next) ==
    /\ Running /\ pc' = next
    /\ UNCHANGED <<job, todo, then, at, ifno, cur, rate, finishing, closed, exited, misuse, report, counter, clean>>
SumUp ==
    /\ pc = "sum" /\ Quietly("extremes")
    /\ sum' = [d \in Dirs |-> sum[d] + rate[d]]
    /\ moved' = [d \in Dirs |-> moved[d] + grown[d]] /\ grown' = Zero
    /\ UNCHANGED <<max, min, iterations>>

Extremes ==
    /\ pc = "extremes" /\ Quietly("count")
    /\ max' = [d \in Dirs |-> IF rate[d] > max[d] THEN rate[d] ELSE max[d]]
    /\ min' = [d \in Dirs |-> IF rate[d] < min[d] THEN rate[d] ELSE min[d]]
    /\ UNCHANGED <<sum, iterations, grown, moved>>

\* The rates are printed before.
Count ==
    /\ pc = "count" /\ Quietly("sleep")
    /\ iterations' = iterations + 1
    /\ UNCHANGED <<sum, max, min, grown, moved>>

Sleep == pc = "sleep" /\ Quietly("top") /\ UNCHANGED <<sum, max, min, iterations, grown, moved>>
-----------------------------------------------------------------------------
\* The sums are those of iterations - 1 rates.
Complete == pc \notin {"extremes", "count"}

\* SIGINT, after signal.
Interrupt ==
    /\ exited = "no" /\ finishing["handler"] = "no"
    /\ then = "top" /\ todo = << >>
    /\ finishing' = [finishing EXCEPT !["handler"] = "max"]
    /\ clean' = (clean /\ Complete /\ ~job.windows)
    /\ UNCHANGED <<job, pc, program, closed, exited, misuse, report, device>>

\* finish: maximum, average, minimum; the divisor is unsigned.
Average(d) == IF iterations = 0 THEN 0 ELSE (sum[d] \div (iterations - 1)) \div job.interval

FinishStep(t, stage, next) ==
    /\ exited = "no" /\ finishing[t] = stage
    /\ t = "main" => finishing["handler"] = "no" \/ job.windows
    /\ finishing' = [finishing EXCEPT ![t] = next]
    /\ UNCHANGED <<job, pc, program, device, clean>>
Shown(what, values) == report' = [x \in DOMAIN report \cup {what} |-> IF x = what THEN values ELSE report[x]]

Maximum(t) ==
    /\ FinishStep(t, "max", "average")
    /\ report' = [maximum |-> [d \in Dirs |-> max[d] \div job.interval]]
    /\ UNCHANGED <<closed, exited, misuse>>
Averages(t) ==
    /\ FinishStep(t, "average", "minimum") /\ UNCHANGED closed
    /\ \/ /\ iterations = 1 /\ exited' = "crashed" /\ misuse' = misuse \cup {"division by zero"}
          /\ UNCHANGED report
       \/ /\ iterations # 1 /\ Shown("average", [d \in Dirs |-> Average(d)])
          /\ UNCHANGED <<exited, misuse>>
Minimum(t) ==
    /\ FinishStep(t, "minimum", "close") /\ Shown("minimum", [d \in Dirs |-> min[d] \div job.interval])
    /\ UNCHANGED <<closed, exited, misuse>>
Close(t) == FinishStep(t, "close", "exit") /\ CloseSession /\ UNCHANGED <<exited, report>>
ExitFinish(t) == FinishStep(t, "exit", "exit") /\ exited' = "0" /\ UNCHANGED <<closed, misuse, report>>
Finish(t) == Maximum(t) \/ Averages(t) \/ Minimum(t) \/ Close(t) \/ ExitFinish(t)
-----------------------------------------------------------------------------
\* The device counts while the program sleeps; it may be started again.
Grow ==
    /\ exited = "no" /\ pc = "sleep" /\ grown = Zero
    /\ \E i, o \in Growths :
           /\ i + o > 0
           /\ grown' = [d \in Dirs |-> IF d = "in" THEN i ELSE o]
           /\ counter' = [d \in Dirs |-> (counter[d] + grown'[d]) % Wrap]
           /\ clean' = (clean /\ i < Wrap /\ o < Wrap)
    /\ UNCHANGED <<job, pc, program, finishing, closed, exited, misuse, report, moved>>
Restart ==
    /\ exited = "no" /\ pc = "sleep" /\ job.restarts /\ counter # Zero
    /\ counter' = Zero /\ grown' = Zero /\ clean' = FALSE
    /\ UNCHANGED <<job, pc, program, finishing, closed, exited, misuse, report, moved>>

Main == \/ Ask \/ Lsif \/ Thr \/ Perr \/ Return \/ Exit \/ Top \/ SampleIn \/ SampleOut
        \/ SumUp \/ Extremes \/ Count \/ Sleep
Next == Main \/ (\E t \in Threads : Finish(t)) \/ Interrupt \/ Grow \/ Restart

Fairness == WF_vars(Main) /\ \A t \in Threads : WF_vars(Finish(t))
Spec == Init /\ [][Next]_vars /\ Fairness
-----------------------------------------------------------------------------
(* Properties *)

\* ttg-snmp.cpp:240, 304: a program with a count makes at most one sample more
\* than it measures rates; what is kept of the counters fits their width.
TrafficTypeOK ==
    /\ job.count # Unlimited => iterations <= job.count + 1
    /\ \A d \in Dirs : cur[d] \in 0..(Wrap - 1) /\ rate[d] \in 0..(Wrap - 1) /\ max[d] < Wrap
    /\ misuse \subseteq {"used closed", "closed twice", "division by zero"}
    /\ exited \in {"no", "0", "1", "crashed"} /\ ifno \in 1..(Len(job.table) + 1)

\* ttg-snmp.cpp:248-275, 543-560: what is printed at the end is true, also
\* when the counters wrapped around, when finish was called by the loop or
\* interrupted anything but the statements between the sums and iterations++:
\* the average is what the counters grew by since the first sample over the
\* number of intervals, between minimum and maximum.
StatisticsSound ==
    exited = "0" /\ report # << >> /\ clean /\ iterations > 1 =>
        \A d \in Dirs :
            /\ report.average[d] = (moved[d] \div (iterations - 1)) \div job.interval
            /\ report.minimum[d] <= report.average[d] /\ report.average[d] <= report.maximum[d]

\* ttg-snmp.cpp:543-563, 641-646: what an interrupt can break.  It divides by
\* zero only after the first sample, and finish called by the loop never does;
\* the session is closed twice only when the interrupt met a program that was
\* closing it, and used after that only on Windows.
KnownMisuse ==
    /\ "division by zero" \in misuse => iterations = 1 /\ finishing["main"] = "no"
    /\ "closed twice" \in misuse => finishing["handler"] # "no"
    /\ "used closed" \in misuse => job.windows /\ finishing["handler"] # "no"

\* ttg-snmp.cpp:239-310, 488-527: a program with a count ends, whatever the
\* device answers or does not; unless it walks a v2c view that ends with
\* ifDescr and lists it, or looks for an interface that is not there.
Found == \E i \in DOMAIN job.table : job.table[i] = job.name
EndlessWalk ==
    /\ job.extended /\ ~job.after
    /\ job.mode = "list" \/ (job.mode = "name" /\ ~Found)
RunEnds == job.count # Unlimited /\ ~EndlessWalk => <>(exited # "no")
=============================================================================
