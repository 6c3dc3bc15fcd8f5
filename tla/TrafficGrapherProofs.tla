------------------------ MODULE TrafficGrapherProofs ------------------------
(***************************************************************************)
(* Proofs about TrafficGrapher: for every width of the counters, every     *)
(* growth of them, every call of the program and every number of samples.  *)
(***************************************************************************)
EXTENDS TrafficGrapher, TLAPS

Places == {"thr", "walk", "ask", "perr", "unable", "return", "exit 0", "exit 1", "top", "in",
           "out", "sum", "extremes", "count", "sleep"}
Stages == {"no", "max", "average", "minimum", "close", "exit"}
Sample == [Dirs -> 0..(Wrap - 1)]

\* What the variables are.
TypeInv ==
    /\ job \in Jobs /\ pc \in Places /\ then \in {"walk", "top"} /\ at \in Nat
    /\ ifno \in 1..(Len(job.table) + 1) /\ iterations \in Nat
    /\ cur \in Sample /\ rate \in Sample /\ max \in Sample /\ counter \in Sample
    /\ finishing \in [Threads -> Stages] /\ closed \in BOOLEAN
    /\ exited \in {"no", "0", "1", "crashed"}
    /\ misuse \subseteq {"used closed", "closed twice", "division by zero"}

\* A round that has begun is one of the rounds asked for.
CountInv ==
    /\ job.count # Unlimited => iterations <= job.count + 1
    /\ job.count # Unlimited /\ pc \in {"in", "out", "sum", "extremes", "count"} => iterations <= job.count

\* finish is called by the loop after a second sample; the session is closed by
\* main on its way out, by finish, or by the handler.
SessionInv ==
    /\ finishing["main"] # "no" => pc = "top" /\ iterations > 1
    /\ closed => \/ finishing["handler"] # "no" \/ finishing["main"] = "exit"
                 \/ pc \in {"exit 0", "exit 1"}
    /\ "division by zero" \in misuse => exited = "crashed"

SafeInv == TypeInv /\ CountInv /\ SessionInv /\ KnownMisuse

LEMMA JobTypes ==
    ASSUME NEW j \in Jobs
    PROVE  /\ j.interval \in Nat \ {0} /\ j.count \in Int /\ (j.count > 0 \/ j.count = Unlimited)
           /\ j.windows \in BOOLEAN /\ Len(j.table) \in Nat
           /\ j.mode \in {"index", "name", "list"}
    BY TrafficAssumption DEF JobType, Unlimited

LEMMA Remainders ==
    \A x \in Int : x % Wrap \in 0..(Wrap - 1)
    BY TrafficAssumption

LEMMA SafeInit ==
    ASSUME Init PROVE SafeInv
<1>1. Zero \in Sample /\ counter \in Sample
    BY TrafficAssumption DEF Init, Zero, Sample, Dirs
<1>2. 1 \in 1..(Len(job.table) + 1)
    BY JobTypes DEF Init
<1>3. TypeInv
    BY <1>1, <1>2 DEF Init, TypeInv, Places, Threads, Stages
<1>4. finishing["main"] = "no" /\ finishing["handler"] = "no"
    BY DEF Init, Threads
<1>5. CountInv
    BY JobTypes DEF Init, CountInv
<1> QED BY <1>3, <1>4, <1>5 DEF SafeInv, Init, SessionInv, KnownMisuse

\* While main runs, only the handler can have closed the session, on Windows.
LEMMA SessionInUse ==
    ASSUME SafeInv, Running, pc \notin {"exit 0", "exit 1"}, closed
    PROVE  finishing["handler"] # "no" /\ job.windows
    BY DEF SafeInv, SessionInv, Running

LEMMA UseSessionSafe ==
    ASSUME SafeInv, Running, pc \notin {"exit 0", "exit 1"}, UseSession
    PROVE  /\ misuse' \subseteq {"used closed", "closed twice", "division by zero"}
           /\ "division by zero" \notin misuse'
           /\ "closed twice" \in misuse' => finishing["handler"] # "no"
           /\ "used closed" \in misuse' => job.windows /\ finishing["handler"] # "no"
<1>1. "division by zero" \notin misuse
    BY DEF SafeInv, SessionInv, Running
<1>2. CASE closed
    BY <1>1, <1>2, SessionInUse DEF UseSession, SafeInv, TypeInv, KnownMisuse
<1>3. CASE ~closed
    BY <1>1, <1>3 DEF UseSession, SafeInv, TypeInv, KnownMisuse
<1> QED BY <1>2, <1>3

\* A step of main before the sampling or after it, that uses the session.
LEMMA RequestSafe ==
    ASSUME SafeInv, Ask \/ Lsif PROVE SafeInv'
<1>1. /\ Running /\ pc \in {"ask", "walk"} /\ UseSession
      /\ UNCHANGED <<job, cur, rate, max, iterations, finishing, closed, counter>>
    BY DEF Ask, Lsif, device
<1>2. pc' \in {"ask", "walk", "thr", "perr", "unable", "return", "top"} /\ then' \in {"walk", "top"}
    BY DEF Ask, Lsif, SafeInv, TypeInv
<1>3. at' \in Nat /\ ifno' \in 1..(Len(job.table) + 1)
  <2>1. at \in Nat /\ ifno \in 1..(Len(job.table) + 1) /\ Len(job.table) \in Nat
      BY JobTypes DEF SafeInv, TypeInv
  <2>2. CASE Ask
      BY <2>1, <2>2 DEF Ask
  <2>3. CASE Lsif
    <3>1. NextEntry = "entry" => at < Len(job.table)
        BY <2>1 DEF NextEntry
    <3> QED BY <2>1, <2>3, <3>1 DEF Lsif
  <2> QED BY <1>1, <2>2, <2>3 DEF Ask, Lsif
<1>4. exited' \in {"no", "0", "1", "crashed"}
    BY DEF Ask, Lsif, Running
<1>5. TypeInv'
    BY <1>1, <1>2, <1>3, <1>4, UseSessionSafe DEF SafeInv, TypeInv, Places, Sample
<1>6. CountInv'
    BY <1>1, <1>2 DEF SafeInv, CountInv
<1>7. SessionInv' /\ KnownMisuse'
    BY <1>1, <1>2, UseSessionSafe DEF SafeInv, SessionInv, KnownMisuse, Running
<1> QED BY <1>5, <1>6, <1>7 DEF SafeInv

\* perr, a wrong type, an unknown interface, the end of main.
LEMMA LeaveSafe ==
    ASSUME SafeInv, Thr \/ Perr \/ Return \/ Exit PROVE SafeInv'
<1>1. CASE Thr
    BY <1>1 DEF Thr, SafeInv, TypeInv, CountInv, SessionInv, KnownMisuse, Running, device, Places, Sample
<1>2. CASE Exit
  <2>1. exited' \in {"0", "1"} /\ misuse' = misuse /\ "division by zero" \notin misuse
      BY <1>2 DEF Exit, Running, SafeInv, SessionInv
  <2> QED BY <1>2, <2>1 DEF Exit, SafeInv, TypeInv, CountInv, SessionInv, KnownMisuse, program, device, Sample
<1>3. CASE Perr \/ Return
  <2>1. /\ Running /\ CloseSession /\ pc \in {"perr", "unable", "return"} /\ pc' \in {"exit 0", "exit 1"}
        /\ UNCHANGED <<job, then, at, ifno, cur, rate, max, iterations, finishing, exited, counter>>
      BY <1>3 DEF Perr, Return, Leave, program, device
  <2>2. misuse' \subseteq misuse \cup {"closed twice"}
      BY <2>1 DEF CloseSession
  <2>3. "closed twice" \in misuse' => finishing["handler"] # "no"
      BY <2>1, SessionInUse DEF CloseSession, SafeInv, KnownMisuse
  <2>4. TypeInv'
      BY <2>1, <2>2 DEF CloseSession, SafeInv, TypeInv, Places, Sample
  <2>5. CountInv' /\ SessionInv'
      BY <2>1, <2>2 DEF CloseSession, SafeInv, CountInv, SessionInv, Running
  <2>6. KnownMisuse'
      BY <2>1, <2>2, <2>3 DEF SafeInv, KnownMisuse
  <2> QED BY <2>4, <2>5, <2>6 DEF SafeInv
<1> QED BY <1>1, <1>2, <1>3

LEMMA TopSafe ==
    ASSUME SafeInv, Top PROVE SafeInv'
<1> DEFINE enough == job.count # Unlimited /\ iterations > job.count
<1>1. /\ Running /\ pc = "top"
      /\ UNCHANGED <<job, program, closed, exited, misuse, device>>
      /\ enough => finishing' = [finishing EXCEPT !["main"] = "max"] /\ pc' = pc
      /\ ~enough => pc' = "in" /\ finishing' = finishing
    BY DEF Top
<1>2. job.count \in Int /\ (job.count > 0 \/ job.count = Unlimited) /\ iterations \in Nat
    BY JobTypes DEF SafeInv, TypeInv
<1> HIDE DEF enough
<1>3. enough => iterations > 1
    BY <1>2 DEF enough
<1>4. ~enough => (job.count # Unlimited => iterations <= job.count)
    BY <1>2 DEF enough
<1>5. finishing' \in [Threads -> Stages] /\ finishing'["handler"] = finishing["handler"]
    BY <1>1 DEF SafeInv, TypeInv, Threads, Stages
<1>6. enough => finishing'["main"] = "max"
    BY <1>1 DEF SafeInv, TypeInv, Threads
<1>7. "division by zero" \notin misuse /\ finishing["main"] = "no"
    BY <1>1 DEF SafeInv, SessionInv, Running
<1>8. TypeInv'
    BY <1>1, <1>5 DEF SafeInv, TypeInv, program, device, Places, Sample
<1>9. CountInv'
    BY <1>1, <1>4 DEF SafeInv, CountInv, program
<1>10. SessionInv' /\ KnownMisuse'
    BY <1>1, <1>3, <1>5, <1>7 DEF SafeInv, SessionInv, KnownMisuse, program
<1> QED BY <1>8, <1>9, <1>10 DEF SafeInv

LEMMA SampleSafe ==
    ASSUME SafeInv, SampleIn \/ SampleOut PROVE SafeInv'
<1>1. PICK d \in Dirs, next \in {"out", "sum", "count"} : Getcntr(d, next) /\ pc \in {"in", "out"}
    BY DEF SampleIn, SampleOut, Dirs
<1>2. /\ Running /\ UseSession /\ pc' \in {next, "perr", "unable"}
      /\ UNCHANGED <<job, then, at, ifno, max, iterations, finishing, closed, exited, counter>>
    BY <1>1 DEF Getcntr, device
<1>3. Subtract(counter[d], cur[d]) \in 0..(Wrap - 1)
  <2>1. counter[d] \in 0..(Wrap - 1) /\ cur[d] \in 0..(Wrap - 1)
      BY DEF SafeInv, TypeInv, Sample
  <2>2. counter[d] - cur[d] \in Int
      BY <2>1, TrafficAssumption
  <2> QED BY <2>2, Remainders DEF Subtract
<1>4. cur' \in Sample /\ rate' \in Sample
    BY <1>1, <1>3 DEF Getcntr, SafeInv, TypeInv, Sample
<1>5. TypeInv'
    BY <1>1, <1>2, <1>4, UseSessionSafe DEF SafeInv, TypeInv, Places, Sample
<1>6. CountInv'
    BY <1>1, <1>2 DEF SafeInv, CountInv
<1>7. SessionInv' /\ KnownMisuse'
    BY <1>1, <1>2, UseSessionSafe DEF SafeInv, SessionInv, KnownMisuse, Running
<1> QED BY <1>5, <1>6, <1>7 DEF SafeInv

\* sum, max and min, iterations++ and Sleep.
LEMMA QuietSafe ==
    ASSUME SafeInv, SumUp \/ Extremes \/ Count \/ Sleep PROVE SafeInv'
<1>1. PICK next \in {"extremes", "count", "sleep", "top"} : Quietly(next)
    BY DEF SumUp, Extremes, Count, Sleep
<1>2. /\ Running /\ pc \in {"sum", "extremes", "count", "sleep"} /\ pc' = next
      /\ UNCHANGED <<job, then, at, ifno, cur, rate, finishing, closed, exited, misuse, counter>>
    BY <1>1 DEF SumUp, Extremes, Count, Sleep, Quietly
<1>3. max' \in Sample
  <2>1. CASE max' = max
      BY <2>1 DEF SafeInv, TypeInv
  <2>2. CASE max' # max
      BY <2>2 DEF SumUp, Extremes, Count, Sleep, SafeInv, TypeInv, Sample
  <2> QED BY <2>1, <2>2
<1>4. /\ iterations' \in Nat
      /\ \/ iterations' = iterations /\ (pc' \in {"extremes", "count"} => pc \in {"sum", "extremes"})
         \/ iterations' = iterations + 1 /\ pc = "count" /\ pc' = "sleep"
  <2>1. iterations \in Nat
      BY DEF SafeInv, TypeInv
  <2>2. CASE SumUp \/ Extremes \/ Sleep
      BY <2>1, <2>2 DEF SumUp, Extremes, Sleep, Quietly
  <2>3. CASE Count
      BY <2>1, <2>3 DEF Count, Quietly
  <2> QED BY <2>2, <2>3
<1>5. TypeInv'
    BY <1>2, <1>3, <1>4 DEF SafeInv, TypeInv, Places, Sample
<1>6. CountInv'
  <2>1. job.count \in Int /\ iterations \in Nat
      BY JobTypes DEF SafeInv, TypeInv
  <2> QED BY <1>2, <1>4, <2>1 DEF SafeInv, CountInv
<1>7. SessionInv' /\ KnownMisuse'
    BY <1>2 DEF SafeInv, SessionInv, KnownMisuse, Running
<1> QED BY <1>5, <1>6, <1>7 DEF SafeInv

LEMMA InterruptSafe ==
    ASSUME SafeInv, Interrupt PROVE SafeInv'
<1>1. finishing' \in [Threads -> Stages] /\ finishing'["main"] = finishing["main"]
    BY DEF Interrupt, SafeInv, TypeInv, Threads, Stages
<1>2. finishing'["handler"] = "max"
    BY DEF Interrupt, SafeInv, TypeInv, Threads
<1>3. UNCHANGED <<job, pc, then, at, ifno, iterations, cur, rate, max, counter, closed, exited, misuse>>
    BY DEF Interrupt, program, device
<1>4. TypeInv' /\ CountInv'
    BY <1>1, <1>3 DEF SafeInv, TypeInv, CountInv, Sample
<1> QED BY <1>1, <1>2, <1>3, <1>4 DEF SafeInv, SessionInv, KnownMisuse

\* A thread is at a stage of finish.
LEMMA StageReached ==
    ASSUME SafeInv, NEW t \in Threads, NEW stage \in Stages \ {"no"}, NEW next \in Stages \ {"no"},
           FinishStep(t, stage, next)
    PROVE  /\ finishing' \in [Threads -> Stages] /\ finishing'[t] = next
           /\ \A u \in Threads : (finishing'[u] = "no") = (finishing[u] = "no")
           /\ (finishing'["main"] = "exit") = (IF t = "main" THEN next = "exit" ELSE finishing["main"] = "exit")
           /\ exited = "no" /\ "division by zero" \notin misuse
           /\ finishing[t] = stage
           /\ UNCHANGED <<job, pc, then, at, ifno, iterations, cur, rate, max, counter>>
    BY DEF FinishStep, SafeInv, TypeInv, SessionInv, Threads, Stages, program, device

LEMMA FinishSafe ==
    ASSUME SafeInv, NEW t \in Threads, Finish(t) PROVE SafeInv'
<1>1. CASE Maximum(t) \/ Minimum(t)
  <2>1. PICK stage \in {"max", "minimum"}, next \in {"average", "close"} :
            FinishStep(t, stage, next) /\ UNCHANGED <<closed, exited, misuse>>
      BY <1>1 DEF Maximum, Minimum
  <2>2. stage \in Stages \ {"no"} /\ next \in Stages \ {"no", "exit"} /\ stage # "exit"
      BY DEF Stages
  <2>3. TypeInv' /\ CountInv'
      BY <2>1, <2>2, StageReached DEF SafeInv, TypeInv, CountInv, Sample
  <2>4. finishing["main"] = "exit" => finishing'["main"] = "exit"
      BY <2>1, <2>2, StageReached DEF Threads
  <2>5. SessionInv' /\ KnownMisuse'
      BY <2>1, <2>2, <2>4, StageReached DEF SafeInv, SessionInv, KnownMisuse, Threads
  <2> QED BY <2>3, <2>5 DEF SafeInv
<1>2. CASE Averages(t)
  <2>1. /\ FinishStep(t, "average", "minimum") /\ UNCHANGED closed
        /\ \/ exited' = "crashed" /\ iterations = 1 /\ misuse' = misuse \cup {"division by zero"}
           \/ UNCHANGED <<exited, misuse>>
      BY <1>2 DEF Averages
  <2>2. "average" \in Stages \ {"no"} /\ "minimum" \in Stages \ {"no"}
      BY DEF Stages
  <2>3. iterations = 1 => finishing["main"] = "no"
    <3>1. finishing["main"] # "no" => iterations > 1
        BY DEF SafeInv, SessionInv
    <3> QED BY <3>1
  <2>4. TypeInv' /\ CountInv'
      BY <2>1, <2>2, StageReached DEF SafeInv, TypeInv, CountInv, Sample
  <2>5. finishing["main"] = "exit" => finishing'["main"] = "exit"
      BY <2>1, <2>2, StageReached DEF Threads
  <2>6. SessionInv'
      BY <2>1, <2>2, <2>5, StageReached DEF SafeInv, SessionInv, Threads
  <2>7. KnownMisuse'
      BY <2>1, <2>2, <2>3, StageReached DEF SafeInv, KnownMisuse, Threads
  <2> QED BY <2>4, <2>6, <2>7 DEF SafeInv
<1>3. CASE Close(t)
  <2>1. FinishStep(t, "close", "exit") /\ CloseSession /\ UNCHANGED exited
      BY <1>3 DEF Close
  <2>2. "close" \in Stages \ {"no"} /\ "exit" \in Stages \ {"no"}
      BY DEF Stages
  <2>3. "closed twice" \in misuse' => finishing["handler"] # "no"
      BY <2>1, <2>2, StageReached DEF CloseSession, SafeInv, SessionInv, KnownMisuse, Threads
  <2>4. closed' \in BOOLEAN /\ misuse' \subseteq misuse \cup {"closed twice"}
      BY <2>1 DEF CloseSession
  <2>5. TypeInv' /\ CountInv'
      BY <2>1, <2>2, <2>4, StageReached DEF SafeInv, TypeInv, CountInv, Sample
  <2>6. finishing'["handler"] # "no" \/ finishing'["main"] = "exit"
      BY <2>1, <2>2, StageReached DEF Threads
  <2>7. SessionInv' /\ KnownMisuse'
      BY <2>1, <2>2, <2>3, <2>4, <2>6, StageReached DEF SafeInv, SessionInv, KnownMisuse, Threads
  <2> QED BY <2>5, <2>7 DEF SafeInv
<1>4. CASE ExitFinish(t)
  <2>1. FinishStep(t, "exit", "exit") /\ exited' = "0" /\ UNCHANGED <<closed, misuse>>
      BY <1>4 DEF ExitFinish
  <2>2. "exit" \in Stages \ {"no"}
      BY DEF Stages
  <2> QED BY <2>1, <2>2, StageReached DEF SafeInv, TypeInv, CountInv, SessionInv, KnownMisuse, Sample, Threads
<1> QED BY <1>1, <1>2, <1>3, <1>4 DEF Finish

LEMMA DeviceSafe ==
    ASSUME SafeInv, Grow \/ Restart PROVE SafeInv'
<1>1. UNCHANGED <<job, pc, then, at, ifno, iterations, cur, rate, max, closed, exited, misuse, finishing>>
    BY DEF Grow, Restart, program
<1>2. counter' \in Sample
  <2>1. CASE Grow
    <3>1. PICK i \in Growths, o \in Growths :
              /\ grown' = [d \in Dirs |-> IF d = "in" THEN i ELSE o]
              /\ counter' = [d \in Dirs |-> (counter[d] + grown'[d]) % Wrap]
        BY <2>1 DEF Grow
    <3>2. i \in Int /\ o \in Int
        BY TrafficAssumption
    <3>3. ASSUME NEW d \in Dirs PROVE counter[d] \in Int /\ grown'[d] \in Int
      <4>1. counter[d] \in 0..(Wrap - 1)
          BY DEF SafeInv, TypeInv, Sample
      <4>2. counter[d] \in Int
          BY <4>1, TrafficAssumption
      <4>3. grown'[d] \in {i, o}
          BY <3>1
      <4> QED BY <3>2, <4>2, <4>3
    <3>4. \A d \in Dirs : counter[d] + grown'[d] \in Int
        BY <3>3
    <3> QED BY <3>1, <3>4, Remainders DEF Sample
  <2>2. CASE Restart
      BY <2>2, TrafficAssumption DEF Restart, Zero, Sample
  <2> QED BY <2>1, <2>2
<1> QED BY <1>1, <1>2 DEF SafeInv, TypeInv, CountInv, SessionInv, KnownMisuse, Sample

LEMMA SafeNext ==
    ASSUME SafeInv, [Next]_vars PROVE SafeInv'
<1>1. CASE Main
    BY <1>1, RequestSafe, LeaveSafe, TopSafe, SampleSafe, QuietSafe DEF Main
<1>2. CASE \E t \in Threads : Finish(t)
    BY <1>2, FinishSafe
<1>3. CASE Interrupt \/ Grow \/ Restart
    BY <1>3, InterruptSafe, DeviceSafe
<1>4. CASE UNCHANGED vars
    BY <1>4 DEF vars, program, device, SafeInv, TypeInv, CountInv, SessionInv, KnownMisuse, Sample
<1> QED BY <1>1, <1>2, <1>3, <1>4 DEF Next

LEMMA SafeAlways == Spec => []SafeInv
<1>1. Init => SafeInv
    BY SafeInit
<1>2. SafeInv /\ [Next]_vars => SafeInv'
    BY SafeNext
<1> QED BY <1>1, <1>2, PTL DEF Spec

\* A program that was given a count samples once more than it measures, and what
\* it keeps of the counters fits their width.
THEOREM RoundsBounded == Spec => []TrafficTypeOK
<1>1. SafeInv => TrafficTypeOK
  <2>1. ASSUME SafeInv, NEW d \in Dirs
        PROVE  cur[d] \in 0..(Wrap - 1) /\ rate[d] \in 0..(Wrap - 1) /\ max[d] < Wrap
    <3>1. cur[d] \in 0..(Wrap - 1) /\ rate[d] \in 0..(Wrap - 1) /\ max[d] \in 0..(Wrap - 1)
        BY <2>1 DEF SafeInv, TypeInv, Sample
    <3> QED BY <3>1, TrafficAssumption
  <2> QED BY <2>1 DEF SafeInv, TypeInv, CountInv, TrafficTypeOK
<1> QED BY <1>1, SafeAlways, PTL

\* Whatever is answered and whenever the user interrupts: no division by zero
\* but after the first sample, no session closed twice or used after it was
\* closed but under the interrupts KnownMisuse lists.
THEOREM MisuseKnown == Spec => []KnownMisuse
<1>1. SafeInv => KnownMisuse
    BY DEF SafeInv
<1> QED BY <1>1, SafeAlways, PTL
-----------------------------------------------------------------------------
(* Remainders and quotients *)

\* What is below w is its own remainder, above or below that by w, too.
LEMMA RemainderOf ==
    ASSUME NEW w \in Nat \ {0}, NEW x \in 0..(w - 1)
    PROVE  x % w = x /\ (x + w) % w = x /\ (x - w) % w = x
    OBVIOUS

LEMMA Difference ==
    ASSUME NEW w \in Nat \ {0}, NEW a \in 0..(w - 1), NEW g \in 0..(w - 1)
    PROVE  (((a + g) % w) - a) % w = g
<1>1. CASE a + g < w
  <2>1. (a + g) % w = a + g
      BY <1>1, RemainderOf
  <2> QED BY <2>1, RemainderOf
<1>2. CASE a + g >= w
  <2>1. a + g - w \in 0..(w - 1)
      BY <1>2
  <2>2. ((a + g - w) + w) % w = a + g - w
      BY <2>1, RemainderOf
  <2>3. (a + g) % w = a + g - w
      BY <2>2
  <2>4. ((a + g) % w) - a = g - w
      BY <2>3
  <2> QED BY <2>4, RemainderOf
<1> QED BY <1>1, <1>2

LEMMA TimesMonotone ==
    ASSUME NEW n \in Nat, NEW a \in Int, NEW b \in Int, a <= b
    PROVE  n * a <= n * b
    OBVIOUS

LEMMA QuotientBounds ==
    ASSUME NEW n \in Nat \ {0}, NEW s \in Int
    PROVE  (s \div n) \in Int /\ n * (s \div n) <= s /\ s < n * (s \div n) + n
    OBVIOUS

LEMMA QuotientAtLeast ==
    ASSUME NEW n \in Nat \ {0}, NEW s \in Int, NEW m \in Int, n * m <= s
    PROVE  m <= s \div n
<1> DEFINE q == s \div n
<1>1. q \in Int /\ s < n * q + n
    BY QuotientBounds
<1> HIDE DEF q
<1>2. SUFFICES ASSUME q + 1 <= m PROVE FALSE
    BY <1>1 DEF q
<1>3. n * (q + 1) <= n * m
    BY <1>1, <1>2, TimesMonotone
<1>4. n * (q + 1) = n * q + n
    BY <1>1
<1>5. n * q \in Int /\ n * m \in Int
    BY <1>1
<1> QED BY <1>1, <1>3, <1>4, <1>5

LEMMA QuotientAtMost ==
    ASSUME NEW n \in Nat \ {0}, NEW s \in Int, NEW m \in Int, s <= n * m
    PROVE  s \div n <= m
<1> DEFINE q == s \div n
<1>1. q \in Int /\ n * q <= s
    BY QuotientBounds
<1> HIDE DEF q
<1>2. SUFFICES ASSUME m + 1 <= q PROVE FALSE
    BY <1>1 DEF q
<1>3. n * (m + 1) <= n * q
    BY <1>1, <1>2, TimesMonotone
<1>4. n * (m + 1) = n * m + n
    OBVIOUS
<1>5. n * q \in Int /\ n * m \in Int
    BY <1>1
<1> QED BY <1>1, <1>3, <1>4, <1>5

LEMMA QuotientMonotone ==
    ASSUME NEW n \in Nat \ {0}, NEW a \in Int, NEW b \in Int, a <= b
    PROVE  a \div n <= b \div n
<1>1. (a \div n) \in Int /\ n * (a \div n) <= a
    BY QuotientBounds
<1>2. n * (a \div n) \in Int
    BY <1>1
<1>3. n * (a \div n) <= b
    BY <1>1, <1>2
<1> QED BY <1>1, <1>3, QuotientAtLeast
-----------------------------------------------------------------------------
(* What is printed at the end *)

\* The device's counter has been read in this round.
Taken(d) == pc \in {"sum", "extremes", "count"} \/ (pc = "out" /\ d = "in")

\* With a clean history, a counter is what was last read of it and what it grew by
\* since, modulo Wrap; that growth is the rate once the counter has been read.
SampledInv ==
    /\ pc \in {"sleep", "sum", "extremes"} => iterations > 0
    /\ pc \in {"walk", "ask", "thr"} => iterations = 0
    /\ clean => \A d \in Dirs :
        /\ grown[d] \in 0..(Wrap - 1)
        /\ iterations = 0 \/ pc \in {"extremes", "count"} => grown[d] = 0
        /\ Taken(d) => cur[d] = counter[d]
        /\ Taken(d) /\ pc \in {"out", "sum"} /\ iterations > 0 => rate[d] = grown[d]
        /\ ~Taken(d) /\ pc \in {"sleep", "top", "in", "out"} /\ iterations > 0
               => counter[d] = (cur[d] + grown[d]) % Wrap
        /\ moved[d] = sum[d]

\* n rates whose sum is s are not less than the minimum and not more than the maximum.
Between(d, s, n) == n * min[d] <= s /\ s <= n * max[d]

\* How many rates are in the sums.
Rounds == IF iterations = 0 THEN 0 ELSE IF pc \in {"extremes", "count"} THEN iterations ELSE iterations - 1

SumsInv ==
    /\ sum \in [Dirs -> Nat] /\ min \in [Dirs -> Nat]
    /\ \A d \in Dirs : IF pc = "extremes" THEN Between(d, sum[d] - rate[d], iterations - 1)
                                          ELSE Between(d, sum[d], Rounds)

\* The call of finish whose report is the last.
Last == IF finishing["handler"] # "no" THEN finishing["handler"] ELSE finishing["main"]

ReportInv ==
    clean =>
        /\ finishing["handler"] # "no" => ~job.windows
        /\ Last # "no" => Complete
        /\ Last = "no" => report = << >>
        /\ Last \in {"average", "minimum", "close", "exit"} =>
               /\ "maximum" \in DOMAIN report
               /\ \A d \in Dirs : report["maximum"][d] = max[d] \div job.interval
        /\ Last \in {"minimum", "close", "exit"} /\ iterations # 1 =>
               /\ "average" \in DOMAIN report
               /\ \A d \in Dirs : report["average"][d] = Average(d)
        /\ Last \in {"close", "exit"} =>
               /\ "minimum" \in DOMAIN report
               /\ \A d \in Dirs : report["minimum"][d] = min[d] \div job.interval
        /\ exited = "0" /\ report # << >> => Last = "exit"

StatInv == SafeInv /\ SampledInv /\ SumsInv /\ ReportInv

\* Main runs: nothing has been printed, or the run is not clean.
LEMMA NotYetReported ==
    ASSUME SafeInv, ReportInv, Running, clean PROVE Last = "no" /\ report = << >> /\ ~(finishing["handler"] # "no")
<1>1. finishing["main"] = "no" /\ (finishing["handler"] # "no" => job.windows)
    BY DEF Running
<1> QED BY <1>1 DEF ReportInv, Last

LEMMA StatInit ==
    ASSUME Init PROVE StatInv
<1>1. SafeInv
    BY SafeInit
<1>2. SampledInv
  <2>1. 0 \in 0..(Wrap - 1)
      BY TrafficAssumption
  <2> QED BY <2>1 DEF Init, SampledInv, Zero, Taken
<1>3. SumsInv
  <2>1. Never \in Nat
      BY TrafficAssumption DEF Never
  <2>2. sum \in [Dirs -> Nat] /\ min \in [Dirs -> Nat] /\ max \in [Dirs -> Nat]
      BY <2>1 DEF Init, Zero
  <2>3. Rounds = 0 /\ pc # "extremes"
      BY DEF Init, Rounds
  <2>4. ASSUME NEW d \in Dirs PROVE Between(d, sum[d], 0)
    <3>1. sum[d] = 0 /\ min[d] \in Nat /\ max[d] \in Nat
        BY <2>2 DEF Init, Zero
    <3> QED BY <3>1 DEF Between
  <2> QED BY <2>2, <2>3, <2>4 DEF SumsInv
<1>4. ReportInv
    BY DEF Init, ReportInv, Last, Threads
<1> QED BY <1>1, <1>2, <1>3, <1>4 DEF StatInv

\* Where rates are neither added to the sums nor compared.
LEMMA SumsKept ==
    ASSUME SumsInv, UNCHANGED <<sum, max, min, iterations>>,
           \/ UNCHANGED <<pc, rate>>
           \/ pc \notin {"extremes", "count"} /\ pc' # "extremes" /\ (pc' = "count" => iterations = 0)
    PROVE  SumsInv'
<1>1. CASE UNCHANGED <<pc, rate>>
    BY <1>1 DEF SumsInv, Between, Rounds
<1>2. CASE pc \notin {"extremes", "count"} /\ pc' # "extremes" /\ (pc' = "count" => iterations = 0)
  <2>1. Rounds' = Rounds
      BY <1>2 DEF Rounds
  <2> QED BY <1>2, <2>1 DEF SumsInv, Between
<1> QED BY <1>1, <1>2

LEMMA SumsAdded ==
    ASSUME SafeInv, SampledInv, SumsInv, SumUp PROVE SumsInv'
<1>1. /\ pc = "sum" /\ pc' = "extremes" /\ UNCHANGED <<rate, min, max, iterations>>
      /\ sum' = [d \in Dirs |-> sum[d] + rate[d]]
    BY DEF SumUp, Quietly
<1>2. iterations > 0 /\ iterations \in Nat
    BY <1>1 DEF SampledInv, SafeInv, TypeInv
<1>3. Rounds = iterations - 1
    BY <1>1, <1>2 DEF Rounds
<1>4. ASSUME NEW d \in Dirs
      PROVE  sum'[d] \in Nat /\ sum'[d] - rate'[d] = sum[d]
  <2>1. sum[d] \in Nat /\ rate[d] \in 0..(Wrap - 1)
      BY DEF SumsInv, SafeInv, TypeInv, Sample
  <2>2. rate[d] \in Nat
      BY <2>1, TrafficAssumption
  <2> QED BY <1>1, <2>1, <2>2
<1>5. ASSUME NEW d \in Dirs PROVE Between(d, sum[d], iterations - 1)
    BY <1>1, <1>3 DEF SumsInv
<1>6. ASSUME NEW d \in Dirs PROVE Between(d, sum[d] - rate[d], iterations - 1)'
    BY <1>1, <1>4, <1>5 DEF Between
<1> QED BY <1>1, <1>4, <1>6 DEF SumsInv

LEMMA SumsCompared ==
    ASSUME SafeInv, SampledInv, SumsInv, Extremes PROVE SumsInv'
<1>1. /\ pc = "extremes" /\ pc' = "count" /\ UNCHANGED <<rate, sum, iterations>>
      /\ max' = [d \in Dirs |-> IF rate[d] > max[d] THEN rate[d] ELSE max[d]]
      /\ min' = [d \in Dirs |-> IF rate[d] < min[d] THEN rate[d] ELSE min[d]]
    BY DEF Extremes, Quietly
<1>2. iterations > 0 /\ iterations \in Nat
    BY <1>1 DEF SampledInv, SafeInv, TypeInv
<1>3. Rounds' = iterations
    BY <1>1, <1>2 DEF Rounds
<1>4. ASSUME NEW d \in Dirs
      PROVE  sum[d] \in Nat /\ min[d] \in Nat /\ max[d] \in Nat /\ rate[d] \in Nat
  <2>1. max[d] \in 0..(Wrap - 1) /\ rate[d] \in 0..(Wrap - 1)
      BY DEF SafeInv, TypeInv, Sample
  <2> QED BY <2>1, TrafficAssumption DEF SumsInv
<1>5. ASSUME NEW d \in Dirs
      PROVE  iterations * min'[d] <= sum[d] /\ sum[d] <= iterations * max'[d]
  <2> DEFINE n == iterations - 1
             s == sum[d] - rate[d]
             lo == min'[d]
             hi == max'[d]
  <2>1. n * min[d] <= s /\ s <= n * max[d]
      BY <1>1 DEF SumsInv, Between
  <2>2. n \in Nat /\ s \in Int
      BY <1>2, <1>4
  <2>3. lo \in Nat /\ hi \in Nat /\ lo <= min[d] /\ lo <= rate[d] /\ max[d] <= hi /\ rate[d] <= hi
      BY <1>1, <1>4
  <2>4. iterations = n + 1 /\ sum[d] = s + rate[d]
      BY <1>2, <1>4
  <2> HIDE DEF n, s, lo, hi
  <2>5. n * lo <= n * min[d] /\ n * max[d] <= n * hi
      BY <1>4, <2>2, <2>3, TimesMonotone
  <2>6. n * lo \in Int /\ n * hi \in Int /\ n * min[d] \in Int /\ n * max[d] \in Int
      BY <1>4, <2>2, <2>3
  <2>7. n * lo + lo <= s + rate[d] /\ s + rate[d] <= n * hi + hi
      BY <1>4, <2>1, <2>2, <2>3, <2>5, <2>6
  <2>8. (n + 1) * lo = n * lo + lo /\ (n + 1) * hi = n * hi + hi
      BY <2>2, <2>3
  <2>9. (n + 1) * lo <= sum[d] /\ sum[d] <= (n + 1) * hi
      BY <2>4, <2>7, <2>8
  <2> QED BY <2>4, <2>9 DEF lo, hi
<1>6. sum' \in [Dirs -> Nat] /\ min' \in [Dirs -> Nat]
    BY <1>1, <1>4 DEF SumsInv
<1>7. ASSUME NEW d \in Dirs PROVE Between(d, sum[d], Rounds)'
    BY <1>1, <1>3, <1>5 DEF Between
<1> QED BY <1>1, <1>6, <1>7 DEF SumsInv

LEMMA SumsCounted ==
    ASSUME SafeInv, SumsInv, Count PROVE SumsInv'
<1>1. pc = "count" /\ pc' = "sleep" /\ iterations' = iterations + 1 /\ UNCHANGED <<sum, min, max>>
    BY DEF Count, Quietly
<1>2. iterations \in Nat
    BY DEF SafeInv, TypeInv
<1>3. Rounds' = Rounds
    BY <1>1, <1>2 DEF Rounds
<1> QED BY <1>1, <1>3 DEF SumsInv, Between

LEMMA SumsNext ==
    ASSUME SafeInv, SampledInv, SumsInv, [Next]_vars PROVE SumsInv'
<1>1. CASE Ask \/ Lsif \/ Thr \/ Perr \/ Return \/ Top
  <2>1. /\ UNCHANGED <<sum, max, min, iterations>> /\ pc \notin {"extremes", "count"}
        /\ pc' \notin {"extremes", "count"}
      BY <1>1 DEF Ask, Lsif, Thr, Perr, Return, Leave, Top, program, SafeInv, TypeInv
  <2> QED BY <2>1, SumsKept
<1>2. CASE SampleIn \/ SampleOut
  <2>1. iterations \in Nat
      BY DEF SafeInv, TypeInv
  <2>2. /\ UNCHANGED <<sum, max, min, iterations>> /\ pc \in {"in", "out"}
        /\ pc' # "extremes" /\ (pc' = "count" => iterations = 0)
      BY <1>2, <2>1 DEF SampleIn, SampleOut, Getcntr
  <2> QED BY <2>2, SumsKept
<1>3. CASE Sleep
    BY <1>3, SumsKept DEF Sleep, Quietly
<1>4. CASE Exit \/ Interrupt \/ Grow \/ Restart \/ (\E t \in Threads : Finish(t)) \/ UNCHANGED vars
  <2>1. UNCHANGED <<pc, rate, sum, max, min, iterations>>
      BY <1>4 DEF Exit, Interrupt, Grow, Restart, Finish, Maximum, Averages, Minimum, Close, ExitFinish,
                  FinishStep, vars, program
  <2> QED BY <2>1, SumsKept
<1> QED BY <1>1, <1>2, <1>3, <1>4, SumsAdded, SumsCompared, SumsCounted DEF Next, Main

LEMMA ZeroNotPositive == ~(0 > 0)
    OBVIOUS

\* Where nothing is read of the counters, and what is known of them is not lost.
LEMMA SampledKept ==
    ASSUME SampledInv, UNCHANGED <<iterations, cur, rate, sum, device>>, clean' => clean,
           \/ pc' = pc
           \/ pc \in {"walk", "ask", "thr"} /\ pc' \in {"walk", "ask", "thr", "top", "return"}
           \/ pc' \in {"perr", "unable", "exit 0", "exit 1"}
           \/ pc \in {"sleep", "top"} /\ pc' \in {"top", "in"}
    PROVE  SampledInv'
<1>1. CASE pc' = pc
    BY <1>1 DEF SampledInv, Taken, device
<1>2. CASE pc \in {"walk", "ask", "thr"} /\ pc' \in {"walk", "ask", "thr", "top", "return"}
  <2>1. iterations = 0
      BY <1>2 DEF SampledInv
  <2>2. ~(iterations > 0)
      BY <2>1, ZeroNotPositive
  <2>3. pc' \notin {"sleep", "sum", "extremes", "count", "out"}
      BY <1>2
  <2>4. ASSUME clean', NEW d \in Dirs
        PROVE  grown[d] = 0 /\ grown[d] \in 0..(Wrap - 1) /\ moved[d] = sum[d]
      BY <2>1, <2>4 DEF SampledInv
  <2> QED BY <2>1, <2>2, <2>3, <2>4 DEF SampledInv, Taken, device
<1>3. CASE pc' \in {"perr", "unable", "exit 0", "exit 1"}
    BY <1>3 DEF SampledInv, Taken, device
<1>4. CASE pc \in {"sleep", "top"} /\ pc' \in {"top", "in"}
    BY <1>4 DEF SampledInv, Taken, device
<1> QED BY <1>1, <1>2, <1>3, <1>4

LEMMA SampledRead ==
    ASSUME SafeInv, SampledInv, SampleIn \/ SampleOut PROVE SampledInv'
<1>1. PICK d \in Dirs, next \in {"out", "sum", "count"} :
          /\ Getcntr(d, next)
          /\ \/ d = "in" /\ pc = "in" /\ next = "out"
             \/ d = "out" /\ pc = "out" /\ next = (IF iterations > 0 THEN "sum" ELSE "count")
    BY DEF SampleIn, SampleOut, Dirs
<1>2. UNCHANGED <<iterations, sum, device, clean>> /\ pc' \in {next, "perr", "unable"}
    BY <1>1 DEF Getcntr
<1>3. CASE pc' \in {"perr", "unable"}
  <2>1. UNCHANGED <<cur, rate>>
      BY <1>1, <1>3 DEF Getcntr
  <2>2. UNCHANGED <<iterations, cur, rate, sum, device>> /\ (clean' => clean)
      BY <1>2, <2>1
  <2> QED BY <1>3, <2>2, SampledKept
<1>4. CASE pc' = next
  <2>1. /\ cur' = [cur EXCEPT ![d] = counter[d]]
        /\ rate' = [rate EXCEPT ![d] = Subtract(counter[d], cur[d])]
      BY <1>1, <1>4 DEF Getcntr
  <2>2. /\ cur'[d] = counter[d] /\ rate'[d] = Subtract(counter[d], cur[d])
        /\ \A e \in Dirs \ {d} : cur'[e] = cur[e] /\ rate'[e] = rate[e]
      BY <2>1 DEF SafeInv, TypeInv, Sample
  <2>3. ASSUME clean, iterations > 0 PROVE rate'[d] = grown[d]
    <3>1. grown[d] \in 0..(Wrap - 1) /\ cur[d] \in 0..(Wrap - 1)
        BY <2>3 DEF SampledInv, SafeInv, TypeInv, Sample
    <3>2. counter[d] = (cur[d] + grown[d]) % Wrap
        BY <1>1, <2>3 DEF SampledInv, Taken
    <3>3. ((((cur[d] + grown[d]) % Wrap) - cur[d]) % Wrap) = grown[d]
        BY <3>1, Difference, TrafficAssumption
    <3> QED BY <2>2, <3>2, <3>3 DEF Subtract
  <2>4. iterations \in Nat
      BY DEF SafeInv, TypeInv
  <2>5. pc' \in {"sleep", "sum", "extremes"} => iterations' > 0
      BY <1>1, <1>2, <1>4
  <2>6. CASE d = "in"
      BY <1>1, <1>2, <1>4, <2>2, <2>3, <2>4, <2>5, <2>6 DEF SampledInv, Taken, Dirs, device
  <2>7. CASE d = "out"
      BY <1>1, <1>2, <1>4, <2>2, <2>3, <2>4, <2>5, <2>7 DEF SampledInv, Taken, Dirs, device
  <2> QED BY <2>6, <2>7 DEF Dirs
<1> QED BY <1>2, <1>3, <1>4

LEMMA SampledAdded ==
    ASSUME SafeInv, SampledInv, SumsInv, SumUp \/ Extremes PROVE SampledInv'
<1>1. UNCHANGED <<iterations, cur, rate, counter, clean>>
    BY DEF SumUp, Extremes, Quietly
<1>2. CASE Extremes
    BY <1>1, <1>2 DEF Extremes, Quietly, SampledInv, Taken
<1>3. CASE SumUp
  <2>1. /\ pc = "sum" /\ pc' = "extremes" /\ sum' = [d \in Dirs |-> sum[d] + rate[d]]
        /\ moved' = [d \in Dirs |-> moved[d] + grown[d]] /\ grown' = Zero
      BY <1>3 DEF SumUp, Quietly
  <2>2. ASSUME clean, NEW d \in Dirs PROVE moved'[d] = sum'[d] /\ cur[d] = counter[d]
    <3>1. rate[d] = grown[d] /\ moved[d] = sum[d] /\ cur[d] = counter[d]
        BY <2>1, <2>2 DEF SampledInv, Taken
    <3> QED BY <2>1, <3>1
  <2>3. 0 \in 0..(Wrap - 1) /\ \A d \in Dirs : grown'[d] = 0
      BY <2>1, TrafficAssumption DEF Zero
  <2> QED BY <1>1, <2>1, <2>2, <2>3 DEF SampledInv, Taken
<1> QED BY <1>2, <1>3

LEMMA SampledCounted ==
    ASSUME SafeInv, SampledInv, Count PROVE SampledInv'
<1>1. /\ pc = "count" /\ pc' = "sleep" /\ iterations' = iterations + 1
      /\ UNCHANGED <<cur, rate, sum, counter, grown, moved, clean>>
    BY DEF Count, Quietly
<1>2. iterations' > 0
  <2>1. iterations \in Nat
      BY DEF SafeInv, TypeInv
  <2> QED BY <1>1, <2>1
<1>3. ASSUME clean, NEW d \in Dirs
      PROVE  grown[d] = 0 /\ counter[d] = (cur[d] + grown[d]) % Wrap
  <2>1. grown[d] = 0 /\ cur[d] = counter[d] /\ cur[d] \in 0..(Wrap - 1)
      BY <1>1, <1>3 DEF SampledInv, Taken, SafeInv, TypeInv, Sample
  <2>2. cur[d] + grown[d] = cur[d]
      BY <2>1, TrafficAssumption
  <2>3. cur[d] % Wrap = cur[d]
      BY <2>1, RemainderOf, TrafficAssumption
  <2> QED BY <2>1, <2>2, <2>3
<1> QED BY <1>1, <1>2, <1>3 DEF SampledInv, Taken

LEMMA SampledGrown ==
    ASSUME SafeInv, SampledInv, Grow \/ Restart PROVE SampledInv'
<1>1. UNCHANGED <<pc, iterations, cur, rate, sum, moved>> /\ pc = "sleep"
    BY DEF Grow, Restart, program
<1>2. CASE Restart
    BY <1>1, <1>2 DEF Restart, SampledInv
<1>3. CASE Grow
  <2>1. PICK i \in Growths, o \in Growths :
            /\ grown' = [d \in Dirs |-> IF d = "in" THEN i ELSE o]
            /\ counter' = [d \in Dirs |-> (counter[d] + grown'[d]) % Wrap]
            /\ clean' = (clean /\ i < Wrap /\ o < Wrap)
      BY <1>3 DEF Grow
  <2>2. i \in 0..Wrap /\ o \in 0..Wrap
      BY TrafficAssumption
  <2>3. ASSUME clean', NEW d \in Dirs
        PROVE  /\ clean /\ grown'[d] \in 0..(Wrap - 1)
               /\ counter'[d] = (cur[d] + grown'[d]) % Wrap
    <3>1. clean /\ i < Wrap /\ o < Wrap
        BY <2>1, <2>3
    <3>2. i \in 0..(Wrap - 1) /\ o \in 0..(Wrap - 1) /\ grown'[d] \in {i, o}
        BY <2>1, <2>2, <3>1, TrafficAssumption
    <3>3. iterations > 0 /\ grown[d] = 0 /\ cur[d] \in 0..(Wrap - 1)
        BY <1>1, <1>3, <3>1 DEF Grow, Zero, SampledInv, SafeInv, TypeInv, Sample
    <3>4. counter[d] = (cur[d] + grown[d]) % Wrap
        BY <1>1, <3>1, <3>3 DEF SampledInv, Taken
    <3>5. cur[d] + grown[d] = cur[d] /\ cur[d] % Wrap = cur[d]
        BY <3>3, RemainderOf, TrafficAssumption
    <3>6. counter[d] = cur[d]
        BY <3>4, <3>5
    <3> QED BY <2>1, <3>1, <3>2, <3>6
  <2>4. iterations > 0 /\ iterations \in Nat
      BY <1>1 DEF SampledInv, SafeInv, TypeInv
  <2> QED BY <1>1, <2>3, <2>4 DEF SampledInv, Taken
<1> QED BY <1>2, <1>3

LEMMA SampledNext ==
    ASSUME SafeInv, SampledInv, SumsInv, [Next]_vars PROVE SampledInv'
<1>1. CASE Ask \/ Lsif \/ Thr
  <2>1. then \in {"walk", "top"}
      BY DEF SafeInv, TypeInv
  <2>2. /\ pc \in {"walk", "ask", "thr"} /\ UNCHANGED <<iterations, cur, rate, sum, device>> /\ clean' = clean
        /\ \/ pc' \in {"walk", "ask", "thr", "top", "return"}
           \/ pc' \in {"perr", "unable"}
           \/ pc' = pc
      BY <1>1, <2>1 DEF Ask, Lsif, Thr
  <2> QED BY <2>2, SampledKept
<1>2. CASE Perr \/ Return \/ Exit \/ Top \/ Sleep
  <2>1. /\ UNCHANGED <<iterations, cur, rate, sum, device>> /\ clean' = clean
        /\ \/ pc' = pc
           \/ pc' \in {"exit 0", "exit 1"}
           \/ pc \in {"sleep", "top"} /\ pc' \in {"top", "in"}
      BY <1>2 DEF Perr, Return, Leave, Exit, Top, Sleep, Quietly, program, device
  <2> QED BY <2>1, SampledKept
<1>3. CASE Interrupt \/ (\E t \in Threads : Finish(t)) \/ UNCHANGED vars
  <2>1. /\ UNCHANGED <<iterations, cur, rate, sum, device>> /\ (clean' => clean) /\ pc' = pc
    <3>1. CASE Interrupt
        BY <3>1 DEF Interrupt, program
    <3>2. CASE \E t \in Threads : Finish(t)
      <4>1. PICK t \in Threads, stage \in Stages, next \in Stages : FinishStep(t, stage, next)
          BY <3>2 DEF Finish, Maximum, Averages, Minimum, Close, ExitFinish, Stages
      <4> QED BY <4>1 DEF FinishStep, program
    <3>3. CASE UNCHANGED vars
        BY <3>3 DEF vars, program
    <3> QED BY <1>3, <3>1, <3>2, <3>3
  <2> QED BY <2>1, SampledKept
<1> QED BY <1>1, <1>2, <1>3, SampledRead, SampledAdded, SampledCounted, SampledGrown DEF Next, Main

LEMMA ReportMain ==
    ASSUME StatInv, Main, ~Top PROVE ReportInv'
<1>1. Running /\ UNCHANGED <<job, finishing, report, clean>>
    BY DEF Main, Ask, Lsif, Thr, Perr, Return, Leave, Exit, SampleIn, SampleOut, Getcntr, SumUp,
           Extremes, Count, Sleep, Quietly
<1>2. CASE ~clean
    BY <1>1, <1>2 DEF ReportInv
<1>3. CASE clean
  <2>1. Last = "no" /\ report = << >> /\ ~(finishing["handler"] # "no")
      BY <1>1, <1>3, NotYetReported DEF StatInv
  <2>2. Last' = "no" /\ report' = << >> /\ ~(finishing'["handler"] # "no")
      BY <1>1, <2>1 DEF Last
  <2> QED BY <2>2 DEF ReportInv
<1> QED BY <1>2, <1>3

LEMMA ReportTop ==
    ASSUME StatInv, Top PROVE ReportInv'
<1>1. Running /\ pc = "top" /\ UNCHANGED <<job, exited, report, clean>>
    BY DEF Top
<1>2. CASE ~clean
    BY <1>1, <1>2 DEF ReportInv
<1>3. CASE clean
  <2>1. Last = "no" /\ report = << >> /\ ~(finishing["handler"] # "no") /\ finishing["main"] = "no"
      BY <1>1, <1>3, NotYetReported DEF StatInv, Running
  <2>2. finishing'["handler"] = finishing["handler"] /\ finishing'["main"] \in {"no", "max"}
      BY <2>1 DEF Top, StatInv, SafeInv, TypeInv, Threads
  <2>3. finishing'["main"] = "no" \/ pc' = "top"
      BY <1>1, <2>1 DEF Top
  <2>4. Last' = finishing'["main"] /\ ~(finishing'["handler"] # "no")
      BY <2>1, <2>2 DEF Last
  <2>5. Last' # "no" => Complete'
      BY <2>3, <2>4 DEF Complete
  <2>6. report' = << >>
      BY <1>1, <2>1
  <2> QED BY <2>2, <2>4, <2>5, <2>6 DEF ReportInv
<1> QED BY <1>2, <1>3

LEMMA ReportInterrupt ==
    ASSUME StatInv, Interrupt PROVE ReportInv'
<1>1. /\ exited' = "no" /\ pc' = pc /\ job' = job
      /\ clean' => clean /\ Complete /\ ~job.windows
    BY DEF Interrupt
<1>2. finishing'["handler"] = "max"
    BY DEF Interrupt, StatInv, SafeInv, TypeInv, Threads
<1>3. Last' = "max"
    BY <1>2 DEF Last
<1>4. clean' => Complete' /\ ~job'.windows
    BY <1>1 DEF Complete
<1> QED BY <1>1, <1>3, <1>4 DEF ReportInv

\* With a clean history, who goes on with finish is who began it last, and what it
\* prints from is not changed under it.
LEMMA LastFinishes ==
    ASSUME StatInv, NEW t \in Threads, NEW stage \in Stages \ {"no"}, NEW next \in Stages \ {"no"},
           FinishStep(t, stage, next), clean
    PROVE  /\ Last = stage /\ Last' = next /\ Complete'
           /\ finishing'["handler"] # "no" => ~job'.windows
           /\ UNCHANGED <<job, max, min, sum, iterations, pc, clean>> /\ exited = "no"
<1>1. /\ exited = "no" /\ finishing[t] = stage /\ UNCHANGED <<job, max, min, sum, iterations, pc, clean>>
      /\ t = "main" => finishing["handler"] = "no" \/ job.windows
      /\ finishing' = [finishing EXCEPT ![t] = next]
    BY DEF FinishStep, program
<1>2. finishing["handler"] # "no" => ~job.windows
    BY DEF StatInv, ReportInv
<1>3. CASE t = "main"
  <2>1. finishing["handler"] = "no" /\ finishing'["handler"] = "no" /\ finishing'["main"] = next
      BY <1>1, <1>2, <1>3 DEF StatInv, SafeInv, TypeInv, Threads
  <2>2. Last = stage /\ Last' = next
      BY <1>1, <1>3, <2>1 DEF Last
  <2>3. Complete
      BY <2>2 DEF StatInv, ReportInv
  <2> QED BY <1>1, <2>1, <2>2, <2>3 DEF Complete
<1>4. CASE t = "handler"
  <2>1. finishing["handler"] = stage /\ finishing'["handler"] = next
      BY <1>1, <1>4 DEF StatInv, SafeInv, TypeInv, Threads
  <2>2. Last = stage /\ Last' = next
      BY <2>1 DEF Last
  <2>3. Complete
      BY <2>2 DEF StatInv, ReportInv
  <2> QED BY <1>1, <1>2, <2>1, <2>2, <2>3 DEF Complete
<1> QED BY <1>3, <1>4 DEF Threads

LEMMA ReportFinish ==
    ASSUME StatInv, NEW t \in Threads, Finish(t) PROVE ReportInv'
<1>1. CASE ~clean
  <2>1. PICK stage \in Stages, next \in Stages : FinishStep(t, stage, next)
      BY DEF Finish, Maximum, Averages, Minimum, Close, ExitFinish, Stages
  <2> QED BY <1>1, <2>1 DEF FinishStep, ReportInv
<1> SUFFICES ASSUME clean PROVE ReportInv'
    BY <1>1
<1>2. \A s \in {"max", "average", "minimum", "close", "exit"} : s \in Stages \ {"no"}
    BY DEF Stages
<1>3. CASE Maximum(t)
  <2>1. FinishStep(t, "max", "average") /\ UNCHANGED exited
        /\ report' = [maximum |-> [d \in Dirs |-> max[d] \div job.interval]]
      BY <1>3 DEF Maximum
  <2>2. /\ Last' = "average" /\ Complete' /\ exited' = "no" /\ UNCHANGED <<job, max>>
        /\ finishing'["handler"] # "no" => ~job'.windows
      BY <1>2, <2>1, LastFinishes
  <2>3. "maximum" \in DOMAIN report' /\ \A d \in Dirs : report'["maximum"][d] = max[d] \div job.interval
      BY <2>1
  <2> QED BY <2>2, <2>3 DEF ReportInv
<1>4. CASE Averages(t)
  <2>1. FinishStep(t, "average", "minimum")
      BY <1>4 DEF Averages
  <2>2. /\ Last = "average" /\ Last' = "minimum" /\ Complete' /\ exited = "no"
        /\ UNCHANGED <<job, max, sum, iterations>>
        /\ finishing'["handler"] # "no" => ~job'.windows
      BY <1>2, <2>1, LastFinishes
  <2>3. "maximum" \in DOMAIN report /\ \A d \in Dirs : report["maximum"][d] = max[d] \div job.interval
      BY <2>2 DEF StatInv, ReportInv
  <2>4. CASE iterations = 1
    <3>1. exited' = "crashed" /\ report' = report
        BY <1>4, <2>4 DEF Averages
    <3> QED BY <2>2, <2>3, <2>4, <3>1 DEF ReportInv
  <2>5. CASE iterations # 1
    <3>1. exited' = "no" /\ Shown("average", [d \in Dirs |-> Average(d)])
        BY <1>4, <2>2, <2>5 DEF Averages
    <3>2. /\ "maximum" \in DOMAIN report' /\ report'["maximum"] = report["maximum"]
          /\ "average" \in DOMAIN report' /\ report'["average"] = [d \in Dirs |-> Average(d)]
        BY <2>3, <3>1 DEF Shown
    <3>3. \A d \in Dirs : report'["average"][d] = Average(d)'
        BY <2>2, <3>2 DEF Average
    <3> QED BY <2>2, <2>3, <3>1, <3>2, <3>3 DEF ReportInv
  <2> QED BY <2>4, <2>5
<1>5. CASE Minimum(t)
  <2>1. /\ FinishStep(t, "minimum", "close") /\ UNCHANGED exited
        /\ Shown("minimum", [d \in Dirs |-> min[d] \div job.interval])
      BY <1>5 DEF Minimum
  <2>2. /\ Last = "minimum" /\ Last' = "close" /\ Complete' /\ exited = "no"
        /\ UNCHANGED <<job, max, min, sum, iterations>>
        /\ finishing'["handler"] # "no" => ~job'.windows
      BY <1>2, <2>1, LastFinishes
  <2>3. /\ "maximum" \in DOMAIN report /\ \A d \in Dirs : report["maximum"][d] = max[d] \div job.interval
        /\ iterations # 1 => "average" \in DOMAIN report /\ \A d \in Dirs : report["average"][d] = Average(d)
      BY <2>2 DEF StatInv, ReportInv
  <2>4. /\ "maximum" \in DOMAIN report' /\ report'["maximum"] = report["maximum"]
        /\ "average" \in DOMAIN report => "average" \in DOMAIN report' /\ report'["average"] = report["average"]
        /\ "minimum" \in DOMAIN report' /\ report'["minimum"] = [d \in Dirs |-> min[d] \div job.interval]
      BY <2>1, <2>3 DEF Shown
  <2>5. \A d \in Dirs : Average(d)' = Average(d)
      BY <2>2 DEF Average
  <2> QED BY <2>1, <2>2, <2>3, <2>4, <2>5 DEF ReportInv
<1>6. CASE Close(t) \/ ExitFinish(t)
  <2>1. PICK stage \in {"close", "exit"} : FinishStep(t, stage, "exit") /\ UNCHANGED report
      BY <1>6 DEF Close, ExitFinish
  <2>2. /\ Last = stage /\ Last' = "exit" /\ Complete'
        /\ UNCHANGED <<job, max, min, sum, iterations>>
        /\ finishing'["handler"] # "no" => ~job'.windows
      BY <1>2, <2>1, LastFinishes
  <2>3. \A d \in Dirs : Average(d)' = Average(d)
      BY <2>2 DEF Average
  <2> QED BY <2>1, <2>2, <2>3 DEF StatInv, ReportInv
<1> QED BY <1>3, <1>4, <1>5, <1>6 DEF Finish

LEMMA StatNext ==
    ASSUME StatInv, [Next]_vars PROVE StatInv'
<1>1. SafeInv' /\ SampledInv' /\ SumsInv'
    BY SafeNext, SampledNext, SumsNext DEF StatInv
<1>2. ReportInv'
  <2>1. CASE Main
      BY <2>1, ReportMain, ReportTop
  <2>2. CASE \E t \in Threads : Finish(t)
      BY <2>2, ReportFinish
  <2>3. CASE Interrupt
      BY <2>3, ReportInterrupt
  <2>4. CASE Grow \/ Restart \/ UNCHANGED vars
    <3>1. UNCHANGED <<job, report, max, min, finishing, iterations, sum, exited, pc>>
        BY <2>4 DEF Grow, Restart, vars, program
    <3>2. clean' => clean
        BY <2>4 DEF Grow, Restart, vars
    <3> QED BY <3>1, <3>2 DEF StatInv, ReportInv, Last, Complete, Average
  <2> QED BY <2>1, <2>2, <2>3, <2>4 DEF Next
<1> QED BY <1>1, <1>2 DEF StatInv

LEMMA Statistics ==
    ASSUME StatInv PROVE StatisticsSound
<1> SUFFICES ASSUME exited = "0", report # << >>, clean, iterations > 1, NEW d \in Dirs
             PROVE  /\ report.average[d] = (moved[d] \div (iterations - 1)) \div job.interval
                    /\ report.minimum[d] <= report.average[d] /\ report.average[d] <= report.maximum[d]
    BY DEF StatisticsSound
<1> DEFINE n == iterations - 1
<1>1. /\ n \in Nat \ {0} /\ iterations # 0 /\ iterations # 1 /\ job.interval \in Nat \ {0}
  <2>1. iterations \in Nat /\ job \in Jobs
      BY DEF StatInv, SafeInv, TypeInv
  <2>2. job.interval \in Nat \ {0}
      BY <2>1, JobTypes
  <2> QED BY <2>1, <2>2
<1>2. Last = "exit" /\ Complete
    BY DEF StatInv, ReportInv
<1>3. /\ report["maximum"][d] = max[d] \div job.interval
      /\ report["average"][d] = Average(d)
      /\ report["minimum"][d] = min[d] \div job.interval
    BY <1>1, <1>2 DEF StatInv, ReportInv
<1>4. moved[d] = sum[d] /\ sum[d] \in Int /\ min[d] \in Int
    BY DEF StatInv, SampledInv, SumsInv
<1>5. max[d] \in Int
  <2>1. max[d] \in 0..(Wrap - 1)
      BY DEF StatInv, SafeInv, TypeInv, Sample
  <2> QED BY <2>1, TrafficAssumption
<1>6. Average(d) = (sum[d] \div n) \div job.interval
    BY <1>1 DEF Average
<1>7. n * min[d] <= sum[d] /\ sum[d] <= n * max[d]
  <2>1. Rounds = n /\ pc # "extremes"
      BY <1>1, <1>2 DEF Rounds, Complete
  <2> QED BY <2>1 DEF StatInv, SumsInv, Between
<1> HIDE DEF n
<1>8. (sum[d] \div n) \in Int /\ min[d] <= sum[d] \div n /\ sum[d] \div n <= max[d]
    BY <1>1, <1>4, <1>5, <1>7, QuotientBounds, QuotientAtLeast, QuotientAtMost
<1>9. /\ min[d] \div job.interval <= (sum[d] \div n) \div job.interval
      /\ (sum[d] \div n) \div job.interval <= max[d] \div job.interval
    BY <1>1, <1>4, <1>5, <1>8, QuotientMonotone
<1> QED BY <1>3, <1>4, <1>6, <1>9 DEF n

\* Whenever the program was not interrupted between the sums and iterations++, no
\* counter wrapped twice in an interval and the device ran on: what is printed is the
\* true average growth, and it lies between the minimum and the maximum.
THEOREM StatisticsTrue == Spec => []StatisticsSound
<1>1. Init => StatInv
    BY StatInit
<1>2. StatInv /\ [Next]_vars => StatInv'
    BY StatNext
<1>3. StatInv => StatisticsSound
    BY Statistics
<1> QED BY <1>1, <1>2, <1>3, PTL DEF Spec
=============================================================================
