-------------------------------- MODULE Snmp --------------------------------
(***************************************************************************)
(* The SNMP tools together: one of the manager programs with one command   *)
(* line, the agent, the service and the network between them, and other    *)
(* managers.                                                               *)
(***************************************************************************)
EXTENDS SnmpAgent, SnmpUtil, WSnmpUtil

vars == <<job, net, screen, agent, util, wutil>>

Init == NetInit /\ SnmpExtensionInit /\ UInit /\ WInit

Next ==
    \/ AgentNext /\ UNCHANGED <<util, wutil>>
    \/ UNext /\ UNCHANGED <<agent, wutil>>
    \/ WNext /\ UNCHANGED <<agent, util>>

\* The service takes a request; only SnmpExtensionQuery and AnsweredElsewhere
\* do this, and one of them can whenever there is a request.
Taken == \E r \in requests : requests' = requests \ {r}

\* The service, the programs and the libraries go on.  That a request is
\* answered unless it is one of the job.faults that are given up is what the
\* retries of the libraries are for.
Fairness ==
    /\ WF_requests(Taken)
    /\ WF_vars((TrapWake \/ SnmpExtensionTrap) /\ UNCHANGED <<util, wutil>>)
    /\ WF_vars((UStep \/ \E r \in replies : UAnswered(r) \/ ULate(r)) /\ UNCHANGED <<agent, wutil>>)
    /\ WF_vars(UTrapArrives /\ UNCHANGED <<agent, wutil>>)
    /\ WF_vars(WStep /\ UNCHANGED <<agent, util>>)
    /\ WF_vars((\E r \in replies : WArrives(r)) /\ UNCHANGED <<agent, util>>)
    /\ WF_vars((\E id \in waiting : Unanswered(id) /\ WTimesOut(id)) /\ UNCHANGED <<agent, util>>)
    /\ WF_vars(WTrapArrives /\ UNCHANGED <<agent, util>>)

Spec == Init /\ [][Next]_vars /\ Fairness
-----------------------------------------------------------------------------
Over1 == upc = "done" \/ wpc = "done"

\* The walk of this command line, as an abstract one.
Subtree == job.op = "SUBTREE" \/ (job.op = "WALK" /\ job.program = "snmputil")
IsWalk  == job.op \in {"WALK", "SUBTREE"} /\ Len(job.oids) = 1 /\ job.oids[1] # Bad

\* The variables of a subtree follow one another in the table.
In == {i \in Variables : NameOf(i) > job.oids[1] /\ (Subtree => NameOf(i) \in Under(job.oids[1]))}

Target ==
    LET first == CHOOSE i \in In : \A j \in In : i <= j
        Vbs   == [k \in 1..Cardinality(In) |-> VarBind(NameOf(first + k - 1), mib[first + k - 1])]
    IN  IF ~IsWalk THEN << >>
        ELSE IF ~Subtree /\ job.next /\ job.oids[1] < Foreign
        THEN Append(Vbs, VarBind(Foreign, Text(3))) ELSE Vbs

\* What was printed of values, before any varbind without one: at the end of a
\* view a program also prints the varbind the agent gave back.
IsValue(vb) == vb.value.type \in {"int", "text"}
Values == IF IsWalk THEN SubSeq(shown, 1, Cardinality({k \in DOMAIN shown : IsValue(shown[k])})) ELSE << >>

Walk == INSTANCE SubtreeWalk WITH
    Item   <- [name : Nat, value : [type : {"int", "text"}, n : Nat]],
    target <- Target,
    seen   <- Values,
    ended  <- IF ~Over1 THEN "no"
              ELSE IF IsWalk /\ ~failed /\ said # "error status" THEN "complete" ELSE "gave up"

\* SnmpUtil.C:317-403, WSnmpUtil.Cpp:151-185 and 590-691: both programs, over
\* a network that delays and repeats, carry out the abstract walk: nothing is
\* left out, shown twice or shown for a request that is no longer current.
WalkImplemented == Walk!Spec

\* WSnmpUtil.Cpp:635-651: a varbind is printed for the request that is current,
\* answers the name that request asked for, and no request is printed twice.
AnswersBelong ==
    job.program = "wsnmputil" /\ job.op \in {"GET", "GETNEXT"} =>
        /\ \A k \in DOMAIN shown :
               LET asked == job.oids[ghost.ids[k]]
               IN  shown[k].name = asked \/ (job.op = "GETNEXT" /\ shown[k].name > asked)
        /\ \A k, l \in DOMAIN shown : k < l => ghost.ids[k] < ghost.ids[l]

\* WSnmpUtil.Cpp:187-215, 619-626: "Failed" is only said of a value that was
\* not set and will not be; "Succeeded" of one that was, unless the response
\* to the SET was not the last one looked at: the SET was not sent or not
\* answered in time, or a late response to the GET has overwritten the status.
SetReported ==
    job.op = "SET" /\ wpc = "done" =>
        /\ said = "Failed" => /\ mib = Storage0
                              /\ \A r \in requests : r.type = "SET" => ~Good("SET", r.vbs[1])
        /\ said = "Succeeded" =>
              \/ \E i \in Variables : NameOf(i) = job.oids[1] /\ mib[i] = Number(job.value.n)
              \/ ghost.last # 2

\* With a subtree that reaches to the end of the view, version 2 and no other
\* agent behind it, every answer is endOfMibView under the name asked for.
EndlessSubtree ==
    /\ job.program = "wsnmputil" /\ job.op = "SUBTREE" /\ job.v2 /\ ~job.next
    /\ NameOf(Len(Mib)) \in Under(job.oids[1])

\* SnmpUtil.C:317, WSnmpUtil.Cpp:152-185, 757-772: every operation but trap
\* ends once requests are answered, except the subtree above.
JobEnds == (job.op # "trap" /\ ~EndlessSubtree) ~> Over1

\* TestDll.C:145-206, SnmpUtil.C:439-583, WSnmpUtil.Cpp:731-734: every trap
\* the agent reports is printed, however close they come to one another.
TrapsPrinted == <>[](trapsShown + missed = trapsSent)

SnmpTypeOK ==
    /\ requestCount \in 0..2 /\ whichTime \in {0, 1} /\ polling \in BOOLEAN /\ trapEvent \in BOOLEAN
    /\ \A i \in Variables :
          /\ mib[i].type = Mib[i].type
          /\ Mib[i].access = "readwrite" => mib[i].n \in Mib[i].low..Mib[i].high
          /\ Mib[i].access = "read" => mib[i] = Storage0[i]
    /\ \A r \in requests : r.id <= MaxRequests /\ Len(r.vbs) > 0
    /\ \A r \in replies : r.status # "noError" => r.index \in DOMAIN r.vbs
    /\ trapQueue \in Nat /\ (trapQueue > 0 => newTraps \/ upc = "drain" \/ upc = "reset")
    /\ gaveUp \subseteq 1..MaxRequests /\ waiting \subseteq 1..MaxRequests
    /\ \A i \in DOMAIN queue : queue[i].msg \in {"response", "timeout", "trap", "done"}
=============================================================================
