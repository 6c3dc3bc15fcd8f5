----------------------------- MODULE WSnmpUtil ------------------------------
(***************************************************************************)
(* wsnmputil (src/snmp/wsnmp: WSnmpUtil.Cpp, Helper.Cpp, WSnmpUtil.h) over *)
(* WinSNMP.                                                                *)
(*                                                                         *)
(* CreatePduSendRequest sends a request and runs the message pump of       *)
(* ProcessAgentResponse until a WM_SNMP_DONE, which the window procedure   *)
(* posts to the same queue when ProcessNotification is satisfied.  WinSNMP *)
(* is external: it posts WM_SNMP_INCOMING for a response, for a trap and   *)
(* when it has given a request up; a response may still come after that.   *)
(***************************************************************************)
EXTENDS SnmpNet

VARIABLES
    wpc,     \* where main is: "start", "main", "pump" or "done"
    gVars,   \* the globals, see GInit
    session, \* nRequestId and nErrorStatus of the session
    calls,   \* calls of CreatePduSendRequest for this operation
    result,  \* what the last one returned
    waiting, \* requests no response has come for
    gaveUp,  \* those of them WinSNMP has given up
    queue,   \* the window's message queue
    ghost    \* the request that was current when each varbind was printed, and
             \* the last response ProcessNotification looked at

wutil == <<wpc, gVars, session, calls, result, waiting, gaveUp, queue, ghost>>

\* GlobalVars: kept says whether the memory of gVars.oid has not been freed.
GInit == [operation |-> "none", oid |-> 0, kept |-> FALSE, syntax |-> "unset",
          startOid |-> 0, nRequestId |-> 1, fDone |-> FALSE, doSet |-> FALSE]

WInit ==
    /\ wpc = "start" /\ gVars = GInit
    /\ session = [nRequestId |-> 0, nErrorStatus |-> "noError"]
    /\ calls = 0 /\ result = TRUE /\ waiting = {} /\ gaveUp = {} /\ queue = << >>
    /\ ghost = [ids |-> << >>, last |-> 0]

Bad == Foreign + 1  \* a name neither conversion accepts

Incoming(r) == [msg |-> "response", r |-> r]
GivenUp     == [msg |-> "timeout"]
TrapMsg     == [msg |-> "trap"]
WM_SNMP_DONE == [msg |-> "done"]
-----------------------------------------------------------------------------
WMine == job.program = "wsnmputil"

\* ParseCommandLine, SnmpStartup, the window, the session; for traps also
\* SnmpRegister.  Each of them may fail.
WStart ==
    /\ WMine /\ wpc = "start"
    /\ \/ /\ wpc' = IF job.op = "trap" THEN "pump" ELSE "main"
          /\ gVars' = [gVars EXCEPT !.operation = IF job.op = "SET" THEN "GET" ELSE job.op,
                                    !.doSet = (job.op = "SET")]
          /\ failed' = failed
       \/ wpc' = "done" /\ failed' = TRUE /\ gVars' = gVars
    /\ UNCHANGED <<job, net, shown, trapsShown, missed, said, session, calls, result,
                   waiting, gaveUp, queue, ghost>>

\* Whether main calls CreatePduSendRequest once more.
More ==
    CASE job.op \in {"WALK", "SUBTREE"} ->
             session.nErrorStatus = "noError" /\ result /\ ~gVars.fDone
      [] job.op \in {"GET", "GETNEXT"} -> calls < Len(job.oids)
      [] job.op = "GETBULK" -> calls = 0
      [] OTHER -> (calls = 0 /\ job.value # Null) \/ (calls = 1 /\ result)

Setting == job.op = "SET" /\ calls = 1

PduType ==
    CASE gVars.operation \in {"WALK", "SUBTREE"} -> "GETNEXT"
      [] OTHER -> IF Setting THEN "SET" ELSE gVars.operation

\* The names CreatePduSendRequest asks for: a walk parses its first one, and
\* goes on with gVars.oid.
Asked ==
    CASE job.op \in {"WALK", "SUBTREE"} /\ gVars.nRequestId = 1 -> <<job.oids[1]>>
      [] job.op = "GETBULK" -> job.oids
      [] job.op \in {"GET", "GETNEXT"} -> <<job.oids[gVars.nRequestId]>>
      [] job.op = "SET" /\ calls = 0 -> <<job.oids[1]>>
      [] OTHER -> <<gVars.oid>>

Reads == ~Setting /\ ~(job.op \in {"WALK", "SUBTREE"} /\ gVars.nRequestId > 1)

\* ConvertStringToSmiValue gives the value the type the GET has found.
Bindings == IF Setting THEN <<VarBind(gVars.oid, Value(gVars.syntax, job.value.n))>>
            ELSE [k \in DOMAIN Asked |-> VarBind(Asked[k], Null)]

Operation == IF Setting THEN "SET" ELSE gVars.operation

\* nRequestId is counted; the descriptor is freed except in a subtree.
GlobalsAfterSend ==
    [gVars EXCEPT !.operation = Operation, !.nRequestId = @ + 1, !.oid = Asked[Len(Asked)],
                  !.startOid = IF gVars.nRequestId = 1 THEN Asked[1] ELSE @,
                  !.kept = (job.op = "SUBTREE")]

\* CreatePduSendRequest returns FALSE before it has counted the request: a
\* name cannot be parsed, or gVars.oid has been freed and makes no varbind.
WRefused ==
    /\ WMine /\ wpc = "main" /\ More
    /\ \/ Reads /\ Bad \in ToSet(Asked)
       \/ ~Reads /\ ~gVars.kept /\ ~Setting
    /\ calls' = calls + 1 /\ result' = FALSE /\ failed' = TRUE
    /\ gVars' = [gVars EXCEPT !.operation = Operation]
    /\ UNCHANGED <<job, net, shown, trapsShown, missed, said, wpc, session, waiting, gaveUp,
                   queue, ghost>>

\* It returns FALSE after that: SnmpCreatePdu fails, for instance over the
\* varbind of a SET that could not be made, or SnmpSendMsg does.
WSendFails ==
    /\ WMine /\ wpc = "main" /\ More /\ Bad \notin ToSet(Asked)
    /\ gVars.nRequestId <= MaxRequests
    /\ calls' = calls + 1 /\ result' = FALSE /\ failed' = TRUE
    /\ gVars' = GlobalsAfterSend
    /\ session' = [session EXCEPT !.nRequestId = gVars.nRequestId]
    /\ UNCHANGED <<job, net, shown, trapsShown, missed, said, wpc, waiting, gaveUp, queue, ghost>>

\* It sends.  Memory that has been freed may still hold the name.
CreatePduSendRequest ==
    /\ WMine /\ wpc = "main" /\ More /\ Bad \notin ToSet(Asked)
    /\ gVars.nRequestId <= MaxRequests
    /\ session' = [session EXCEPT !.nRequestId = gVars.nRequestId]
    /\ requests' = requests \cup {Request(gVars.nRequestId, PduType, Bindings)}
    /\ waiting' = waiting \cup {gVars.nRequestId}
    /\ calls' = calls + 1
    /\ gVars' = GlobalsAfterSend
    /\ wpc' = "pump"
    /\ UNCHANGED <<job, replies, trapNet, faults, screen, result, gaveUp, queue, ghost>>
-----------------------------------------------------------------------------
(* The message queue. *)

\* A response arrives; WinSNMP takes the first one to each request, late or not.
WArrives(r) ==
    /\ WMine /\ wpc \in {"main", "pump"} /\ r \in replies
    /\ replies' = replies \ {r}
    /\ waiting' = waiting \ {r.id}
    /\ queue' = IF r.id \in waiting THEN Append(queue, Incoming(r)) ELSE queue
    /\ UNCHANGED <<job, requests, trapNet, faults, screen, wpc, gVars, session, calls, result,
                   gaveUp, ghost>>

\* Neither the request nor a response to it is on its way.
Unanswered(id) == \A m \in requests \cup replies : m.id # id

\* WinSNMP gives up after its retries: early at most job.faults times, and
\* always on a request that is not answered.
WTimesOut(id) ==
    /\ WMine /\ wpc = "pump" /\ id \in waiting \ gaveUp
    /\ faults < job.faults \/ Unanswered(id)
    /\ faults' = IF Unanswered(id) THEN faults ELSE faults + 1
    /\ gaveUp' = gaveUp \cup {id}
    /\ queue' = Append(queue, GivenUp)
    /\ UNCHANGED <<job, requests, replies, trapNet, screen, wpc, gVars, session, calls, result,
                   waiting, ghost>>

WTrapArrives ==
    /\ WMine /\ trapNet > 0
    /\ trapNet' = trapNet - 1
    /\ IF wpc = "pump" /\ job.op = "trap"
       THEN queue' = Append(queue, TrapMsg) /\ missed' = missed
       ELSE missed' = missed + 1 /\ queue' = queue
    /\ UNCHANGED <<job, requests, replies, faults, shown, trapsShown, said, failed, wpc, gVars,
                   session, calls, result, waiting, gaveUp, ghost>>

\* PrintVarBind stops at the first varbind that ends the walk.
Ends(vb) == \/ job.op = "SUBTREE" /\ vb.name \notin Under(gVars.startOid)
            \/ job.op = "WALK" /\ vb.value.type = "end"

Stop(vbs) == IF \E k \in DOMAIN vbs : Ends(vbs[k])
             THEN CHOOSE k \in DOMAIN vbs : Ends(vbs[k]) /\ \A j \in 1..(k - 1) : ~Ends(vbs[j])
             ELSE Len(vbs) + 1

Printed(vbs) == IF gVars.doSet THEN << >> ELSE SubSeq(vbs, 1, Stop(vbs) - 1)

\* Mutant: the response is taken whatever request it answers.
MatchesAny(r) == TRUE

Matches(r) == r.id = session.nRequestId

\* ProcessNotification of a response; FALSE is a response to something else.
\* SnmpGetPduData has overwritten the error status by then.
PResponse ==
    /\ WMine /\ wpc = "pump" /\ queue # << >> /\ Head(queue).msg = "response"
    /\ LET r    == Head(queue).r
           last == IF Stop(r.vbs) <= Len(r.vbs) THEN Stop(r.vbs) ELSE Len(r.vbs)
       IN  /\ session' = [session EXCEPT !.nErrorStatus = r.status]
           /\ IF Matches(r)
              THEN /\ shown' = shown \o Printed(r.vbs)
                   /\ ghost' = [ids |-> ghost.ids \o [k \in DOMAIN Printed(r.vbs) |-> session.nRequestId],
                                last |-> r.id]
                   /\ gVars' = [gVars EXCEPT !.oid = r.vbs[last].name, !.kept = TRUE,
                                             !.syntax = r.vbs[last].value.type,
                                             !.fDone = @ \/ Stop(r.vbs) <= Len(r.vbs)]
                   /\ queue' = Append(Tail(queue), WM_SNMP_DONE)
              ELSE /\ queue' = Tail(queue)
                   /\ ghost' = [ghost EXCEPT !.last = r.id]
                   /\ UNCHANGED <<shown, gVars>>
    /\ UNCHANGED <<job, net, trapsShown, missed, said, failed, wpc, calls, result, waiting,
                   gaveUp>>

\* Mutant: only a message that was received ends the pump.
PTimeoutSilent ==
    /\ WMine /\ wpc = "pump" /\ queue # << >> /\ Head(queue) = GivenUp
    /\ queue' = Tail(queue)
    /\ failed' = TRUE
    /\ UNCHANGED <<job, net, shown, trapsShown, missed, said, wpc, gVars, session, calls, result,
                   waiting, gaveUp, ghost>>

\* SnmpRecvMsg fails because the request was given up: done, and the error
\* status stays.
PTimeout ==
    /\ WMine /\ wpc = "pump" /\ queue # << >> /\ Head(queue) = GivenUp
    /\ queue' = Append(Tail(queue), WM_SNMP_DONE)
    /\ failed' = TRUE
    /\ UNCHANGED <<job, net, shown, trapsShown, missed, said, wpc, gVars, session, calls, result,
                   waiting, gaveUp, ghost>>

\* ParseAndPrintv2Trap.
PTrap ==
    /\ WMine /\ wpc = "pump" /\ queue # << >> /\ Head(queue) = TrapMsg
    /\ trapsShown' = trapsShown + 1
    /\ queue' = Append(Tail(queue), WM_SNMP_DONE)
    /\ UNCHANGED <<job, net, shown, missed, said, failed, wpc, gVars, session, calls, result,
                   waiting, gaveUp, ghost>>

\* ProcessAgentResponse returns; WaitForTraps calls it again.
PDone ==
    /\ WMine /\ wpc = "pump" /\ queue # << >> /\ Head(queue) = WM_SNMP_DONE
    /\ queue' = Tail(queue)
    /\ result' = TRUE
    /\ wpc' = IF job.op = "trap" THEN "pump" ELSE "main"
    /\ UNCHANGED <<job, net, screen, gVars, session, calls, waiting, gaveUp, ghost>>

\* Mutant: success is told by the return value of the request.
WEndResult ==
    /\ WMine /\ wpc = "main" /\ ~More
    /\ wpc' = "done"
    /\ said' = IF job.op # "SET" \/ calls < 2 THEN said ELSE IF result THEN "Succeeded" ELSE "Failed"
    /\ UNCHANGED <<job, net, shown, trapsShown, missed, failed, gVars, session, calls, result,
                   waiting, gaveUp, queue, ghost>>

\* The operation is over; SET tells how it went.
WEnd ==
    /\ WMine /\ wpc = "main" /\ ~More
    /\ wpc' = "done"
    /\ said' = IF job.op # "SET" \/ calls < 2 THEN said
               ELSE IF session.nErrorStatus = "noError" THEN "Succeeded" ELSE "Failed"
    /\ UNCHANGED <<job, net, shown, trapsShown, missed, failed, gVars, session, calls, result,
                   waiting, gaveUp, queue, ghost>>

WStep == WStart \/ WRefused \/ WSendFails \/ CreatePduSendRequest
         \/ PResponse \/ PTimeout \/ PTrap \/ PDone \/ WEnd
WNext == WStep \/ WTrapArrives \/ (\E r \in replies : WArrives(r)) \/ \E id \in waiting : WTimesOut(id)
=============================================================================
