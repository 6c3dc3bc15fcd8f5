------------------------------ MODULE SnmpUtil ------------------------------
(***************************************************************************)
(* snmputil (src/snmp/snmputil/SnmpUtil.C): get, getnext, walk and trap    *)
(* over the synchronous management API.  The API is external: it matches   *)
(* responses to requests, drops late ones, gives up after its retries, and *)
(* queues traps behind an event that stays set until it is reset.          *)
(***************************************************************************)
EXTENDS SnmpNet

VARIABLES
    upc,        \* where main is
    vbs,        \* variableBindings
    reqId,      \* the API's number of the current request
    trapQueue,  \* traps SnmpMgrGetTrapEx has not handed out
    newTraps    \* hNewTraps

util == <<upc, vbs, reqId, trapQueue, newTraps>>

UInit == upc = "start" /\ vbs = << >> /\ reqId = 0 /\ trapQueue = 0 /\ newTraps = FALSE
-----------------------------------------------------------------------------
Mine == job.program = "snmputil"
RequestType == IF job.op = "GET" THEN "GET" ELSE "GETNEXT"
Finish(text) == upc' = "done" /\ said' = text

\* The command line is taken apart.  WALK takes one name only.
UParse ==
    /\ Mine /\ upc = "start" /\ job.op # "trap"
    /\ vbs' = [k \in DOMAIN job.oids |-> VarBind(job.oids[k], Null)]
    /\ IF job.op = "WALK" /\ Len(job.oids) # 1
       THEN Finish("usage") ELSE upc' = "request" /\ said' = said
    /\ UNCHANGED <<job, net, shown, trapsShown, missed, failed, reqId, trapQueue, newTraps>>

\* SnmpMgrRequest sends.
USend ==
    /\ Mine /\ upc = "request" /\ reqId < MaxRequests
    /\ reqId' = reqId + 1
    /\ requests' = requests \cup {Request(reqId', RequestType, vbs)}
    /\ upc' = "wait"
    /\ UNCHANGED <<job, replies, trapNet, faults, screen, vbs, trapQueue, newTraps>>

\* SnmpMgrRequest returns FALSE.
UGivesUp ==
    /\ Mine /\ upc = "wait" /\ faults < job.faults
    /\ faults' = faults + 1
    /\ failed' = TRUE /\ Finish("api error")
    /\ UNCHANGED <<job, requests, replies, trapNet, shown, trapsShown, missed, vbs, reqId, trapQueue, newTraps>>

\* The test for the end of the subtree.
Over(r) == r.status = "noSuchName" \/ r.vbs[1].name \notin Under(job.oids[1])

\* Mutant: the next request starts at the root again.
NextBindingsRoot(r) == <<VarBind(job.oids[1], Null)>>

\* tempOid: the name is kept for the next request, the value is freed.
NextBindings(r) == <<VarBind(r.vbs[1].name, Null)>>

\* SnmpMgrRequest returns TRUE with the response to this request.
UAnswered(r) ==
    /\ Mine /\ upc = "wait" /\ r \in replies /\ r.id = reqId
    /\ replies' = replies \ {r}
    /\ CASE job.op = "WALK" /\ Over(r) ->
               Finish("end of subtree") /\ vbs' = r.vbs /\ shown' = shown
         [] job.op = "WALK" /\ ~Over(r) /\ r.status = "noError" ->
               /\ shown' = Append(shown, r.vbs[1]) /\ vbs' = NextBindings(r)
               /\ upc' = "request" /\ said' = said
         [] job.op # "WALK" /\ r.status = "noError" ->
               shown' = shown \o r.vbs /\ vbs' = r.vbs /\ Finish("")
         [] OTHER -> Finish("error status") /\ vbs' = r.vbs /\ shown' = shown
    /\ UNCHANGED <<job, requests, trapNet, faults, trapsShown, missed, failed, reqId, trapQueue, newTraps>>

\* A response nobody waits for any more is dropped by the API.
ULate(r) ==
    /\ Mine /\ upc \in {"wait", "request"} /\ r \in replies
    /\ r.id # reqId \/ upc # "wait"
    /\ replies' = replies \ {r}
    /\ UNCHANGED <<job, requests, trapNet, faults, screen, util>>

\* SnmpMgrTrapListen.
UListen ==
    /\ Mine /\ upc = "start" /\ job.op = "trap"
    /\ upc' = "trapwait"
    /\ UNCHANGED <<job, net, screen, vbs, reqId, trapQueue, newTraps>>

\* A trap arrives and the API sets the event; without SnmpMgrTrapListen there
\* is nobody to take it.
UTrapArrives ==
    /\ Mine /\ trapNet > 0
    /\ trapNet' = trapNet - 1
    /\ IF upc \notin {"trapwait", "reset", "drain"}
       THEN missed' = missed + 1 /\ UNCHANGED <<trapQueue, newTraps>>
       ELSE trapQueue' = trapQueue + 1 /\ newTraps' = TRUE /\ missed' = missed
    /\ UNCHANGED <<job, requests, replies, faults, shown, trapsShown, said, failed, upc, vbs, reqId>>

\* Mutant: the event is reset after the traps have been taken.
UFollowReset == [trapwait |-> "drain", drain |-> "reset", reset |-> "trapwait"]

\* The order of the loop: wait for the event, reset it, take the traps.
UFollow == [trapwait |-> "reset", reset |-> "drain", drain |-> "trapwait"]

UTrapWait ==
    /\ Mine /\ upc = "trapwait" /\ newTraps
    /\ upc' = UFollow[upc]
    /\ UNCHANGED <<job, net, screen, vbs, reqId, trapQueue, newTraps>>

UResetEvent ==
    /\ Mine /\ upc = "reset"
    /\ newTraps' = FALSE /\ upc' = UFollow[upc]
    /\ UNCHANGED <<job, net, screen, vbs, reqId, trapQueue>>

\* SnmpMgrGetTrapEx until it has none, printing each.
UDrain ==
    /\ Mine /\ upc = "drain"
    /\ IF trapQueue > 0
       THEN trapQueue' = trapQueue - 1 /\ trapsShown' = trapsShown + 1 /\ UNCHANGED upc
       ELSE upc' = UFollow[upc] /\ UNCHANGED <<trapQueue, trapsShown>>
    /\ UNCHANGED <<job, net, shown, missed, said, failed, vbs, reqId, newTraps>>

UStep == UParse \/ USend \/ UListen \/ UTrapWait \/ UResetEvent \/ UDrain
UNext == UStep \/ UGivesUp \/ UTrapArrives \/ \E r \in replies : UAnswered(r) \/ ULate(r)
=============================================================================
