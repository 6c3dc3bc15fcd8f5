----------------------------- MODULE SnmpAgent ------------------------------
(***************************************************************************)
(* The sample extension agent (SnmpExtensionInit, SnmpExtensionQuery and   *)
(* SnmpExtensionTrap of src/snmp/testdll/TestDll.C) inside the SNMP        *)
(* service.  The service is external: it hands the varbinds to the agent,  *)
(* turns the result into a response, waits for the trap event and polls    *)
(* SnmpExtensionTrap until that returns FALSE.  It may see a request       *)
(* twice, because managers retransmit.                                     *)
(***************************************************************************)
EXTENDS SnmpNet

VARIABLES
    mib,          \* the storage of the variables
    requestCount, \* requestCount of SnmpExtensionQuery, modulo 3
    trapEvent,    \* hSimulateTrap, an event that resets itself
    whichTime,    \* whichTime of SnmpExtensionTrap
    polling,      \* the service calls SnmpExtensionTrap
    handled,      \* calls of SnmpExtensionQuery
    trapsSent,    \* traps the service sent
    others        \* requests of other managers so far

agent == <<mib, requestCount, trapEvent, whichTime, polling, handled, trapsSent, others>>

SnmpExtensionInit ==
    /\ mib = Storage0 /\ requestCount = 0 /\ trapEvent = FALSE /\ whichTime = 0
    /\ polling = FALSE /\ handled = 0 /\ trapsSent = 0 /\ others = 0
-----------------------------------------------------------------------------
\* The names the service gives to this agent.
InView(name) == name < Outside

\* A GETBULK is as many queries as it has repetitions.
Calls(r) == IF r.type = "GETBULK" THEN job.reps ELSE 1

\* Mutant: the count is tested before it is incremented.
CountedEarly(n) == /\ requestCount' = (requestCount + n) % 3
                   /\ trapEvent' = (trapEvent \/ requestCount = 0)

\* ++requestCount % 3 == 0 sets the event; setting it twice is setting it once.
Counted(n) == /\ requestCount' = (requestCount + n) % 3
              /\ trapEvent' = (trapEvent \/ requestCount + n >= 3)

\* The varbind of a GETNEXT that has left the views of all agents.
EndOf(vb, v2) == IF v2 THEN VarBind(vb.name, Value("end", 0)) ELSE vb

\* What the service makes of a varbind the agent has answered to a GETNEXT: a
\* name outside the view is asked of the next agent.
Onward(vb, got) ==
    IF got.name # Outside THEN got
    ELSE IF job.next THEN VarBind(Foreign, Text(3)) ELSE EndOf(vb, job.v2)

\* GETBULK is a number of GETNEXTs for one name.
Bulk(vbs) ==
    LET Row[k \in 1..job.reps] ==
            LET from == IF k = 1 THEN vbs ELSE Row[k - 1]
                got  == Query("GETNEXT", from, mib).vbs
            IN  [I \in DOMAIN vbs |->
                    IF from[I].name = Foreign \/ from[I].value.type = "end"
                    THEN EndOf(from[I], TRUE) ELSE Onward(from[I], got[I])]
    IN  FlattenSeq([k \in 1..job.reps |-> Row[k]])

Reply(r, status, index, vbs) == [id |-> r.id, status |-> status, index |-> index, vbs |-> vbs]

\* The response to request r, given the agent's result q.
Response(r, q) ==
    LET missing(I) == q.vbs[I].name = Outside /\ ~job.next /\ ~job.v2
    IN  CASE r.type = "GETBULK" -> Reply(r, "noError", 0, Bulk(r.vbs))
          [] r.type = "GETNEXT" /\ \E I \in DOMAIN r.vbs : missing(I) ->
                 Reply(r, "noSuchName", CHOOSE I \in DOMAIN r.vbs :
                                        missing(I) /\ \A J \in 1..(I - 1) : ~missing(J), r.vbs)
          [] r.type = "GETNEXT" /\ \A I \in DOMAIN r.vbs : ~missing(I) ->
                 Reply(r, "noError", 0, [I \in DOMAIN r.vbs |-> Onward(r.vbs[I], q.vbs[I])])
          [] r.type = "GET" /\ q.status = "noSuchName" /\ job.v2 ->
                 Reply(r, "noError", 0, [I \in DOMAIN r.vbs |->
                    IF Good("GET", r.vbs[I]) THEN Query("GET", <<r.vbs[I]>>, mib).vbs[1]
                    ELSE VarBind(r.vbs[I].name, Value("none", 0))])
          [] OTHER -> Reply(r, q.status, q.index, IF q.status = "noError" THEN q.vbs ELSE r.vbs)

\* The service gives request r to the agent and sends the response.  It stays
\* on its way if a retransmission of it will come.  A GETBULK at version 1 is
\* not answered.
SnmpExtensionQuery(r, again) ==
    /\ r \in requests
    /\ \A I \in DOMAIN r.vbs : InView(r.vbs[I].name)
    /\ again => r.id # 0 /\ faults < job.faults
    /\ requests' = IF again THEN requests ELSE requests \ {r}
    /\ faults' = IF again THEN faults + 1 ELSE faults
    /\ IF r.type = "GETBULK" /\ ~job.v2
       THEN UNCHANGED <<replies, mib, requestCount, trapEvent, handled>>
       ELSE \E q \in {Query(IF r.type = "GETBULK" THEN "GETNEXT" ELSE r.type, r.vbs, mib)} :
               /\ mib' = q.stor
               /\ replies' = replies \cup (IF r.id = 0 THEN {} ELSE {Response(r, q)})
               /\ Counted(Calls(r)) /\ handled' = handled + Calls(r)
    /\ UNCHANGED <<job, trapNet, screen, whichTime, polling, trapsSent, others>>

\* The response to a request for a name outside the agent's view: the next
\* agent has one variable, which cannot be written.
Elsewhere(r) ==
    LET vb    == r.vbs[1]
        found == job.next /\ \/ r.type = "GET" /\ vb.name = Foreign
                             \/ r.type \in {"GETNEXT", "GETBULK"} /\ vb.name < Foreign
    IN  CASE found -> Reply(r, "noError", 0, <<VarBind(Foreign, Text(3))>>)
          [] ~found /\ job.v2 /\ r.type # "SET" ->
                 Reply(r, "noError", 0, <<IF r.type = "GET" THEN VarBind(vb.name, Value("none", 0))
                                          ELSE EndOf(vb, TRUE)>>)
          [] OTHER -> Reply(r, "noSuchName", 1, r.vbs)

\* The name belongs to no view any more, or to another agent.
AnsweredElsewhere(r) ==
    /\ r \in requests /\ ~InView(r.vbs[1].name)
    /\ requests' = requests \ {r}
    /\ replies' = IF r.id = 0 \/ (r.type = "GETBULK" /\ ~job.v2) THEN replies
                  ELSE replies \cup {Elsewhere(r)}
    /\ UNCHANGED <<job, trapNet, faults, screen, agent>>

\* The trap event wakes the service, which resets it.
TrapWake ==
    /\ trapEvent /\ ~polling
    /\ trapEvent' = FALSE /\ polling' = TRUE
    /\ UNCHANGED <<job, net, screen, mib, requestCount, whichTime, handled, trapsSent, others>>

\* One call of SnmpExtensionTrap: TRUE with a trap, and FALSE the next time.
SnmpExtensionTrap ==
    /\ polling
    /\ whichTime' = 1 - whichTime
    /\ IF whichTime = 0 THEN trapNet' = trapNet + 1 /\ trapsSent' = trapsSent + 1 /\ polling' = TRUE
                        ELSE polling' = FALSE /\ UNCHANGED <<trapNet, trapsSent>>
    /\ UNCHANGED <<job, requests, replies, faults, screen, mib, requestCount, trapEvent, handled, others>>

\* Another manager asks for something; the answer goes there.
OtherManager ==
    /\ job.op = "trap" /\ others < MaxOthers /\ requests = {}
    /\ \E x \in OtherRequests : requests' = {Request(0, x.type, x.vbs)}
    /\ others' = others + 1
    /\ UNCHANGED <<job, replies, trapNet, faults, screen, mib, requestCount,
                   trapEvent, whichTime, polling, handled, trapsSent>>

AgentNext ==
    \/ \E r \in requests : (\E again \in BOOLEAN : SnmpExtensionQuery(r, again))
                           \/ AnsweredElsewhere(r)
    \/ TrapWake \/ SnmpExtensionTrap \/ OtherManager
-----------------------------------------------------------------------------
(* Properties *)

\* TestDll.C:245-276, TestMIB.C: every request that reaches the agent, in
\* whatever state earlier writes left it, is answered from the variables it
\* names, and a write that fails has changed what comes before the error.
QueriesKept == \A r \in requests :
    r.type \in {"GET", "GETNEXT", "SET"} /\ (\A I \in DOMAIN r.vbs : InView(r.vbs[I].name))
        => QueryPromise(r.type, r.vbs, mib)

\* TestDll.C:166-206, 272-275: the traps sent, being sent and still to be sent
\* are never more than the third requests; once the service is quiet there has
\* been one if there was a trigger at all, and the next call of
\* SnmpExtensionTrap begins a new trap.
TrapPerTrigger ==
    LET triggers == handled \div 3
    IN  /\ trapsSent + (IF trapEvent THEN 1 ELSE 0) + (IF polling /\ whichTime = 0 THEN 1 ELSE 0)
              <= triggers
        /\ ~trapEvent /\ ~polling /\ triggers > 0 => trapsSent > 0
        /\ ~polling => whichTime = 0
=============================================================================
