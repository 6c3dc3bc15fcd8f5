----------------------------- MODULE SnmpProofs -----------------------------
(***************************************************************************)
(* Proofs about the SNMP tools together (module Snmp), for every set of    *)
(* command lines and every bound: the traps of the agent, the types, the   *)
(* answers to queries, what the managers print, and that both carry out    *)
(* the walk of SubtreeWalk.                                                *)
(***************************************************************************)
EXTENDS Snmp, ToasterMibProofs, FiniteSetTheorems

-----------------------------------------------------------------------------
(* The command line never changes, and the programs leave the agent alone. *)

LEMMA AgentSteps ==
    ASSUME AgentNext PROVE job' = job
<1>1. ASSUME NEW r, NEW again, SnmpExtensionQuery(r, again) PROVE job' = job
  BY <1>1 DEF SnmpExtensionQuery
<1>2. ASSUME NEW r, AnsweredElsewhere(r) PROVE job' = job
  BY <1>2 DEF AnsweredElsewhere
<1> QED BY <1>1, <1>2 DEF AgentNext, TrapWake, SnmpExtensionTrap, OtherManager

LEMMA UtilSteps ==
    ASSUME UNext PROVE job' = job
<1>1. ASSUME NEW r, UAnswered(r) PROVE job' = job
  BY <1>1 DEF UAnswered
<1>2. ASSUME NEW r, ULate(r) PROVE job' = job
  BY <1>2 DEF ULate
<1> QED BY <1>1, <1>2 DEF UNext, UStep, UParse, USend, UGivesUp, UListen, UTrapArrives,
                          UTrapWait, UResetEvent, UDrain

LEMMA WUtilSteps ==
    ASSUME WNext PROVE job' = job
<1>1. ASSUME NEW r, WArrives(r) PROVE job' = job
  BY <1>1 DEF WArrives
<1>2. ASSUME NEW id, WTimesOut(id) PROVE job' = job
  BY <1>2 DEF WTimesOut
<1>3. ASSUME WStep PROVE job' = job
  BY <1>3, Zenon DEF WStep, WStart, WRefused, WSendFails, CreatePduSendRequest, PResponse, PTimeout,
              PTrap, PDone, WEnd
<1>4. ASSUME WTrapArrives PROVE job' = job
  BY <1>4 DEF WTrapArrives
<1> QED BY <1>1, <1>2, <1>3, <1>4 DEF WNext

LEMMA JobKept ==
    ASSUME [Next]_vars PROVE job' = job
BY AgentSteps, UtilSteps, WUtilSteps DEF Next, vars
-----------------------------------------------------------------------------
(* Traps. *)

TrapTypes ==
    /\ job \in Jobs
    /\ handled \in Nat /\ trapsSent \in Nat
    /\ trapEvent \in BOOLEAN /\ polling \in BOOLEAN /\ whichTime \in {0, 1}

\* The counter of SnmpExtensionQuery is the number of calls modulo 3; a trigger
\* is pending, being reported or has been reported, and the second call of
\* SnmpExtensionTrap comes after a trap.
TrapInv ==
    /\ TrapTypes
    /\ requestCount = handled % 3
    /\ ~polling => whichTime = 0
    /\ whichTime = 1 => trapsSent > 0
    /\ trapsSent <= handled \div 3
    /\ trapEvent \/ (polling /\ whichTime = 0) => trapsSent + 1 <= handled \div 3
    /\ trapEvent /\ polling /\ whichTime = 0 => trapsSent + 2 <= handled \div 3
    /\ handled \div 3 > 0 => trapEvent \/ (polling /\ whichTime = 0) \/ trapsSent > 0

LEMMA CountOn ==
    ASSUME NEW h \in Nat, NEW n \in Nat
    PROVE  /\ ((h % 3) + n) % 3 = (h + n) % 3
           /\ (h + n) \div 3 >= h \div 3
           /\ (h % 3) + n >= 3 => (h + n) \div 3 >= (h \div 3) + 1
           /\ ~((h % 3) + n >= 3) => (h + n) \div 3 = h \div 3
           /\ h \div 3 \in Nat /\ (h + n) \div 3 \in Nat /\ h + n \in Nat
OBVIOUS

LEMMA TrapInit == Init => TrapInv
<1> SUFFICES ASSUME Init PROVE TrapInv
  OBVIOUS
<1>1. /\ job \in Jobs /\ requestCount = 0 /\ trapEvent = FALSE /\ whichTime = 0 /\ polling = FALSE
      /\ handled = 0 /\ trapsSent = 0
  BY DEF Init, NetInit, SnmpExtensionInit
<1>2. handled % 3 = 0 /\ handled \div 3 = 0
  BY <1>1
<1>3. TrapTypes
  BY <1>1 DEF TrapTypes
<1>4. requestCount = handled % 3
  BY <1>1, <1>2
<1>5. ~trapEvent /\ ~polling /\ whichTime = 0
  BY <1>1
<1>6. trapsSent <= handled \div 3 /\ ~(handled \div 3 > 0)
  BY <1>1, <1>2
<1> QED BY <1>3, <1>4, <1>5, <1>6, <1>1 DEF TrapInv

LEMMA CallsNat ==
    ASSUME job \in Jobs, NEW r PROVE Calls(r) \in Nat
BY NetAssumption DEF Calls

LEMMA TrapQuery ==
    ASSUME TrapInv, NEW r, NEW again, SnmpExtensionQuery(r, again) PROVE TrapInv'
<1>1. Calls(r) \in Nat
  BY CallsNat DEF TrapInv, TrapTypes
<1>2. UNCHANGED <<job, whichTime, polling, trapsSent>>
  BY DEF SnmpExtensionQuery
<1>3. \/ UNCHANGED <<requestCount, trapEvent, handled>>
      \/ Counted(Calls(r)) /\ handled' = handled + Calls(r)
  BY DEF SnmpExtensionQuery
<1>4. CASE UNCHANGED <<requestCount, trapEvent, handled>>
  BY <1>2, <1>4 DEF TrapInv, TrapTypes
<1>5. CASE Counted(Calls(r)) /\ handled' = handled + Calls(r)
  <2> DEFINE n == Calls(r)
  <2>1. /\ requestCount' = ((handled % 3) + n) % 3
        /\ trapEvent' = (trapEvent \/ (handled % 3) + n >= 3)
        /\ handled' = handled + n
    BY <1>5 DEF Counted, TrapInv
  <2> HIDE DEF n
  <2>2. n \in Nat /\ handled \in Nat
    BY <1>1 DEF n, TrapInv, TrapTypes
  <2> DEFINE t == handled \div 3
             t1 == (handled + n) \div 3
  <2>3. /\ ((handled % 3) + n) % 3 = (handled + n) % 3
        /\ t1 >= t
        /\ (handled % 3) + n >= 3 => t1 >= t + 1
        /\ ~((handled % 3) + n >= 3) => t1 = t
        /\ t \in Nat /\ t1 \in Nat /\ handled + n \in Nat
    BY <2>2, CountOn
  <2>4. /\ TrapTypes' /\ requestCount' = handled' % 3
        /\ (~polling => whichTime = 0)' /\ (whichTime = 1 => trapsSent > 0)'
    BY <1>2, <2>1, <2>2, <2>3 DEF TrapInv, TrapTypes
  <2>5. handled' \div 3 = t1
    BY <2>1
  <2>6. /\ trapsSent <= t
        /\ trapEvent \/ (polling /\ whichTime = 0) => trapsSent + 1 <= t
        /\ trapEvent /\ polling /\ whichTime = 0 => trapsSent + 2 <= t
        /\ t > 0 => trapEvent \/ (polling /\ whichTime = 0) \/ trapsSent > 0
    BY DEF TrapInv
  <2> HIDE DEF t, t1
  <2>7. /\ trapsSent' <= t1
        /\ trapEvent' \/ (polling' /\ whichTime' = 0) => trapsSent' + 1 <= t1
        /\ trapEvent' /\ polling' /\ whichTime' = 0 => trapsSent' + 2 <= t1
        /\ t1 > 0 => trapEvent' \/ (polling' /\ whichTime' = 0) \/ trapsSent' > 0
    <3>1. /\ trapEvent' \in BOOLEAN /\ trapEvent \in BOOLEAN /\ polling \in BOOLEAN
          /\ trapsSent \in Nat /\ UNCHANGED <<whichTime, polling, trapsSent>>
      BY <1>2, <2>4 DEF TrapInv, TrapTypes
    <3>2. t1 >= t /\ t1 \in Nat /\ t \in Nat
      BY <2>3
    <3>3. (trapEvent' = trapEvent /\ t1 = t) \/ (trapEvent' = TRUE /\ t1 >= t + 1)
      BY <2>1, <2>3, <3>1
    <3>4. CASE trapEvent' = trapEvent /\ t1 = t
      BY <3>1, <3>2, <3>4, <2>6
    <3>5. CASE trapEvent' = TRUE /\ t1 >= t + 1
      BY <3>1, <3>2, <3>5, <2>6
    <3> QED BY <3>3, <3>4, <3>5
  <2> QED BY <2>4, <2>5, <2>7 DEF TrapInv
<1> QED BY <1>3, <1>4, <1>5

LEMMA TrapNext ==
    ASSUME TrapInv, [Next]_vars PROVE TrapInv'
<1>1. job' = job
  BY JobKept
<1>2. ASSUME UNCHANGED agent PROVE TrapInv'
  BY <1>1, <1>2 DEF agent, TrapInv, TrapTypes
<1>3. ASSUME NEW r, AnsweredElsewhere(r) PROVE TrapInv'
  BY <1>2, <1>3 DEF AnsweredElsewhere
<1>4. ASSUME TrapWake PROVE TrapInv'
  <2>1. UNCHANGED <<requestCount, whichTime, handled, trapsSent>> /\ trapEvent = TRUE /\ polling = FALSE
        /\ trapEvent' = FALSE /\ polling' = TRUE /\ whichTime = 0
    BY <1>4 DEF TrapWake, TrapInv, TrapTypes
  <2> QED BY <1>1, <2>1 DEF TrapInv, TrapTypes
<1>5. ASSUME SnmpExtensionTrap PROVE TrapInv'
  <2>1. UNCHANGED <<requestCount, trapEvent, handled>> /\ polling = TRUE
    BY <1>5 DEF SnmpExtensionTrap, TrapInv, TrapTypes
  <2>2. CASE whichTime = 0
    <3>1. whichTime' = 1 /\ trapsSent' = trapsSent + 1 /\ polling' = TRUE
      BY <1>5, <2>2 DEF SnmpExtensionTrap
    <3> QED BY <1>1, <2>1, <2>2, <3>1 DEF TrapInv, TrapTypes
  <2>3. CASE whichTime = 1
    <3>1. whichTime' = 0 /\ trapsSent' = trapsSent /\ polling' = FALSE
      BY <1>5, <2>3 DEF SnmpExtensionTrap
    <3> QED BY <1>1, <2>1, <2>3, <3>1 DEF TrapInv, TrapTypes
  <2> QED BY <2>2, <2>3 DEF TrapInv, TrapTypes
<1>6. ASSUME OtherManager PROVE TrapInv'
  BY <1>1, <1>6 DEF OtherManager, TrapInv, TrapTypes
<1>7. ASSUME AgentNext PROVE TrapInv'
  BY <1>3, <1>4, <1>5, <1>6, <1>7, TrapQuery DEF AgentNext
<1> QED BY <1>2, <1>7 DEF Next, vars

\* TestDll.C:166-206 and 268-276: whatever is asked and however the requests,
\* the retransmissions and the polling of the service interleave, the agent
\* never sends more traps than it has seen third requests, and it never forgets
\* all of them.
THEOREM TrapsCounted == Spec => []TrapPerTrigger
<1>1. TrapInv => TrapPerTrigger
  BY DEF TrapInv, TrapTypes, TrapPerTrigger
<1> QED BY <1>1, TrapInit, TrapNext, PTL DEF Spec
-----------------------------------------------------------------------------
(* Requests and responses are well formed. *)

RequestOK(r, op) ==
    /\ r.id \in 0..MaxRequests /\ r.type \in Actions \cup {"GETBULK"}
    /\ r.vbs \in Seq(VarBinds) /\ r.vbs # << >>
    /\ r.type = "GETBULK" => op = "GETBULK"

ReplyOK(r, op) ==
    /\ r.id \in 0..MaxRequests /\ r.status \in Statuses
    /\ r.status # "noError" => r.index \in DOMAIN r.vbs
    /\ op # "GETBULK" => r.vbs \in Seq(VarBinds) /\ r.vbs # << >>

RequestsOK(rs, op) == \A r \in rs : RequestOK(r, op)
RepliesOK(rs, op)  == \A r \in rs : ReplyOK(r, op)

AgentTyped ==
    /\ job \in Jobs
    /\ mib \in Storages /\ MibOK(mib)
    /\ RequestsOK(requests, job.op) /\ RepliesOK(replies, job.op)

LEMMA JobFacts ==
    ASSUME job \in Jobs
    PROVE  /\ job.program \in Programs /\ job.op \in Operations(job.program)
           /\ job.oids \in Seq(Nat) /\ (job.op # "trap" => job.oids # << >>)
           /\ job.v2 \in BOOLEAN /\ job.next \in BOOLEAN /\ (job.program = "snmputil" => ~job.v2)
           /\ job.value \in Values0
BY NetAssumption DEF Values0

LEMMA NameBound ==
    /\ Foreign \in Nat /\ Outside \in Nat /\ Bad \in Nat /\ Null \in Values0 /\ Text(3) \in Values0
    /\ Value("end", 0) \in Values0 /\ Value("none", 0) \in Values0
BY Table DEF Foreign, Bad, Null, Text, Value, Values0, AsnTypes

LEMMA SeqMap ==
    ASSUME NEW s, s \in Seq(VarBinds), NEW f, f \in [DOMAIN s -> VarBinds]
    PROVE  f \in Seq(VarBinds) /\ DOMAIN f = DOMAIN s /\ Len(f) = Len(s) /\ (s # << >> => f # << >>)
<1>1. DOMAIN s = 1..Len(s) /\ Len(s) \in Nat
  OBVIOUS
<1>2. f \in Seq(VarBinds) /\ DOMAIN f = 1..Len(s)
  BY <1>1
<1>3. Len(f) = Len(s)
  BY <1>1, <1>2
<1> QED BY <1>1, <1>2, <1>3

LEMMA OnwardTyped ==
    ASSUME NEW vb \in VarBinds, NEW got \in VarBinds
    PROVE  Onward(vb, got) \in VarBinds
<1>1. vb.name \in Nat
  BY DEF VarBinds
<1>2. VarBind(Foreign, Text(3)) \in VarBinds /\ VarBind(vb.name, Value("end", 0)) \in VarBinds
  BY <1>1, NameBound, Records
<1> QED BY <1>2 DEF Onward, EndOf

\* The first varbind of a GETNEXT that is missing.
LEMMA FirstMissing ==
    ASSUME NEW S, NEW n \in Nat, S \subseteq 1..n, S # {}
    PROVE  \E I \in S : \A J \in 1..(I - 1) : J \notin S
<1>1. S \subseteq Nat
  OBVIOUS
<1>2. PICK I \in S : \A J \in S : I <= J
  BY <1>1, LeastNatural
<1> QED BY <1>2

LEMMA ResponseTyped ==
    ASSUME NEW r, RequestOK(r, job.op), mib \in Storages, job \in Jobs,
           NEW q, q = Query(IF r.type = "GETBULK" THEN "GETNEXT" ELSE r.type, r.vbs, mib)
    PROVE  ReplyOK(Response(r, q), job.op)
<1> DEFINE n == Len(r.vbs)
           missing(I) == q.vbs[I].name = Outside /\ ~job.next /\ ~job.v2
           reply(status, index, vbls) == Reply(r, status, index, vbls)
           res == Response(r, q)
<1>1. r.vbs \in Seq(VarBinds) /\ r.vbs # << >> /\ DOMAIN r.vbs = 1..n /\ n \in Nat /\ n > 0
      /\ r.id \in 0..MaxRequests /\ r.type \in Actions \cup {"GETBULK"}
  BY DEF RequestOK
<1>2. /\ q.status \in Statuses /\ (q.status # "noError" => q.index \in 1..n)
      /\ q.vbs \in [1..n -> VarBinds]
  BY <1>1, QueryTyped DEF Actions
<1>3. ASSUME NEW status \in Statuses, NEW index, NEW vbls, res = reply(status, index, vbls),
             status # "noError" => index \in 1..n, vbls \in [1..n -> VarBinds]
      PROVE  ReplyOK(res, job.op)
  <2>1. vbls \in Seq(VarBinds) /\ vbls # << >> /\ DOMAIN vbls = 1..n
    BY <1>1, <1>3, SeqMap
  <2>2. res.id = r.id /\ res.status = status /\ res.index = index /\ res.vbs = vbls
    BY <1>3 DEF Reply
  <2> HIDE DEF res
  <2> QED BY <1>1, <1>3, <2>1, <2>2 DEF ReplyOK
<1>0. r.vbs \in [1..n -> VarBinds] /\ "noError" \in Statuses /\ "noSuchName" \in Statuses
  BY <1>1 DEF Statuses
<1>4. CASE r.type = "GETBULK"
  <2>1. res = reply("noError", 0, Bulk(r.vbs)) /\ job.op = "GETBULK"
    BY <1>4 DEF Response, RequestOK
  <2> HIDE DEF res
  <2>2. ReplyOK(res, job.op)
    BY <1>0, <1>1, <2>1 DEF ReplyOK, Reply
  <2> QED BY <2>2 DEF res
<1>5. CASE r.type = "GETNEXT" /\ \E I \in DOMAIN r.vbs : missing(I)
  <2> DEFINE first == CHOOSE I \in DOMAIN r.vbs : missing(I) /\ \A J \in 1..(I - 1) : ~missing(J)
             S == {I \in DOMAIN r.vbs : missing(I)}
  <2>1. res = reply("noSuchName", first, r.vbs)
    BY <1>5 DEF Response
  <2>2. \E I \in S : \A J \in 1..(I - 1) : J \notin S
    <3>1. S # {} /\ S \subseteq 1..n
      BY <1>1, <1>5
    <3> HIDE DEF S
    <3> QED BY <1>1, <3>1, FirstMissing
  <2>3. \E I \in DOMAIN r.vbs : missing(I) /\ \A J \in 1..(I - 1) : ~missing(J)
    <3>1. \A I \in DOMAIN r.vbs : \A J \in 1..(I - 1) : J \in DOMAIN r.vbs
      BY <1>1
    <3> HIDE DEF missing
    <3> QED BY <2>2, <3>1
  <2>4. first \in 1..n
    BY <1>1, <2>3
  <2> HIDE DEF first, res
  <2> QED BY <1>0, <1>3, <2>1, <2>4 DEF res
<1>6. CASE r.type = "GETNEXT" /\ \A I \in DOMAIN r.vbs : ~missing(I)
  <2> DEFINE out == [I \in DOMAIN r.vbs |-> Onward(r.vbs[I], q.vbs[I])]
  <2>1. res = reply("noError", 0, out)
    BY <1>6 DEF Response
  <2>2. out \in [1..n -> VarBinds]
    BY <1>1, <1>2, OnwardTyped
  <2> HIDE DEF out, res
  <2> QED BY <1>0, <1>3, <2>1, <2>2 DEF res
<1>7. CASE r.type = "GET" /\ q.status = "noSuchName" /\ job.v2
  <2> DEFINE out == [I \in DOMAIN r.vbs |->
                        IF Good("GET", r.vbs[I]) THEN Query("GET", <<r.vbs[I]>>, mib).vbs[1]
                        ELSE VarBind(r.vbs[I].name, Value("none", 0))]
  <2>1. res = reply("noError", 0, out)
    BY <1>7 DEF Response
  <2>2. ASSUME NEW I \in 1..n PROVE out[I] \in VarBinds
    <3>0. r.vbs[I] \in VarBinds
      BY <1>1
    <3>1. r.vbs[I] \in VarBinds /\ r.vbs[I].name \in Nat
      BY <3>0 DEF VarBinds
    <3>2. <<r.vbs[I]>> \in Seq(VarBinds) /\ Len(<<r.vbs[I]>>) = 1
      BY <3>1
    <3>3. Query("GET", <<r.vbs[I]>>, mib).vbs \in [1..1 -> VarBinds]
      BY <3>2, QueryTyped DEF Actions
    <3>4. VarBind(r.vbs[I].name, Value("none", 0)) \in VarBinds
      BY <3>1, NameBound, Records
    <3> QED BY <1>1, <3>3, <3>4
  <2>3. out \in [1..n -> VarBinds]
    BY <1>1, <2>2
  <2> HIDE DEF out, res
  <2> QED BY <1>0, <1>3, <2>1, <2>3 DEF res
<1>8. CASE r.type = "SET" \/ (r.type = "GET" /\ ~(q.status = "noSuchName" /\ job.v2))
  <2> DEFINE out == IF q.status = "noError" THEN q.vbs ELSE r.vbs
  <2>1. res = reply(q.status, q.index, out)
    BY <1>8 DEF Response
  <2>2. out \in [1..n -> VarBinds]
    BY <1>0, <1>2
  <2> HIDE DEF out, res
  <2> QED BY <1>2, <1>3, <2>1, <2>2 DEF res
<1> QED BY <1>1, <1>4, <1>5, <1>6, <1>7, <1>8 DEF Actions

LEMMA AgentTypedQuery ==
    ASSUME AgentTyped, NEW r, NEW again, SnmpExtensionQuery(r, again)
    PROVE  AgentTyped'
<1>1. RequestOK(r, job.op) /\ job' = job /\ job \in Jobs /\ mib \in Storages /\ MibOK(mib)
  BY DEF AgentTyped, SnmpExtensionQuery, RequestsOK
<1>2. RequestsOK(requests', job.op)
  BY DEF AgentTyped, SnmpExtensionQuery, RequestsOK
<1>3. CASE UNCHANGED <<replies, mib>>
  BY <1>1, <1>2, <1>3 DEF AgentTyped
<1>4. CASE ~UNCHANGED <<replies, mib>>
  <2> DEFINE action == IF r.type = "GETBULK" THEN "GETNEXT" ELSE r.type
             q == Query(action, r.vbs, mib)
  <2>1. /\ mib' = q.stor
        /\ replies' = replies \cup (IF r.id = 0 THEN {} ELSE {Response(r, q)})
    BY <1>4 DEF SnmpExtensionQuery
  <2>2. action \in Actions /\ r.vbs \in Seq(VarBinds)
    BY <1>1 DEF RequestOK, Actions
  <2>3. q.stor \in Storages /\ (action # "SET" => q.stor = mib)
    BY <1>1, <2>2, QueryTyped
  <2>4. MibOK(mib')
    BY <1>1, <2>1, <2>2, <2>3, MibKept
  <2>5. ReplyOK(Response(r, q), job.op)
    BY <1>1, ResponseTyped
  <2> HIDE DEF q
  <2>6. RepliesOK(replies', job.op)
    BY <2>1, <2>5 DEF AgentTyped, RepliesOK
  <2> QED BY <1>1, <1>2, <2>1, <2>3, <2>4, <2>6 DEF AgentTyped
<1> QED BY <1>3, <1>4

LEMMA ElsewhereTyped ==
    ASSUME NEW r, RequestOK(r, job.op), job \in Jobs
    PROVE  ReplyOK(Elsewhere(r), job.op)
<1> DEFINE vb == r.vbs[1]
           res == Elsewhere(r)
<1>1. /\ r.vbs \in Seq(VarBinds) /\ r.vbs # << >> /\ 1 \in DOMAIN r.vbs
      /\ r.id \in 0..MaxRequests /\ vb.name \in Nat
  <2>1. r.vbs \in Seq(VarBinds) /\ r.vbs # << >> /\ 1 \in DOMAIN r.vbs /\ r.id \in 0..MaxRequests
    BY DEF RequestOK
  <2>2. vb \in VarBinds
    BY <2>1
  <2> QED BY <2>1, <2>2 DEF VarBinds
<1>2. ASSUME NEW v \in VarBinds, res = Reply(r, "noError", 0, <<v>>)
      PROVE  ReplyOK(res, job.op)
  <2>1. <<v>> \in Seq(VarBinds) /\ <<v>> # << >>
    OBVIOUS
  <2>2. res.id = r.id /\ res.status = "noError" /\ res.vbs = <<v>>
    BY <1>2 DEF Reply
  <2> HIDE DEF res
  <2> QED BY <1>1, <2>1, <2>2 DEF ReplyOK, Statuses
<1>3. /\ VarBind(Foreign, Text(3)) \in VarBinds
      /\ VarBind(vb.name, Value("none", 0)) \in VarBinds
      /\ VarBind(vb.name, Value("end", 0)) \in VarBinds
  BY <1>1, NameBound, Records
<1>4. \/ res = Reply(r, "noError", 0, <<VarBind(Foreign, Text(3))>>)
      \/ res = Reply(r, "noError", 0, <<VarBind(vb.name, Value("none", 0))>>)
      \/ res = Reply(r, "noError", 0, <<VarBind(vb.name, Value("end", 0))>>)
      \/ res = Reply(r, "noSuchName", 1, r.vbs)
  BY DEF Elsewhere, EndOf
<1>5. CASE res = Reply(r, "noSuchName", 1, r.vbs)
  <2>1. res.id = r.id /\ res.status = "noSuchName" /\ res.index = 1 /\ res.vbs = r.vbs
    BY <1>5 DEF Reply
  <2> HIDE DEF res
  <2>2. res.index \in DOMAIN res.vbs
    BY <1>1, <2>1
  <2>3. res.id \in 0..MaxRequests /\ res.status \in Statuses /\ res.vbs \in Seq(VarBinds) /\ res.vbs # << >>
    BY <1>1, <2>1 DEF Statuses
  <2>4. ReplyOK(res, job.op)
    BY <2>2, <2>3 DEF ReplyOK
  <2> QED BY <2>4 DEF res
<1> QED BY <1>2, <1>3, <1>4, <1>5

LEMMA AgentTypedElsewhere ==
    ASSUME AgentTyped, NEW r, AnsweredElsewhere(r)
    PROVE  AgentTyped'
<1>1. RequestOK(r, job.op) /\ job' = job /\ job \in Jobs /\ mib' = mib
  BY DEF AgentTyped, AnsweredElsewhere, RequestsOK, agent
<1>2. RequestsOK(requests', job.op)
  BY DEF AgentTyped, AnsweredElsewhere, RequestsOK
<1>3. replies' = replies \/ replies' = replies \cup {Elsewhere(r)}
  BY DEF AnsweredElsewhere
<1>4. ReplyOK(Elsewhere(r), job.op)
  BY <1>1, ElsewhereTyped
<1>5. RepliesOK(replies', job.op)
  BY <1>3, <1>4 DEF AgentTyped, RepliesOK
<1> QED BY <1>1, <1>2, <1>5 DEF AgentTyped

LEMMA AgentTypedAgent ==
    ASSUME AgentTyped, AgentNext PROVE AgentTyped'
<1>1. ASSUME TrapWake \/ SnmpExtensionTrap PROVE AgentTyped'
  BY <1>1 DEF TrapWake, SnmpExtensionTrap, net, AgentTyped
<1>2. ASSUME OtherManager PROVE AgentTyped'
  <2>1. PICK x \in OtherRequests : requests' = {Request(0, x.type, x.vbs)}
    BY <1>2 DEF OtherManager
  <2>2. x.type \in Actions /\ x.vbs \in Seq(VarBinds) /\ x.vbs # << >>
    BY NetAssumption DEF Actions, VarBinds, Values0
  <2>3. 0 \in 0..MaxRequests
    BY NetAssumption
  <2>4. RequestOK(Request(0, x.type, x.vbs), job.op)
    BY <2>2, <2>3 DEF RequestOK, Request, Actions
  <2>5. UNCHANGED <<job, mib, replies>>
    BY <1>2 DEF OtherManager
  <2> QED BY <2>1, <2>4, <2>5 DEF AgentTyped, RequestsOK
<1> QED BY <1>1, <1>2, AgentTypedQuery, AgentTypedElsewhere DEF AgentNext
-----------------------------------------------------------------------------
(* snmputil. *)

UtilTyped ==
    /\ vbs \in Seq(VarBinds) /\ (upc = "request" => vbs # << >>)
    /\ reqId \in 0..MaxRequests
    /\ trapQueue \in Nat /\ (trapQueue > 0 => newTraps \/ upc = "drain" \/ upc = "reset")

LEMMA OneVarBind ==
    ASSUME NEW vb \in VarBinds
    PROVE  <<VarBind(vb.name, Null)>> \in Seq(VarBinds) /\ <<VarBind(vb.name, Null)>> # << >>
<1>1. vb.name \in Nat
  BY DEF VarBinds
<1>2. VarBind(vb.name, Null) \in VarBinds
  BY <1>1, NameBound, Records
<1> QED BY <1>2

\* The varbinds of a list of names.
LEMMA NamesBound ==
    ASSUME NEW s \in Seq(Nat), s # << >>
    PROVE  /\ [k \in DOMAIN s |-> VarBind(s[k], Null)] \in Seq(VarBinds)
           /\ [k \in DOMAIN s |-> VarBind(s[k], Null)] # << >>
<1> DEFINE f == [k \in DOMAIN s |-> VarBind(s[k], Null)]
<1>1. \A k \in DOMAIN s : VarBind(s[k], Null) \in VarBinds
  BY NameBound, Records
<1>2. DOMAIN s = 1..Len(s) /\ Len(s) \in Nat /\ Len(s) > 0
  OBVIOUS
<1>3. f \in [1..Len(s) -> VarBinds] /\ DOMAIN f = 1..Len(s)
  BY <1>1, <1>2
<1> HIDE DEF f
<1>4. f \in Seq(VarBinds) /\ f # << >>
  BY <1>2, <1>3
<1> QED BY <1>4 DEF f

LEMMA UtilTypedParse ==
    ASSUME AgentTyped, UtilTyped, UParse
    PROVE  UtilTyped' /\ UNCHANGED <<job, requests, replies>>
<1>1. job.oids \in Seq(Nat) /\ job.oids # << >>
  BY JobFacts DEF AgentTyped, UParse
<1>2. vbs' \in Seq(VarBinds) /\ vbs' # << >>
  BY <1>1, NamesBound DEF UParse
<1>3. upc' = "done" \/ upc' = "request"
  BY DEF UParse, Finish
<1> QED BY <1>2, <1>3 DEF UtilTyped, UParse, net

LEMMA UtilTypedAnswered ==
    ASSUME AgentTyped, UtilTyped, NEW r, UAnswered(r)
    PROVE  UtilTyped' /\ UNCHANGED <<job, requests>> /\ RepliesOK(replies', job.op)
<1>1. r.vbs \in Seq(VarBinds) /\ r.vbs # << >>
  BY JobFacts DEF AgentTyped, UAnswered, RepliesOK, ReplyOK, Mine, Operations
<1>2. r.vbs[1] \in VarBinds
  BY <1>1
<1>3. NextBindings(r) \in Seq(VarBinds) /\ NextBindings(r) # << >>
  BY <1>2, OneVarBind DEF NextBindings
<1>4. (vbs' = NextBindings(r) /\ upc' = "request") \/ (vbs' = r.vbs /\ upc' = "done")
  BY DEF UAnswered, Finish
<1>5. UNCHANGED <<job, requests, reqId, trapQueue, newTraps>> /\ replies' = replies \ {r} /\ upc = "wait"
  BY DEF UAnswered
<1>6. UtilTyped'
  BY <1>1, <1>3, <1>4, <1>5 DEF UtilTyped
<1> QED BY <1>5, <1>6 DEF AgentTyped, RepliesOK

LEMMA UtilTypedSend ==
    ASSUME AgentTyped, UtilTyped, USend
    PROVE  UtilTyped' /\ UNCHANGED <<job, replies>> /\ RequestsOK(requests', job.op)
<1>1. reqId + 1 \in 0..MaxRequests /\ reqId' = reqId + 1
  BY NetAssumption DEF USend, UtilTyped
<1>2. RequestOK(Request(reqId', RequestType, vbs), job.op)
  BY <1>1 DEF RequestOK, Request, RequestType, UtilTyped, USend, Actions
<1>3. RequestsOK(requests', job.op)
  BY <1>2 DEF USend, RequestsOK, AgentTyped
<1> QED BY <1>1, <1>3 DEF USend, UtilTyped

LEMMA UtilTypedTraps ==
    ASSUME UtilTyped, UListen \/ UTrapArrives \/ UTrapWait \/ UResetEvent \/ UDrain
    PROVE  UtilTyped' /\ UNCHANGED <<job, requests, replies>>
<1>1. UNCHANGED <<job, requests, replies, vbs, reqId>>
  BY DEF UListen, UTrapArrives, UTrapWait, UResetEvent, UDrain, net
<1>2. CASE UListen
  BY <1>1, <1>2 DEF UListen, UtilTyped
<1>3. CASE UTrapArrives
  BY <1>1, <1>3 DEF UTrapArrives, UtilTyped
<1>4. CASE UTrapWait
  BY <1>1, <1>4 DEF UTrapWait, UtilTyped, UFollow
<1>5. CASE UResetEvent
  BY <1>1, <1>5 DEF UResetEvent, UtilTyped, UFollow
<1>6. CASE UDrain
  BY <1>1, <1>6 DEF UDrain, UtilTyped, UFollow
<1> QED BY <1>2, <1>3, <1>4, <1>5, <1>6

LEMMA UtilTypedNext ==
    ASSUME AgentTyped, UtilTyped, UNext, UNCHANGED agent
    PROVE  AgentTyped' /\ UtilTyped'
<1>0. mib' = mib
  BY DEF agent
<1>1. CASE UParse
  BY <1>0, <1>1, UtilTypedParse DEF AgentTyped
<1>2. CASE USend
  BY <1>0, <1>2, UtilTypedSend DEF AgentTyped
<1>3. CASE UListen \/ UTrapArrives \/ UTrapWait \/ UResetEvent \/ UDrain
  BY <1>0, <1>3, UtilTypedTraps DEF AgentTyped
<1>4. CASE UGivesUp
  BY <1>0, <1>4 DEF UGivesUp, Finish, AgentTyped, UtilTyped
<1>5. ASSUME NEW r \in replies, UAnswered(r) PROVE AgentTyped' /\ UtilTyped'
  BY <1>0, <1>5, UtilTypedAnswered DEF AgentTyped
<1>6. ASSUME NEW r \in replies, ULate(r) PROVE AgentTyped' /\ UtilTyped'
  BY <1>0, <1>6 DEF ULate, util, AgentTyped, UtilTyped, RepliesOK
<1> QED BY <1>1, <1>2, <1>3, <1>4, <1>5, <1>6 DEF UNext, UStep
-----------------------------------------------------------------------------
(* wsnmputil: the message queue. *)

IsSeq(q) == Len(q) \in Nat /\ q = [i \in 1..Len(q) |-> q[i]]

MessageOK(m, op) ==
    /\ m.msg \in {"response", "timeout", "trap", "done"}
    /\ m.msg = "response" => ReplyOK(m.r, op)

QueueOK(q, op) == IsSeq(q) /\ \A i \in 1..Len(q) : MessageOK(q[i], op)

LEMMA IsSeqOf ==
    ASSUME NEW q, IsSeq(q) PROVE q \in Seq({q[i] : i \in 1..Len(q)})
<1> DEFINE S == {q[i] : i \in 1..Len(q)}
<1>1. q \in [1..Len(q) -> S] /\ Len(q) \in Nat
  BY DEF IsSeq
<1> QED BY <1>1

LEMMA SeqIs ==
    ASSUME NEW S, NEW q \in Seq(S) PROVE IsSeq(q)
BY DEF IsSeq

LEMMA QueueAppend ==
    ASSUME NEW q, IsSeq(q), NEW m
    PROVE  /\ IsSeq(Append(q, m)) /\ Len(Append(q, m)) = Len(q) + 1
           /\ Append(q, m)[Len(q) + 1] = m
           /\ \A i \in 1..Len(q) : Append(q, m)[i] = q[i]
<1> DEFINE S == {q[i] : i \in 1..Len(q)} \cup {m}
<1>1. q \in Seq(S)
  <2>1. q \in [1..Len(q) -> S] /\ Len(q) \in Nat
    BY DEF IsSeq
  <2> QED BY <2>1
<1>2. m \in S
  OBVIOUS
<1> HIDE DEF S
<1>3. Append(q, m) \in Seq(S)
  BY <1>1, <1>2
<1>4. IsSeq(Append(q, m))
  BY <1>3, SeqIs
<1>5. /\ Len(Append(q, m)) = Len(q) + 1 /\ Append(q, m)[Len(q) + 1] = m
      /\ \A i \in 1..Len(q) : Append(q, m)[i] = q[i]
  BY <1>1, <1>2
<1> QED BY <1>4, <1>5

LEMMA QueueTail ==
    ASSUME NEW q, IsSeq(q), q # << >>
    PROVE  /\ IsSeq(Tail(q)) /\ Len(Tail(q)) = Len(q) - 1 /\ Len(q) > 0 /\ Head(q) = q[1]
           /\ \A i \in 1..(Len(q) - 1) : Tail(q)[i] = q[i + 1]
<1> DEFINE S == {q[i] : i \in 1..Len(q)}
<1>1. q \in Seq(S)
  BY IsSeqOf
<1> HIDE DEF S
<1>2. Tail(q) \in Seq(S)
  BY <1>1
<1>3. IsSeq(Tail(q))
  BY <1>2, SeqIs
<1>4. /\ Len(Tail(q)) = Len(q) - 1 /\ Len(q) > 0 /\ Head(q) = q[1]
      /\ \A i \in 1..(Len(q) - 1) : Tail(q)[i] = q[i + 1]
  BY <1>1
<1> QED BY <1>3, <1>4

LEMMA QueueGrows ==
    ASSUME NEW q, NEW op, QueueOK(q, op), NEW m, MessageOK(m, op)
    PROVE  QueueOK(Append(q, m), op)
<1> DEFINE a == Append(q, m)
<1>1. IsSeq(a) /\ Len(a) = Len(q) + 1 /\ a[Len(q) + 1] = m /\ \A i \in 1..Len(q) : a[i] = q[i]
  BY QueueAppend DEF QueueOK
<1>2. Len(q) \in Nat
  BY DEF QueueOK, IsSeq
<1> HIDE DEF a
<1>3. ASSUME NEW i \in 1..Len(a) PROVE MessageOK(a[i], op)
  <2>1. CASE i = Len(q) + 1
    BY <1>1, <2>1
  <2>2. CASE i \in 1..Len(q)
    BY <1>1, <2>2 DEF QueueOK
  <2> QED BY <1>1, <1>2, <2>1, <2>2
<1> QED BY <1>1, <1>3 DEF QueueOK, a

LEMMA QueueShrinks ==
    ASSUME NEW q, NEW op, QueueOK(q, op), q # << >>
    PROVE  QueueOK(Tail(q), op) /\ MessageOK(Head(q), op)
<1> DEFINE t == Tail(q)
<1>1. IsSeq(t) /\ Len(t) = Len(q) - 1 /\ Len(q) > 0 /\ Head(q) = q[1]
         /\ \A i \in 1..(Len(q) - 1) : t[i] = q[i + 1]
  BY QueueTail DEF QueueOK
<1>2. Len(q) \in Nat
  BY DEF QueueOK, IsSeq
<1> HIDE DEF t
<1>3. ASSUME NEW i \in 1..Len(t) PROVE MessageOK(t[i], op)
  <2>1. i + 1 \in 1..Len(q) /\ t[i] = q[i + 1]
    BY <1>1, <1>2
  <2> QED BY <2>1 DEF QueueOK
<1>4. MessageOK(Head(q), op)
  BY <1>1, <1>2 DEF QueueOK
<1> QED BY <1>1, <1>3, <1>4 DEF QueueOK, t

LEMMA MessagesAre ==
    ASSUME NEW op
    PROVE  /\ MessageOK(WM_SNMP_DONE, op) /\ MessageOK(GivenUp, op) /\ MessageOK(TrapMsg, op)
           /\ \A r : ReplyOK(r, op) => MessageOK(Incoming(r), op)
           /\ \A r : Incoming(r).msg = "response" /\ Incoming(r).r = r
BY DEF MessageOK, WM_SNMP_DONE, GivenUp, TrapMsg, Incoming
-----------------------------------------------------------------------------
(* wsnmputil: its globals. *)

GRecord(g) ==
    DOMAIN g = {"operation", "oid", "kept", "syntax", "startOid", "nRequestId", "fDone", "doSet"}

WUtilTyped ==
    /\ wpc \in {"start", "main", "pump", "done"}
    /\ wpc = "main" => job.op # "trap"
    /\ GRecord(gVars)
    /\ wpc \in {"main", "pump"} /\ job.op # "trap" =>
          gVars.operation \in IF job.op = "SET" THEN {"GET", "SET"} ELSE {job.op}
    /\ gVars.nRequestId \in 1..(MaxRequests + 1)
    /\ calls \in Nat /\ gVars.nRequestId <= calls + 1
    /\ job.op # "GETBULK" => gVars.oid \in Nat /\ gVars.syntax \in AsnTypes
    /\ waiting \subseteq 1..MaxRequests /\ gaveUp \subseteq 1..MaxRequests
    /\ QueueOK(queue, job.op)

LEMMA Operation1 ==
    ASSUME AgentTyped, WUtilTyped, wpc = "main"
    PROVE  Operation \in IF job.op = "SET" THEN {"GET", "SET"} ELSE {job.op}
BY DEF Operation, WUtilTyped, Setting

LEMMA SingleNat == ASSUME NEW n \in Nat PROVE <<n>> \in Seq(Nat) /\ <<n>> # << >>
OBVIOUS

LEMMA AskedTyped ==
    ASSUME AgentTyped, WUtilTyped, wpc = "main", WMine, More
    PROVE  Asked \in Seq(Nat) /\ Asked # << >>
<1>1. job.oids \in Seq(Nat) /\ job.oids # << >> /\ job.oids[1] \in Nat
  <2>1. job.oids \in Seq(Nat) /\ job.oids # << >>
    BY JobFacts DEF AgentTyped, WUtilTyped
  <2> QED BY <2>1
<1>2. job.op \in {"GET", "GETNEXT", "WALK", "GETBULK", "SUBTREE", "SET"}
  BY JobFacts DEF AgentTyped, WUtilTyped, Operations
<1>3. CASE job.op \in {"GET", "GETNEXT"}
  <2>1. calls < Len(job.oids)
    BY <1>3 DEF More
  <2>2. gVars.nRequestId \in 1..Len(job.oids)
    BY <1>1, <2>1 DEF WUtilTyped
  <2>3. job.oids[gVars.nRequestId] \in Nat
    BY <1>1, <2>2
  <2>4. Asked = <<job.oids[gVars.nRequestId]>>
    BY <1>3 DEF Asked
  <2> QED BY <2>3, <2>4
<1>4. CASE job.op = "GETBULK"
  BY <1>1, <1>4 DEF Asked
<1>5. CASE job.op \in {"WALK", "SUBTREE", "SET"}
  <2>1. gVars.oid \in Nat
    BY <1>5 DEF WUtilTyped
  <2>2. Asked = <<job.oids[1]>> \/ Asked = <<gVars.oid>>
    BY <1>5 DEF Asked
  <2> QED BY <1>1, <2>1, <2>2, SingleNat
<1> QED BY <1>2, <1>3, <1>4, <1>5

LEMMA BindingsTyped ==
    ASSUME AgentTyped, WUtilTyped, wpc = "main", WMine, More
    PROVE  Bindings \in Seq(VarBinds) /\ Bindings # << >>
<1>1. CASE Setting
  <2>1. gVars.oid \in Nat /\ gVars.syntax \in AsnTypes
    BY <1>1 DEF WUtilTyped, Setting
  <2>2. job.value.n \in Nat
    BY JobFacts DEF AgentTyped, Values0
  <2>3. Value(gVars.syntax, job.value.n) \in Values0
    BY <2>1, <2>2 DEF Value, Values0
  <2>4. VarBind(gVars.oid, Value(gVars.syntax, job.value.n)) \in VarBinds
    BY <2>1, <2>3, Records
  <2>5. Bindings = <<VarBind(gVars.oid, Value(gVars.syntax, job.value.n))>>
    BY <1>1 DEF Bindings
  <2> QED BY <2>4, <2>5
<1>2. CASE ~Setting
  <2>1. Bindings = [k \in DOMAIN Asked |-> VarBind(Asked[k], Null)]
    BY <1>2 DEF Bindings
  <2> QED BY <2>1, AskedTyped, NamesBound
<1> QED BY <1>1, <1>2
LEMMA GlobalsAre ==
    ASSUME GRecord(gVars), gVars.nRequestId \in Nat
    PROVE
    /\ GRecord(GlobalsAfterSend)
    /\ GlobalsAfterSend.operation = Operation /\ GlobalsAfterSend.nRequestId = gVars.nRequestId + 1
    /\ GlobalsAfterSend.oid = Asked[Len(Asked)] /\ GlobalsAfterSend.syntax = gVars.syntax
    /\ GlobalsAfterSend.kept = (job.op = "SUBTREE")
    /\ GlobalsAfterSend.fDone = gVars.fDone /\ GlobalsAfterSend.doSet = gVars.doSet
    /\ gVars.nRequestId = 1 => GlobalsAfterSend.startOid = Asked[1]
    /\ gVars.nRequestId # 1 => GlobalsAfterSend.startOid = gVars.startOid
BY DEF GlobalsAfterSend, GRecord

LEMMA GInitIs == GRecord(GInit)
BY DEF GRecord, GInit

LEMMA WUtilTypedInit ==
    ASSUME Init PROVE AgentTyped /\ UtilTyped /\ WUtilTyped
<1>1. MaxRequests \in Nat
  BY NetAssumption
<1>2. AgentTyped
  BY MibStarts DEF Init, NetInit, SnmpExtensionInit, AgentTyped, RequestsOK, RepliesOK
<1>3. UtilTyped
  BY <1>1 DEF Init, UInit, UtilTyped
<1>4. QueueOK(queue, job.op)
  BY DEF Init, WInit, QueueOK, IsSeq
<1>5. /\ GInit.nRequestId = 1 /\ GInit.oid = 0 /\ GInit.syntax = "unset" /\ "unset" \in AsnTypes
  BY DEF GInit, AsnTypes
<1>6. WUtilTyped
  BY <1>1, <1>4, <1>5, GInitIs DEF Init, WInit, WUtilTyped
<1> QED BY <1>2, <1>3, <1>6

LEMMA WTypedStart ==
    ASSUME AgentTyped, WUtilTyped, WStart
    PROVE  WUtilTyped' /\ UNCHANGED <<job, requests, replies>>
<1>1. UNCHANGED <<job, requests, replies, calls, waiting, gaveUp, queue>>
  BY DEF WStart, net
<1>2. CASE wpc' = "done" /\ gVars' = gVars
  BY <1>1, <1>2 DEF WUtilTyped
<1>3. CASE /\ wpc' = IF job.op = "trap" THEN "pump" ELSE "main"
           /\ gVars' = [gVars EXCEPT !.operation = IF job.op = "SET" THEN "GET" ELSE job.op,
                                     !.doSet = (job.op = "SET")]
  <2>1. GRecord(gVars') /\ gVars'.operation = (IF job.op = "SET" THEN "GET" ELSE job.op)
           /\ gVars'.nRequestId = gVars.nRequestId /\ gVars'.oid = gVars.oid
           /\ gVars'.syntax = gVars.syntax
    BY <1>3 DEF WUtilTyped, GRecord
  <2>2. gVars'.operation \in IF job.op = "SET" THEN {"GET", "SET"} ELSE {job.op}
    BY <2>1
  <2>3. wpc' \in {"start", "main", "pump", "done"} /\ (wpc' = "main" => job.op # "trap")
    BY <1>3
  <2> QED BY <1>1, <2>1, <2>2, <2>3 DEF WUtilTyped
<1> QED BY <1>2, <1>3 DEF WStart

LEMMA WTypedRefused ==
    ASSUME AgentTyped, WUtilTyped, WRefused
    PROVE  WUtilTyped' /\ UNCHANGED <<job, requests, replies>>
<1>1. UNCHANGED <<job, requests, replies, wpc, waiting, gaveUp, queue>> /\ calls' = calls + 1
         /\ gVars' = [gVars EXCEPT !.operation = Operation] /\ wpc = "main"
  BY DEF WRefused, net
<1>2. GRecord(gVars') /\ gVars'.operation = Operation
         /\ gVars'.nRequestId = gVars.nRequestId /\ gVars'.oid = gVars.oid
         /\ gVars'.syntax = gVars.syntax
  BY <1>1 DEF WUtilTyped, GRecord
<1> QED BY <1>1, <1>2, Operation1 DEF WUtilTyped

\* The globals after a request was counted.
LEMMA WTypedCounted ==
    ASSUME AgentTyped, WUtilTyped, wpc = "main", WMine, More, gVars.nRequestId <= MaxRequests
    PROVE  /\ GRecord(GlobalsAfterSend)
           /\ GlobalsAfterSend.operation \in IF job.op = "SET" THEN {"GET", "SET"} ELSE {job.op}
           /\ GlobalsAfterSend.nRequestId \in 1..(MaxRequests + 1)
           /\ GlobalsAfterSend.nRequestId <= calls + 1 + 1
           /\ job.op # "GETBULK" => GlobalsAfterSend.oid \in Nat /\ GlobalsAfterSend.syntax \in AsnTypes
           /\ gVars.nRequestId \in 1..MaxRequests /\ gVars.nRequestId \in 0..MaxRequests
<1>1. MaxRequests \in Nat /\ gVars.nRequestId \in Nat /\ GRecord(gVars)
  BY NetAssumption DEF WUtilTyped
<1>2. Asked \in Seq(Nat) /\ Asked # << >>
  BY AskedTyped
<1>3. Asked[Len(Asked)] \in Nat
  BY <1>2
<1> QED BY <1>1, <1>3, GlobalsAre, Operation1 DEF WUtilTyped

LEMMA WTypedSend ==
    ASSUME AgentTyped, WUtilTyped, WSendFails \/ CreatePduSendRequest
    PROVE  WUtilTyped' /\ UNCHANGED <<job, replies>> /\ RequestsOK(requests', job.op)
<1>1. /\ wpc = "main" /\ WMine /\ More /\ gVars.nRequestId <= MaxRequests
      /\ UNCHANGED <<job, replies, gaveUp, queue>> /\ calls' = calls + 1
      /\ gVars' = GlobalsAfterSend /\ wpc' \in {"main", "pump"} /\ (wpc' = "main" => wpc = "main")
  BY DEF WSendFails, CreatePduSendRequest, net
<1>2. /\ GRecord(gVars')
      /\ gVars'.operation \in IF job.op = "SET" THEN {"GET", "SET"} ELSE {job.op}
      /\ gVars'.nRequestId \in 1..(MaxRequests + 1)
      /\ gVars'.nRequestId <= calls + 1 + 1
      /\ job.op # "GETBULK" => gVars'.oid \in Nat /\ gVars'.syntax \in AsnTypes
      /\ gVars.nRequestId \in 1..MaxRequests /\ gVars.nRequestId \in 0..MaxRequests
  BY <1>1, WTypedCounted
<1>3. waiting' \subseteq 1..MaxRequests
  BY <1>2 DEF WSendFails, CreatePduSendRequest, WUtilTyped
<1>4. WUtilTyped'
  BY <1>1, <1>2, <1>3 DEF WUtilTyped
<1>5. RequestsOK(requests', job.op)
  <2>1. CASE WSendFails
    BY <2>1 DEF WSendFails, net, AgentTyped
  <2>2. CASE CreatePduSendRequest
    <3>1. PduType \in Actions \cup {"GETBULK"} /\ (PduType = "GETBULK" => job.op = "GETBULK")
      <4>1. gVars.operation \in IF job.op = "SET" THEN {"GET", "SET"} ELSE {job.op}
        BY <1>1 DEF WUtilTyped
      <4>2. job.op \in {"GET", "GETNEXT", "WALK", "GETBULK", "SUBTREE", "SET"}
        BY <1>1, JobFacts DEF AgentTyped, WUtilTyped, Operations
      <4> QED BY <4>1, <4>2 DEF PduType, Actions
    <3>2. RequestOK(Request(gVars.nRequestId, PduType, Bindings), job.op)
      BY <1>1, <1>2, <3>1, BindingsTyped DEF RequestOK, Request
    <3> QED BY <2>2, <3>2 DEF CreatePduSendRequest, AgentTyped, RequestsOK
  <2> QED BY <2>1, <2>2
<1> QED BY <1>1, <1>4, <1>5

\* The place where PrintVarBind stops, and the varbind it looked at last.
LEMMA StopIs ==
    ASSUME NEW s, Len(s) \in Nat, DOMAIN s = 1..Len(s)
    PROVE  /\ Stop(s) \in 1..(Len(s) + 1)
           /\ \A j \in 1..(Stop(s) - 1) : ~Ends(s[j])
           /\ Stop(s) <= Len(s) => Ends(s[Stop(s)])
<1> DEFINE S == {k \in DOMAIN s : Ends(s[k])}
<1>1. CASE S = {}
  <2>1. Stop(s) = Len(s) + 1 /\ \A k \in DOMAIN s : ~Ends(s[k])
    BY <1>1 DEF Stop
  <2> QED BY <2>1
<1>2. CASE S # {}
  <2>1. \E k \in S : \A j \in 1..(k - 1) : j \notin S
    <3>1. S \subseteq 1..Len(s)
      OBVIOUS
    <3> HIDE DEF S
    <3> QED BY <1>2, <3>1, FirstMissing
  <2>2. \E k \in DOMAIN s : Ends(s[k]) /\ \A j \in 1..(k - 1) : ~Ends(s[j])
    <3>1. \A k \in DOMAIN s : \A j \in 1..(k - 1) : j \in DOMAIN s
      OBVIOUS
    <3> QED BY <2>1, <3>1
  <2> DEFINE first == CHOOSE k \in DOMAIN s : Ends(s[k]) /\ \A j \in 1..(k - 1) : ~Ends(s[j])
  <2>3. Stop(s) = first
    BY <2>2 DEF Stop
  <2>4. first \in DOMAIN s /\ Ends(s[first]) /\ \A j \in 1..(first - 1) : ~Ends(s[j])
    BY <2>2
  <2> HIDE DEF first
  <2> QED BY <2>3, <2>4
<1> QED BY <1>1, <1>2

LEMMA WTypedResponse ==
    ASSUME AgentTyped, WUtilTyped, PResponse
    PROVE  WUtilTyped' /\ UNCHANGED <<job, requests, replies>>
<1> DEFINE r == Head(queue).r
           last == IF Stop(r.vbs) <= Len(r.vbs) THEN Stop(r.vbs) ELSE Len(r.vbs)
<1>1. /\ UNCHANGED <<job, requests, replies, wpc, calls, waiting, gaveUp>>
      /\ queue # << >> /\ Head(queue).msg = "response"
  BY Zenon DEF PResponse, net
<1>2. QueueOK(Tail(queue), job.op) /\ ReplyOK(r, job.op)
  BY <1>1, QueueShrinks DEF WUtilTyped, MessageOK
<1>3. QueueOK(Append(Tail(queue), WM_SNMP_DONE), job.op)
  BY <1>2, QueueGrows, MessagesAre
<1>4. QueueOK(queue', job.op)
  BY <1>2, <1>3, Zenon DEF PResponse
<1>5. gVars' = gVars \/ gVars' = [gVars EXCEPT !.oid = r.vbs[last].name, !.kept = TRUE,
                                  !.syntax = r.vbs[last].value.type,
                                  !.fDone = @ \/ Stop(r.vbs) <= Len(r.vbs)]
  BY Zenon DEF PResponse
<1>6. ASSUME job.op # "GETBULK"
      PROVE  r.vbs[last].name \in Nat /\ r.vbs[last].value.type \in AsnTypes
  <2>1. r.vbs \in Seq(VarBinds) /\ r.vbs # << >>
    BY <1>2, <1>6 DEF ReplyOK
  <2>2. Len(r.vbs) \in Nat /\ DOMAIN r.vbs = 1..Len(r.vbs) /\ Len(r.vbs) > 0
    BY <2>1
  <2>3. last \in DOMAIN r.vbs
    BY <2>2, StopIs
  <2> HIDE DEF last
  <2>4. r.vbs[last] \in VarBinds
    BY <2>1, <2>3
  <2> QED BY <2>4 DEF VarBinds, Values0
<1> HIDE DEF last, r
<1>7. /\ GRecord(gVars') /\ gVars'.operation = gVars.operation /\ gVars'.nRequestId = gVars.nRequestId
      /\ job.op # "GETBULK" => gVars'.oid \in Nat /\ gVars'.syntax \in AsnTypes
  <2>1. CASE gVars' = gVars
    BY <2>1 DEF WUtilTyped
  <2>2. CASE gVars' # gVars
    BY <1>5, <1>6, <2>2 DEF WUtilTyped, GRecord
  <2> QED BY <2>1, <2>2
<1> QED BY <1>1, <1>4, <1>7 DEF WUtilTyped

LEMMA WTypedPump ==
    ASSUME AgentTyped, WUtilTyped, PTimeout \/ PTrap \/ PDone \/ WEnd
    PROVE  WUtilTyped' /\ UNCHANGED <<job, requests, replies>>
<1>1. UNCHANGED <<job, requests, replies, gVars, calls, waiting, gaveUp>>
  BY DEF PTimeout, PTrap, PDone, WEnd, net
<1>2. QueueOK(queue', job.op)
  <2>1. CASE WEnd
    BY <2>1 DEF WEnd, WUtilTyped
  <2>2. CASE PTimeout \/ PTrap \/ PDone
    <3>1. queue # << >>
      BY <2>2 DEF PTimeout, PTrap, PDone
    <3>2. QueueOK(Tail(queue), job.op)
      BY <3>1, QueueShrinks DEF WUtilTyped
    <3>3. QueueOK(Append(Tail(queue), WM_SNMP_DONE), job.op)
      BY <3>2, QueueGrows, MessagesAre
    <3> QED BY <2>2, <3>2, <3>3 DEF PTimeout, PTrap, PDone
  <2> QED BY <2>1, <2>2
<1>3. /\ wpc' \in {"main", "pump", "done"} /\ (wpc' = "main" => job.op # "trap")
      /\ wpc' \in {"main", "pump"} => wpc \in {"main", "pump"}
  BY DEF PTimeout, PTrap, PDone, WEnd, WUtilTyped
<1> QED BY <1>1, <1>2, <1>3 DEF WUtilTyped

LEMMA WTypedArrives ==
    ASSUME AgentTyped, WUtilTyped, NEW r, WArrives(r)
    PROVE  WUtilTyped' /\ UNCHANGED <<job, requests>> /\ RepliesOK(replies', job.op)
<1>1. /\ UNCHANGED <<job, requests, wpc, gVars, calls, gaveUp>>
      /\ replies' = replies \ {r} /\ waiting' = waiting \ {r.id} /\ r \in replies
  BY DEF WArrives
<1>2. ReplyOK(r, job.op)
  BY <1>1 DEF AgentTyped, RepliesOK
<1>3. MessageOK(Incoming(r), job.op)
  BY <1>2, MessagesAre
<1>4. QueueOK(queue', job.op)
  BY <1>3, QueueGrows DEF WArrives, WUtilTyped
<1>5. WUtilTyped'
  BY <1>1, <1>4 DEF WUtilTyped
<1> QED BY <1>1, <1>5 DEF AgentTyped, RepliesOK

LEMMA WTypedTimesOut ==
    ASSUME AgentTyped, WUtilTyped, NEW id, WTimesOut(id)
    PROVE  WUtilTyped' /\ UNCHANGED <<job, requests, replies>>
<1>1. /\ UNCHANGED <<job, requests, replies, wpc, gVars, calls, waiting>>
      /\ gaveUp' = gaveUp \cup {id} /\ id \in waiting /\ queue' = Append(queue, GivenUp)
  BY DEF WTimesOut
<1>2. QueueOK(queue', job.op)
  BY <1>1, QueueGrows, MessagesAre DEF WUtilTyped
<1> QED BY <1>1, <1>2 DEF WUtilTyped

LEMMA WTypedTrap ==
    ASSUME AgentTyped, WUtilTyped, WTrapArrives
    PROVE  WUtilTyped' /\ UNCHANGED <<job, requests, replies>>
<1>1. UNCHANGED <<job, requests, replies, wpc, gVars, calls, waiting, gaveUp>>
  BY DEF WTrapArrives
<1>2. QueueOK(queue', job.op)
  <2>1. queue' = queue \/ queue' = Append(queue, TrapMsg)
    BY DEF WTrapArrives
  <2>2. QueueOK(queue, job.op)
    BY DEF WUtilTyped
  <2>3. QueueOK(Append(queue, TrapMsg), job.op)
    BY <2>2, QueueGrows, MessagesAre
  <2> QED BY <2>1, <2>2, <2>3
<1> QED BY <1>1, <1>2 DEF WUtilTyped

LEMMA WTypedNext ==
    ASSUME AgentTyped, WUtilTyped, WNext, UNCHANGED agent
    PROVE  AgentTyped' /\ WUtilTyped'
<1>0. mib' = mib
  BY DEF agent
<1>1. CASE WStart \/ WRefused
  BY <1>0, <1>1, WTypedStart, WTypedRefused DEF AgentTyped
<1>2. CASE WSendFails \/ CreatePduSendRequest
  BY <1>0, <1>2, WTypedSend DEF AgentTyped
<1>3. CASE PResponse \/ PTimeout \/ PTrap \/ PDone \/ WEnd
  BY <1>0, <1>3, WTypedResponse, WTypedPump DEF AgentTyped
<1>4. CASE WTrapArrives
  BY <1>0, <1>4, WTypedTrap DEF AgentTyped
<1>5. ASSUME NEW r \in replies, WArrives(r) PROVE AgentTyped' /\ WUtilTyped'
  BY <1>0, <1>5, WTypedArrives DEF AgentTyped
<1>6. ASSUME NEW id \in waiting, WTimesOut(id) PROVE AgentTyped' /\ WUtilTyped'
  BY <1>0, <1>6, WTypedTimesOut DEF AgentTyped
<1> QED BY <1>1, <1>2, <1>3, <1>4, <1>5, <1>6 DEF WNext, WStep
-----------------------------------------------------------------------------
(* Types and queries. *)

SnmpTyped == AgentTyped /\ UtilTyped /\ WUtilTyped

LEMMA SnmpTypedNext ==
    ASSUME SnmpTyped, [Next]_vars PROVE SnmpTyped'
<1>1. job' = job
  BY JobKept
<1>2. CASE AgentNext /\ UNCHANGED <<util, wutil>>
  BY <1>1, <1>2, AgentTypedAgent DEF SnmpTyped, UtilTyped, WUtilTyped, util, wutil
<1>3. CASE UNext /\ UNCHANGED <<agent, wutil>>
  BY <1>1, <1>3, UtilTypedNext DEF SnmpTyped, WUtilTyped, wutil
<1>4. CASE WNext /\ UNCHANGED <<agent, util>>
  BY <1>1, <1>4, WTypedNext DEF SnmpTyped, UtilTyped, util
<1>5. CASE UNCHANGED vars
  BY <1>5 DEF SnmpTyped, AgentTyped, UtilTyped, WUtilTyped, vars, net, agent, util, wutil
<1> QED BY <1>2, <1>3, <1>4, <1>5 DEF Next

\* TestMIB.C:303-633, TestDll.C:228-268, SnmpUtil.C:227-403, WSnmpUtil.Cpp:
\* the storage of the agent only ever holds values of the declared types in the
\* declared ranges, whatever is written to it, and every message of the
\* programs and of the agent is well formed.
THEOREM SnmpTypeCorrect == Spec => []SnmpTypeOK
<1>1. SnmpTyped /\ TrapInv => SnmpTypeOK
  <2> SUFFICES ASSUME SnmpTyped, TrapInv PROVE SnmpTypeOK
    OBVIOUS
  <2>1. requestCount \in 0..2 /\ whichTime \in {0, 1} /\ polling \in BOOLEAN /\ trapEvent \in BOOLEAN
    BY DEF TrapInv, TrapTypes
  <2>2. \A r \in requests : r.id <= MaxRequests /\ Len(r.vbs) > 0
    <3>1. ASSUME NEW r \in requests PROVE r.id <= MaxRequests /\ Len(r.vbs) > 0
      <4>1. RequestOK(r, job.op) /\ MaxRequests \in Nat
        BY NetAssumption DEF SnmpTyped, AgentTyped, RequestsOK
      <4>2. r.vbs \in Seq(VarBinds) /\ r.vbs # << >> /\ r.id \in 0..MaxRequests
        BY <4>1 DEF RequestOK
      <4> QED BY <4>1, <4>2
    <3> QED BY <3>1
  <2>3. \A r \in replies : r.status # "noError" => r.index \in DOMAIN r.vbs
    BY DEF SnmpTyped, AgentTyped, RepliesOK, ReplyOK
  <2>4. \A i \in DOMAIN queue : queue[i].msg \in {"response", "timeout", "trap", "done"}
    BY DEF SnmpTyped, WUtilTyped, QueueOK, IsSeq, MessageOK
  <2>5. MibOK(mib)
    BY DEF SnmpTyped, AgentTyped
  <2> QED BY <2>1, <2>2, <2>3, <2>4, <2>5 DEF SnmpTypeOK, MibOK, SnmpTyped, UtilTyped, WUtilTyped
<1>2. Init => SnmpTyped
  BY WUtilTypedInit DEF SnmpTyped
<1> QED BY <1>1, <1>2, SnmpTypedNext, TrapInit, TrapNext, PTL DEF Spec

\* TestDll.C:228-268, TestMIB.C:212-633: every request that is on its way to
\* the agent, in whatever state the writes of all managers have left it, will
\* be answered from the variables it names, and a write that fails has changed
\* exactly what comes before the error.
THEOREM QueriesAnswered == Spec => []QueriesKept
<1>1. SnmpTyped => QueriesKept
  <2> SUFFICES ASSUME SnmpTyped, NEW r \in requests, r.type \in {"GET", "GETNEXT", "SET"}
               PROVE  QueryPromise(r.type, r.vbs, mib)
    BY DEF QueriesKept
  <2>1. RequestOK(r, job.op) /\ mib \in Storages
    BY DEF SnmpTyped, AgentTyped, RequestsOK
  <2> QED BY <2>1, PromiseKept DEF RequestOK, Actions
<1>2. Init => SnmpTyped
  BY WUtilTypedInit DEF SnmpTyped
<1> QED BY <1>1, <1>2, SnmpTypedNext, PTL DEF Spec
-----------------------------------------------------------------------------
(* wsnmputil GET and GETNEXT: every answer belongs to the request it is     *)
(* printed for.                                                             *)

\* The name of the answer to a request for asked.
NameAnswers(op, asked, name) == name = asked \/ (op = "GETNEXT" /\ name > asked)

\* The one varbind of a response to the request that has asked for asked.
Answers(op, asked, r) == Len(r.vbs) = 1 /\ r.vbs[1] \in VarBinds
                         /\ DOMAIN r.vbs = 1..1 /\ NameAnswers(op, asked, r.vbs[1].name)

LEMMA NextNameIs ==
    ASSUME NEW name \in Nat
    PROVE  NextName(name) = Outside \/ NextName(name) > name
<1> DEFINE Beyond == {NameOf(i) : i \in Variables} \cap ((name + 1)..Outside)
<1>1. CASE Beyond = {}
  BY <1>1 DEF NextName
<1>2. CASE Beyond # {}
  <2>1. Beyond \subseteq Nat
    BY NameBound
  <2>2. PICK m \in Beyond : \A k \in Beyond : m <= k
    <3> HIDE DEF Beyond
    <3> QED BY <1>2, <2>1, LeastNatural
  <2>3. NextName(name) \in Beyond
    BY <1>2, <2>2 DEF NextName
  <2>4. \A k \in Beyond : k > name
    BY NameBound
  <2> QED BY <2>3, <2>4
<1> QED BY <1>1, <1>2

\* What a query of one varbind gives.
LEMMA SingleQuery ==
    ASSUME NEW vb \in VarBinds, NEW stor \in Storages, NEW op \in {"GET", "GETNEXT"},
           NEW q, q = Query(op, <<vb>>, stor)
    PROVE  /\ q.status \in Statuses /\ q.vbs \in [1..1 -> VarBinds]
           /\ q.status = "noError" <=> Good(op, vb)
           /\ op = "GET" /\ q.status = "noError" => q.vbs[1].name = vb.name
           /\ op = "GETNEXT" => q.vbs[1].name = NextName(vb.name)
<1> DEFINE s == <<vb>>
<1>1. s \in Seq(VarBinds) /\ Len(s) = 1 /\ DOMAIN s = 1..1 /\ s[1] = vb
  OBVIOUS
<1>2. QueryPromise(op, s, stor)
  BY <1>1, PromiseKept DEF Actions
<1>3. q.status \in Statuses /\ q.vbs \in [1..1 -> VarBinds]
  BY <1>1, QueryTyped DEF Actions
<1> DEFINE Wrong == {I \in DOMAIN s : ~Good(op, s[I])}
           upTo == IF Wrong = {} THEN Len(s) ELSE q.index - 1
<1>4. /\ Wrong = {} <=> q.status = "noError"
      /\ op = "GETNEXT" => \A I \in DOMAIN s : q.vbs[I].name = NextName(s[I].name)
      /\ op = "GET" => \A I \in 1..upTo : q.vbs[I].name = s[I].name
  BY <1>2 DEF QueryPromise
<1>5. Wrong = {} <=> Good(op, vb)
  BY <1>1
<1>6. Wrong = {} => upTo = 1
  BY <1>1
<1> HIDE DEF Wrong, upTo
<1> QED BY <1>1, <1>3, <1>4, <1>5, <1>6

LEMMA ResponseSingle ==
    ASSUME job \in Jobs, NEW r, NEW vb \in VarBinds, r.vbs = <<vb>>, r.type \in {"GET", "GETNEXT"},
           mib \in Storages, vb.name < Outside,
           NEW q, q = Query(r.type, r.vbs, mib)
    PROVE  Response(r, q).id = r.id /\ Answers(r.type, vb.name, Response(r, q))
<1> DEFINE res == Response(r, q)
           missing(I) == q.vbs[I].name = Outside /\ ~job.next /\ ~job.v2
<1>1. /\ r.vbs[1] = vb /\ Len(r.vbs) = 1 /\ DOMAIN r.vbs = 1..1 /\ vb.name \in Nat
      /\ r.vbs \in [1..1 -> VarBinds]
  BY DEF VarBinds
<1>2. /\ q.status \in Statuses /\ q.vbs \in [1..1 -> VarBinds]
      /\ r.type = "GET" /\ q.status = "noError" => q.vbs[1].name = vb.name
      /\ r.type = "GETNEXT" => q.vbs[1].name = NextName(vb.name)
  BY SingleQuery
<1>3. ASSUME NEW status, NEW index, NEW vbls \in [1..1 -> VarBinds], res = Reply(r, status, index, vbls),
             NameAnswers(r.type, vb.name, vbls[1].name)
      PROVE  res.id = r.id /\ Answers(r.type, vb.name, res)
  <2>1. res.id = r.id /\ res.vbs = vbls
    BY <1>3 DEF Reply
  <2> HIDE DEF res
  <2>2. vbls[1] \in VarBinds /\ DOMAIN vbls = 1..1
    BY <1>3
  <2>3. Len(vbls) = 1
    BY <2>2
  <2> QED BY <1>3, <2>1, <2>2, <2>3 DEF Answers
<1>4. NameAnswers(r.type, vb.name, r.vbs[1].name)
  BY <1>1 DEF NameAnswers
<1>5. CASE r.type = "GETNEXT" /\ \E I \in DOMAIN r.vbs : missing(I)
  <2> DEFINE first == CHOOSE I \in DOMAIN r.vbs : missing(I) /\ \A J \in 1..(I - 1) : ~missing(J)
  <2>1. res = Reply(r, "noSuchName", first, r.vbs)
    BY <1>5 DEF Response
  <2> HIDE DEF first, res
  <2> QED BY <1>1, <1>3, <1>4, <2>1 DEF res
<1>6. CASE r.type = "GETNEXT" /\ \A I \in DOMAIN r.vbs : ~missing(I)
  <2> DEFINE out == [I \in DOMAIN r.vbs |-> Onward(r.vbs[I], q.vbs[I])]
  <2>1. res = Reply(r, "noError", 0, out)
    BY <1>6 DEF Response
  <2>2. out \in [1..1 -> VarBinds] /\ out[1] = Onward(vb, q.vbs[1])
    BY <1>1, <1>2, OnwardTyped
  <2>3. NameAnswers(r.type, vb.name, Onward(vb, q.vbs[1]).name)
    <3>1. Foreign > vb.name /\ Foreign \in Nat /\ Outside \in Nat
      BY <1>1, NameBound DEF Foreign
    <3>2. NextName(vb.name) = Outside \/ NextName(vb.name) > vb.name
      BY <1>1, NextNameIs
    <3>3. VarBind(Foreign, Text(3)).name = Foreign /\ VarBind(vb.name, Value("end", 0)).name = vb.name
      BY DEF VarBind
    <3> QED BY <1>2, <1>6, <3>1, <3>2, <3>3 DEF Onward, EndOf, NameAnswers
  <2> HIDE DEF out, res
  <2> QED BY <1>3, <2>1, <2>2, <2>3 DEF res
<1>7. CASE r.type = "GET" /\ q.status = "noSuchName" /\ job.v2
  <2> DEFINE out == [I \in DOMAIN r.vbs |->
                        IF Good("GET", r.vbs[I]) THEN Query("GET", <<r.vbs[I]>>, mib).vbs[1]
                        ELSE VarBind(r.vbs[I].name, Value("none", 0))]
  <2>1. res = Reply(r, "noError", 0, out)
    BY <1>7 DEF Response
  <2>2. out[1] = VarBind(vb.name, Value("none", 0)) /\ DOMAIN out = 1..1
    <3>1. ~Good("GET", vb)
      BY <1>7, SingleQuery
    <3> QED BY <1>1, <3>1
  <2>3. out[1] \in VarBinds /\ out[1].name = vb.name
    <3>1. VarBind(vb.name, Value("none", 0)) \in VarBinds
      BY <1>1, NameBound, Records
    <3> QED BY <2>2, <3>1 DEF VarBind
  <2>4. out \in [1..1 -> VarBinds] /\ NameAnswers(r.type, vb.name, out[1].name)
    <3>1. out = [I \in 1..1 |-> out[I]]
      BY <1>1
    <3> HIDE DEF out
    <3> QED BY <2>3, <3>1 DEF NameAnswers
  <2> HIDE DEF out, res
  <2> QED BY <1>3, <2>1, <2>4 DEF res
<1>8. CASE r.type = "GET" /\ ~(q.status = "noSuchName" /\ job.v2)
  <2> DEFINE out == IF q.status = "noError" THEN q.vbs ELSE r.vbs
  <2>1. res = Reply(r, q.status, q.index, out)
    BY <1>8 DEF Response
  <2>2. out \in [1..1 -> VarBinds] /\ NameAnswers(r.type, vb.name, out[1].name)
    BY <1>1, <1>2, <1>4, <1>8 DEF NameAnswers
  <2> HIDE DEF out, res
  <2> QED BY <1>3, <2>1, <2>2 DEF res
<1> QED BY <1>5, <1>6, <1>7, <1>8

LEMMA ElsewhereSingle ==
    ASSUME job \in Jobs, NEW r, NEW vb \in VarBinds, r.vbs = <<vb>>, r.type \in {"GET", "GETNEXT"}
    PROVE  Elsewhere(r).id = r.id /\ Answers(r.type, vb.name, Elsewhere(r))
<1> DEFINE res == Elsewhere(r)
<1>1. r.vbs[1] = vb /\ vb.name \in Nat /\ Foreign \in Nat
  BY NameBound DEF VarBinds
<1>2. ASSUME NEW v \in VarBinds, NEW status, NEW index, res = Reply(r, status, index, <<v>>),
             NameAnswers(r.type, vb.name, v.name)
      PROVE  res.id = r.id /\ Answers(r.type, vb.name, res)
  <2>1. res.id = r.id /\ res.vbs = <<v>>
    BY <1>2 DEF Reply
  <2> HIDE DEF res
  <2> QED BY <1>2, <2>1 DEF Answers
<1>3. /\ VarBind(Foreign, Text(3)) \in VarBinds
      /\ VarBind(vb.name, Value("none", 0)) \in VarBinds
      /\ VarBind(vb.name, Value("end", 0)) \in VarBinds
      /\ VarBind(Foreign, Text(3)).name = Foreign
      /\ VarBind(vb.name, Value("none", 0)).name = vb.name
      /\ VarBind(vb.name, Value("end", 0)).name = vb.name
  BY <1>1, NameBound, Records DEF VarBind
<1>4. \/ /\ res = Reply(r, "noError", 0, <<VarBind(Foreign, Text(3))>>)
         /\ (r.type = "GET" /\ vb.name = Foreign) \/ (r.type = "GETNEXT" /\ vb.name < Foreign)
      \/ res = Reply(r, "noError", 0, <<VarBind(vb.name, Value("none", 0))>>)
      \/ res = Reply(r, "noError", 0, <<VarBind(vb.name, Value("end", 0))>>)
      \/ res = Reply(r, "noSuchName", 1, <<vb>>)
  BY <1>1 DEF Elsewhere, EndOf
<1> HIDE DEF res
<1>5. res.id = r.id /\ Answers(r.type, vb.name, res)
  BY <1>1, <1>2, <1>3, <1>4 DEF NameAnswers
<1> QED BY <1>5 DEF res
-----------------------------------------------------------------------------
\* Each request of wsnmputil gets one response at most: the ones in the queue
\* are to different requests, none of them waited for or printed.  (How long
\* the list of a GETBULK is takes induction over FlattenSeq.)
QueueOnce(q, cur, w, ids) ==
    /\ \A i \in 1..Len(q) : q[i].msg = "response" =>
          /\ q[i].r.id \in (1..cur) \ w
          /\ \A k \in 1..Len(ids) : ids[k] # q[i].r.id
    /\ \A i, j \in 1..Len(q) : i < j /\ q[i].msg = "response" /\ q[j].msg = "response"
                                  => q[i].r.id # q[j].r.id

OnceInv ==
    /\ DOMAIN session = {"nRequestId", "nErrorStatus"} /\ DOMAIN ghost = {"ids", "last"}
    /\ session.nRequestId \in Nat /\ gVars.nRequestId = session.nRequestId + 1
    /\ waiting \subseteq 1..session.nRequestId
    /\ IsSeq(ghost.ids)
    /\ \A k \in 1..Len(ghost.ids) : ghost.ids[k] \in (1..session.nRequestId) \ waiting
    /\ QueueOnce(queue, session.nRequestId, waiting, ghost.ids)

\* wsnmputil GET or GETNEXT.
Reading == job.program = "wsnmputil" /\ job.op \in {"GET", "GETNEXT"}

\* A request asks for the name of its number and a response answers that.
Asks(r, op, oids, cur) ==
    /\ r.type = op /\ r.id \in 1..cur /\ r.id \in 1..Len(oids)
    /\ r.vbs = <<VarBind(oids[r.id], Null)>>

AnswerTo(r, op, oids) == r.id \in 1..Len(oids) /\ Answers(op, oids[r.id], r)

AnswersInv ==
    Reading =>
        /\ \A r \in requests : Asks(r, job.op, job.oids, session.nRequestId)
        /\ \A r \in replies : AnswerTo(r, job.op, job.oids)
        /\ \A i \in 1..Len(queue) : queue[i].msg = "response" => AnswerTo(queue[i].r, job.op, job.oids)
        /\ IsSeq(shown) /\ Len(shown) = Len(ghost.ids)
        /\ \A k \in 1..Len(shown) : /\ ghost.ids[k] \in 1..Len(job.oids)
                                    /\ NameAnswers(job.op, job.oids[ghost.ids[k]], shown[k].name)
        /\ \A k, l \in 1..Len(shown) : k < l => ghost.ids[k] < ghost.ids[l]

LEMMA OnceAppend ==
    ASSUME NEW q, IsSeq(q), NEW cur, NEW w, NEW ids, QueueOnce(q, cur, w, ids),
           NEW m, m.msg # "response"
    PROVE  QueueOnce(Append(q, m), cur, w, ids)
<1> DEFINE a == Append(q, m)
<1>1. Len(a) = Len(q) + 1 /\ a[Len(q) + 1] = m /\ (\A i \in 1..Len(q) : a[i] = q[i]) /\ Len(q) \in Nat
  BY QueueAppend DEF IsSeq
<1> HIDE DEF a
<1>2. \A i \in 1..Len(a) : a[i].msg = "response" => i \in 1..Len(q) /\ a[i] = q[i]
  BY <1>1
<1> QED BY <1>2 DEF QueueOnce, a

LEMMA OnceTail ==
    ASSUME NEW q, IsSeq(q), q # << >>, NEW cur, NEW w, NEW ids, QueueOnce(q, cur, w, ids)
    PROVE  QueueOnce(Tail(q), cur, w, ids)
<1> DEFINE t == Tail(q)
<1>1. Len(t) = Len(q) - 1 /\ (\A i \in 1..(Len(q) - 1) : t[i] = q[i + 1]) /\ Len(q) \in Nat /\ Len(q) > 0
  BY QueueTail DEF IsSeq
<1> HIDE DEF t
<1>2. \A i \in 1..Len(t) : i + 1 \in 1..Len(q) /\ t[i] = q[i + 1]
  BY <1>1
<1>3. \A i, j \in 1..Len(t) : i < j => i + 1 < j + 1
  BY <1>1
<1> QED BY <1>2, <1>3 DEF QueueOnce, t

LEMMA OnceArrival ==
    ASSUME NEW q, IsSeq(q), NEW cur \in Nat, NEW w, w \subseteq 1..cur, NEW ids,
           QueueOnce(q, cur, w, ids), \A k \in 1..Len(ids) : ids[k] \notin w,
           NEW m, m.msg = "response", m.r.id \in w
    PROVE  QueueOnce(Append(q, m), cur, w \ {m.r.id}, ids)
<1> DEFINE a == Append(q, m)
<1>1. Len(a) = Len(q) + 1 /\ a[Len(q) + 1] = m /\ (\A i \in 1..Len(q) : a[i] = q[i]) /\ Len(q) \in Nat
  BY QueueAppend DEF IsSeq
<1> HIDE DEF a
<1>2. \A i \in 1..Len(a) : (i = Len(q) + 1 /\ a[i] = m) \/ (i \in 1..Len(q) /\ a[i] = q[i])
  BY <1>1
<1>3. \A i \in 1..Len(q) : q[i].msg = "response" => q[i].r.id # m.r.id
  BY DEF QueueOnce
<1>4. ASSUME NEW i \in 1..Len(a), a[i].msg = "response"
      PROVE  a[i].r.id \in (1..cur) \ (w \ {m.r.id}) /\ \A k \in 1..Len(ids) : ids[k] # a[i].r.id
  <2>1. CASE a[i] = m
    BY <2>1
  <2>2. CASE i \in 1..Len(q) /\ a[i] = q[i]
    BY <1>4, <2>2 DEF QueueOnce
  <2> QED BY <1>2, <2>1, <2>2
<1>5. ASSUME NEW i \in 1..Len(a), NEW j \in 1..Len(a), i < j, a[i].msg = "response", a[j].msg = "response"
      PROVE  a[i].r.id # a[j].r.id
  <2>1. i \in 1..Len(q) /\ a[i] = q[i]
    BY <1>1, <1>5
  <2>2. CASE j = Len(q) + 1
    BY <1>1, <1>3, <1>5, <2>1, <2>2
  <2>3. CASE j \in 1..Len(q)
    BY <1>1, <1>5, <2>1, <2>3 DEF QueueOnce
  <2> QED BY <1>2, <2>2, <2>3
<1> QED BY <1>4, <1>5 DEF QueueOnce, a

LEMMA OnceSent ==
    ASSUME NEW q, NEW cur \in Nat, NEW w, NEW ids, QueueOnce(q, cur, w, ids), NEW u, u \subseteq {cur + 1}
    PROVE  QueueOnce(q, cur + 1, w \cup u, ids)
<1>1. \A x \in (1..cur) \ w : x \in (1..(cur + 1)) \ (w \cup u)
  OBVIOUS
<1> QED BY <1>1 DEF QueueOnce

LEMMA Concat ==
    ASSUME NEW s, IsSeq(s), NEW t, IsSeq(t)
    PROVE  /\ IsSeq(s \o t) /\ Len(s \o t) = Len(s) + Len(t)
           /\ \A i \in 1..Len(s) : (s \o t)[i] = s[i]
           /\ \A i \in 1..Len(t) : (s \o t)[Len(s) + i] = t[i]
           /\ \A i \in 1..(Len(s) + Len(t)) :
                 i \notin 1..Len(s) => i - Len(s) \in 1..Len(t) /\ (s \o t)[i] = t[i - Len(s)]
<1> DEFINE S == {s[i] : i \in 1..Len(s)} \cup {t[i] : i \in 1..Len(t)}
<1>1. s \in Seq(S) /\ t \in Seq(S)
  <2>1. s \in [1..Len(s) -> S] /\ Len(s) \in Nat /\ t \in [1..Len(t) -> S] /\ Len(t) \in Nat
    BY DEF IsSeq
  <2> QED BY <2>1
<1> HIDE DEF S
<1>2. s \o t \in Seq(S)
  BY <1>1
<1>3. IsSeq(s \o t)
  BY <1>2, SeqIs
<1>4. /\ Len(s \o t) = Len(s) + Len(t) /\ Len(s) \in Nat /\ Len(t) \in Nat
      /\ \A i \in 1..(Len(s) + Len(t)) : (s \o t)[i] = IF i <= Len(s) THEN s[i] ELSE t[i - Len(s)]
  BY <1>1
<1> QED BY <1>3, <1>4

LEMMA OncePrinted ==
    ASSUME NEW q, IsSeq(q), q # << >>, NEW cur, NEW w, NEW ids, IsSeq(ids), QueueOnce(q, cur, w, ids),
           Head(q).msg = "response", Head(q).r.id = cur, NEW new, IsSeq(new),
           \A k \in 1..Len(new) : new[k] = cur
    PROVE  QueueOnce(Tail(q), cur, w, ids \o new)
<1> DEFINE t == Tail(q)
           all == ids \o new
<1>1. Len(t) = Len(q) - 1 /\ (\A i \in 1..(Len(q) - 1) : t[i] = q[i + 1]) /\ Len(q) \in Nat /\ Len(q) > 0
      /\ Head(q) = q[1]
  BY QueueTail DEF IsSeq
<1>2. \A k \in 1..Len(all) : (k \in 1..Len(ids) /\ all[k] = ids[k]) \/ all[k] = cur
  <2>1. Len(all) = Len(ids) + Len(new)
    BY Concat
  <2> QED BY <2>1, Concat
<1> HIDE DEF t, all
<1>3. ASSUME NEW i \in 1..Len(t), t[i].msg = "response"
      PROVE  t[i].r.id \in (1..cur) \ w /\ \A k \in 1..Len(all) : all[k] # t[i].r.id
  <2>1. i + 1 \in 1..Len(q) /\ 1 \in 1..Len(q) /\ 1 < i + 1 /\ t[i] = q[i + 1]
    BY <1>1
  <2>2. t[i].r.id # cur
    BY <1>1, <1>3, <2>1 DEF QueueOnce
  <2>3. t[i].r.id \in (1..cur) \ w /\ \A k \in 1..Len(ids) : ids[k] # t[i].r.id
    BY <1>3, <2>1 DEF QueueOnce
  <2> QED BY <1>2, <2>2, <2>3
<1>4. QueueOnce(t, cur, w, ids)
  BY OnceTail DEF t
<1> QED BY <1>3, <1>4 DEF QueueOnce, t, all

LEMMA OnceInit ==
    ASSUME Init PROVE OnceInv
<1>1. /\ session = [nRequestId |-> 0, nErrorStatus |-> "noError"] /\ gVars.nRequestId = 1
      /\ waiting = {} /\ queue = << >> /\ ghost = [ids |-> << >>, last |-> 0]
  BY DEF Init, WInit, GInit
<1>2. session.nRequestId = 0 /\ DOMAIN session = {"nRequestId", "nErrorStatus"}
      /\ ghost.ids = << >> /\ DOMAIN ghost = {"ids", "last"}
  BY <1>1
<1>3. IsSeq(<< >>) /\ Len(<< >>) = 0
  BY DEF IsSeq
<1> QED BY <1>1, <1>2, <1>3 DEF OnceInv, QueueOnce

\* What a request counts.
LEMMA OnceSend ==
    ASSUME AgentTyped, WUtilTyped, OnceInv, WSendFails \/ CreatePduSendRequest
    PROVE  /\ OnceInv' /\ session'.nRequestId = session.nRequestId + 1
           /\ gVars.nRequestId = session.nRequestId + 1
<1>1. /\ UNCHANGED <<queue, ghost>> /\ session' = [session EXCEPT !.nRequestId = gVars.nRequestId]
      /\ gVars' = GlobalsAfterSend
      /\ waiting' = waiting \/ waiting' = waiting \cup {gVars.nRequestId}
  BY DEF WSendFails, CreatePduSendRequest
<1>2. session'.nRequestId = session.nRequestId + 1 /\ DOMAIN session' = DOMAIN session
      /\ session.nRequestId \in Nat /\ gVars.nRequestId = session.nRequestId + 1
  BY <1>1 DEF OnceInv
<1>3. gVars'.nRequestId = session'.nRequestId + 1
  BY <1>1, <1>2, GlobalsAre DEF WUtilTyped, GRecord
<1>4. PICK u : u \subseteq {session.nRequestId + 1} /\ waiting' = waiting \cup u
  <2>1. waiting' = waiting \cup {} \/ waiting' = waiting \cup {session.nRequestId + 1}
    BY <1>1, <1>2
  <2> QED BY <2>1
<1>5. QueueOnce(queue, session.nRequestId + 1, waiting \cup u, ghost.ids)
  BY <1>2, <1>4, OnceSent DEF OnceInv
<1>6. waiting' \subseteq 1..session'.nRequestId
  BY <1>2, <1>4 DEF OnceInv
<1>7. \A k \in 1..Len(ghost.ids) : ghost.ids[k] \in (1..session'.nRequestId) \ waiting'
  BY <1>2, <1>4 DEF OnceInv
<1> QED BY <1>1, <1>2, <1>3, <1>4, <1>5, <1>6, <1>7 DEF OnceInv

LEMMA OnceArrives ==
    ASSUME WUtilTyped, OnceInv, NEW r, WArrives(r)
    PROVE  OnceInv'
<1>1. /\ UNCHANGED <<gVars, session, ghost>> /\ waiting' = waiting \ {r.id}
      /\ queue' = IF r.id \in waiting THEN Append(queue, Incoming(r)) ELSE queue
  BY DEF WArrives
<1>2. CASE r.id \in waiting
  <2> DEFINE m == Incoming(r)
  <2>1. m.msg = "response" /\ m.r = r
    BY DEF Incoming
  <2> HIDE DEF m
  <2>2. QueueOnce(Append(queue, m), session.nRequestId, waiting \ {m.r.id}, ghost.ids)
    BY <1>2, <2>1, OnceArrival DEF OnceInv, WUtilTyped, QueueOK
  <2> QED BY <1>1, <1>2, <2>1, <2>2 DEF OnceInv, m
<1>3. CASE r.id \notin waiting
  <2>1. waiting' = waiting /\ queue' = queue
    BY <1>1, <1>3
  <2> QED BY <1>1, <2>1 DEF OnceInv
<1> QED BY <1>2, <1>3

\* What is printed of a response.
LEMMA PrintedIs ==
    ASSUME NEW s \in Seq(VarBinds)
    PROVE  IsSeq(Printed(s)) /\ Len(Printed(s)) <= Len(s)
           /\ \A k \in 1..Len(Printed(s)) : k \in 1..Len(s) /\ k < Stop(s) /\ Printed(s)[k] = s[k]
<1>1. CASE gVars.doSet
  BY <1>1 DEF Printed, IsSeq
<1>2. CASE ~gVars.doSet
  <2> DEFINE n == Stop(s) - 1
  <2>1. n \in 0..Len(s) /\ n + 1 = Stop(s)
    BY StopIs
  <2>2. Printed(s) = SubSeq(s, 1, n)
    BY <1>2 DEF Printed
  <2> HIDE DEF n
  <2>3. /\ SubSeq(s, 1, n) \in Seq(VarBinds) /\ Len(SubSeq(s, 1, n)) = n
        /\ \A k \in 1..n : SubSeq(s, 1, n)[k] = s[k]
    BY <2>1
  <2>4. IsSeq(SubSeq(s, 1, n))
    BY <2>3, SeqIs
  <2>5. Len(s) \in Nat
    OBVIOUS
  <2> QED BY <2>1, <2>2, <2>3, <2>4, <2>5
<1> QED BY <1>1, <1>2

LEMMA OnceResponse ==
    ASSUME WUtilTyped, OnceInv, PResponse, job.op # "GETBULK"
    PROVE  OnceInv'
<1> DEFINE r == Head(queue).r
           new == [k \in DOMAIN Printed(r.vbs) |-> session.nRequestId]
<1>1. /\ queue # << >> /\ Head(queue).msg = "response" /\ UNCHANGED waiting
      /\ session' = [session EXCEPT !.nErrorStatus = r.status]
  BY Zenon DEF PResponse
<1>2. session'.nRequestId = session.nRequestId /\ DOMAIN session' = DOMAIN session
  BY <1>1 DEF OnceInv
<1>3. QueueOK(Tail(queue), job.op) /\ ReplyOK(r, job.op) /\ IsSeq(queue)
  BY <1>1, QueueShrinks DEF WUtilTyped, MessageOK, QueueOK
<1>4. gVars'.nRequestId = gVars.nRequestId
  BY Zenon DEF PResponse, WUtilTyped, GRecord
<1>5. CASE r.id = session.nRequestId
  <2>1. /\ ghost' = [ids |-> ghost.ids \o new, last |-> r.id]
        /\ queue' = Append(Tail(queue), WM_SNMP_DONE)
    BY <1>5, Zenon DEF PResponse, Matches
  <2>2. IsSeq(new) /\ \A k \in 1..Len(new) : new[k] = session.nRequestId
    <3>1. IsSeq(Printed(r.vbs))
      BY <1>3, PrintedIs DEF ReplyOK
    <3>2. DOMAIN Printed(r.vbs) = 1..Len(Printed(r.vbs)) /\ Len(Printed(r.vbs)) \in Nat
      BY <3>1 DEF IsSeq
    <3>3. new \in [1..Len(Printed(r.vbs)) -> {session.nRequestId}]
      BY <3>2
    <3>4. new \in Seq({session.nRequestId})
      BY <3>2, <3>3
    <3> HIDE DEF new
    <3> QED BY <3>4, SeqIs
  <2> HIDE DEF new
  <2> DEFINE all == ghost.ids \o new
  <2>3. QueueOnce(Tail(queue), session.nRequestId, waiting, all)
    BY <1>1, <1>3, <1>5, <2>2, OncePrinted DEF OnceInv
  <2>4. QueueOnce(queue', session.nRequestId, waiting, all)
    BY <1>3, <2>1, <2>3, OnceAppend DEF QueueOK, WM_SNMP_DONE
  <2>5. session.nRequestId \in (1..session.nRequestId) \ waiting
    <3>1. queue[1] = Head(queue) /\ 1 \in 1..Len(queue)
      BY <1>1, <1>3, QueueTail DEF IsSeq
    <3> QED BY <1>1, <1>5, <3>1 DEF OnceInv, QueueOnce
  <2>6. IsSeq(all) /\ \A k \in 1..Len(all) : all[k] \in (1..session.nRequestId) \ waiting
    <3>1. IsSeq(all) /\ Len(all) = Len(ghost.ids) + Len(new)
      BY <2>2, Concat DEF OnceInv
    <3>2. \A k \in 1..Len(all) : (k \in 1..Len(ghost.ids) /\ all[k] = ghost.ids[k]) \/ all[k] = session.nRequestId
      BY <2>2, <3>1, Concat DEF OnceInv
    <3> QED BY <2>5, <3>1, <3>2 DEF OnceInv
  <2>7. ghost'.ids = all /\ DOMAIN ghost' = {"ids", "last"}
    BY <2>1
  <2> HIDE DEF all
  <2> QED BY <1>1, <1>2, <1>4, <2>4, <2>6, <2>7 DEF OnceInv
<1>6. CASE r.id # session.nRequestId
  <2>1. ghost' = [ghost EXCEPT !.last = r.id] /\ queue' = Tail(queue)
    BY <1>6 DEF PResponse, Matches
  <2>2. ghost'.ids = ghost.ids /\ DOMAIN ghost' = DOMAIN ghost
    BY <2>1 DEF OnceInv
  <2>3. QueueOnce(queue', session.nRequestId, waiting, ghost.ids)
    BY <1>1, <1>3, <2>1, OnceTail DEF OnceInv
  <2> QED BY <1>1, <1>2, <1>4, <2>2, <2>3 DEF OnceInv
<1> QED BY <1>5, <1>6

\* The other messages are no responses.
LEMMA OncePump ==
    ASSUME WUtilTyped, OnceInv, PTimeout \/ PTrap \/ PDone \/ WEnd \/ WTrapArrives
                                \/ \E id : WTimesOut(id)
    PROVE  OnceInv'
<1>1. UNCHANGED <<gVars, session, waiting, ghost>>
  BY DEF PTimeout, PTrap, PDone, WEnd, WTrapArrives, WTimesOut
<1>2. \/ queue' = queue
      \/ queue # << >> /\ queue' = Tail(queue)
      \/ queue # << >> /\ queue' = Append(Tail(queue), WM_SNMP_DONE)
      \/ queue' = Append(queue, GivenUp) \/ queue' = Append(queue, TrapMsg)
  BY DEF PTimeout, PTrap, PDone, WEnd, WTrapArrives, WTimesOut
<1>3. IsSeq(queue) /\ (queue # << >> => IsSeq(Tail(queue)))
  BY QueueTail DEF WUtilTyped, QueueOK
<1>4. WM_SNMP_DONE.msg # "response" /\ GivenUp.msg # "response" /\ TrapMsg.msg # "response"
  BY DEF WM_SNMP_DONE, GivenUp, TrapMsg
<1>5. QueueOnce(queue, session.nRequestId, waiting, ghost.ids)
  BY DEF OnceInv
<1>6. queue # << >> => QueueOnce(Tail(queue), session.nRequestId, waiting, ghost.ids)
  BY <1>3, <1>5, OnceTail
<1>7. QueueOnce(queue', session.nRequestId, waiting, ghost.ids)
  BY <1>2, <1>3, <1>4, <1>5, <1>6, OnceAppend
<1> QED BY <1>1, <1>7 DEF OnceInv

LEMMA OnceNext ==
    ASSUME AgentTyped, WUtilTyped, OnceInv, WNext, job.op # "GETBULK"
    PROVE  OnceInv'
<1>1. CASE WStart \/ WRefused
  <2>1. UNCHANGED <<session, waiting, queue, ghost>> /\ gVars'.nRequestId = gVars.nRequestId
    BY <1>1 DEF WStart, WRefused, WUtilTyped, GRecord
  <2> QED BY <2>1 DEF OnceInv
<1> QED BY <1>1, OnceSend, OnceArrives, OnceResponse, OncePump DEF WNext, WStep

LEMMA UtilIsOther ==
    ASSUME UNext PROVE job.program = "snmputil"
<1>1. ASSUME NEW r, UAnswered(r) \/ ULate(r) PROVE job.program = "snmputil"
  BY <1>1 DEF UAnswered, ULate, Mine
<1> QED BY <1>1 DEF UNext, UStep, UParse, USend, UGivesUp, UListen, UTrapArrives, UTrapWait,
                    UResetEvent, UDrain, Mine

LEMMA AnswersAgent ==
    ASSUME AgentTyped, AnswersInv, AgentNext, UNCHANGED <<util, wutil>>
    PROVE  AnswersInv'
<1> SUFFICES ASSUME Reading' PROVE AnswersInv'
  BY DEF AnswersInv
<1>1. job' = job /\ Reading /\ UNCHANGED wutil /\ job \in Jobs
  BY AgentSteps DEF Reading, AgentTyped
<1>2. ASSUME NEW r \in requests
      PROVE  /\ r.type = job.op /\ r.type \in {"GET", "GETNEXT"} /\ r.id \in 1..Len(job.oids)
             /\ r.vbs = <<VarBind(job.oids[r.id], Null)>> /\ VarBind(job.oids[r.id], Null) \in VarBinds
             /\ VarBind(job.oids[r.id], Null).name = job.oids[r.id]
  <2>1. Asks(r, job.op, job.oids, session.nRequestId)
    BY <1>1 DEF AnswersInv
  <2>2. job.oids \in Seq(Nat)
    BY <1>1, JobFacts
  <2>3. job.oids[r.id] \in Nat
    BY <2>1, <2>2 DEF Asks
  <2>4. VarBind(job.oids[r.id], Null) \in VarBinds
    BY <2>3, NameBound, Records
  <2> QED BY <1>1, <2>1, <2>4 DEF Asks, Reading, VarBind
<1>3. ASSUME requests' \subseteq requests, NEW m,
             replies' = replies \/ (replies' = replies \cup {m} /\ AnswerTo(m, job.op, job.oids)),
             shown' = shown
      PROVE  AnswersInv'
  BY <1>1, <1>3 DEF AnswersInv, wutil
<1>4. ASSUME NEW r, NEW again, SnmpExtensionQuery(r, again) PROVE AnswersInv'
  <2> DEFINE q == Query(IF r.type = "GETBULK" THEN "GETNEXT" ELSE r.type, r.vbs, mib)
  <2>1. /\ r \in requests /\ requests' \subseteq requests /\ shown' = shown
        /\ \A I \in DOMAIN r.vbs : InView(r.vbs[I].name)
    BY <1>4 DEF SnmpExtensionQuery, screen
  <2>2. replies' = replies \/ replies' = replies \cup {Response(r, q)}
    BY <1>4 DEF SnmpExtensionQuery
  <2>3. q = Query(r.type, r.vbs, mib)
    BY <1>2, <2>1
  <2>4. r.vbs[1] = VarBind(job.oids[r.id], Null) /\ 1 \in DOMAIN r.vbs
    BY <1>2, <2>1
  <2>5. VarBind(job.oids[r.id], Null).name < Outside
    BY <2>1, <2>4 DEF InView
  <2> HIDE DEF q
  <2>6. Response(r, q).id = r.id /\ Answers(r.type, job.oids[r.id], Response(r, q))
    BY <1>1, <1>2, <2>1, <2>3, <2>5, ResponseSingle DEF AgentTyped
  <2>7. AnswerTo(Response(r, q), job.op, job.oids)
    BY <1>2, <2>1, <2>6 DEF AnswerTo
  <2> QED BY <1>3, <2>1, <2>2, <2>7
<1>5. ASSUME NEW r, AnsweredElsewhere(r) PROVE AnswersInv'
  <2>1. r \in requests /\ requests' \subseteq requests /\ shown' = shown
    BY <1>5 DEF AnsweredElsewhere, screen
  <2>2. replies' = replies \/ replies' = replies \cup {Elsewhere(r)}
    BY <1>5 DEF AnsweredElsewhere
  <2>3. Elsewhere(r).id = r.id /\ Answers(r.type, job.oids[r.id], Elsewhere(r))
    BY <1>1, <1>2, <2>1, ElsewhereSingle
  <2>4. AnswerTo(Elsewhere(r), job.op, job.oids)
    BY <1>2, <2>1, <2>3 DEF AnswerTo
  <2> QED BY <1>3, <2>1, <2>2, <2>4
<1>6. ASSUME TrapWake \/ SnmpExtensionTrap PROVE AnswersInv'
  <2>1. UNCHANGED <<requests, replies, shown>>
    BY <1>6 DEF TrapWake, SnmpExtensionTrap, net, screen
  <2> QED BY <1>3, <2>1
<1>7. ASSUME OtherManager PROVE FALSE
  BY <1>1, <1>7 DEF OtherManager, Reading
<1> QED BY <1>4, <1>5, <1>6, <1>7 DEF AgentNext

LEMMA AnswersSend ==
    ASSUME AgentTyped, WUtilTyped, OnceInv, AnswersInv, WSendFails \/ CreatePduSendRequest
    PROVE  AnswersInv'
<1> SUFFICES ASSUME Reading' PROVE AnswersInv'
  BY DEF AnswersInv
<1>1. /\ UNCHANGED <<job, replies, shown, queue, ghost>> /\ wpc = "main" /\ WMine /\ More
      /\ requests' = requests \/ requests' = requests \cup {Request(gVars.nRequestId, PduType, Bindings)}
  BY DEF WSendFails, CreatePduSendRequest, net, screen
<1>2. session'.nRequestId = session.nRequestId + 1 /\ gVars.nRequestId = session.nRequestId + 1
      /\ session.nRequestId \in Nat
  BY OnceSend DEF OnceInv
<1>3. Reading
  BY <1>1 DEF Reading
<1> DEFINE m == Request(gVars.nRequestId, PduType, Bindings)
<1>4. Asks(m, job.op, job.oids, session.nRequestId + 1)
  <2>1. job.oids \in Seq(Nat) /\ Len(job.oids) \in Nat
    BY JobFacts DEF AgentTyped
  <2>2. calls < Len(job.oids)
    BY <1>1, <1>3 DEF More, Reading
  <2>3. gVars.nRequestId \in 1..Len(job.oids) /\ gVars.nRequestId \in 1..(session.nRequestId + 1)
    BY <1>2, <2>1, <2>2 DEF WUtilTyped
  <2>4. Asked = <<job.oids[gVars.nRequestId]>>
    BY <1>3 DEF Asked, Reading
  <2>5. Bindings = <<VarBind(job.oids[gVars.nRequestId], Null)>>
    BY <1>3, <2>4 DEF Bindings, Setting, Reading
  <2>6. PduType = job.op
    <3>1. gVars.operation = job.op
      BY <1>1, <1>3 DEF WUtilTyped, Reading
    <3> QED BY <1>3, <3>1 DEF PduType, Setting, Reading
  <2>7. m.type = job.op /\ m.id = gVars.nRequestId /\ m.vbs = Bindings
    BY <2>6 DEF Request
  <2> HIDE DEF m
  <2> QED BY <2>3, <2>5, <2>7 DEF Asks
<1> HIDE DEF m
<1>5. \A r \in requests : Asks(r, job.op, job.oids, session.nRequestId + 1)
  <2>1. \A r \in requests : Asks(r, job.op, job.oids, session.nRequestId)
    BY <1>3 DEF AnswersInv
  <2> QED BY <1>2, <2>1 DEF Asks
<1>6. \A r \in requests' : Asks(r, job.op, job.oids, session.nRequestId + 1)
  BY <1>1, <1>4, <1>5 DEF m
<1> QED BY <1>1, <1>2, <1>3, <1>6 DEF AnswersInv

LEMMA AnswersResponse ==
    ASSUME WUtilTyped, OnceInv, AnswersInv, PResponse
    PROVE  AnswersInv'
<1> SUFFICES ASSUME Reading' PROVE AnswersInv'
  BY DEF AnswersInv
<1> DEFINE r == Head(queue).r
           p == Printed(r.vbs)
           cur == session.nRequestId
           new == [k \in DOMAIN p |-> cur]
<1>1. /\ queue # << >> /\ Head(queue).msg = "response" /\ UNCHANGED <<job, requests, replies>>
      /\ session' = [session EXCEPT !.nErrorStatus = r.status] /\ Reading
  BY Zenon DEF PResponse, net, Reading
<1>2. session'.nRequestId = cur /\ cur \in Nat
  BY <1>1 DEF OnceInv
<1>3. QueueOK(Tail(queue), job.op) /\ ReplyOK(r, job.op) /\ IsSeq(queue) /\ IsSeq(Tail(queue))
      /\ queue[1] = Head(queue) /\ 1 \in 1..Len(queue)
  BY <1>1, QueueShrinks, QueueTail DEF WUtilTyped, MessageOK, QueueOK, IsSeq
<1>4. AnswerTo(r, job.op, job.oids)
  BY <1>1, <1>3 DEF AnswersInv
<1>5. \A i \in 1..Len(Tail(queue)) : Tail(queue)[i].msg = "response" => AnswerTo(Tail(queue)[i].r, job.op, job.oids)
  <2>1. \A i \in 1..Len(Tail(queue)) : i + 1 \in 1..Len(queue) /\ Tail(queue)[i] = queue[i + 1]
    BY <1>1, <1>3, QueueTail DEF IsSeq
  <2> QED BY <1>1, <2>1 DEF AnswersInv
<1>6. \A i \in 1..Len(queue') : queue'[i].msg = "response" => AnswerTo(queue'[i].r, job.op, job.oids)
  <2>1. queue' = Tail(queue) \/ queue' = Append(Tail(queue), WM_SNMP_DONE)
    BY Zenon DEF PResponse
  <2>2. CASE queue' = Append(Tail(queue), WM_SNMP_DONE)
    <3>1. \A i \in 1..Len(queue') : queue'[i] = WM_SNMP_DONE
                                    \/ (i \in 1..Len(Tail(queue)) /\ queue'[i] = Tail(queue)[i])
      BY <1>3, <2>2, QueueAppend DEF IsSeq
    <3> QED BY <1>5, <3>1 DEF WM_SNMP_DONE
  <2> QED BY <1>5, <2>1, <2>2
<1>7. CASE r.id = cur
  <2>1. shown' = shown \o p /\ ghost'.ids = ghost.ids \o new
    <3>1. shown' = shown \o p /\ ghost' = [ids |-> ghost.ids \o new, last |-> r.id]
      BY <1>7, Zenon DEF PResponse, Matches
    <3> HIDE DEF p, new, r
    <3> QED BY <3>1
  <2>2. IsSeq(p) /\ Len(p) \in 0..1 /\ \A k \in 1..Len(p) : k = 1 /\ p[k] = r.vbs[1]
    <3>1. r.vbs \in Seq(VarBinds) /\ Len(r.vbs) = 1
      BY <1>1, <1>3, <1>4 DEF ReplyOK, Reading, AnswerTo, Answers
    <3>2. IsSeq(p) /\ Len(p) <= 1 /\ \A k \in 1..Len(p) : k \in 1..1 /\ p[k] = r.vbs[k]
      BY <3>1, PrintedIs
    <3> HIDE DEF p
    <3> QED BY <3>2 DEF IsSeq
  <2>3. IsSeq(new) /\ Len(new) = Len(p) /\ \A k \in 1..Len(new) : new[k] = cur
    <3>1. DOMAIN p = 1..Len(p) /\ Len(p) \in Nat
      BY <2>2 DEF IsSeq
    <3>2. new \in [1..Len(p) -> {cur}] /\ DOMAIN new = 1..Len(p)
      BY <3>1
    <3>3. new \in Seq({cur}) /\ Len(new) = Len(p)
      BY <3>1, <3>2
    <3> HIDE DEF new
    <3> QED BY <3>1, <3>2, <3>3, SeqIs
  <2>4. NameAnswers(job.op, job.oids[cur], r.vbs[1].name) /\ cur \in 1..Len(job.oids)
    BY <1>4, <1>7 DEF AnswerTo, Answers
  <2>5. /\ IsSeq(shown) /\ IsSeq(ghost.ids) /\ Len(shown) = Len(ghost.ids) /\ Len(shown) \in Nat
        /\ \A k \in 1..Len(shown) : /\ ghost.ids[k] \in 1..Len(job.oids)
                                    /\ NameAnswers(job.op, job.oids[ghost.ids[k]], shown[k].name)
        /\ \A k, l \in 1..Len(shown) : k < l => ghost.ids[k] < ghost.ids[l]
    BY <1>1 DEF AnswersInv, OnceInv, IsSeq
  <2>6. \A k \in 1..Len(ghost.ids) : ghost.ids[k] \in 1..cur /\ ghost.ids[k] # cur
    BY <1>1, <1>3, <1>7 DEF OnceInv, QueueOnce
  <2> DEFINE all == ghost.ids \o new
             out == shown \o p
  <2> HIDE DEF p, new, r
  <2>7. IsSeq(out) /\ Len(out) = Len(shown) + Len(p) /\ Len(all) = Len(out)
    <3>1. IsSeq(out) /\ Len(out) = Len(shown) + Len(p)
      BY <2>2, <2>5, Concat
    <3>2. Len(all) = Len(ghost.ids) + Len(new)
      BY <2>3, <2>5, Concat
    <3> QED BY <2>3, <2>5, <3>1, <3>2
  <2>8. /\ \A i \in 1..Len(shown) : out[i] = shown[i] /\ all[i] = ghost.ids[i]
        /\ \A i \in 1..Len(out) : i \notin 1..Len(shown) =>
               i = Len(shown) + 1 /\ out[i] = r.vbs[1] /\ all[i] = cur
    <3>1. \A i \in 1..Len(shown) : out[i] = shown[i] /\ all[i] = ghost.ids[i]
      BY <2>2, <2>3, <2>5, Concat
    <3>2. ASSUME NEW i \in 1..Len(out), i \notin 1..Len(shown)
          PROVE  i = Len(shown) + 1 /\ out[i] = r.vbs[1] /\ all[i] = cur
      <4>1. i \in 1..(Len(shown) + Len(p)) /\ i \in 1..(Len(ghost.ids) + Len(new)) /\ i \notin 1..Len(ghost.ids)
        BY <2>3, <2>5, <2>7, <3>2
      <4>2. i - Len(shown) \in 1..Len(p) /\ out[i] = p[i - Len(shown)]
        BY <2>2, <2>5, <3>2, <4>1, Concat
      <4>3. i - Len(ghost.ids) \in 1..Len(new) /\ all[i] = new[i - Len(ghost.ids)]
        BY <2>3, <2>5, <4>1, Concat
      <4>4. i - Len(shown) = 1 /\ out[i] = r.vbs[1] /\ all[i] = cur
        BY <2>2, <2>3, <4>2, <4>3
      <4> QED BY <2>5, <4>4
    <3> QED BY <3>1, <3>2
  <2> HIDE DEF all, out, cur
  <2>9. \A k \in 1..Len(out) : all[k] \in 1..Len(job.oids) /\ NameAnswers(job.op, job.oids[all[k]], out[k].name)
    BY <2>4, <2>5, <2>8
  <2>10. ASSUME NEW k \in 1..Len(out), NEW l \in 1..Len(out), k < l PROVE all[k] < all[l]
    <3>1. CASE l \in 1..Len(shown)
      BY <2>5, <2>7, <2>8, <2>10, <3>1
    <3>2. CASE l \notin 1..Len(shown)
      <4>1. l = Len(shown) + 1 /\ all[l] = cur
        BY <2>8, <3>2
      <4>2. k \in 1..Len(shown) /\ all[k] = ghost.ids[k]
        BY <2>5, <2>8, <2>10, <4>1
      <4> QED BY <1>2, <2>5, <2>6, <4>1, <4>2 DEF cur
    <3> QED BY <3>1, <3>2
  <2> QED BY <1>1, <1>2, <1>6, <2>1, <2>7, <2>9, <2>10, Zenon DEF AnswersInv, out, all, cur, r, p, new, Reading
<1>8. CASE r.id # cur
  <2>1. ghost' = [ghost EXCEPT !.last = r.id] /\ shown' = shown
    BY <1>8 DEF PResponse, Matches
  <2>2. ghost'.ids = ghost.ids
    BY <2>1 DEF OnceInv
  <2> QED BY <1>1, <1>2, <1>6, <2>1, <2>2 DEF AnswersInv, Reading
<1> QED BY <1>7, <1>8

LEMMA AnswersArrive ==
    ASSUME WUtilTyped, OnceInv, AnswersInv, NEW r, WArrives(r)
    PROVE  AnswersInv'
<1> SUFFICES ASSUME Reading' PROVE AnswersInv'
  BY DEF AnswersInv
<1>1. /\ UNCHANGED <<job, requests, shown, session, ghost>> /\ replies' = replies \ {r} /\ r \in replies
      /\ queue' = (IF r.id \in waiting THEN Append(queue, Incoming(r)) ELSE queue) /\ Reading
  BY DEF WArrives, screen, Reading
<1>2. AnswerTo(r, job.op, job.oids) /\ IsSeq(queue)
  BY <1>1 DEF AnswersInv, WUtilTyped, QueueOK
<1>3. \A i \in 1..Len(queue') : queue'[i].msg = "response" => AnswerTo(queue'[i].r, job.op, job.oids)
  <2>1. CASE queue' = queue
    BY <1>1, <2>1 DEF AnswersInv
  <2>2. CASE queue' = Append(queue, Incoming(r))
    <3>1. \A i \in 1..Len(queue') : queue'[i] = Incoming(r) \/ (i \in 1..Len(queue) /\ queue'[i] = queue[i])
      BY <1>2, <2>2, QueueAppend DEF IsSeq
    <3>2. Incoming(r).r = r
      BY DEF Incoming
    <3> QED BY <1>1, <1>2, <3>1, <3>2 DEF AnswersInv
  <2> QED BY <1>1, <2>1, <2>2
<1> QED BY <1>1, <1>3 DEF AnswersInv

LEMMA AnswersPump ==
    ASSUME WUtilTyped, AnswersInv,
           PTimeout \/ PTrap \/ PDone \/ WEnd \/ WTrapArrives \/ \E id : WTimesOut(id)
    PROVE  AnswersInv'
<1> SUFFICES ASSUME Reading' PROVE AnswersInv'
  BY DEF AnswersInv
<1>1. UNCHANGED <<job, requests, replies, shown, session, ghost>> /\ Reading
  BY DEF PTimeout, PTrap, PDone, WEnd, WTrapArrives, WTimesOut, net, screen, Reading
<1>2. \/ queue' = queue
      \/ queue # << >> /\ queue' = Tail(queue)
      \/ queue # << >> /\ queue' = Append(Tail(queue), WM_SNMP_DONE)
      \/ queue' = Append(queue, GivenUp) \/ queue' = Append(queue, TrapMsg)
  BY DEF PTimeout, PTrap, PDone, WEnd, WTrapArrives, WTimesOut
<1>3. IsSeq(queue) /\ (queue # << >> => IsSeq(Tail(queue)))
  BY QueueTail DEF WUtilTyped, QueueOK
<1>4. WM_SNMP_DONE.msg # "response" /\ GivenUp.msg # "response" /\ TrapMsg.msg # "response"
  BY DEF WM_SNMP_DONE, GivenUp, TrapMsg
<1> DEFINE Fit(q) == \A i \in 1..Len(q) : q[i].msg = "response" => AnswerTo(q[i].r, job.op, job.oids)
<1>5. Fit(queue)
  BY <1>1 DEF AnswersInv
<1>6. ASSUME queue # << >> PROVE Fit(Tail(queue))
  <2>1. \A i \in 1..Len(Tail(queue)) : i + 1 \in 1..Len(queue) /\ Tail(queue)[i] = queue[i + 1]
    BY <1>3, <1>6, QueueTail DEF IsSeq
  <2> QED BY <1>5, <2>1
<1>7. ASSUME NEW q, IsSeq(q), Fit(q), NEW m, m.msg # "response" PROVE Fit(Append(q, m))
  <2>1. \A i \in 1..Len(Append(q, m)) : Append(q, m)[i] = m \/ (i \in 1..Len(q) /\ Append(q, m)[i] = q[i])
    BY <1>7, QueueAppend DEF IsSeq
  <2> QED BY <1>7, <2>1
<1> HIDE DEF Fit
<1>8. Fit(queue')
  BY <1>2, <1>3, <1>4, <1>5, <1>6, <1>7
<1> QED BY <1>1, <1>8 DEF AnswersInv, Fit

LEMMA AnswersW ==
    ASSUME AgentTyped, WUtilTyped, OnceInv, AnswersInv, WNext
    PROVE  AnswersInv'
<1>1. CASE WStart \/ WRefused
  <2>1. UNCHANGED <<job, requests, replies, shown, session, queue, ghost>>
    BY <1>1 DEF WStart, WRefused, net
  <2> QED BY <2>1 DEF AnswersInv, Reading
<1> QED BY <1>1, AnswersSend, AnswersArrive, AnswersResponse, AnswersPump DEF WNext, WStep

LEMMA AnswersInit ==
    ASSUME Init PROVE AnswersInv
<1>1. requests = {} /\ replies = {} /\ queue = << >> /\ shown = << >> /\ ghost = [ids |-> << >>, last |-> 0]
  BY DEF Init, NetInit, WInit
<1>2. ghost.ids = << >> /\ IsSeq(<< >>) /\ Len(<< >>) = 0
  BY <1>1 DEF IsSeq
<1> QED BY <1>1, <1>2 DEF AnswersInv

ReadInv == SnmpTyped /\ (job.op # "GETBULK" => OnceInv) /\ AnswersInv

LEMMA ReadNext ==
    ASSUME ReadInv, [Next]_vars PROVE ReadInv'
<1>1. SnmpTyped' /\ job' = job
  BY SnmpTypedNext, JobKept DEF ReadInv
<1>2. CASE AgentNext /\ UNCHANGED <<util, wutil>>
  <2>1. job.op # "GETBULK" => OnceInv'
    BY <1>2 DEF wutil, OnceInv, ReadInv
  <2> QED BY <1>1, <1>2, <2>1, AnswersAgent DEF ReadInv, SnmpTyped
<1>3. CASE UNext /\ UNCHANGED <<agent, wutil>>
  <2>1. job.op # "GETBULK" => OnceInv'
    BY <1>3 DEF wutil, OnceInv, ReadInv
  <2>2. ~Reading'
    BY <1>1, <1>3, UtilIsOther DEF Reading
  <2> QED BY <1>1, <2>1, <2>2 DEF ReadInv, AnswersInv
<1>4. CASE WNext
  <2>1. job.op # "GETBULK" => OnceInv'
    BY <1>4, OnceNext DEF ReadInv, SnmpTyped
  <2>2. AnswersInv'
    <3>1. CASE Reading
      BY <1>4, <3>1, AnswersW DEF ReadInv, SnmpTyped, Reading
    <3>2. CASE ~Reading
      BY <1>1, <3>2 DEF AnswersInv, Reading
    <3> QED BY <3>1, <3>2
  <2> QED BY <1>1, <2>1, <2>2 DEF ReadInv
<1>5. CASE UNCHANGED vars
  BY <1>1, <1>5 DEF ReadInv, OnceInv, AnswersInv, Reading, vars, net, screen, wutil
<1> QED BY <1>2, <1>3, <1>4, <1>5 DEF Next

\* WSnmpUtil.Cpp:590-691: however the network delays, repeats and reorders the
\* responses and whenever WinSNMP gives a request up, wsnmputil prints for each
\* GET and GETNEXT at most one varbind, answers the name that was asked for
\* with it, and prints them in the order of the requests.
THEOREM AnswersPrinted == Spec => []AnswersBelong
<1>1. ReadInv => AnswersBelong
  <2> SUFFICES ASSUME ReadInv, Reading PROVE AnswersBelong
    BY DEF AnswersBelong, Reading
  <2>1. DOMAIN shown = 1..Len(shown)
    BY DEF ReadInv, AnswersInv, IsSeq
  <2> QED BY <2>1 DEF ReadInv, AnswersInv, AnswersBelong, NameAnswers
<1>2. Init => ReadInv
  BY WUtilTypedInit, OnceInit, AnswersInit DEF ReadInv, SnmpTyped
<1> QED BY <1>1, <1>2, ReadNext, PTL DEF Spec
-----------------------------------------------------------------------------
(* wsnmputil SET: what it says of the value. *)

Written1(T) == VarBind(job.oids[1], Value(T, job.value.n))
NoVar(name) == \A i \in Variables : NameOf(i) # name
HasValue(stor, w) == \E i \in Variables : NameOf(i) = w.name /\ stor[i] = w.value

\* The GET is request 1 and the SET, with varbind w, is request 2.
SetRequest(r, name, w, cur) ==
    \/ r.id = 1 /\ cur >= 1 /\ r.type = "GET" /\ r.vbs = <<VarBind(name, Null)>>
    \/ r.id = 2 /\ cur = 2 /\ r.type = "SET" /\ r.vbs = <<w>>

\* An error of the GET means that there is no such variable, an error of the
\* SET that the value is not one the variable can have.
SetResponse(r, name, w, stor, cur) ==
    \/ /\ r.id = 1 /\ cur >= 1 /\ Answers("GET", name, r)
       /\ r.status # "noError" => NoVar(name)
    \/ /\ r.id = 2 /\ cur = 2
       /\ r.status = "noError" => Good("SET", w) /\ HasValue(stor, w)
       /\ r.status # "noError" => ~Good("SET", w)

\* The number of the request follows the calls as long as none has failed.
SetCounts ==
    /\ session.nRequestId \in 0..2
    /\ wpc = "start" => calls = 0
    /\ calls = 0 => result /\ session.nRequestId = 0
    /\ wpc = "pump" => calls > 0
    /\ calls = 0 /\ wpc = "main" => gVars.operation = "GET"
    /\ wpc = "pump" \/ result => session.nRequestId = calls
    /\ calls = 1 /\ session.nRequestId = 1 => gVars.oid = job.oids[1]
    /\ said = "Failed" => wpc = "done" /\ calls >= 2 /\ session.nErrorStatus # "noError"
    /\ said = "Succeeded" => wpc = "done" /\ calls >= 2 /\ session.nErrorStatus = "noError"

SetOf(w) ==
    LET name == job.oids[1]
        cur  == session.nRequestId
    IN  /\ \A r \in requests : SetRequest(r, name, w, cur)
        /\ \A r \in replies : SetResponse(r, name, w, mib, cur)
        /\ \A i \in 1..Len(queue) : queue[i].msg = "response" => SetResponse(queue[i].r, name, w, mib, cur)
        /\ cur < 2 \/ ~Good("SET", w) => mib = Storage0
        /\ session.nErrorStatus # "noError" => NoVar(name) \/ (cur = 2 /\ ~Good("SET", w))
        /\ ghost.last \in 0..cur
        /\ ghost.last = 2 /\ session.nErrorStatus = "noError" => Good("SET", w) /\ HasValue(mib, w)

Writing == job.op = "SET" /\ job.program = "wsnmputil"

ToldInv == Writing => SetCounts /\ \E T \in AsnTypes : SetOf(Written1(T))

LEMMA SingleSet ==
    ASSUME NEW vb \in VarBinds, NEW stor \in Storages, NEW q, q = Query("SET", <<vb>>, stor)
    PROVE  /\ q.status \in Statuses
           /\ q.status = "noError" <=> Good("SET", vb)
           /\ ~Good("SET", vb) => q.stor = stor
           /\ Good("SET", vb) =>
                 \A i \in Variables : q.stor[i] = IF vb.name = NameOf(i) THEN vb.value ELSE stor[i]
<1> DEFINE s == <<vb>>
           Wrong == {I \in DOMAIN s : ~Good("SET", s[I])}
           upTo == IF Wrong = {} THEN Len(s) ELSE q.index - 1
           On(i) == {I \in 1..upTo : s[I].name = NameOf(i)}
           last(i) == CHOOSE I \in On(i) : \A J \in On(i) : J <= I
<1>1. s \in Seq(VarBinds) /\ Len(s) = 1 /\ DOMAIN s = 1..1 /\ s[1] = vb
  OBVIOUS
<1>2. QueryPromise("SET", s, stor)
  BY <1>1, PromiseKept DEF Actions
<1>3. q.status \in Statuses /\ q.stor \in Storages
  BY <1>1, QueryTyped DEF Actions
<1>4. /\ Wrong = {} <=> q.status = "noError"
      /\ Wrong # {} => q.index \in Wrong
      /\ \A i \in Variables : q.stor[i] = IF On(i) = {} THEN stor[i] ELSE s[last(i)].value
  BY <1>2 DEF QueryPromise
<1>5. Wrong = {} <=> Good("SET", vb)
  BY <1>1
<1>6. Wrong \subseteq 1..1
  BY <1>1
<1>7. CASE Good("SET", vb)
  <2>1. upTo = 1
    BY <1>1, <1>5, <1>7
  <2>2. ASSUME NEW i \in Variables PROVE q.stor[i] = IF vb.name = NameOf(i) THEN vb.value ELSE stor[i]
    <3>1. CASE vb.name = NameOf(i)
      <4>1. 1 \in On(i) /\ \A I \in On(i) : I = 1
        BY <1>1, <2>1, <3>1
      <4>2. last(i) \in On(i)
        <5> HIDE DEF On
        <5>1. \E I \in On(i) : \A J \in On(i) : J <= I
          BY <4>1
        <5> QED BY <5>1
      <4>3. last(i) = 1
        BY <4>1, <4>2
      <4> HIDE DEF last, On
      <4> QED BY <1>1, <1>4, <3>1, <4>1, <4>3
    <3>2. CASE vb.name # NameOf(i)
      <4>1. On(i) = {}
        BY <1>1, <2>1, <3>2
      <4> HIDE DEF On, last
      <4> QED BY <1>4, <3>2, <4>1
    <3> QED BY <3>1, <3>2
  <2> QED BY <1>3, <1>4, <1>5, <1>7, <2>2
<1>8. CASE ~Good("SET", vb)
  <2>1. q.index = 1
    BY <1>4, <1>5, <1>6, <1>8
  <2>2. \A i \in Variables : On(i) = {}
    BY <1>5, <1>8, <2>1
  <2>3. \A i \in Variables : q.stor[i] = stor[i]
    <3> HIDE DEF On, last
    <3> QED BY <1>4, <2>2
  <2>4. q.stor = stor
    BY <1>3, <2>3 DEF Storages
  <2> HIDE DEF Wrong
  <2> QED BY <1>3, <1>4, <1>5, <1>8, <2>4
<1> QED BY <1>7, <1>8

LEMMA Written1Is ==
    ASSUME job \in Jobs, job.op = "SET", NEW T \in AsnTypes
    PROVE  /\ job.oids[1] \in Nat /\ Written1(T) \in VarBinds
           /\ Written1(T).name = job.oids[1] /\ Written1(T).value = Value(T, job.value.n)
           /\ VarBind(job.oids[1], Null) \in VarBinds /\ VarBind(job.oids[1], Null).name = job.oids[1]
<1>1. job.oids[1] \in Nat /\ job.value.n \in Nat
  <2>1. job.oids \in Seq(Nat) /\ job.oids # << >> /\ job.value \in Values0
    BY JobFacts
  <2> QED BY <2>1 DEF Values0
<1>2. Value(T, job.value.n) \in Values0
  BY <1>1 DEF Value, Values0
<1> QED BY <1>1, <1>2, NameBound, Records DEF Written1

\* A name that is no variable cannot be written, and it has no value.
LEMMA NoVarBad ==
    ASSUME job \in Jobs, job.op = "SET", NEW T \in AsnTypes, NoVar(job.oids[1])
    PROVE  ~Good("SET", Written1(T))
<1>1. Written1(T).name = job.oids[1]
  BY Written1Is
<1>2. 3..5 \subseteq Variables
  BY Table
<1> QED BY <1>1, <1>2 DEF Good, NoVar

LEMMA OutsideNoVar ==
    ASSUME NEW name \in Nat, ~(name < Outside) PROVE NoVar(name)
BY Table DEF NoVar, NameOf

\* The response of the agent to the GET and to the SET.
LEMMA GetStatus ==
    ASSUME job \in Jobs, job.op = "SET", NEW r, r.type = "GET", mib \in Storages,
           r.vbs = <<VarBind(job.oids[1], Null)>>,
           NEW q, q = Query(r.type, r.vbs, mib), Response(r, q).status # "noError"
    PROVE  NoVar(job.oids[1])
<1> DEFINE vb == VarBind(job.oids[1], Null)
<1>1. vb \in VarBinds /\ vb.name = job.oids[1]
  <2>1. "null" \in AsnTypes
    BY DEF AsnTypes
  <2> QED BY <2>1, Written1Is
<1>2. q.status = "noError" <=> Good("GET", vb)
  <2> HIDE DEF vb
  <2> QED BY <1>1, SingleQuery DEF vb
<1>3. q.status # "noError"
  <2>1. CASE r.type = "GET" /\ q.status = "noSuchName" /\ job.v2
    <3> DEFINE out == [I \in DOMAIN r.vbs |->
                        IF Good("GET", r.vbs[I]) THEN Query("GET", <<r.vbs[I]>>, mib).vbs[1]
                        ELSE VarBind(r.vbs[I].name, Value("none", 0))]
    <3>1. Response(r, q) = Reply(r, "noError", 0, out)
      BY <2>1 DEF Response
    <3> HIDE DEF out
    <3> QED BY <3>1 DEF Reply
  <2>2. CASE ~(q.status = "noSuchName" /\ job.v2)
    <3> DEFINE out == IF q.status = "noError" THEN q.vbs ELSE r.vbs
    <3>1. Response(r, q) = Reply(r, q.status, q.index, out)
      BY <2>2 DEF Response
    <3> HIDE DEF out
    <3> QED BY <3>1 DEF Reply
  <2> QED BY <2>1, <2>2
<1> QED BY <1>1, <1>2, <1>3 DEF NoVar, Good

LEMMA SetStatus ==
    ASSUME NEW r, r.type = "SET", NEW q
    PROVE  Response(r, q).id = r.id /\ Response(r, q).status = q.status
<1> DEFINE out == IF q.status = "noError" THEN q.vbs ELSE r.vbs
<1>1. Response(r, q) = Reply(r, q.status, q.index, out)
  BY DEF Response
<1> HIDE DEF out
<1> QED BY <1>1 DEF Reply

\* A step of the agent that keeps the value once it is set.
LEMMA SetKept ==
    ASSUME NEW w, SetOf(w), UNCHANGED <<job, wutil>>, requests' \subseteq requests, NEW m,
           \/ replies' = replies
           \/ replies' = replies \cup {m} /\ SetResponse(m, job.oids[1], w, mib', session.nRequestId),
           HasValue(mib, w) => HasValue(mib', w),
           session.nRequestId < 2 \/ ~Good("SET", w) => mib' = mib
    PROVE  SetOf(w)'
<1> DEFINE name == job.oids[1]
           cur  == session.nRequestId
<1>1. UNCHANGED <<job, session, queue, ghost>>
  BY DEF wutil
<1>2. ASSUME NEW r, SetResponse(r, name, w, mib, cur) PROVE SetResponse(r, name, w, mib', cur)
  BY <1>2 DEF SetResponse
<1>3. /\ \A r \in requests : SetRequest(r, name, w, cur)
      /\ \A r \in replies : SetResponse(r, name, w, mib, cur)
      /\ \A i \in 1..Len(queue) : queue[i].msg = "response" => SetResponse(queue[i].r, name, w, mib, cur)
  BY DEF SetOf
<1>4. /\ \A r \in requests' : SetRequest(r, name, w, cur)
      /\ \A r \in replies' : SetResponse(r, name, w, mib', cur)
      /\ \A i \in 1..Len(queue') : queue'[i].msg = "response" => SetResponse(queue'[i].r, name, w, mib', cur)
  BY <1>1, <1>2, <1>3
<1> QED BY <1>1, <1>4 DEF SetOf

LEMMA SetAgent ==
    ASSUME AgentTyped, ToldInv, Writing, AgentNext, UNCHANGED <<util, wutil>>
    PROVE  ToldInv'
<1>1. job' = job /\ job \in Jobs /\ job.op = "SET" /\ mib \in Storages
  BY AgentSteps DEF AgentTyped, Writing
<1>2. PICK T \in AsnTypes : SetOf(Written1(T))
  BY DEF ToldInv
<1>3. said' = said
  <2>1. ASSUME NEW r, NEW again, SnmpExtensionQuery(r, again) PROVE said' = said
    BY <2>1 DEF SnmpExtensionQuery, screen
  <2>2. ASSUME NEW r, AnsweredElsewhere(r) PROVE said' = said
    BY <2>2 DEF AnsweredElsewhere, screen
  <2> QED BY <2>1, <2>2 DEF AgentNext, TrapWake, SnmpExtensionTrap, OtherManager, screen
<1>4. SetCounts'
  <2>1. SetCounts
    BY DEF ToldInv, Writing
  <2> QED BY <1>1, <1>3, <2>1 DEF SetCounts, wutil
<1>5. PICK w : w = Written1(T)
  OBVIOUS
<1> DEFINE name == job.oids[1]
           cur == session.nRequestId
           vb == VarBind(name, Null)
<1>6. /\ vb \in VarBinds /\ vb.name = name /\ w \in VarBinds /\ w.name = name /\ name \in Nat
      /\ SetOf(w)
  BY <1>1, <1>2, <1>5, Written1Is
<1> SUFFICES SetOf(w)'
  <2>1. Written1(T)' = w
    BY <1>1, <1>5 DEF Written1
  <2> QED BY <1>4, <2>1 DEF ToldInv, SetOf
<1>7. ASSUME NEW r, NEW again, SnmpExtensionQuery(r, again) PROVE SetOf(w)'
  <2> DEFINE q == Query(IF r.type = "GETBULK" THEN "GETNEXT" ELSE r.type, r.vbs, mib)
  <2>1. /\ r \in requests /\ requests' \subseteq requests /\ SetRequest(r, name, w, cur)
        /\ \A I \in DOMAIN r.vbs : InView(r.vbs[I].name)
    BY <1>6, <1>7 DEF SnmpExtensionQuery, SetOf
  <2>2. /\ mib' = q.stor
        /\ replies' = replies \cup (IF r.id = 0 THEN {} ELSE {Response(r, q)})
    BY <1>7, <2>1 DEF SnmpExtensionQuery, SetRequest
  <2>3. CASE r.type = "GET"
    <3>1. r.id = 1 /\ r.vbs = <<vb>> /\ cur >= 1
      BY <2>1, <2>3 DEF SetRequest
    <3>2. q = Query(r.type, r.vbs, mib) /\ mib' = mib
      <4>1. r.vbs \in Seq(VarBinds)
        BY <1>6, <3>1
      <4> QED BY <1>1, <2>2, <2>3, <4>1, QueryTyped DEF Actions
    <3>3. vb.name < Outside
      <4>1. 1 \in DOMAIN r.vbs /\ r.vbs[1] = vb
        BY <3>1
      <4> HIDE DEF vb
      <4> QED BY <2>1, <4>1 DEF InView
    <3>4. Response(r, q).id = 1 /\ Answers("GET", name, Response(r, q))
      <4> HIDE DEF q, vb
      <4> QED BY <1>1, <1>6, <2>3, <3>1, <3>2, <3>3, ResponseSingle
    <3>5. Response(r, q).status # "noError" => NoVar(name)
      <4> HIDE DEF q
      <4> QED BY <1>1, <2>3, <3>1, <3>2, GetStatus
    <3> HIDE DEF q
    <3>6. SetResponse(Response(r, q), name, w, mib', cur)
      BY <3>1, <3>4, <3>5 DEF SetResponse
    <3> QED BY <1>1, <1>6, <2>1, <2>2, <3>1, <3>2, <3>6, SetKept
  <2>4. CASE r.type # "GET"
    <3>1. r.id = 2 /\ r.vbs = <<w>> /\ cur = 2 /\ r.type = "SET"
      BY <2>1, <2>4 DEF SetRequest
    <3>2. q = Query("SET", <<w>>, mib)
      BY <3>1
    <3> HIDE DEF q
    <3>3. /\ q.status = "noError" <=> Good("SET", w)
          /\ ~Good("SET", w) => q.stor = mib
          /\ Good("SET", w) =>
                \A i \in Variables : q.stor[i] = IF w.name = NameOf(i) THEN w.value ELSE mib[i]
      BY <1>1, <1>6, <3>2, SingleSet
    <3>4. Response(r, q).id = 2 /\ Response(r, q).status = q.status
      BY <3>1, SetStatus
    <3>5. Good("SET", w) => HasValue(mib', w)
      <4>1. ASSUME Good("SET", w) PROVE HasValue(mib', w)
        <5>1. PICK i \in 3..5 : w.name = NameOf(i)
          BY <4>1 DEF Good
        <5>2. i \in Variables
          BY Table
        <5> QED BY <2>2, <3>3, <4>1, <5>1, <5>2 DEF HasValue
      <4> QED BY <4>1
    <3>6. SetResponse(Response(r, q), name, w, mib', cur)
      BY <3>1, <3>3, <3>4, <3>5 DEF SetResponse
    <3>7. ~Good("SET", w) => mib' = mib
      BY <2>2, <3>3
    <3> QED BY <1>1, <1>6, <2>1, <2>2, <3>1, <3>5, <3>6, <3>7, SetKept
  <2> QED BY <2>3, <2>4
<1>8. ASSUME NEW r, AnsweredElsewhere(r) PROVE SetOf(w)'
  <2>1. /\ r \in requests /\ requests' \subseteq requests /\ SetRequest(r, name, w, cur)
        /\ mib' = mib /\ ~(r.vbs[1].name < Outside)
    BY <1>6, <1>8 DEF AnsweredElsewhere, SetOf, agent, InView
  <2>2. replies' = replies \/ replies' = replies \cup {Elsewhere(r)}
    BY <1>8 DEF AnsweredElsewhere
  <2>3. NoVar(name)
    <3>1. r.vbs[1] = vb \/ r.vbs[1] = w
      BY <2>1 DEF SetRequest
    <3> HIDE DEF vb
    <3> QED BY <1>6, <2>1, <3>1, OutsideNoVar
  <2>4. ~Good("SET", w)
    BY <1>1, <1>2, <1>5, <2>3, NoVarBad
  <2>5. SetResponse(Elsewhere(r), name, w, mib', cur)
    <3>1. CASE r.type = "GET"
      <4>1. r.id = 1 /\ r.vbs = <<vb>> /\ cur >= 1
        BY <2>1, <3>1 DEF SetRequest
      <4>2. Elsewhere(r).id = 1 /\ Answers("GET", name, Elsewhere(r))
        <5> HIDE DEF vb
        <5> QED BY <1>1, <1>6, <3>1, <4>1, ElsewhereSingle
      <4> QED BY <2>3, <4>1, <4>2 DEF SetResponse
    <3>2. CASE r.type # "GET"
      <4>1. r.id = 2 /\ cur = 2 /\ r.type = "SET"
        BY <2>1, <3>2 DEF SetRequest
      <4>2. Elsewhere(r) = Reply(r, "noSuchName", 1, r.vbs)
        BY <4>1 DEF Elsewhere
      <4>3. Elsewhere(r).id = 2 /\ Elsewhere(r).status = "noSuchName"
        BY <4>1, <4>2 DEF Reply
      <4> QED BY <2>4, <4>1, <4>3 DEF SetResponse
    <3> QED BY <3>1, <3>2
  <2> QED BY <1>1, <1>6, <2>1, <2>2, <2>5, SetKept
<1>9. ASSUME TrapWake \/ SnmpExtensionTrap PROVE SetOf(w)'
  <2>1. UNCHANGED <<requests, replies, mib>>
    BY <1>9 DEF TrapWake, SnmpExtensionTrap, net
  <2> QED BY <1>1, <1>6, <2>1, SetKept
<1>10. ~OtherManager
  BY <1>1 DEF OtherManager
<1> QED BY <1>7, <1>8, <1>9, <1>10 DEF AgentNext

LEMMA SetStart ==
    ASSUME WUtilTyped, ToldInv, Writing, mib' = mib, WStart \/ WRefused
    PROVE  ToldInv'
<1>1. SetCounts /\ \E T \in AsnTypes : SetOf(Written1(T))
  BY DEF ToldInv
<1>2. UNCHANGED <<job, requests, replies, session, queue, said, ghost>>
  BY DEF WStart, WRefused, net
<1>3. \E T \in AsnTypes : SetOf(Written1(T))'
  BY <1>1, <1>2 DEF SetOf, Written1
<1>4. CASE WStart
  <2>1. UNCHANGED <<calls, result>> /\ calls = 0 /\ said # "Failed" /\ said # "Succeeded"
    BY <1>1, <1>4 DEF WStart, SetCounts
  <2>2. wpc' = "main" => gVars'.operation = "GET"
    BY <1>4 DEF WStart, Writing, WUtilTyped, GRecord
  <2>3. wpc' \in {"main", "done"}
    BY <1>4 DEF WStart, Writing
  <2>4. SetCounts'
    BY <1>1, <1>2, <2>1, <2>2, <2>3 DEF SetCounts
  <2> QED BY <1>3, <2>4 DEF ToldInv
<1>5. CASE WRefused
  <2>1. calls' = calls + 1 /\ result' = FALSE /\ wpc' = wpc /\ wpc = "main" /\ More
        /\ gVars'.oid = gVars.oid
    BY <1>5 DEF WRefused, WUtilTyped, GRecord
  <2>2. calls \in {0, 1} /\ result
    BY <1>1, <2>1 DEF More, Writing, SetCounts
  <2>3. SetCounts'
    BY <1>1, <1>2, <2>1, <2>2 DEF SetCounts
  <2> QED BY <1>3, <2>3 DEF ToldInv
<1> QED BY <1>4, <1>5

LEMMA SetSend ==
    ASSUME AgentTyped, WUtilTyped, OnceInv, ToldInv, Writing, mib' = mib,
           WSendFails \/ CreatePduSendRequest
    PROVE  ToldInv'
<1> DEFINE name == job.oids[1]
           m == Request(gVars.nRequestId, PduType, Bindings)
<1>1. SetCounts /\ \E T \in AsnTypes : SetOf(Written1(T))
  BY DEF ToldInv
<1>2. /\ UNCHANGED <<job, replies, said, queue, ghost>> /\ wpc = "main" /\ WMine /\ More
      /\ calls' = calls + 1 /\ gVars' = GlobalsAfterSend
      /\ session' = [session EXCEPT !.nRequestId = gVars.nRequestId]
      /\ requests' = requests \/ requests' = requests \cup {m}
      /\ (wpc' = "main" /\ result' = FALSE) \/ (wpc' = "pump" /\ result' = result)
  BY DEF WSendFails, CreatePduSendRequest, net, screen
<1>3. session'.nRequestId = session.nRequestId + 1 /\ gVars.nRequestId = session.nRequestId + 1
  BY OnceSend
<1>4. calls \in {0, 1} /\ result /\ session.nRequestId = calls
  BY <1>1, <1>2 DEF More, Writing, SetCounts
<1>5. session'.nErrorStatus = session.nErrorStatus
  BY <1>2 DEF OnceInv
<1>6. calls = 0 => Asked = <<name>>
  BY <1>2, <1>4 DEF Asked, Writing
<1>7. gVars'.oid = Asked[Len(Asked)]
  BY <1>2, GlobalsAre DEF WUtilTyped
<1>8. SetCounts'
  <2>1. calls' = 1 => gVars'.oid = name
    BY <1>2, <1>4, <1>6, <1>7
  <2>2. calls' \in {1, 2} /\ session'.nRequestId = calls'
    BY <1>2, <1>3, <1>4
  <2>3. said' # "Failed" /\ said' # "Succeeded" /\ wpc' \in {"main", "pump"}
    BY <1>1, <1>2 DEF SetCounts
  <2> QED BY <1>2, <2>1, <2>2, <2>3 DEF SetCounts
<1>9. m.id = gVars.nRequestId /\ m.type = PduType /\ m.vbs = Bindings
  BY DEF Request
<1> HIDE DEF m
<1>10. CASE calls = 0
  <2>1. m.vbs = <<VarBind(name, Null)>>
    BY <1>6, <1>9, <1>10 DEF Bindings, Setting
  <2>2. m.type = "GET" /\ m.id = 1
    BY <1>1, <1>2, <1>3, <1>4, <1>9, <1>10 DEF PduType, Setting, SetCounts
  <2>3. PICK T \in AsnTypes : SetOf(Written1(T))
    BY <1>1
  <2>4. PICK w : w = Written1(T)
    OBVIOUS
  <2>5. Written1(T)' = w
    BY <1>2, <2>4 DEF Written1
  <2>6. SetRequest(m, name, w, 1)
    BY <2>1, <2>2 DEF SetRequest
  <2>7. /\ \A r \in requests : SetRequest(r, name, w, 0)
        /\ \A r \in replies : SetResponse(r, name, w, mib, 0)
        /\ \A i \in 1..Len(queue) : queue[i].msg = "response" => SetResponse(queue[i].r, name, w, mib, 0)
    BY <1>4, <1>10, <2>3, <2>4 DEF SetOf
  <2>8. /\ \A r \in requests' : SetRequest(r, name, w, 1)
        /\ \A r \in replies : SetResponse(r, name, w, mib, 1)
        /\ \A i \in 1..Len(queue) : queue[i].msg = "response" => SetResponse(queue[i].r, name, w, mib, 1)
    <3>1. \A r : SetRequest(r, name, w, 0) => SetRequest(r, name, w, 1)
      BY DEF SetRequest
    <3>2. \A r : SetResponse(r, name, w, mib, 0) => SetResponse(r, name, w, mib, 1)
      BY DEF SetResponse
    <3> QED BY <1>2, <2>6, <2>7, <3>1, <3>2
  <2>9. /\ mib = Storage0 /\ (session.nErrorStatus # "noError" => NoVar(name))
        /\ ghost.last = 0
    BY <1>4, <1>10, <2>3, <2>4 DEF SetOf
  <2>10. SetOf(w)'
    BY <1>2, <1>3, <1>4, <1>5, <1>10, <2>8, <2>9 DEF SetOf
  <2> QED BY <1>8, <2>5, <2>10 DEF ToldInv, SetOf
<1>11. CASE calls = 1
  <2>1. gVars.oid = name /\ Setting
    BY <1>1, <1>4, <1>11 DEF SetCounts, Setting, Writing
  <2>2. gVars.syntax \in AsnTypes
    BY <2>1 DEF WUtilTyped, Writing
  <2>3. PICK T \in AsnTypes : SetOf(Written1(T))
    BY <1>1
  <2>4. PICK w : w = Written1(gVars.syntax)
    OBVIOUS
  <2>5. m.vbs = <<w>>
    BY <1>9, <2>1, <2>4 DEF Bindings, Written1
  <2>6. m.type = "SET" /\ m.id = 2
    <3>1. gVars.operation \in {"GET", "SET"}
      BY <1>2 DEF WUtilTyped, Writing
    <3> QED BY <1>3, <1>4, <1>9, <1>11, <2>1, <3>1 DEF PduType
  <2>7. SetRequest(m, name, w, 2)
    BY <2>5, <2>6 DEF SetRequest
  <2>8. /\ \A r \in requests : SetRequest(r, name, Written1(T), 1)
        /\ \A r \in replies : SetResponse(r, name, Written1(T), mib, 1)
        /\ \A i \in 1..Len(queue) :
              queue[i].msg = "response" => SetResponse(queue[i].r, name, Written1(T), mib, 1)
        /\ mib = Storage0 /\ (session.nErrorStatus # "noError" => NoVar(name)) /\ ghost.last \in 0..1
    BY <1>4, <1>11, <2>3 DEF SetOf
  <2>9. /\ \A r \in requests' : SetRequest(r, name, w, 2)
        /\ \A r \in replies : SetResponse(r, name, w, mib, 2)
        /\ \A i \in 1..Len(queue) : queue[i].msg = "response" => SetResponse(queue[i].r, name, w, mib, 2)
    <3>1. \A r : SetRequest(r, name, Written1(T), 1) => SetRequest(r, name, w, 2)
      BY DEF SetRequest
    <3>2. \A r : SetResponse(r, name, Written1(T), mib, 1) => SetResponse(r, name, w, mib, 2)
      BY DEF SetResponse
    <3> QED BY <1>2, <2>7, <2>8, <3>1, <3>2
  <2>10. SetOf(w)'
    BY <1>2, <1>3, <1>4, <1>5, <1>11, <2>8, <2>9 DEF SetOf
  <2>11. \E S \in AsnTypes : Written1(S)' = w
    <3>1. Written1(gVars.syntax) = VarBind(job.oids[1], Value(gVars.syntax, job.value.n))
      BY DEF Written1
    <3>2. PICK S \in AsnTypes : S = gVars.syntax
      BY <2>2
    <3>3. Written1(S)' = w
      BY <1>2, <2>4, <3>1, <3>2 DEF Written1
    <3> QED BY <3>3
  <2> QED BY <1>8, <2>10, <2>11 DEF ToldInv, SetOf
<1> QED BY <1>4, <1>10, <1>11

LEMMA SetRead ==
    ASSUME WUtilTyped, OnceInv, ToldInv, Writing, mib' = mib, PResponse
    PROVE  ToldInv'
<1> DEFINE r == Head(queue).r
           name == job.oids[1]
           cur == session.nRequestId
           last == IF Stop(r.vbs) <= Len(r.vbs) THEN Stop(r.vbs) ELSE Len(r.vbs)
<1>1. SetCounts
  BY DEF ToldInv
<1>2. PICK T \in AsnTypes : SetOf(Written1(T))
  BY DEF ToldInv
<1>3. PICK w : w = Written1(T)
  OBVIOUS
<1>4. /\ UNCHANGED <<job, requests, replies, said, wpc, calls, result>>
      /\ wpc = "pump" /\ queue # << >> /\ Head(queue).msg = "response"
      /\ session' = [session EXCEPT !.nErrorStatus = r.status]
      /\ queue' = Tail(queue) \/ queue' = Append(Tail(queue), WM_SNMP_DONE)
  BY Zenon DEF PResponse, net
<1>5. session'.nRequestId = cur /\ session'.nErrorStatus = r.status /\ cur \in 0..2 /\ cur = calls
  BY <1>1, <1>4 DEF OnceInv, SetCounts
<1>6. ghost'.last = r.id
  <2>1. CASE Matches(r)
    <3> DEFINE new == ghost.ids \o [k \in DOMAIN Printed(r.vbs) |-> session.nRequestId]
    <3>1. ghost' = [ids |-> new, last |-> r.id]
      BY <2>1, Zenon DEF PResponse
    <3> HIDE DEF new
    <3> QED BY <3>1
  <2>2. CASE ~Matches(r)
    BY <2>2 DEF PResponse, OnceInv
  <2> QED BY <2>1, <2>2
<1>7. QueueOK(Tail(queue), job.op) /\ IsSeq(queue) /\ IsSeq(Tail(queue)) /\ ReplyOK(r, job.op)
      /\ queue[1] = Head(queue) /\ 1 \in 1..Len(queue)
  <2>1. QueueOK(queue, job.op) /\ IsSeq(queue) /\ queue # << >>
    BY <1>4 DEF WUtilTyped, QueueOK
  <2>2. QueueOK(Tail(queue), job.op) /\ MessageOK(Head(queue), job.op)
    BY <2>1, QueueShrinks, Zenon
  <2>3. IsSeq(Tail(queue)) /\ Len(queue) > 0 /\ Head(queue) = queue[1]
    BY <2>1, QueueTail, Zenon
  <2>4. Len(queue) \in Nat
    BY <2>1 DEF IsSeq
  <2>5. ReplyOK(r, job.op)
    BY <1>4, <2>2, Zenon DEF MessageOK
  <2> QED BY <2>1, <2>2, <2>3, <2>4, <2>5
<1>8. /\ \A x \in requests : SetRequest(x, name, w, cur)
      /\ \A x \in replies : SetResponse(x, name, w, mib, cur)
      /\ \A i \in 1..Len(queue) : queue[i].msg = "response" => SetResponse(queue[i].r, name, w, mib, cur)
      /\ cur < 2 \/ ~Good("SET", w) => mib = Storage0
  BY <1>2, <1>3 DEF SetOf
<1>9. SetResponse(r, name, w, mib, cur)
  BY <1>4, <1>7, <1>8
<1>10. \A i \in 1..Len(queue') : queue'[i].msg = "response" => SetResponse(queue'[i].r, name, w, mib, cur)
  <2>1. \A i \in 1..Len(Tail(queue)) : i + 1 \in 1..Len(queue) /\ Tail(queue)[i] = queue[i + 1]
    BY <1>4, <1>7, QueueTail DEF IsSeq
  <2>2. \A i \in 1..Len(Tail(queue)) :
           Tail(queue)[i].msg = "response" => SetResponse(Tail(queue)[i].r, name, w, mib, cur)
    BY <1>8, <2>1
  <2>3. CASE queue' = Append(Tail(queue), WM_SNMP_DONE)
    <3>1. \A i \in 1..Len(queue') : queue'[i] = WM_SNMP_DONE
                                    \/ (i \in 1..Len(Tail(queue)) /\ queue'[i] = Tail(queue)[i])
      BY <1>7, <2>3, QueueAppend DEF IsSeq
    <3> QED BY <2>2, <3>1 DEF WM_SNMP_DONE
  <2> QED BY <1>4, <2>2, <2>3
<1>11. calls = 1 /\ cur = 1 => gVars'.oid = name
  <2>1. SUFFICES ASSUME calls = 1, cur = 1 PROVE gVars'.oid = name
    OBVIOUS
  <2>2. r.id = 1 /\ Answers("GET", name, r)
    BY <1>9, <2>1 DEF SetResponse
  <2>3. last = 1
    <3>1. Stop(r.vbs) = Len(r.vbs) + 1
      BY DEF Stop, Ends, Writing
    <3> QED BY <2>2, <3>1 DEF Answers
  <2>4. r.vbs[last].name = name
    BY <2>2, <2>3 DEF Answers, NameAnswers
  <2>5. gVars' = [gVars EXCEPT !.oid = r.vbs[last].name, !.kept = TRUE,
                               !.syntax = r.vbs[last].value.type,
                               !.fDone = @ \/ Stop(r.vbs) <= Len(r.vbs)]
    BY <2>1, <2>2, Zenon DEF PResponse, Matches
  <2> HIDE DEF last, r
  <2> QED BY <2>4, <2>5 DEF WUtilTyped, GRecord
<1>12. SetCounts'
  BY <1>1, <1>4, <1>5, <1>11 DEF SetCounts
<1>13. /\ r.status # "noError" => NoVar(name) \/ (cur = 2 /\ ~Good("SET", w))
       /\ r.id \in 0..cur
       /\ r.id = 2 /\ r.status = "noError" => Good("SET", w) /\ HasValue(mib, w)
  BY <1>5, <1>9 DEF SetResponse
<1>14. SetOf(w)'
  <2> HIDE DEF r
  <2> QED BY <1>4, <1>5, <1>6, <1>8, <1>10, <1>13 DEF SetOf
<1>15. Written1(T)' = w
  BY <1>3, <1>4 DEF Written1
<1> QED BY <1>12, <1>14, <1>15 DEF ToldInv, SetOf

LEMMA SetArrives ==
    ASSUME WUtilTyped, ToldInv, Writing, mib' = mib, NEW r, WArrives(r)
    PROVE  ToldInv'
<1> DEFINE name == job.oids[1]
           cur == session.nRequestId
<1>1. SetCounts
  BY DEF ToldInv
<1>2. PICK T \in AsnTypes : SetOf(Written1(T))
  BY DEF ToldInv
<1>3. PICK w : w = Written1(T)
  OBVIOUS
<1>4. /\ UNCHANGED <<job, requests, said, wpc, calls, result, session, ghost, gVars>>
      /\ replies' = replies \ {r} /\ r \in replies
      /\ queue' = queue \/ queue' = Append(queue, Incoming(r))
  BY DEF WArrives, screen
<1>5. /\ \A x \in requests : SetRequest(x, name, w, cur)
      /\ \A x \in replies : SetResponse(x, name, w, mib, cur)
      /\ \A i \in 1..Len(queue) : queue[i].msg = "response" => SetResponse(queue[i].r, name, w, mib, cur)
  BY <1>2, <1>3 DEF SetOf
<1>6. \A i \in 1..Len(queue') : queue'[i].msg = "response" => SetResponse(queue'[i].r, name, w, mib, cur)
  <2>1. CASE queue' = Append(queue, Incoming(r))
    <3>1. \A i \in 1..Len(queue') : queue'[i] = Incoming(r) \/ (i \in 1..Len(queue) /\ queue'[i] = queue[i])
      BY <2>1, QueueAppend DEF IsSeq, WUtilTyped, QueueOK
    <3>2. Incoming(r).r = r
      BY DEF Incoming
    <3> QED BY <1>4, <1>5, <3>1, <3>2
  <2> QED BY <1>4, <1>5, <2>1
<1>7. SetOf(w)'
  BY <1>2, <1>3, <1>4, <1>5, <1>6 DEF SetOf
<1>8. Written1(T)' = w
  BY <1>3, <1>4 DEF Written1
<1>9. SetCounts'
  BY <1>1, <1>4 DEF SetCounts
<1> QED BY <1>7, <1>8, <1>9 DEF ToldInv, SetOf

LEMMA SetPump ==
    ASSUME WUtilTyped, ToldInv, Writing, mib' = mib,
           PTimeout \/ PTrap \/ PDone \/ WEnd \/ WTrapArrives \/ \E id : WTimesOut(id)
    PROVE  ToldInv'
<1> DEFINE name == job.oids[1]
           cur == session.nRequestId
<1>1. SetCounts
  BY DEF ToldInv
<1>2. PICK T \in AsnTypes : SetOf(Written1(T))
  BY DEF ToldInv
<1>3. PICK w : w = Written1(T)
  OBVIOUS
<1>4. UNCHANGED <<job, requests, replies, session, ghost, gVars, calls>>
  BY DEF PTimeout, PTrap, PDone, WEnd, WTrapArrives, WTimesOut, net, screen
<1>5. \/ queue' = queue
      \/ queue # << >> /\ queue' = Tail(queue)
      \/ queue # << >> /\ queue' = Append(Tail(queue), WM_SNMP_DONE)
      \/ queue' = Append(queue, GivenUp) \/ queue' = Append(queue, TrapMsg)
  BY DEF PTimeout, PTrap, PDone, WEnd, WTrapArrives, WTimesOut
<1>6. IsSeq(queue) /\ (queue # << >> => IsSeq(Tail(queue)))
  BY QueueTail DEF WUtilTyped, QueueOK
<1> DEFINE Fit(q) == \A i \in 1..Len(q) : q[i].msg = "response" => SetResponse(q[i].r, name, w, mib, cur)
<1>7. Fit(queue)
  BY <1>2, <1>3 DEF SetOf
<1>8. ASSUME queue # << >> PROVE Fit(Tail(queue))
  <2>1. \A i \in 1..Len(Tail(queue)) : i + 1 \in 1..Len(queue) /\ Tail(queue)[i] = queue[i + 1]
    BY <1>6, <1>8, QueueTail DEF IsSeq
  <2> QED BY <1>7, <2>1
<1>9. ASSUME NEW q, IsSeq(q), Fit(q), NEW m, m.msg # "response" PROVE Fit(Append(q, m))
  <2>1. \A i \in 1..Len(Append(q, m)) : Append(q, m)[i] = m \/ (i \in 1..Len(q) /\ Append(q, m)[i] = q[i])
    BY <1>9, QueueAppend DEF IsSeq
  <2> QED BY <1>9, <2>1
<1>10. WM_SNMP_DONE.msg # "response" /\ GivenUp.msg # "response" /\ TrapMsg.msg # "response"
  BY DEF WM_SNMP_DONE, GivenUp, TrapMsg
<1> HIDE DEF Fit
<1>11. Fit(queue')
  BY <1>5, <1>6, <1>7, <1>8, <1>9, <1>10
<1>12. SetOf(w)'
  BY <1>2, <1>3, <1>4, <1>11 DEF SetOf, Fit
<1>13. Written1(T)' = w
  BY <1>3, <1>4 DEF Written1
<1>14. SetCounts'
  <2>1. CASE PTimeout \/ PTrap \/ WTrapArrives \/ \E id : WTimesOut(id)
    <3>1. UNCHANGED <<wpc, result, said>>
      BY <2>1 DEF PTimeout, PTrap, WTrapArrives, WTimesOut, screen
    <3> QED BY <1>1, <1>4, <3>1 DEF SetCounts
  <2>2. CASE PDone
    <3>1. wpc = "pump" /\ wpc' = "main" /\ result' = TRUE /\ said' = said
      BY <2>2 DEF PDone, Writing, screen
    <3>2. cur = calls
      BY <1>1, <3>1 DEF SetCounts
    <3>3. calls = 0 => gVars.operation = "GET"
      BY <3>1, <1>1, <3>2 DEF SetCounts
    <3> QED BY <1>1, <1>4, <3>1, <3>2, <3>3 DEF SetCounts
  <2>3. CASE WEnd
    <3>1. /\ wpc = "main" /\ wpc' = "done" /\ result' = result
          /\ said' = IF calls < 2 THEN said
                     ELSE IF session.nErrorStatus = "noError" THEN "Succeeded" ELSE "Failed"
      BY <2>3 DEF WEnd, Writing
    <3>2. said # "Failed" /\ said # "Succeeded"
      BY <1>1, <3>1 DEF SetCounts
    <3>3. calls \in Nat
      BY DEF WUtilTyped
    <3> QED BY <1>1, <1>4, <3>1, <3>2, <3>3 DEF SetCounts
  <2> QED BY <2>1, <2>2, <2>3
<1> QED BY <1>12, <1>13, <1>14 DEF ToldInv, SetOf

LEMMA SetW ==
    ASSUME AgentTyped, WUtilTyped, OnceInv, ToldInv, Writing, WNext, mib' = mib
    PROVE  ToldInv'
BY SetStart, SetSend, SetArrives, SetRead, SetPump DEF WNext, WStep

LEMMA ToldInit ==
    ASSUME Init PROVE ToldInv
<1>1. /\ requests = {} /\ replies = {} /\ queue = << >> /\ ghost = [ids |-> << >>, last |-> 0]
      /\ session = [nRequestId |-> 0, nErrorStatus |-> "noError"] /\ said = "" /\ wpc = "start"
      /\ calls = 0 /\ result = TRUE /\ mib = Storage0
  BY DEF Init, NetInit, WInit, SnmpExtensionInit
<1>2. ghost.last = 0 /\ session.nRequestId = 0 /\ session.nErrorStatus = "noError" /\ Len(queue) = 0
  BY <1>1
<1>3. SetCounts
  <2>1. result /\ said # "Failed" /\ said # "Succeeded" /\ wpc # "pump" /\ wpc # "main"
    BY <1>1
  <2>2. calls = 0
    BY <1>1
  <2>3. session.nRequestId = 0
    BY <1>2
  <2>4. calls # 1 /\ session.nRequestId \in 0..2
    BY <2>2, <2>3
  <2> QED BY <2>1, <2>2, <2>3, <2>4 DEF SetCounts
<1>4. SetOf(Written1("int"))
  <2>1. 1..Len(queue) = {} /\ ghost.last # 2 /\ ghost.last \in 0..session.nRequestId
    BY <1>2
  <2> QED BY <1>1, <1>2, <2>1 DEF SetOf
<1>5. "int" \in AsnTypes
  BY DEF AsnTypes
<1> QED BY <1>3, <1>4, <1>5 DEF ToldInv

WriteInv == ReadInv /\ ToldInv

LEMMA WriteNext ==
    ASSUME WriteInv, [Next]_vars PROVE WriteInv'
<1>1. ReadInv' /\ job' = job
  BY ReadNext, JobKept DEF WriteInv
<1>2. SUFFICES ASSUME Writing PROVE ToldInv'
  BY <1>1 DEF WriteInv, ToldInv, Writing
<1>3. AgentTyped /\ WUtilTyped /\ OnceInv /\ ToldInv
  BY <1>2 DEF WriteInv, ReadInv, SnmpTyped, Writing
<1>4. CASE AgentNext /\ UNCHANGED <<util, wutil>>
  BY <1>2, <1>3, <1>4, SetAgent
<1>5. CASE UNext
  BY <1>2, <1>5, UtilIsOther DEF Writing
<1>6. CASE WNext /\ UNCHANGED <<agent, util>>
  BY <1>2, <1>3, <1>6, SetW DEF agent
<1>7. CASE UNCHANGED vars
  <2>1. UNCHANGED <<job, requests, replies, session, queue, ghost, gVars, said, wpc, calls, result, mib>>
    BY <1>7 DEF vars, net, screen, agent, wutil
  <2>2. PICK T \in AsnTypes : SetOf(Written1(T))
    BY <1>2, <1>3 DEF ToldInv
  <2>3. SetOf(Written1(T))' /\ SetCounts'
    BY <1>2, <1>3, <2>1, <2>2 DEF ToldInv, SetOf, SetCounts, Written1
  <2> QED BY <2>3 DEF ToldInv
<1> QED BY <1>4, <1>5, <1>6, <1>7 DEF Next

\* WSnmpUtil.Cpp:187-215, 590-651: whatever is lost, late or repeated, "Failed"
\* is only said of a value that has not been stored and that no SET on its way
\* will store; after "Succeeded" the value is stored, unless the last response
\* looked at was not the one to the SET.
THEOREM SetTold == Spec => []SetReported
<1>1. WriteInv => SetReported
  <2> SUFFICES ASSUME WriteInv, job.op = "SET", wpc = "done"
               PROVE  /\ said = "Failed" => /\ mib = Storage0
                                            /\ \A r \in requests : r.type = "SET" => ~Good("SET", r.vbs[1])
                      /\ said = "Succeeded" =>
                            \/ \E i \in Variables : NameOf(i) = job.oids[1] /\ mib[i] = Number(job.value.n)
                            \/ ghost.last # 2
    BY DEF SetReported
  <2>1. job \in Jobs
    BY DEF WriteInv, ReadInv, SnmpTyped, AgentTyped
  <2>2. Writing
    BY <2>1, JobFacts DEF Writing, Operations, Programs
  <2>3. SetCounts /\ \E T \in AsnTypes : SetOf(Written1(T))
    BY <2>2 DEF WriteInv, ToldInv
  <2>4. PICK T \in AsnTypes : SetOf(Written1(T))
    BY <2>3
  <2>5. PICK w : w = Written1(T)
    OBVIOUS
  <2>6. w.name = job.oids[1] /\ w.value = Value(T, job.value.n)
    BY <2>1, <2>5, Written1Is
  <2>7. ASSUME said = "Failed"
        PROVE  mib = Storage0 /\ \A r \in requests : r.type = "SET" => ~Good("SET", r.vbs[1])
    <3>1. session.nErrorStatus # "noError"
      BY <2>3, <2>7 DEF SetCounts
    <3>2. ~Good("SET", w)
      BY <2>1, <2>4, <2>5, <3>1, NoVarBad DEF SetOf
    <3>3. mib = Storage0 /\ \A r \in requests : SetRequest(r, job.oids[1], w, session.nRequestId)
      BY <2>4, <2>5, <3>2 DEF SetOf
    <3>4. ASSUME NEW r \in requests, r.type = "SET" PROVE r.vbs[1] = w
      <4>1. r.vbs = <<w>>
        BY <3>3, <3>4 DEF SetRequest
      <4> QED BY <4>1
    <3> QED BY <3>2, <3>3, <3>4
  <2>8. ASSUME said = "Succeeded", ghost.last = 2
        PROVE  \E i \in Variables : NameOf(i) = job.oids[1] /\ mib[i] = Number(job.value.n)
    <3>1. session.nErrorStatus = "noError"
      BY <2>3, <2>8 DEF SetCounts
    <3>2. Good("SET", w) /\ HasValue(mib, w)
      BY <2>4, <2>5, <2>8, <3>1 DEF SetOf
    <3>3. w.value.type = "int"
      BY <3>2 DEF Good
    <3>4. T = "int"
      BY <2>6, <3>3 DEF Value
    <3>5. w.value = Number(job.value.n)
      BY <2>6, <3>4 DEF Number
    <3> QED BY <2>6, <3>2, <3>5 DEF HasValue
  <2> QED BY <2>7, <2>8
<1>2. Init => WriteInv
  BY WUtilTypedInit, OnceInit, AnswersInit, ToldInit DEF WriteInv, ReadInv, SnmpTyped
<1> QED BY <1>1, <1>2, WriteNext, PTL DEF Spec
-----------------------------------------------------------------------------
(* Walks: both programs implement the abstract walk. *)

\* i is the variable after the name x.
After1(i, x) == i \in Variables /\ NameOf(i) > x /\ \A j \in Variables : NameOf(j) > x => i <= j
NoneAfter(x) == \A i \in Variables : NameOf(i) <= x

\* r answers a GETNEXT for x.
GoesOn(x, next, v2, stor, r) ==
    /\ Len(r.vbs) = 1 /\ DOMAIN r.vbs = 1..1
    /\ \/ /\ r.status = "noError"
          /\ \E i \in Variables : After1(i, x) /\ r.vbs[1] = VarBind(NameOf(i), stor[i])
       \/ /\ NoneAfter(x) /\ next /\ x < Foreign
          /\ r.status = "noError" /\ r.vbs[1] = VarBind(Foreign, Text(3))
       \/ /\ NoneAfter(x) /\ ~(next /\ x < Foreign)
          /\ \/ v2 /\ r.status = "noError" /\ r.vbs[1] = VarBind(x, Value("end", 0))
             \/ ~v2 /\ r.status = "noSuchName" /\ r.vbs[1] = VarBind(x, Null)

LEMMA NextNameAfter ==
    ASSUME NEW x \in Nat, x < Outside
    PROVE  \/ \E i \in Variables : After1(i, x) /\ NextName(x) = NameOf(i) /\ NameOf(i) # Outside
           \/ NoneAfter(x) /\ NextName(x) = Outside
<1> DEFINE Beyond == {NameOf(i) : i \in Variables} \cap ((x + 1)..Outside)
<1>1. \A i \in Variables : NameOf(i) \in Nat /\ NameOf(i) < Outside /\ i \in Nat
  BY Table DEF NameOf
<1>2. CASE Beyond = {}
  <2>1. NextName(x) = Outside
    BY <1>2 DEF NextName
  <2>2. NoneAfter(x)
    <3>1. \A i \in Variables : NameOf(i) \notin (x + 1)..Outside
      BY <1>2
    <3> QED BY <1>1, <3>1, NameBound DEF NoneAfter
  <2> QED BY <2>1, <2>2
<1>3. CASE Beyond # {}
  <2>1. Beyond \subseteq Nat
    BY NameBound
  <2>2. PICK m \in Beyond : \A k \in Beyond : m <= k
    <3> HIDE DEF Beyond
    <3> QED BY <1>3, <2>1, LeastNatural
  <2>3. NextName(x) \in Beyond /\ \A k \in Beyond : NextName(x) <= k
    BY <1>3, <2>2 DEF NextName
  <2>4. PICK i \in Variables : NextName(x) = NameOf(i)
    BY <2>3
  <2>5. NameOf(i) > x
    BY <2>3, <2>4, NameBound
  <2>6. ASSUME NEW j \in Variables, NameOf(j) > x PROVE i <= j
    <3>1. NameOf(j) \in Beyond
      BY <1>1, <2>6, NameBound
    <3>2. NameOf(i) <= NameOf(j)
      BY <2>3, <2>4, <3>1
    <3> QED BY <1>1, <3>2 DEF NameOf
  <2>7. NameOf(i) # Outside
    BY <1>1, NameBound
  <2> QED BY <2>4, <2>5, <2>6, <2>7 DEF After1
<1> QED BY <1>2, <1>3

LEMMA SingleNext ==
    ASSUME NEW vb \in VarBinds, NEW stor \in Storages, NEW q, q = Query("GETNEXT", <<vb>>, stor)
    PROVE  /\ q.vbs \in [1..1 -> VarBinds] /\ q.vbs[1].name = NextName(vb.name)
           /\ \A i \in Variables : q.vbs[1].name = NameOf(i) => q.vbs[1] = VarBind(NameOf(i), stor[i])
<1> DEFINE s == <<vb>>
           Wrong == {I \in DOMAIN s : ~Good("GETNEXT", s[I])}
           upTo == IF Wrong = {} THEN Len(s) ELSE q.index - 1
<1>1. s \in Seq(VarBinds) /\ Len(s) = 1 /\ DOMAIN s = 1..1 /\ s[1] = vb
  OBVIOUS
<1>2. QueryPromise("GETNEXT", s, stor)
  BY <1>1, PromiseKept DEF Actions
<1>3. q.vbs \in [1..1 -> VarBinds] /\ q.vbs[1].name = NextName(vb.name)
  BY SingleQuery
<1>4. \A I \in 1..upTo, i \in Variables : q.vbs[I].name = NameOf(i) => q.vbs[I].value = stor[i]
  BY <1>2 DEF QueryPromise
<1>5. upTo = 1
  <2>1. Wrong = {}
    BY DEF Good
  <2> QED BY <1>1, <2>1
<1> HIDE DEF upTo
<1>6. ASSUME NEW i \in Variables, q.vbs[1].name = NameOf(i) PROVE q.vbs[1] = VarBind(NameOf(i), stor[i])
  <2>1. q.vbs[1].value = stor[i]
    BY <1>4, <1>5, <1>6
  <2>2. q.vbs[1] \in VarBinds
    BY <1>3
  <2> QED BY <1>6, <2>1, <2>2 DEF VarBind, VarBinds
<1> QED BY <1>3, <1>6

LEMMA WalkResponse ==
    ASSUME job \in Jobs, NEW r, NEW x \in Nat, r.vbs = <<VarBind(x, Null)>>, r.type = "GETNEXT",
           mib \in Storages, x < Outside, NEW q, q = Query(r.type, r.vbs, mib)
    PROVE  /\ Response(r, q).id = r.id
           /\ GoesOn(x, job.next, job.v2, mib, Response(r, q))
<1> DEFINE res == Response(r, q)
           vb == VarBind(x, Null)
           missing(I) == q.vbs[I].name = Outside /\ ~job.next /\ ~job.v2
<1>1. vb \in VarBinds /\ vb.name = x /\ r.vbs[1] = vb /\ Len(r.vbs) = 1 /\ DOMAIN r.vbs = 1..1
  BY NameBound, Records
<1>2. /\ q.vbs \in [1..1 -> VarBinds] /\ q.vbs[1].name = NextName(x)
      /\ \A i \in Variables : q.vbs[1].name = NameOf(i) => q.vbs[1] = VarBind(NameOf(i), mib[i])
  <2> HIDE DEF vb
  <2> QED BY <1>1, SingleNext DEF vb
<1>3. \/ \E i \in Variables : /\ After1(i, x) /\ q.vbs[1].name # Outside
                              /\ q.vbs[1] = VarBind(NameOf(i), mib[i])
      \/ NoneAfter(x) /\ q.vbs[1].name = Outside
  BY <1>2, NextNameAfter
<1>4. x < Foreign /\ Foreign \in Nat
  BY NameBound DEF Foreign
<1>5. CASE \E I \in DOMAIN r.vbs : missing(I)
  <2> DEFINE first == CHOOSE I \in DOMAIN r.vbs : missing(I) /\ \A J \in 1..(I - 1) : ~missing(J)
  <2>1. res = Reply(r, "noSuchName", first, r.vbs)
    BY <1>5 DEF Response
  <2>2. q.vbs[1].name = Outside /\ ~job.next /\ ~job.v2
    BY <1>1, <1>5
  <2> HIDE DEF first, res
  <2>3. res.id = r.id /\ res.status = "noSuchName" /\ res.vbs = r.vbs
    BY <2>1 DEF Reply
  <2>4. res.id = r.id /\ GoesOn(x, job.next, job.v2, mib, res)
    BY <1>1, <1>3, <2>2, <2>3 DEF GoesOn
  <2> QED BY <2>4 DEF res
<1>6. CASE \A I \in DOMAIN r.vbs : ~missing(I)
  <2> DEFINE out == [I \in DOMAIN r.vbs |-> Onward(r.vbs[I], q.vbs[I])]
  <2>1. res = Reply(r, "noError", 0, out)
    BY <1>6 DEF Response
  <2>2. out[1] = Onward(vb, q.vbs[1]) /\ DOMAIN out = 1..1
    BY <1>1
  <2>3. Len(out) = 1
    BY <2>2
  <2>4. \/ \E i \in Variables : After1(i, x) /\ out[1] = VarBind(NameOf(i), mib[i])
        \/ NoneAfter(x) /\ job.next /\ out[1] = VarBind(Foreign, Text(3))
        \/ NoneAfter(x) /\ ~job.next /\ job.v2 /\ out[1] = VarBind(x, Value("end", 0))
    <3>1. ~missing(1)
      BY <1>1, <1>6
    <3> QED BY <1>1, <1>3, <2>2, <3>1 DEF Onward, EndOf
  <2> HIDE DEF out, res
  <2>5. res.id = r.id /\ res.status = "noError" /\ res.vbs = out
    BY <2>1 DEF Reply
  <2>6. res.id = r.id /\ GoesOn(x, job.next, job.v2, mib, res)
    BY <1>4, <2>2, <2>3, <2>4, <2>5 DEF GoesOn
  <2> QED BY <2>6 DEF res
<1> QED BY <1>5, <1>6

LEMMA WalkElsewhere ==
    ASSUME job \in Jobs, NEW r, NEW x \in Nat, r.vbs = <<VarBind(x, Null)>>, r.type = "GETNEXT",
           ~(x < Outside), NEW stor
    PROVE  /\ Elsewhere(r).id = r.id
           /\ GoesOn(x, job.next, job.v2, stor, Elsewhere(r))
<1> DEFINE res == Elsewhere(r)
<1>1. r.vbs[1].name = x /\ r.vbs[1] = VarBind(x, Null)
  BY Records
<1>2. NoneAfter(x)
  BY Table DEF NoneAfter, NameOf
<1>3. \/ job.next /\ x < Foreign /\ res = Reply(r, "noError", 0, <<VarBind(Foreign, Text(3))>>)
      \/ ~(job.next /\ x < Foreign) /\ job.v2 /\ res = Reply(r, "noError", 0, <<VarBind(x, Value("end", 0))>>)
      \/ ~(job.next /\ x < Foreign) /\ ~job.v2 /\ res = Reply(r, "noSuchName", 1, <<VarBind(x, Null)>>)
  BY <1>1 DEF Elsewhere, EndOf
<1> HIDE DEF res
<1>4. ASSUME NEW v, NEW status, NEW index, res = Reply(r, status, index, <<v>>)
      PROVE  /\ res.id = r.id /\ res.status = status
             /\ res.vbs[1] = v /\ Len(res.vbs) = 1 /\ DOMAIN res.vbs = 1..1
  <2>1. res.id = r.id /\ res.status = status /\ res.vbs = <<v>>
    BY <1>4 DEF Reply
  <2> QED BY <2>1
<1>5. res.id = r.id /\ GoesOn(x, job.next, job.v2, stor, res)
  BY <1>2, <1>3, <1>4 DEF GoesOn
<1> QED BY <1>5 DEF res

IsTarget(vb) ==
    \/ \E i \in In : vb = VarBind(NameOf(i), mib[i])
    \/ ~Subtree /\ job.next /\ job.oids[1] < Foreign /\ vb = VarBind(Foreign, Text(3))

\* The variables of the walk follow one another.
LEMMA InIs ==
    ASSUME job.oids[1] \in Nat, In # {}
    PROVE  \E a, b \in 1..5 : a <= b /\ In = a..b
<1> DEFINE root == job.oids[1]
           S == In
<1>1. S \subseteq 1..5 /\ S \subseteq Nat
  BY Table DEF In
<1>2. PICK a \in S : \A k \in S : a <= k
  <2> HIDE DEF S
  <2> QED BY <1>1, LeastNatural DEF S
<1>3. PICK b \in S : \A k \in S : k <= b
  <2> HIDE DEF S
  <2> QED BY <1>1, Greatest DEF S
<1>4. ASSUME NEW k \in a..b PROVE k \in In
  <2>1. k \in Variables /\ NameOf(a) <= NameOf(k) /\ NameOf(k) <= NameOf(b)
        /\ NameOf(k) \in Nat /\ NameOf(a) \in Nat /\ NameOf(b) \in Nat
    BY <1>1, <1>2, <1>3, Table DEF NameOf
  <2>2. NameOf(a) > root
    BY <1>2 DEF In
  <2>3. Subtree => NameOf(k) \in Under(root)
    <3>1. SUFFICES ASSUME Subtree PROVE NameOf(k) \in Under(root)
      OBVIOUS
    <3>2. NameOf(a) \in Under(root) /\ NameOf(b) \in Under(root)
      BY <1>2, <1>3, <3>1 DEF In
    <3> QED BY <2>1, <3>2, NameBound DEF Under
  <2> QED BY <2>1, <2>2, <2>3 DEF In
<1>5. ASSUME NEW k \in In PROVE k \in a..b
  <2>1. k \in Nat /\ a \in Nat /\ b \in Nat /\ a <= k /\ k <= b
    BY <1>1, <1>2, <1>3, <1>5
  <2> QED BY <2>1
<1>6. a \in 1..5 /\ b \in 1..5 /\ a <= b
  BY <1>1, <1>2, <1>3
<1> QED BY <1>4, <1>5, <1>6

\* The names under a root have no gap.
LEMMA UnderBetween ==
    ASSUME NEW root \in Nat, NEW a \in Under(root), NEW b \in Under(root), NEW y \in Nat, a <= y, y <= b
    PROVE  y \in Under(root)
<1>1. Outside \in Nat
  BY NameBound
<1>2. CASE root = 0
  BY <1>1, <1>2 DEF Under
<1>3. CASE root # 0 /\ root % 2 = 1
  BY <1>3 DEF Under
<1>4. CASE root # 0 /\ root % 2 # 1
  BY <1>4 DEF Under
<1> QED BY <1>2, <1>3, <1>4

\* Target lists the varbinds of the walk in the order of their names.
LEMMA TargetIs ==
    ASSUME job \in Jobs, mib \in Storages, IsWalk
    PROVE  /\ IsSeq(Target) /\ Target \in Seq(VarBinds)
           /\ \A k \in 1..Len(Target) : IsTarget(Target[k])
           /\ \A vb : IsTarget(vb) => \E k \in 1..Len(Target) : Target[k] = vb
           /\ \A j, k \in 1..Len(Target) : j < k => Target[j].name < Target[k].name
<1> DEFINE first == CHOOSE i \in In : \A j \in In : i <= j
           n == Cardinality(In)
           Vbs == [k \in 1..n |-> VarBind(NameOf(first + k - 1), mib[first + k - 1])]
           more == ~Subtree /\ job.next /\ job.oids[1] < Foreign
           last == VarBind(Foreign, Text(3))
<1>1. Target = IF more THEN Append(Vbs, last) ELSE Vbs
  BY DEF Target
<1>2. job.oids[1] \in Nat
  <2>1. job.oids \in Seq(Nat) /\ Len(job.oids) = 1
    BY JobFacts DEF IsWalk
  <2> QED BY <2>1
<1>3. /\ n \in 0..5 /\ (n = 0 <=> In = {}) /\ (n > 0 => first \in 1..5 /\ In = first..(first + n - 1))
  <2>1. CASE In = {}
    BY <2>1, FS_EmptySet
  <2>2. CASE In # {}
    <3>1. PICK a \in 1..5, b \in 1..5 : a <= b /\ In = a..b
      BY <1>2, <2>2, InIs
    <3>2. n = b - a + 1
      BY <3>1, FS_Interval
    <3>3. first = a
      <4>1. a \in In /\ \A j \in In : a <= j
        BY <3>1
      <4>2. first \in In /\ \A j \in In : first <= j
        BY <4>1
      <4> HIDE DEF first
      <4> QED BY <3>1, <4>1, <4>2
    <3> HIDE DEF n, first
    <3> QED BY <3>1, <3>2, <3>3
  <2> QED BY <2>1, <2>2
<1> HIDE DEF n, first
<1>4. \A k \in 1..n : /\ first + k - 1 \in In /\ first + k - 1 \in Variables
                      /\ Vbs[k] = VarBind(NameOf(first + k - 1), mib[first + k - 1])
                      /\ Vbs[k] \in VarBinds /\ Vbs[k].name = NameOf(first + k - 1)
  <2>1. ASSUME NEW k \in 1..n
        PROVE  /\ first + k - 1 \in In /\ first + k - 1 \in Variables
               /\ Vbs[k] = VarBind(NameOf(first + k - 1), mib[first + k - 1])
               /\ Vbs[k] \in VarBinds /\ Vbs[k].name = NameOf(first + k - 1)
    <3>1. first + k - 1 \in In
      BY <1>3
    <3>2. first + k - 1 \in Variables
      BY <3>1 DEF In
    <3>3. NameOf(first + k - 1) \in Nat /\ mib[first + k - 1] \in Values0
      BY <3>2, Table DEF NameOf, Storages
    <3> QED BY <3>1, <3>2, <3>3, Records
  <2> QED BY <2>1
<1>5. /\ Vbs \in Seq(VarBinds) /\ Len(Vbs) = n
  <2>1. Vbs \in [1..n -> VarBinds] /\ n \in Nat
    BY <1>3, <1>4
  <2> QED BY <2>1
<1>6. last \in VarBinds /\ last.name = Foreign
  BY NameBound, Records
<1>7. \A k \in 1..n : IsTarget(Vbs[k])
  BY <1>4 DEF IsTarget
<1>8. \A i \in In : \E k \in 1..n : Vbs[k] = VarBind(NameOf(i), mib[i])
  <2>1. ASSUME NEW i \in In PROVE \E k \in 1..n : Vbs[k] = VarBind(NameOf(i), mib[i])
    <3>1. i - first + 1 \in 1..n /\ first + (i - first + 1) - 1 = i
      BY <1>3
    <3> QED BY <3>1
  <2> QED BY <2>1
<1>9. \A j, k \in 1..n : j < k => Vbs[j].name < Vbs[k].name
  BY <1>3, <1>4 DEF NameOf
<1>10. ASSUME NEW k \in 1..n PROVE Vbs[k].name < Foreign
  <2>1. first + k - 1 \in 1..5 /\ Vbs[k].name = NameOf(first + k - 1)
    BY <1>4, Table
  <2> QED BY <2>1, Table DEF NameOf, Foreign
<1> HIDE DEF Vbs, last
<1>11. CASE ~more
  <2>1. Target = Vbs
    BY <1>1, <1>11
  <2> QED BY <1>5, <1>7, <1>8, <1>9, <1>11, <2>1, SeqIs DEF IsTarget
<1>12. CASE more
  <2>1. Target = Append(Vbs, last)
    BY <1>1, <1>12
  <2>2. /\ Target \in Seq(VarBinds) /\ Len(Target) = n + 1 /\ Target[n + 1] = last
        /\ \A k \in 1..n : Target[k] = Vbs[k]
    BY <1>5, <1>6, <2>1
  <2>3. IsTarget(last)
    BY <1>12 DEF IsTarget, last
  <2>4. \A k \in 1..Len(Target) : k \in 1..n \/ k = n + 1
    BY <1>3, <2>2
  <2>5. \A k \in 1..Len(Target) : IsTarget(Target[k])
    BY <1>7, <2>2, <2>3, <2>4
  <2>6. \A vb : IsTarget(vb) => \E k \in 1..Len(Target) : Target[k] = vb
    <3>1. 1..n \subseteq 1..Len(Target) /\ n + 1 \in 1..Len(Target)
      BY <1>3, <2>2
    <3> QED BY <1>8, <2>2, <3>1 DEF IsTarget, last
  <2>7. ASSUME NEW j \in 1..Len(Target), NEW k \in 1..Len(Target), j < k PROVE Target[j].name < Target[k].name
    <3>1. j \in 1..n
      BY <1>3, <2>2, <2>7
    <3> QED BY <1>6, <1>9, <1>10, <2>2, <2>4, <2>7, <3>1
  <2>8. IsSeq(Target)
    BY <2>2, SeqIs
  <2> QED BY <2>2, <2>5, <2>6, <2>7, <2>8
<1> QED BY <1>11, <1>12
\* The first k varbinds of T are those up to name x.
UpTo(T, x, k) == k \in 0..Len(T) /\ \A j \in 1..Len(T) : j <= k <=> T[j].name <= x

\* k varbinds of T have been printed, the ones up to name x; what was printed
\* after them are varbinds without a value, at the end of the walk.
Walked(T, sh, x, k) ==
    /\ UpTo(T, x, k)
    /\ IsSeq(sh) /\ k <= Len(sh) /\ \A j \in 1..k : sh[j] = T[j]
    /\ \A j \in 1..Len(sh) : j > k => ~IsValue(sh[j])
    /\ k < Len(sh) => k = Len(T)

WalkAsk(r, x, cur, open) ==
    /\ r.type = "GETNEXT" /\ r.id \in 1..cur
    /\ \E y \in 0..x : r.vbs = <<VarBind(y, Null)>> /\ (r.id = open => y = x)

WalkAnswer(r, x, cur, open, next, v2, stor) ==
    /\ r.id \in 1..cur
    /\ \E y \in 0..x : GoesOn(y, next, v2, stor, r) /\ (r.id = open => y = x)

\* The request a response is waited for, 0 for none.
UOpen == IF upc = "wait" THEN reqId ELSE 0
WOpen == IF session.nRequestId \in waiting THEN session.nRequestId ELSE 0

\* snmputil: x is the name the walk has come to, and asks for.
UWalk(T, x, k) ==
    /\ wpc = "start" /\ upc \in {"start", "request", "wait", "done"} /\ reqId \in Nat
    /\ \A r \in requests : WalkAsk(r, x, reqId, UOpen)
    /\ \A r \in replies : WalkAnswer(r, x, reqId, UOpen, job.next, job.v2, mib)
    /\ upc # "done" => ~failed /\ x \in Under(job.oids[1])
    /\ upc = "start" => x = job.oids[1]
    /\ upc \in {"request", "wait"} => vbs = <<VarBind(x, Null)>>
    /\ upc = "done" /\ ~failed /\ said # "error status" => k = Len(T)

\* wsnmputil: once a request was sent x is gVars.oid, the name asked for last
\* or of the last varbind.
WWalk(T, x, k) ==
    LET cur == session.nRequestId
    IN  /\ upc = "start" /\ ~gVars.doSet
        /\ \A r \in requests : WalkAsk(r, x, cur, WOpen)
        /\ \A r \in replies : WalkAnswer(r, x, cur, WOpen, job.next, job.v2, mib)
        /\ \A i \in 1..Len(queue) : queue[i].msg = "response" =>
              WalkAnswer(queue[i].r, x, cur, cur, job.next, job.v2, mib)
        /\ cur = 0 => x = job.oids[1]
        /\ cur > 0 => x = gVars.oid /\ gVars.startOid = job.oids[1]
        /\ job.op = "SUBTREE" /\ ~gVars.fDone => x \in Under(job.oids[1])
        /\ gVars.fDone => /\ cur \notin waiting
                          /\ \A i \in 1..Len(queue) : queue[i].msg = "response" => queue[i].r.id # cur
        /\ gVars.fDone \/ session.nErrorStatus # "noError" => k = Len(T)
        /\ said = "" /\ (~failed => result)
        /\ wpc = "done" /\ ~failed => k = Len(T)

WalkInv ==
    IsWalk => \E x \in Nat, k \in 0..Len(Target) :
        /\ Walked(Target, shown, x, k) /\ x >= job.oids[1]
        /\ job.program = "snmputil" => UWalk(Target, x, k)
        /\ job.program = "wsnmputil" => WWalk(Target, x, k)

\* What the answer to the GETNEXT for x says of the walk.
LEMMA OneStep ==
    ASSUME job \in Jobs, mib \in Storages, MibOK(mib), IsWalk, NEW T, T = Target,
           NEW x \in Nat, x >= job.oids[1], Subtree => x \in Under(job.oids[1]), NEW k, UpTo(T, x, k),
           NEW r, GoesOn(x, job.next, job.v2, mib, r), NEW vb, vb = r.vbs[1],
           NEW more \in BOOLEAN,
           more <=> r.status = "noError" /\ IsValue(vb) /\ (Subtree => vb.name \in Under(job.oids[1]))
    PROVE  /\ vb.name \in Nat /\ vb.name >= x /\ (~IsValue(vb) => vb.name = x)
           /\ more => k < Len(T) /\ vb = T[k + 1] /\ UpTo(T, vb.name, k + 1)
           /\ ~more => k = Len(T) /\ UpTo(T, vb.name, k)
<1> DEFINE root == job.oids[1]
<1>1. /\ Len(T) \in Nat /\ root \in Nat
      /\ \A j \in 1..Len(T) : IsTarget(T[j]) /\ T[j].name \in Nat
      /\ \A v : IsTarget(v) => \E j \in 1..Len(T) : T[j] = v
      /\ \A i, j \in 1..Len(T) : i < j => T[i].name < T[j].name
  <2>1. T \in Seq(VarBinds)
    BY TargetIs
  <2>2. ASSUME NEW j \in 1..Len(T) PROVE T[j].name \in Nat
    <3>1. T[j] \in VarBinds
      BY <2>1
    <3> QED BY <3>1 DEF VarBinds
  <2>3. root \in Nat
    <3>1. job.oids \in Seq(Nat) /\ Len(job.oids) = 1
      BY JobFacts DEF IsWalk
    <3> QED BY <3>1
  <2> QED BY <2>1, <2>2, <2>3, TargetIs
<1>2. /\ \A i \in Variables : NameOf(i) \in Nat /\ NameOf(i) < Foreign /\ IsValue(VarBind(NameOf(i), mib[i]))
      /\ \A i, j \in Variables : i <= j => NameOf(i) <= NameOf(j)
      /\ Foreign \in Nat
  <2>1. \A i \in Variables : mib[i].type \in {"int", "text"}
    BY Table DEF MibOK, Mib
  <2>2. \A i \in Variables : IsValue(VarBind(NameOf(i), mib[i]))
    BY <2>1, Records DEF IsValue
  <2> QED BY <2>2, Table DEF NameOf, Foreign
<1>3. k \in 0..Len(T) /\ \A j \in 1..Len(T) : j <= k <=> T[j].name <= x
  BY DEF UpTo
<1>4. ASSUME IsTarget(vb), vb.name \in Nat, vb.name > x, \A j \in 1..Len(T) : T[j].name > x => vb.name <= T[j].name
      PROVE  k < Len(T) /\ vb = T[k + 1] /\ UpTo(T, vb.name, k + 1)
  <2>1. PICK m \in 1..Len(T) : T[m] = vb
    BY <1>1, <1>4
  <2>2. ~(m <= k)
    BY <1>3, <1>4, <2>1
  <2>3. k + 1 \in 1..Len(T)
    BY <1>3, <2>2
  <2>4. T[k + 1].name > x
    BY <1>1, <1>3, <2>3
  <2>5. m = k + 1
    <3>1. vb.name <= T[k + 1].name
      BY <1>4, <2>3, <2>4
    <3>2. ASSUME k + 1 < m PROVE FALSE
      <4>1. T[k + 1].name < T[m].name
        BY <1>1, <2>3, <3>2
      <4>2. T[k + 1].name \in Nat /\ T[m].name = vb.name
        BY <1>1, <2>1, <2>3
      <4> QED BY <1>4, <3>1, <4>1, <4>2
    <3> QED BY <1>1, <1>3, <2>2, <2>3, <3>2
  <2>6. ASSUME NEW j \in 1..Len(T) PROVE j <= k + 1 <=> T[j].name <= vb.name
    <3>1. k + 1 \in Nat /\ j \in Nat /\ T[j].name \in Nat /\ vb.name = T[k + 1].name
      BY <1>1, <1>3, <2>1, <2>5
    <3>2. CASE j < k + 1
      <4>1. T[j].name < T[k + 1].name
        BY <1>1, <2>3, <3>2
      <4> QED BY <1>4, <3>1, <3>2, <4>1
    <3>3. CASE k + 1 < j
      <4>1. T[k + 1].name < T[j].name
        BY <1>1, <2>3, <3>3
      <4> QED BY <1>4, <3>1, <3>3, <4>1
    <3>4. CASE j = k + 1
      BY <1>4, <3>1, <3>4
    <3> QED BY <3>1, <3>2, <3>3, <3>4
  <2> QED BY <1>3, <2>1, <2>3, <2>5, <2>6 DEF UpTo
<1>5. ASSUME \A j \in 1..Len(T) : T[j].name <= x, vb.name \in Nat, vb.name >= x
      PROVE  k = Len(T) /\ UpTo(T, vb.name, k)
  <2>1. k = Len(T)
    <3>1. SUFFICES ASSUME k # Len(T) PROVE FALSE
      OBVIOUS
    <3>2. k + 1 \in 1..Len(T) /\ ~(k + 1 <= k)
      BY <1>1, <1>3, <3>1
    <3> QED BY <1>3, <1>5, <3>2
  <2> QED BY <1>1, <1>5, <2>1 DEF UpTo
<1>6. ASSUME NEW i, After1(i, x), vb = VarBind(NameOf(i), mib[i]), r.status = "noError"
      PROVE  /\ vb.name \in Nat /\ vb.name >= x /\ IsValue(vb)
             /\ more => k < Len(T) /\ vb = T[k + 1] /\ UpTo(T, vb.name, k + 1)
             /\ ~more => k = Len(T) /\ UpTo(T, vb.name, k)
  <2>1. i \in Variables /\ NameOf(i) > x /\ vb.name = NameOf(i) /\ \A j \in Variables : NameOf(j) > x => i <= j
    BY <1>6, Records DEF After1
  <2>2. vb.name \in Nat /\ vb.name > x /\ IsValue(vb) /\ vb.name < Foreign
    BY <1>2, <1>6, <2>1
  <2>3. ASSUME NEW j \in 1..Len(T), T[j].name > x
        PROVE  vb.name <= T[j].name /\ (Subtree => \E m \in In : T[j].name = NameOf(m) /\ NameOf(i) <= NameOf(m))
    <3>1. CASE \E m \in In : T[j] = VarBind(NameOf(m), mib[m])
      <4>1. PICK m \in In : T[j] = VarBind(NameOf(m), mib[m])
        BY <3>1
      <4>2. m \in Variables /\ T[j].name = NameOf(m)
        BY <4>1, Records DEF In
      <4> QED BY <1>2, <2>1, <2>3, <4>2
    <3>2. CASE ~Subtree /\ T[j] = VarBind(Foreign, Text(3))
      <4>1. T[j].name = Foreign
        BY <3>2, Records
      <4> QED BY <1>2, <2>2, <3>2, <4>1
    <3> QED BY <1>1, <3>1, <3>2 DEF IsTarget
  <2>4. CASE more
    <3>1. i \in In
      BY <1>1, <1>2, <2>1, <2>4 DEF In
    <3>2. IsTarget(vb)
      BY <1>6, <3>1 DEF IsTarget
    <3> QED BY <1>4, <2>2, <2>3, <2>4, <3>2
  <2>5. CASE ~more
    <3>1. Subtree /\ vb.name \notin Under(root)
      BY <1>6, <2>2, <2>5
    <3>2. ASSUME NEW j \in 1..Len(T), T[j].name > x PROVE FALSE
      <4>1. PICK m \in In : T[j].name = NameOf(m) /\ NameOf(i) <= NameOf(m)
        BY <2>3, <3>1, <3>2
      <4>2. NameOf(m) \in Under(root) /\ NameOf(m) \in Nat /\ x \in Under(root)
        BY <1>2, <3>1, <4>1 DEF In
      <4>3. x <= vb.name /\ vb.name <= NameOf(m) /\ x \in Nat
        BY <2>1, <2>2, <4>1, <4>2
      <4>4. vb.name \in Under(root)
        BY <1>1, <2>2, <4>2, <4>3, UnderBetween
      <4> QED BY <3>1, <4>4
    <3>3. \A j \in 1..Len(T) : T[j].name <= x
      BY <1>1, <3>2
    <3> QED BY <1>5, <2>2, <2>5, <3>3
  <2> QED BY <2>2, <2>4, <2>5
<1>7. ASSUME NoneAfter(x), job.next, x < Foreign, vb = VarBind(Foreign, Text(3)), r.status = "noError"
      PROVE  /\ vb.name \in Nat /\ vb.name >= x /\ IsValue(vb)
             /\ more => k < Len(T) /\ vb = T[k + 1] /\ UpTo(T, vb.name, k + 1)
             /\ ~more => k = Len(T) /\ UpTo(T, vb.name, k)
  <2>1. vb.name = Foreign /\ IsValue(vb)
    BY <1>7, Records DEF IsValue, Text, Value
  <2>2. vb.name \in Nat /\ vb.name > x
    BY <1>2, <1>7, <2>1
  <2>3. ASSUME NEW j \in 1..Len(T), T[j].name > x PROVE ~Subtree /\ T[j].name = Foreign
    <3>1. \A m \in In : T[j] # VarBind(NameOf(m), mib[m])
      <4>1. ASSUME NEW m \in In, T[j] = VarBind(NameOf(m), mib[m]) PROVE FALSE
        <5>1. T[j].name = NameOf(m) /\ m \in Variables
          BY <4>1, Records DEF In
        <5> QED BY <1>2, <1>7, <2>3, <5>1 DEF NoneAfter
      <4> QED BY <4>1
    <3> QED BY <1>1, <3>1, Records DEF IsTarget
  <2>4. CASE more
    <3>1. ~Subtree
      <4>1. SUFFICES ASSUME Subtree PROVE FALSE
        OBVIOUS
      <4>2. Foreign \in Under(root) /\ x \in Under(root) /\ Foreign = Outside + 1
        BY <2>1, <2>4, <4>1 DEF Foreign
      <4>3. Outside = 12 /\ Foreign = 13
        BY <4>2, Table
      <4>5. root # 0
        BY <4>2, <4>3 DEF Under
      <4>6. CASE root % 2 = 1
        <5>1. Foreign \in {root, root + 1} /\ x \in {root, root + 1}
          BY <4>2, <4>5, <4>6 DEF Under
        <5>2. root = 13
          <6>1. root = 13 \/ root = 12
            BY <1>1, <4>3, <5>1
          <6>2. root # 12
            BY <4>6
          <6> QED BY <6>1, <6>2
        <5> QED BY <1>7, <4>3, <5>1, <5>2
      <4>7. CASE root % 2 # 1
        <5>1. Foreign \in {root} /\ x \in {root}
          BY <4>2, <4>5, <4>7 DEF Under
        <5> QED BY <1>7, <4>3, <5>1
      <4> QED BY <4>6, <4>7
    <3>2. root < Foreign
      BY <1>1, <1>2, <1>7
    <3>3. IsTarget(vb)
      BY <1>7, <3>1, <3>2 DEF IsTarget
    <3>4. \A j \in 1..Len(T) : T[j].name > x => vb.name <= T[j].name
      BY <2>1, <2>2, <2>3
    <3> QED BY <1>4, <2>2, <2>4, <3>3, <3>4
  <2>5. CASE ~more
    <3>1. Subtree
      BY <1>7, <2>1, <2>5
    <3>2. \A j \in 1..Len(T) : T[j].name <= x
      BY <1>1, <2>3, <3>1
    <3>3. vb.name >= x
      BY <2>2
    <3> QED BY <1>5, <2>1, <2>2, <2>5, <3>2, <3>3
  <2> QED BY <2>1, <2>2, <2>4, <2>5
<1>8. ASSUME NoneAfter(x), ~(job.next /\ x < Foreign), NEW e \in {Value("end", 0), Null}, vb = VarBind(x, e)
      PROVE  vb.name = x /\ ~IsValue(vb) /\ ~more /\ k = Len(T) /\ UpTo(T, vb.name, k)
  <2>1. vb.name = x /\ ~IsValue(vb)
    BY <1>8, Records DEF IsValue, Null, Value
  <2>2. ASSUME NEW j \in 1..Len(T) PROVE T[j].name <= x
    <3>1. CASE \E m \in In : T[j] = VarBind(NameOf(m), mib[m])
      <4>1. PICK m \in In : T[j] = VarBind(NameOf(m), mib[m])
        BY <3>1
      <4>2. T[j].name = NameOf(m) /\ m \in Variables
        BY <4>1, Records DEF In
      <4> QED BY <1>8, <4>2 DEF NoneAfter
    <3>2. CASE job.next /\ T[j] = VarBind(Foreign, Text(3))
      <4>1. T[j].name = Foreign /\ ~(x < Foreign)
        BY <1>8, <3>2, Records
      <4> QED BY <1>2, <4>1
    <3> QED BY <1>1, <3>1, <3>2 DEF IsTarget
  <2> QED BY <1>5, <2>1, <2>2
<1>9. CASE \E i \in Variables : After1(i, x) /\ vb = VarBind(NameOf(i), mib[i]) /\ r.status = "noError"
  BY <1>6, <1>9
<1>10. CASE NoneAfter(x) /\ job.next /\ x < Foreign /\ vb = VarBind(Foreign, Text(3)) /\ r.status = "noError"
  BY <1>7, <1>10
<1>11. CASE NoneAfter(x) /\ ~(job.next /\ x < Foreign) /\ \E e \in {Value("end", 0), Null} : vb = VarBind(x, e)
  BY <1>8, <1>11
<1>12. \/ \E i \in Variables : After1(i, x) /\ vb = VarBind(NameOf(i), mib[i]) /\ r.status = "noError"
       \/ NoneAfter(x) /\ job.next /\ x < Foreign /\ vb = VarBind(Foreign, Text(3)) /\ r.status = "noError"
       \/ NoneAfter(x) /\ ~(job.next /\ x < Foreign) /\ \E e \in {Value("end", 0), Null} : vb = VarBind(x, e)
  BY DEF GoesOn
<1> QED BY <1>9, <1>10, <1>11, <1>12

LEMMA TargetKept ==
    ASSUME job' = job, mib' = mib
    PROVE  Target' = Target /\ In' = In /\ (IsWalk' <=> IsWalk) /\ (Subtree' <=> Subtree)
<1>1. (IsWalk' <=> IsWalk) /\ (Subtree' <=> Subtree)
  BY DEF IsWalk, Subtree
<1>2. In' = In
  BY <1>1 DEF In
<1>3. Target' = Target
  BY <1>1, <1>2 DEF Target
<1> QED BY <1>1, <1>2, <1>3

LEMMA WalkGoal ==
    ASSUME job' = job, mib' = mib, NEW T, T = Target, NEW x \in Nat, x >= job.oids[1],
           NEW k, Walked(T, shown', x, k),
           job.program = "snmputil" => UWalk(T, x, k)', job.program = "wsnmputil" => WWalk(T, x, k)'
    PROVE  WalkInv'
<1>1. Target' = T
  BY TargetKept
<1>2. k \in 0..Len(T)
  BY DEF Walked, UpTo
<1> QED BY <1>1, <1>2 DEF WalkInv

\* m is what a GETNEXT r is answered with.
AnswersGetNext(r, next, v2, stor, m) ==
    m.id = r.id /\ \A y \in Nat : r.vbs = <<VarBind(y, Null)>> => GoesOn(y, next, v2, stor, m)

\* As long as all requests are GETNEXTs the agent only answers them.
LEMMA AgentWalks ==
    ASSUME AgentTyped, job.op # "trap", \A r \in requests : r.type = "GETNEXT", AgentNext
    PROVE  /\ job' = job /\ mib' = mib /\ UNCHANGED screen /\ requests' \subseteq requests
           /\ \/ replies' = replies
              \/ \E r \in requests : \E m : /\ replies' = replies \cup {m}
                                        /\ AnswersGetNext(r, job.next, job.v2, mib, m)
<1>1. job \in Jobs /\ mib \in Storages /\ job' = job
  BY AgentSteps DEF AgentTyped
<1>2. ASSUME NEW r, NEW again, SnmpExtensionQuery(r, again)
      PROVE  /\ mib' = mib /\ UNCHANGED screen /\ requests' \subseteq requests
             /\ \/ replies' = replies
                \/ \E m : /\ r \in requests /\ replies' = replies \cup {m}
                          /\ AnswersGetNext(r, job.next, job.v2, mib, m)
  <2> DEFINE q == Query(IF r.type = "GETBULK" THEN "GETNEXT" ELSE r.type, r.vbs, mib)
             m == Response(r, q)
  <2>1. /\ r \in requests /\ requests' \subseteq requests /\ r.type = "GETNEXT" /\ UNCHANGED screen
        /\ \A I \in DOMAIN r.vbs : InView(r.vbs[I].name)
    BY <1>2 DEF SnmpExtensionQuery
  <2>2. mib' = q.stor /\ replies' = replies \cup (IF r.id = 0 THEN {} ELSE {m})
    BY <1>2, <2>1 DEF SnmpExtensionQuery
  <2>3. q = Query(r.type, r.vbs, mib)
    BY <2>1
  <2>4. mib' = mib
    <3>1. r.vbs \in Seq(VarBinds)
      BY <2>1 DEF AgentTyped, RequestsOK, RequestOK
    <3> QED BY <1>1, <2>1, <2>2, <2>3, <3>1, QueryTyped DEF Actions
  <2> HIDE DEF q
  <2>5. m.id = r.id
    BY <2>1 DEF Response, Reply
  <2>6. ASSUME NEW y \in Nat, r.vbs = <<VarBind(y, Null)>> PROVE GoesOn(y, job.next, job.v2, mib, m)
    <3>1. y < Outside
      <4>1. 1 \in DOMAIN r.vbs /\ r.vbs[1].name = y
        BY <2>6, Records
      <4> QED BY <2>1, <4>1 DEF InView
    <3> QED BY <1>1, <2>1, <2>3, <2>6, <3>1, WalkResponse
  <2>7. AnswersGetNext(r, job.next, job.v2, mib, m)
    BY <2>5, <2>6 DEF AnswersGetNext
  <2> HIDE DEF m
  <2> QED BY <2>1, <2>2, <2>4, <2>7
<1>3. ASSUME NEW r, AnsweredElsewhere(r)
      PROVE  /\ mib' = mib /\ UNCHANGED screen /\ requests' \subseteq requests
             /\ \/ replies' = replies
                \/ \E m : /\ r \in requests /\ replies' = replies \cup {m}
                          /\ AnswersGetNext(r, job.next, job.v2, mib, m)
  <2> DEFINE m == Elsewhere(r)
  <2>1. /\ r \in requests /\ requests' \subseteq requests /\ r.type = "GETNEXT" /\ UNCHANGED screen
        /\ mib' = mib /\ ~(r.vbs[1].name < Outside)
        /\ replies' = replies \/ replies' = replies \cup {m}
    BY <1>3 DEF AnsweredElsewhere, agent, InView
  <2>2. m.id = r.id
    BY DEF Elsewhere, Reply
  <2>3. ASSUME NEW y \in Nat, r.vbs = <<VarBind(y, Null)>> PROVE GoesOn(y, job.next, job.v2, mib, m)
    <3>1. ~(y < Outside)
      <4>1. r.vbs[1].name = y
        BY <2>3, Records
      <4> QED BY <2>1, <4>1
    <3> QED BY <1>1, <2>1, <2>3, <3>1, WalkElsewhere
  <2>4. AnswersGetNext(r, job.next, job.v2, mib, m)
    BY <2>2, <2>3 DEF AnswersGetNext
  <2> HIDE DEF m
  <2> QED BY <2>1, <2>4
<1>4. ASSUME TrapWake \/ SnmpExtensionTrap
      PROVE  mib' = mib /\ UNCHANGED screen /\ requests' = requests /\ replies' = replies
  BY <1>4 DEF TrapWake, SnmpExtensionTrap, net
<1>5. ~OtherManager
  BY DEF OtherManager
<1> QED BY <1>1, <1>2, <1>3, <1>4, <1>5 DEF AgentNext

LEMMA WalkAgent ==
    ASSUME AgentTyped, WalkInv, IsWalk, AgentNext, UNCHANGED <<util, wutil>>
    PROVE  WalkInv'
<1>1. job.op # "trap" /\ job.program \in Programs
  BY JobFacts DEF IsWalk, AgentTyped
<1>2. PICK x \in Nat, k \in 0..Len(Target) :
         /\ Walked(Target, shown, x, k) /\ x >= job.oids[1]
         /\ job.program = "snmputil" => UWalk(Target, x, k)
         /\ job.program = "wsnmputil" => WWalk(Target, x, k)
  BY DEF WalkInv
<1>3. PICK T : T = Target
  OBVIOUS
<1>4. \A r \in requests : r.type = "GETNEXT"
  BY <1>1, <1>2 DEF Programs, UWalk, WWalk, WalkAsk
<1>5. /\ job' = job /\ mib' = mib /\ UNCHANGED screen /\ requests' \subseteq requests
      /\ \/ replies' = replies
         \/ \E r \in requests : \E m : /\ replies' = replies \cup {m}
                                   /\ AnswersGetNext(r, job.next, job.v2, mib, m)
  BY <1>1, <1>4, AgentWalks
<1>6. ASSUME NEW cur, NEW open, \A r \in requests : WalkAsk(r, x, cur, open),
             \A r \in replies : WalkAnswer(r, x, cur, open, job.next, job.v2, mib)
      PROVE  /\ \A r \in requests' : WalkAsk(r, x, cur, open)
             /\ \A r \in replies' : WalkAnswer(r, x, cur, open, job.next, job.v2, mib)
  <2>1. ASSUME NEW r \in requests, NEW m, AnswersGetNext(r, job.next, job.v2, mib, m)
        PROVE  WalkAnswer(m, x, cur, open, job.next, job.v2, mib)
    <3>1. PICK y \in 0..x : r.vbs = <<VarBind(y, Null)>> /\ (r.id = open => y = x)
      BY <1>6 DEF WalkAsk
    <3>2. GoesOn(y, job.next, job.v2, mib, m) /\ m.id = r.id /\ r.id \in 1..cur
      BY <1>6, <2>1, <3>1 DEF AnswersGetNext, WalkAsk
    <3> QED BY <3>1, <3>2 DEF WalkAnswer
  <2> QED BY <1>5, <1>6, <2>1
<1>7. job.program = "snmputil" => UWalk(T, x, k)'
  <2>1. SUFFICES ASSUME UWalk(T, x, k) PROVE UWalk(T, x, k)'
    BY <1>2, <1>3
  <2>2. UNCHANGED <<wpc, upc, reqId, vbs, failed, said, job, mib>>
    BY <1>5 DEF util, wutil, screen
  <2>3. /\ \A r \in requests' : WalkAsk(r, x, reqId, UOpen)
        /\ \A r \in replies' : WalkAnswer(r, x, reqId, UOpen, job.next, job.v2, mib)
    BY <1>6, <2>1 DEF UWalk
  <2>4. UOpen' = UOpen
    BY <2>2 DEF UOpen
  <2> QED BY <2>1, <2>2, <2>3, <2>4 DEF UWalk
<1>8. job.program = "wsnmputil" => WWalk(T, x, k)'
  <2>1. SUFFICES ASSUME WWalk(T, x, k) PROVE WWalk(T, x, k)'
    BY <1>2, <1>3
  <2>2. UNCHANGED <<wpc, upc, gVars, session, queue, waiting, result, failed, said, job, mib>>
    BY <1>5 DEF util, wutil, screen
  <2> DEFINE cur == session.nRequestId
  <2>3. /\ \A r \in requests' : WalkAsk(r, x, cur, WOpen)
        /\ \A r \in replies' : WalkAnswer(r, x, cur, WOpen, job.next, job.v2, mib)
    BY <1>6, <2>1 DEF WWalk
  <2>4. WOpen' = WOpen
    BY <2>2 DEF WOpen
  <2> QED BY <2>1, <2>2, <2>3, <2>4 DEF WWalk
<1>9. shown' = shown
  BY <1>5 DEF screen
<1> QED BY <1>2, <1>3, <1>5, <1>7, <1>8, <1>9, WalkGoal

\* The walk goes on to name z and to another request, or waits for none.
LEMMA AskOn ==
    ASSUME NEW x \in Nat, NEW z \in Nat, z >= x, NEW cur \in Nat, NEW r, NEW open, WalkAsk(r, x, cur, open)
    PROVE  WalkAsk(r, z, cur, 0) /\ WalkAsk(r, z, cur + 1, 0) /\ WalkAsk(r, z, cur + 1, cur + 1)
<1>1. 0..x \subseteq 0..z /\ 1..cur \subseteq 1..(cur + 1) /\ cur + 1 \notin 1..cur /\ 0 \notin 1..(cur + 1)
  OBVIOUS
<1> QED BY <1>1 DEF WalkAsk

LEMMA AnswerOn ==
    ASSUME NEW x \in Nat, NEW z \in Nat, z >= x, NEW cur \in Nat, NEW r, NEW open,
           NEW next, NEW v2, NEW stor, WalkAnswer(r, x, cur, open, next, v2, stor)
    PROVE  /\ WalkAnswer(r, z, cur, 0, next, v2, stor)
           /\ WalkAnswer(r, z, cur + 1, 0, next, v2, stor)
           /\ WalkAnswer(r, z, cur + 1, cur + 1, next, v2, stor)
<1>1. 0..x \subseteq 0..z /\ 1..cur \subseteq 1..(cur + 1) /\ cur + 1 \notin 1..cur /\ 0 \notin 1..(cur + 1)
  OBVIOUS
<1> QED BY <1>1 DEF WalkAnswer

\* A varbind is printed.
LEMMA WalkedOn ==
    ASSUME NEW T, Len(T) \in Nat, NEW sh, NEW x, NEW k, Walked(T, sh, x, k), NEW vb, NEW z
    PROVE  /\ k < Len(T) /\ vb = T[k + 1] /\ UpTo(T, z, k + 1) => Walked(T, Append(sh, vb), z, k + 1)
           /\ ~IsValue(vb) /\ k = Len(T) /\ UpTo(T, z, k) => Walked(T, Append(sh, vb), z, k)
<1> DEFINE a == Append(sh, vb)
<1>1. /\ IsSeq(sh) /\ k \in 0..Len(T) /\ k <= Len(sh) /\ (\A j \in 1..k : sh[j] = T[j])
      /\ (\A j \in 1..Len(sh) : j > k => ~IsValue(sh[j])) /\ (k < Len(sh) => k = Len(T))
      /\ Len(sh) \in Nat
  BY DEF Walked, UpTo, IsSeq
<1>2. IsSeq(a) /\ Len(a) = Len(sh) + 1 /\ a[Len(sh) + 1] = vb /\ \A i \in 1..Len(sh) : a[i] = sh[i]
  BY <1>1, QueueAppend
<1> HIDE DEF a
<1>3. ASSUME k < Len(T), vb = T[k + 1], UpTo(T, z, k + 1) PROVE Walked(T, a, z, k + 1)
  <2>1. k = Len(sh)
    BY <1>1, <1>3
  <2>2. \A j \in 1..(k + 1) : a[j] = T[j]
    BY <1>1, <1>2, <1>3, <2>1
  <2>3. \A j \in 1..Len(a) : ~(j > k + 1)
    BY <1>1, <1>2, <2>1
  <2> QED BY <1>1, <1>2, <1>3, <2>1, <2>2, <2>3 DEF Walked
<1>4. ASSUME ~IsValue(vb), k = Len(T), UpTo(T, z, k) PROVE Walked(T, a, z, k)
  <2>1. \A j \in 1..k : a[j] = T[j]
    BY <1>1, <1>2
  <2>2. \A j \in 1..Len(a) : j > k => ~IsValue(a[j])
    <3>1. \A j \in 1..Len(a) : (j \in 1..Len(sh) /\ a[j] = sh[j]) \/ a[j] = vb
      BY <1>1, <1>2
    <3> QED BY <1>1, <1>4, <3>1
  <2> QED BY <1>1, <1>2, <1>4, <2>1, <2>2 DEF Walked
<1> QED BY <1>3, <1>4 DEF a

LEMMA WalkSnmputil ==
    ASSUME AgentTyped, IsWalk, job.program = "snmputil"
    PROVE  job.op = "WALK" /\ Subtree /\ ~job.v2 /\ Len(job.oids) = 1 /\ job.oids[1] \in Nat
           /\ job \in Jobs /\ mib \in Storages /\ MibOK(mib)
<1>1. job \in Jobs /\ mib \in Storages /\ MibOK(mib)
  BY DEF AgentTyped
<1>2. job.op = "WALK"
  BY <1>1, JobFacts DEF Operations, IsWalk
<1>3. job.oids \in Seq(Nat) /\ Len(job.oids) = 1
  BY <1>1, JobFacts DEF IsWalk
<1> QED BY <1>1, <1>2, <1>3, JobFacts DEF Subtree

LEMMA WalkUOther ==
    ASSUME AgentTyped, WalkInv, IsWalk, mib' = mib, wpc' = wpc,
           UStep \/ UGivesUp \/ UTrapArrives \/ \E r : ULate(r)
    PROVE  WalkInv'
<1>1. job.program = "snmputil" /\ job' = job
  <2>1. job' = job
    BY DEF UStep, UGivesUp, UTrapArrives, ULate, UParse, USend, UListen, UTrapWait, UResetEvent, UDrain
  <2> QED BY <2>1 DEF UStep, UGivesUp, UTrapArrives, ULate, UParse, USend, UListen, UTrapWait,
                      UResetEvent, UDrain, Mine
<1>2. PICK x \in Nat, k \in 0..Len(Target) :
         Walked(Target, shown, x, k) /\ x >= job.oids[1] /\ UWalk(Target, x, k)
  BY <1>1 DEF WalkInv
<1>3. PICK T : T = Target
  OBVIOUS
<1> DEFINE Now == UWalk(T, x, k)
<1>4. Now /\ Walked(T, shown, x, k)
  BY <1>2, <1>3
<1>5. job.op = "WALK" /\ Len(job.oids) = 1 /\ job.oids[1] \in Nat
  BY <1>1, WalkSnmputil
<1>6. SUFFICES shown' = shown /\ UWalk(T, x, k)'
  BY <1>1, <1>2, <1>3, <1>4, WalkGoal
<1>7. CASE UParse
  <2>1. /\ upc = "start" /\ upc' = "request" /\ vbs' = [i \in DOMAIN job.oids |-> VarBind(job.oids[i], Null)]
        /\ UNCHANGED <<requests, replies, shown, reqId, said, failed>>
    BY <1>5, <1>7 DEF UParse, net
  <2>2. vbs' = <<VarBind(x, Null)>>
    <3>1. x = job.oids[1] /\ DOMAIN job.oids = 1..1
      <4>1. job.oids \in Seq(Nat)
        BY JobFacts DEF AgentTyped
      <4> QED BY <1>4, <1>5, <2>1, <4>1 DEF UWalk
    <3> QED BY <2>1, <3>1
  <2>3. UOpen' = UOpen
    BY <2>1 DEF UOpen
  <2> QED BY <1>1, <1>4, <2>1, <2>2, <2>3 DEF UWalk
<1>8. CASE USend
  <2> DEFINE m == Request(reqId + 1, "GETNEXT", vbs)
  <2>1. /\ upc = "request" /\ upc' = "wait" /\ requests' = requests \cup {m} /\ reqId' = reqId + 1
        /\ UNCHANGED <<replies, shown, said, failed, vbs>>
    BY <1>5, <1>8 DEF USend, RequestType, screen
  <2>2. vbs = <<VarBind(x, Null)>> /\ reqId \in Nat
    BY <1>4, <2>1 DEF UWalk
  <2>3. WalkAsk(m, x, reqId + 1, reqId + 1)
    <3>1. m.id = reqId + 1 /\ m.type = "GETNEXT" /\ m.vbs = <<VarBind(x, Null)>>
      BY <2>2 DEF Request
    <3>2. reqId + 1 \in 1..(reqId + 1) /\ x \in 0..x
      BY <2>2
    <3> HIDE DEF m
    <3> QED BY <3>1, <3>2 DEF WalkAsk
  <2>4. ASSUME NEW r \in requests PROVE WalkAsk(r, x, reqId + 1, reqId + 1)
    <3>1. WalkAsk(r, x, reqId, UOpen)
      BY <1>4 DEF UWalk
    <3> QED BY <2>2, <3>1, AskOn
  <2>5. ASSUME NEW r \in replies PROVE WalkAnswer(r, x, reqId + 1, reqId + 1, job.next, job.v2, mib)
    <3>1. WalkAnswer(r, x, reqId, UOpen, job.next, job.v2, mib)
      BY <1>4 DEF UWalk
    <3> QED BY <2>2, <3>1, AnswerOn
  <2>6. UOpen' = reqId + 1
    BY <2>1 DEF UOpen
  <2> HIDE DEF m
  <2> QED BY <1>1, <1>4, <2>1, <2>2, <2>3, <2>4, <2>5, <2>6 DEF UWalk
<1>9. CASE UGivesUp
  <2>1. upc' = "done" /\ failed' = TRUE /\ UNCHANGED <<requests, replies, shown, reqId>>
    BY <1>9 DEF UGivesUp, Finish
  <2>2. ASSUME NEW r \in requests PROVE WalkAsk(r, x, reqId, 0)
    <3>1. WalkAsk(r, x, reqId, UOpen) /\ reqId \in Nat
      BY <1>4 DEF UWalk
    <3> QED BY <3>1, AskOn
  <2>3. ASSUME NEW r \in replies PROVE WalkAnswer(r, x, reqId, 0, job.next, job.v2, mib)
    <3>1. WalkAnswer(r, x, reqId, UOpen, job.next, job.v2, mib) /\ reqId \in Nat
      BY <1>4 DEF UWalk
    <3> QED BY <3>1, AnswerOn
  <2>4. UOpen' = 0
    BY <2>1 DEF UOpen
  <2> QED BY <1>1, <1>4, <2>1, <2>2, <2>3, <2>4 DEF UWalk
<1>10. ASSUME NEW r, ULate(r) PROVE shown' = shown /\ UWalk(T, x, k)'
  <2>1. replies' \subseteq replies /\ UNCHANGED <<requests, shown, failed, said, upc, vbs, reqId>>
    BY <1>10 DEF ULate, screen, util
  <2>2. UOpen' = UOpen
    BY <2>1 DEF UOpen
  <2> QED BY <1>1, <1>4, <2>1, <2>2 DEF UWalk
<1>11. CASE UTrapArrives
  <2>1. UNCHANGED <<requests, replies, shown, failed, said, upc, vbs, reqId>>
    BY <1>11 DEF UTrapArrives
  <2>2. UOpen' = UOpen
    BY <2>1 DEF UOpen
  <2> QED BY <1>1, <1>4, <2>1, <2>2 DEF UWalk
<1>12. ~UListen /\ ~UTrapWait /\ ~UResetEvent /\ ~UDrain
  BY <1>4, <1>5 DEF UListen, UTrapWait, UResetEvent, UDrain, UWalk
<1> QED BY <1>7, <1>8, <1>9, <1>10, <1>11, <1>12 DEF UStep

\* At version 1 a varbind without a value comes with an error.
LEMMA GoesOnV1 ==
    ASSUME MibOK(mib), NEW x, NEW next, NEW r, GoesOn(x, next, FALSE, mib, r)
    PROVE  r.status = "noSuchName" \/ (r.status = "noError" /\ IsValue(r.vbs[1]))
<1>1. \A i \in Variables : mib[i].type \in {"int", "text"}
  BY Table DEF MibOK, Mib
<1>2. \A i \in Variables : IsValue(VarBind(NameOf(i), mib[i]))
  BY <1>1, Records DEF IsValue
<1>3. IsValue(VarBind(Foreign, Text(3)))
  BY Records DEF IsValue, Text, Value
<1> QED BY <1>2, <1>3 DEF GoesOn, After1

LEMMA WalkUAnswered ==
    ASSUME AgentTyped, WalkInv, IsWalk, mib' = mib, wpc' = wpc, NEW r, UAnswered(r)
    PROVE  WalkInv'
<1>1. /\ job.program = "snmputil" /\ job' = job /\ upc = "wait" /\ r \in replies /\ r.id = reqId
      /\ replies' = replies \ {r} /\ UNCHANGED <<requests, failed, reqId>>
  BY DEF UAnswered, Mine
<1>2. PICK x \in Nat, k \in 0..Len(Target) :
         Walked(Target, shown, x, k) /\ x >= job.oids[1] /\ UWalk(Target, x, k)
  BY <1>1 DEF WalkInv
<1>3. PICK T : T = Target
  OBVIOUS
<1> DEFINE Now == UWalk(T, x, k)
           root == job.oids[1]
           vb == r.vbs[1]
<1>4. Now /\ Walked(T, shown, x, k) /\ UpTo(T, x, k) /\ Len(T) \in Nat
  <2>1. T \in Seq(VarBinds)
    BY <1>3, TargetIs DEF AgentTyped
  <2>2. Len(T) \in Nat
    BY <2>1
  <2> QED BY <1>2, <1>3, <2>2 DEF Walked
<1>5. /\ job.op = "WALK" /\ Subtree /\ ~job.v2 /\ Len(job.oids) = 1 /\ root \in Nat
      /\ job \in Jobs /\ mib \in Storages /\ MibOK(mib)
  BY <1>1, WalkSnmputil
<1>6. GoesOn(x, job.next, job.v2, mib, r)
  <2>1. UOpen = reqId /\ WalkAnswer(r, x, reqId, UOpen, job.next, job.v2, mib)
    BY <1>1, <1>4 DEF UWalk, UOpen
  <2> QED BY <1>1, <2>1 DEF WalkAnswer
<1>7. r.status = "noSuchName" \/ (r.status = "noError" /\ IsValue(vb))
  <2>1. job.v2 = FALSE
    BY <1>5, JobFacts
  <2> QED BY <1>5, <1>6, <2>1, GoesOnV1
<1>8. PICK more \in BOOLEAN : more <=> r.status = "noError" /\ IsValue(vb) /\ (Subtree => vb.name \in Under(root))
  <2>1. \/ TRUE <=> r.status = "noError" /\ IsValue(vb) /\ (Subtree => vb.name \in Under(root))
        \/ FALSE <=> r.status = "noError" /\ IsValue(vb) /\ (Subtree => vb.name \in Under(root))
    OBVIOUS
  <2> QED BY <2>1
<1>9. x \in Under(root)
  BY <1>1, <1>4 DEF UWalk
<1>10. PICK v : v = vb
  OBVIOUS
<1>11. /\ v.name \in Nat /\ v.name >= x
       /\ more => k < Len(T) /\ v = T[k + 1] /\ UpTo(T, v.name, k + 1)
       /\ ~more => k = Len(T)
  BY <1>2, <1>3, <1>4, <1>5, <1>6, <1>8, <1>9, <1>10, OneStep
<1>13. ASSUME NEW m \in requests PROVE WalkAsk(m, v.name, reqId, 0) /\ WalkAsk(m, x, reqId, 0)
  <2>1. WalkAsk(m, x, reqId, UOpen) /\ reqId \in Nat
    BY <1>4 DEF UWalk
  <2>2. x \in Nat /\ v.name \in Nat /\ v.name >= x /\ x >= x
    BY <1>11
  <2>3. WalkAsk(m, v.name, reqId, 0)
    BY <2>1, <2>2, AskOn
  <2>4. WalkAsk(m, x, reqId, 0)
    BY <2>1, <2>2, AskOn
  <2> QED BY <2>3, <2>4
<1>14. ASSUME NEW m \in replies
       PROVE  /\ WalkAnswer(m, v.name, reqId, 0, job.next, job.v2, mib)
              /\ WalkAnswer(m, x, reqId, 0, job.next, job.v2, mib)
  <2>1. WalkAnswer(m, x, reqId, UOpen, job.next, job.v2, mib) /\ reqId \in Nat
    BY <1>4 DEF UWalk
  <2>2. x \in Nat /\ v.name \in Nat /\ v.name >= x /\ x >= x
    BY <1>11
  <2>3. WalkAnswer(m, v.name, reqId, 0, job.next, job.v2, mib)
    BY <2>1, <2>2, AnswerOn
  <2>4. WalkAnswer(m, x, reqId, 0, job.next, job.v2, mib)
    BY <2>1, <2>2, AnswerOn
  <2> QED BY <2>3, <2>4
<1>15. CASE Over(r)
  <2>1. upc' = "done" /\ shown' = shown /\ said' = "end of subtree"
    BY <1>5, <1>15 DEF UAnswered, Finish
  <2>2. k = Len(T)
    BY <1>8, <1>11, <1>15, <1>5 DEF Over
  <2>3. UOpen' = 0
    BY <2>1 DEF UOpen
  <2>4. UWalk(T, x, k)'
    BY <1>1, <1>4, <1>13, <1>14, <2>1, <2>2, <2>3 DEF UWalk
  <2> QED BY <1>1, <1>2, <1>3, <1>4, <2>1, <2>4, WalkGoal
<1>16. CASE ~Over(r)
  <2>1. r.status = "noError" /\ vb.name \in Under(root) /\ more
    BY <1>5, <1>7, <1>8, <1>16 DEF Over
  <2>2. /\ shown' = Append(shown, v) /\ vbs' = <<VarBind(v.name, Null)>>
        /\ upc' = "request" /\ said' = said
    BY <1>5, <1>10, <1>16, <2>1 DEF UAnswered, NextBindings
  <2>3. Walked(T, shown', v.name, k + 1)
    BY <1>4, <1>11, <2>1, <2>2, WalkedOn
  <2>4. UOpen' = 0
    BY <2>2 DEF UOpen
  <2>5. v.name \in Under(root) /\ v.name >= root
    BY <1>2, <1>5, <1>10, <1>11, <2>1
  <2>6. UWalk(T, v.name, k + 1)'
    BY <1>1, <1>4, <1>13, <1>14, <2>2, <2>4, <2>5 DEF UWalk
  <2> QED BY <1>1, <1>3, <1>11, <2>3, <2>5, <2>6, WalkGoal
<1> QED BY <1>15, <1>16

LEMMA WalkWSnmputil ==
    ASSUME AgentTyped, IsWalk, job.program = "wsnmputil"
    PROVE  /\ job.op \in {"WALK", "SUBTREE"} /\ (Subtree <=> job.op = "SUBTREE")
           /\ Len(job.oids) = 1 /\ job.oids[1] \in Nat /\ job \in Jobs /\ mib \in Storages /\ MibOK(mib)
<1>1. job \in Jobs /\ mib \in Storages /\ MibOK(mib)
  BY DEF AgentTyped
<1>2. job.oids \in Seq(Nat) /\ Len(job.oids) = 1
  BY <1>1, JobFacts DEF IsWalk
<1> QED BY <1>1, <1>2 DEF Subtree, IsWalk

LEMMA WalkWStart ==
    ASSUME AgentTyped, WUtilTyped, OnceInv, WalkInv, IsWalk, mib' = mib, upc' = upc, WStart \/ WRefused
    PROVE  WalkInv'
<1>1. /\ job.program = "wsnmputil" /\ job' = job
      /\ UNCHANGED <<requests, replies, queue, shown, said, session, waiting>>
  BY DEF WStart, WRefused, WMine, net
<1>2. PICK x \in Nat, k \in 0..Len(Target) :
         Walked(Target, shown, x, k) /\ x >= job.oids[1] /\ WWalk(Target, x, k)
  BY <1>1 DEF WalkInv
<1>3. PICK T : T = Target
  OBVIOUS
<1> DEFINE Now == WWalk(T, x, k)
<1>4. Now /\ Walked(T, shown, x, k)
  BY <1>2, <1>3
<1>5. job.op \in {"WALK", "SUBTREE"}
  BY <1>1, WalkWSnmputil
<1>6. SUFFICES WWalk(T, x, k)'
  BY <1>1, <1>2, <1>3, <1>4, WalkGoal
<1>7. /\ gVars'.doSet <=> gVars.doSet
      /\ gVars'.oid = gVars.oid /\ gVars'.startOid = gVars.startOid /\ gVars'.fDone = gVars.fDone
  <2>1. CASE WStart
    <3>1. wpc = "start" /\ ~gVars.doSet /\ job.op # "SET"
      BY <1>4, <1>5, <2>1 DEF WStart, WWalk
    <3> QED BY <2>1, <3>1 DEF WStart, WUtilTyped, GRecord
  <2>2. CASE WRefused
    BY <2>2 DEF WRefused, WUtilTyped, GRecord
  <2> QED BY <2>1, <2>2
<1>8. (~failed' => result') /\ (wpc' = "done" => failed')
  <2>1. wpc = "main" \/ wpc = "start"
    BY DEF WStart, WRefused
  <2> QED BY <1>4, <1>5, <2>1 DEF WStart, WRefused, WWalk
<1>9. WOpen' = WOpen
  BY <1>1 DEF WOpen
<1> QED BY <1>1, <1>4, <1>7, <1>8, <1>9 DEF WWalk

LEMMA WalkWSend ==
    ASSUME AgentTyped, WUtilTyped, OnceInv, WalkInv, IsWalk, mib' = mib, upc' = upc,
           WSendFails \/ CreatePduSendRequest
    PROVE  WalkInv'
<1> DEFINE m == Request(gVars.nRequestId, PduType, Bindings)
           root == job.oids[1]
           cur  == session.nRequestId
<1>1. /\ job.program = "wsnmputil" /\ job' = job /\ UNCHANGED <<replies, queue, shown, said>>
      /\ wpc = "main" /\ More /\ gVars' = GlobalsAfterSend
      /\ session' = [session EXCEPT !.nRequestId = gVars.nRequestId]
      /\ \/ requests' = requests /\ waiting' = waiting /\ wpc' = wpc /\ failed' = TRUE
         \/ /\ requests' = requests \cup {m} /\ waiting' = waiting \cup {gVars.nRequestId}
            /\ wpc' = "pump" /\ failed' = failed /\ result' = result
  BY DEF WSendFails, CreatePduSendRequest, net, screen, WMine
<1>2. PICK x \in Nat, k \in 0..Len(Target) :
         Walked(Target, shown, x, k) /\ x >= job.oids[1] /\ WWalk(Target, x, k)
  BY <1>1 DEF WalkInv
<1>3. PICK T : T = Target
  OBVIOUS
<1> DEFINE Now == WWalk(T, x, k)
<1>4. Now /\ Walked(T, shown, x, k)
  BY <1>2, <1>3
<1>5. job.op \in {"WALK", "SUBTREE"}
  BY <1>1, WalkWSnmputil
<1>6. SUFFICES WWalk(T, x, k)'
  BY <1>1, <1>2, <1>3, <1>4, WalkGoal
<1>7. /\ cur \in Nat /\ gVars.nRequestId = cur + 1 /\ session'.nRequestId = cur + 1
      /\ session'.nErrorStatus = session.nErrorStatus /\ waiting \subseteq 1..cur
  BY <1>1, OnceSend DEF OnceInv
<1>8. Asked = <<x>>
  <2>1. cur = 0 => Asked = <<root>>
    BY <1>5, <1>7 DEF Asked
  <2>2. cur # 0 => Asked = <<gVars.oid>>
    BY <1>5, <1>7 DEF Asked
  <2>3. cur = 0 => x = root
    BY <1>4 DEF WWalk
  <2>4. cur > 0 => x = gVars.oid
    BY <1>4 DEF WWalk
  <2>5. cur = 0 \/ cur > 0
    BY <1>7
  <2> QED BY <2>1, <2>2, <2>3, <2>4, <2>5
<1>9. /\ gVars'.oid = x /\ gVars'.startOid = root
      /\ gVars'.fDone = gVars.fDone /\ (gVars'.doSet <=> gVars.doSet)
  <2>1. Len(Asked) = 1 /\ Asked[1] = x
    BY <1>8
  <2>2. GRecord(gVars) /\ gVars.nRequestId \in Nat
    BY <1>7 DEF WUtilTyped
  <2>3. cur = 0 => x = root
    BY <1>4 DEF WWalk
  <2>4. cur > 0 => gVars.startOid = root
    BY <1>4 DEF WWalk
  <2>5. /\ gVars'.oid = x /\ gVars'.fDone = gVars.fDone /\ (gVars'.doSet <=> gVars.doSet)
        /\ cur = 0 => gVars'.startOid = x
        /\ cur # 0 => gVars'.startOid = gVars.startOid
    BY <1>1, <1>7, <2>1, <2>2, GlobalsAre
  <2> QED BY <1>7, <2>3, <2>4, <2>5
<1>10. WalkAsk(m, x, cur + 1, cur + 1)
  <2>1. ~Setting /\ gVars.operation = job.op
    BY <1>1, <1>5 DEF Setting, WUtilTyped
  <2>2. PduType = "GETNEXT"
    BY <1>5, <2>1 DEF PduType
  <2>3. Bindings = <<VarBind(x, Null)>>
    BY <1>8, <2>1 DEF Bindings
  <2>4. m.id = cur + 1 /\ m.type = "GETNEXT" /\ m.vbs = <<VarBind(x, Null)>>
    BY <1>7, <2>2, <2>3 DEF Request
  <2>5. cur + 1 \in 1..(cur + 1) /\ x \in 0..x
    BY <1>7
  <2> HIDE DEF m
  <2> QED BY <2>4, <2>5 DEF WalkAsk
<1> HIDE DEF m
<1>11. ASSUME NEW r \in requests PROVE WalkAsk(r, x, cur + 1, cur + 1) /\ WalkAsk(r, x, cur + 1, 0)
  <2>1. WalkAsk(r, x, cur, WOpen)
    BY <1>4 DEF WWalk
  <2> QED BY <1>7, <2>1, AskOn
<1>12. ASSUME NEW r \in replies
       PROVE  /\ WalkAnswer(r, x, cur + 1, cur + 1, job.next, job.v2, mib)
              /\ WalkAnswer(r, x, cur + 1, 0, job.next, job.v2, mib)
  <2>1. WalkAnswer(r, x, cur, WOpen, job.next, job.v2, mib)
    BY <1>4 DEF WWalk
  <2> QED BY <1>7, <2>1, AnswerOn
<1>13. ASSUME NEW i \in 1..Len(queue), queue[i].msg = "response"
       PROVE  WalkAnswer(queue[i].r, x, cur + 1, cur + 1, job.next, job.v2, mib)
  <2>1. WalkAnswer(queue[i].r, x, cur, cur, job.next, job.v2, mib)
    BY <1>4, <1>13 DEF WWalk
  <2> QED BY <1>7, <2>1, AnswerOn
<1>14. ~gVars.fDone /\ session.nErrorStatus = "noError" /\ result
  BY <1>1, <1>5 DEF More
<1>15. cur + 1 > 0 /\ cur + 1 # 0 /\ cur + 1 \notin waiting
  BY <1>7
<1>16. CASE requests' = requests /\ waiting' = waiting /\ wpc' = wpc /\ failed' = TRUE
  <2>1. WOpen' = 0
    BY <1>7, <1>15, <1>16 DEF WOpen
  <2> QED BY <1>1, <1>4, <1>7, <1>9, <1>11, <1>12, <1>13, <1>14, <1>15, <1>16, <2>1 DEF WWalk
<1>17. CASE /\ requests' = requests \cup {m} /\ waiting' = waiting \cup {gVars.nRequestId}
            /\ wpc' = "pump" /\ failed' = failed /\ result' = result
  <2>1. WOpen' = cur + 1
    BY <1>7, <1>17 DEF WOpen
  <2> QED BY <1>1, <1>4, <1>7, <1>9, <1>10, <1>11, <1>12, <1>13, <1>14, <1>15, <1>17, <2>1 DEF WWalk
<1> QED BY <1>1, <1>16, <1>17

\* An error says that the walk is over, however old the response is.
LEMMA ErrorEnds ==
    ASSUME job \in Jobs, mib \in Storages, IsWalk, NEW T, T = Target, NEW x \in Nat, NEW k, UpTo(T, x, k),
           NEW y \in 0..x, NEW r, GoesOn(y, job.next, job.v2, mib, r), r.status # "noError"
    PROVE  k = Len(T)
<1>1. NoneAfter(y) /\ ~(job.next /\ y < Foreign)
  BY DEF GoesOn
<1>2. T \in Seq(VarBinds) /\ \A j \in 1..Len(T) : IsTarget(T[j])
  BY TargetIs
<1>3. ASSUME NEW j \in 1..Len(T) PROVE T[j].name <= x
  <2>1. CASE \E m \in In : T[j] = VarBind(NameOf(m), mib[m])
    <3>1. PICK m \in In : T[j] = VarBind(NameOf(m), mib[m])
      BY <2>1
    <3>2. T[j].name = NameOf(m) /\ m \in Variables
      BY <3>1, Records DEF In
    <3>3. NameOf(m) <= y /\ NameOf(m) \in Nat
      BY <1>1, <3>2, Table DEF NoneAfter, NameOf
    <3> QED BY <3>2, <3>3
  <2>2. CASE job.next /\ T[j] = VarBind(Foreign, Text(3))
    <3>1. T[j].name = Foreign /\ ~(y < Foreign)
      BY <1>1, <2>2, Records
    <3> QED BY <3>1, NameBound
  <2> QED BY <1>2, <2>1, <2>2 DEF IsTarget
<1>4. Len(T) \in Nat
  BY <1>2
<1>5. SUFFICES ASSUME k # Len(T) PROVE FALSE
  OBVIOUS
<1>6. k + 1 \in 1..Len(T) /\ ~(k + 1 <= k)
  BY <1>4, <1>5 DEF UpTo
<1> QED BY <1>3, <1>6 DEF UpTo

LEMMA ErrorNoValue ==
    ASSUME NEW x, NEW next, NEW v2, NEW stor, NEW r, GoesOn(x, next, v2, stor, r), IsValue(r.vbs[1])
    PROVE  r.status = "noError"
<1>1. ~IsValue(VarBind(x, Null))
  BY Records DEF IsValue, Null, Value
<1> QED BY <1>1 DEF GoesOn

\* What PResponse does with a response of one varbind.
LEMMA PrintsOne ==
    ASSUME NEW s \in Seq(VarBinds), Len(s) = 1, ~gVars.doSet, NEW sh, IsSeq(sh)
    PROVE  /\ Stop(s) = IF Ends(s[1]) THEN 1 ELSE 2
           /\ sh \o Printed(s) = IF Ends(s[1]) THEN sh ELSE Append(sh, s[1])
<1>1. Len(s) \in Nat /\ DOMAIN s = 1..Len(s)
  OBVIOUS
<1>2. /\ Stop(s) \in 1..2 /\ \A j \in 1..(Stop(s) - 1) : ~Ends(s[j])
      /\ Stop(s) <= 1 => Ends(s[Stop(s)])
  BY <1>1, StopIs
<1>3. Stop(s) = IF Ends(s[1]) THEN 1 ELSE 2
  <2>1. Stop(s) = 1 => Ends(s[1])
    BY <1>2
  <2>2. Stop(s) = 2 => ~Ends(s[1])
    BY <1>2
  <2> QED BY <1>2, <2>1, <2>2
<1>4. sh \in Seq({sh[i] : i \in 1..Len(sh)} \cup {s[1]})
  <2> DEFINE S == {sh[i] : i \in 1..Len(sh)} \cup {s[1]}
  <2>1. sh \in [1..Len(sh) -> S] /\ Len(sh) \in Nat
    BY DEF IsSeq
  <2> QED BY <2>1
<1>5. CASE Ends(s[1])
  <2>1. Printed(s) = SubSeq(s, 1, 0)
    BY <1>3, <1>5 DEF Printed
  <2>2. Printed(s) = << >>
    BY <2>1
  <2> QED BY <1>3, <1>4, <1>5, <2>2
<1>6. CASE ~Ends(s[1])
  <2>1. Printed(s) = SubSeq(s, 1, 1)
    BY <1>3, <1>6 DEF Printed
  <2>2. Printed(s) = <<s[1]>>
    <3>1. SubSeq(s, 1, 1) \in Seq(VarBinds) /\ Len(SubSeq(s, 1, 1)) = 1 /\ SubSeq(s, 1, 1)[1] = s[1]
      OBVIOUS
    <3>2. ASSUME NEW t \in Seq(VarBinds), Len(t) = 1 PROVE t = <<t[1]>>
      BY <3>2
    <3> QED BY <2>1, <3>1, <3>2
  <2>3. sh \o <<s[1]>> = Append(sh, s[1])
    BY <1>4
  <2> QED BY <1>3, <1>6, <2>2, <2>3
<1> QED BY <1>5, <1>6

\* The parts of WWalk in the next state, one by one.
LEMMA WWalkNext ==
    ASSUME job' = job, mib' = mib, NEW T, NEW x, NEW k, NEW cur, session'.nRequestId = cur,
           NEW open, WOpen' = open, upc' = "start", ~gVars'.doSet,
           \A r \in requests' : WalkAsk(r, x, cur, open),
           \A r \in replies' : WalkAnswer(r, x, cur, open, job.next, job.v2, mib),
           \A i \in 1..Len(queue') : queue'[i].msg = "response" =>
               WalkAnswer(queue'[i].r, x, cur, cur, job.next, job.v2, mib),
           cur = 0 => x = job.oids[1],
           cur > 0 => x = gVars'.oid /\ gVars'.startOid = job.oids[1],
           job.op = "SUBTREE" /\ ~gVars'.fDone => x \in Under(job.oids[1]),
           gVars'.fDone => cur \notin waiting',
           \A i \in 1..Len(queue') : gVars'.fDone /\ queue'[i].msg = "response" => queue'[i].r.id # cur,
           gVars'.fDone => k = Len(T),
           session'.nErrorStatus # "noError" => k = Len(T),
           said' = "", ~failed' => result',
           wpc' = "done" /\ ~failed' => k = Len(T)
    PROVE  WWalk(T, x, k)'
BY DEF WWalk

LEMMA WWalkNow ==
    ASSUME NEW T, NEW x, NEW k, WWalk(T, x, k), NEW cur, cur = session.nRequestId
    PROVE  /\ upc = "start" /\ ~gVars.doSet /\ said = "" /\ (~failed => result)
           /\ \A r \in requests : WalkAsk(r, x, cur, WOpen)
           /\ \A r \in replies : WalkAnswer(r, x, cur, WOpen, job.next, job.v2, mib)
           /\ \A i \in 1..Len(queue) : queue[i].msg = "response" =>
                 WalkAnswer(queue[i].r, x, cur, cur, job.next, job.v2, mib)
           /\ (cur = 0 => x = job.oids[1]) /\ (cur > 0 => x = gVars.oid /\ gVars.startOid = job.oids[1])
           /\ (job.op = "SUBTREE" /\ ~gVars.fDone => x \in Under(job.oids[1]))
           /\ (gVars.fDone => cur \notin waiting /\ k = Len(T))
           /\ \A i \in 1..Len(queue) : gVars.fDone /\ queue[i].msg = "response" => queue[i].r.id # cur
           /\ (session.nErrorStatus # "noError" => k = Len(T))
           /\ (wpc = "done" /\ ~failed => k = Len(T))
BY DEF WWalk

LEMMA WalkWResponse ==
    ASSUME AgentTyped, WUtilTyped, OnceInv, WalkInv, IsWalk, mib' = mib, upc' = upc, PResponse
    PROVE  WalkInv'
<1> DEFINE r == Head(queue).r
           root == job.oids[1]
           cur  == session.nRequestId
<1>1. /\ job.program = "wsnmputil" /\ job' = job /\ wpc = "pump" /\ queue # << >> /\ Head(queue).msg = "response"
      /\ UNCHANGED <<requests, replies, said, failed, wpc, result, waiting>>
      /\ session' = [session EXCEPT !.nErrorStatus = r.status]
  BY Zenon DEF PResponse, WMine, net
<1>2. PICK x \in Nat, k \in 0..Len(Target) :
         Walked(Target, shown, x, k) /\ x >= job.oids[1] /\ WWalk(Target, x, k)
  BY <1>1 DEF WalkInv
<1>3. PICK T : T = Target
  OBVIOUS
<1> DEFINE Now == WWalk(T, x, k)
<1>4. Now /\ Walked(T, shown, x, k) /\ UpTo(T, x, k) /\ IsSeq(shown) /\ Len(T) \in Nat
  <2>1. T \in Seq(VarBinds)
    BY <1>3, TargetIs DEF AgentTyped
  <2>2. Len(T) \in Nat
    BY <2>1
  <2> QED BY <1>2, <1>3, <2>2 DEF Walked
<1>5. /\ job.op \in {"WALK", "SUBTREE"} /\ (Subtree <=> job.op = "SUBTREE") /\ root \in Nat
      /\ job \in Jobs /\ mib \in Storages /\ MibOK(mib)
  BY <1>1, WalkWSnmputil
<1>6. /\ cur \in Nat /\ session'.nRequestId = cur /\ session'.nErrorStatus = r.status /\ waiting \subseteq 1..cur
  BY <1>1 DEF OnceInv
<1>7. /\ IsSeq(queue) /\ IsSeq(Tail(queue)) /\ queue[1] = Head(queue) /\ 1 \in 1..Len(queue)
      /\ \A i \in 1..Len(Tail(queue)) : i + 1 \in 1..Len(queue) /\ 1 < i + 1 /\ Tail(queue)[i] = queue[i + 1]
  BY <1>1, QueueTail DEF WUtilTyped, QueueOK, IsSeq
<1>8. PICK y \in 0..x : GoesOn(y, job.next, job.v2, mib, r) /\ (r.id = cur => y = x)
  BY <1>1, <1>4, <1>7 DEF WWalk, WalkAnswer
<1>9. r.id \in (1..cur) \ waiting /\ (r.id = cur => ~gVars.fDone)
  <2>1. r.id \in (1..cur) \ waiting
    BY <1>1, <1>7 DEF OnceInv, QueueOnce
  <2> QED BY <1>1, <1>4, <1>7, <2>1 DEF WWalk
<1>10. ASSUME NEW i \in 1..Len(Tail(queue)), Tail(queue)[i].msg = "response"
       PROVE  /\ WalkAnswer(Tail(queue)[i].r, x, cur, cur, job.next, job.v2, mib)
              /\ r.id = cur => Tail(queue)[i].r.id # cur
              /\ gVars.fDone => Tail(queue)[i].r.id # cur
  <2>1. WalkAnswer(Tail(queue)[i].r, x, cur, cur, job.next, job.v2, mib)
    BY <1>4, <1>7, <1>10 DEF WWalk
  <2>2. Tail(queue)[i].r.id # r.id
    <3>1. \A a, b \in 1..Len(queue) : a < b /\ queue[a].msg = "response" /\ queue[b].msg = "response"
                                         => queue[a].r.id # queue[b].r.id
      BY DEF OnceInv, QueueOnce
    <3>2. queue[i + 1].msg = "response" /\ queue[1].msg = "response" /\ i + 1 \in 1..Len(queue) /\ 1 < i + 1
      BY <1>1, <1>7, <1>10
    <3>3. queue[1].r.id # queue[i + 1].r.id
      BY <1>7, <3>1, <3>2
    <3> QED BY <1>7, <3>3
  <2>3. gVars.fDone => Tail(queue)[i].r.id # cur
    BY <1>4, <1>7, <1>10 DEF WWalk
  <2> QED BY <2>1, <2>2, <2>3
<1>11. r.status # "noError" => k = Len(T)
  BY <1>3, <1>4, <1>5, <1>8, ErrorEnds
<1>12. CASE r.id # cur
  <2>1. queue' = Tail(queue) /\ UNCHANGED <<shown, gVars>>
    BY <1>12 DEF PResponse, Matches
  <2>2. WOpen' = WOpen
    BY <1>1, <1>6 DEF WOpen
  <2>3. WWalk(T, x, k)'
    <3>1. ASSUME NEW i \in 1..Len(queue'), queue'[i].msg = "response"
          PROVE  /\ WalkAnswer(queue'[i].r, x, cur, cur, job.next, job.v2, mib)
                 /\ gVars.fDone => queue'[i].r.id # cur
      BY <1>10, <2>1, <3>1
    <3>2. /\ upc = "start" /\ ~gVars.doSet /\ said = "" /\ (~failed => result)
          /\ \A m \in requests : WalkAsk(m, x, cur, WOpen)
          /\ \A m \in replies : WalkAnswer(m, x, cur, WOpen, job.next, job.v2, mib)
          /\ (cur = 0 => x = root) /\ (cur > 0 => x = gVars.oid /\ gVars.startOid = root)
          /\ (job.op = "SUBTREE" /\ ~gVars.fDone => x \in Under(root))
          /\ (gVars.fDone => cur \notin waiting /\ k = Len(T))
      BY <1>4, WWalkNow
    <3>3. session'.nErrorStatus # "noError" => k = Len(T)
      BY <1>6, <1>11
    <3>4. wpc' # "done" /\ session'.nRequestId = cur /\ gVars' = gVars
          /\ UNCHANGED <<requests, replies, said, failed, result, waiting, job, mib, upc>>
      BY <1>1, <1>6, <2>1
    <3> HIDE DEF r
    <3> QED BY <2>2, <3>1, <3>2, <3>3, <3>4, WWalkNext
  <2> QED BY <1>1, <1>2, <1>3, <1>4, <2>1, <2>3, WalkGoal
<1> DEFINE vb == r.vbs[1]
           last == IF Stop(r.vbs) <= Len(r.vbs) THEN Stop(r.vbs) ELSE Len(r.vbs)
<1>13. CASE r.id = cur
  <2>1. GoesOn(x, job.next, job.v2, mib, r) /\ cur > 0 /\ cur \notin waiting /\ ~gVars.fDone
    BY <1>8, <1>9, <1>13
  <2>2. r.vbs \in Seq(VarBinds) /\ Len(r.vbs) = 1
    <3>1. ReplyOK(r, job.op)
      BY <1>1, QueueShrinks DEF WUtilTyped, MessageOK
    <3> QED BY <1>5, <2>1, <3>1 DEF ReplyOK, GoesOn
  <2>3. ~gVars.doSet /\ gVars.startOid = root /\ (job.op = "SUBTREE" => x \in Under(root))
    BY <1>4, <2>1 DEF WWalk
  <2>4. PICK v : v = vb
    OBVIOUS
  <2>5. /\ Stop(r.vbs) = IF Ends(v) THEN 1 ELSE 2
        /\ shown \o Printed(r.vbs) = IF Ends(v) THEN shown ELSE Append(shown, v)
    BY <1>4, <2>2, <2>3, <2>4, PrintsOne
  <2>6. last = 1 /\ (Stop(r.vbs) <= Len(r.vbs) <=> Ends(v))
    <3> HIDE DEF r
    <3>1. CASE Ends(v)
      BY <2>2, <2>5, <3>1
    <3>2. CASE ~Ends(v)
      BY <2>2, <2>5, <3>2
    <3> QED BY <3>1, <3>2
  <2>7. /\ shown' = IF Ends(v) THEN shown ELSE Append(shown, v)
        /\ queue' = Append(Tail(queue), WM_SNMP_DONE)
        /\ gVars' = [gVars EXCEPT !.oid = r.vbs[last].name, !.kept = TRUE,
                                  !.syntax = r.vbs[last].value.type,
                                  !.fDone = @ \/ Stop(r.vbs) <= Len(r.vbs)]
    BY <1>13, <2>5, Zenon DEF PResponse, Matches
  <2>8. /\ gVars'.oid = v.name /\ gVars'.startOid = root /\ ~gVars'.doSet
        /\ gVars'.fDone <=> Ends(v)
    <3> HIDE DEF last, r
    <3>1. DOMAIN gVars = {"operation", "oid", "kept", "syntax", "startOid", "nRequestId", "fDone", "doSet"}
      BY DEF WUtilTyped, GRecord
    <3> QED BY <2>1, <2>3, <2>4, <2>6, <2>7, <3>1 DEF vb, r
  <2>9. PICK more \in BOOLEAN : more <=> r.status = "noError" /\ IsValue(v) /\ (Subtree => v.name \in Under(root))
    <3>1. \/ TRUE <=> r.status = "noError" /\ IsValue(v) /\ (Subtree => v.name \in Under(root))
          \/ FALSE <=> r.status = "noError" /\ IsValue(v) /\ (Subtree => v.name \in Under(root))
      OBVIOUS
    <3> QED BY <3>1
  <2>10. /\ v.name \in Nat /\ v.name >= x
         /\ more => k < Len(T) /\ v = T[k + 1] /\ UpTo(T, v.name, k + 1)
         /\ ~more => k = Len(T) /\ UpTo(T, v.name, k)
    BY <1>2, <1>3, <1>4, <1>5, <2>1, <2>3, <2>4, <2>9, OneStep
  <2>11. Ends(v) <=> \/ job.op = "SUBTREE" /\ v.name \notin Under(root)
                     \/ job.op = "WALK" /\ v.value.type = "end"
    BY <2>3 DEF Ends
  <2>12. WOpen' = 0
    BY <1>1, <1>6, <2>1 DEF WOpen
  <2>13. ASSUME NEW m \in requests PROVE WalkAsk(m, v.name, cur, 0)
    <3>1. WalkAsk(m, x, cur, WOpen)
      BY <1>4 DEF WWalk
    <3> QED BY <1>6, <2>10, <3>1, AskOn
  <2>14. ASSUME NEW m \in replies PROVE WalkAnswer(m, v.name, cur, 0, job.next, job.v2, mib)
    <3>1. WalkAnswer(m, x, cur, WOpen, job.next, job.v2, mib)
      BY <1>4 DEF WWalk
    <3> QED BY <1>6, <2>10, <3>1, AnswerOn
  <2>15. ASSUME NEW i \in 1..Len(queue'), queue'[i].msg = "response"
         PROVE  WalkAnswer(queue'[i].r, v.name, cur, cur, job.next, job.v2, mib) /\ queue'[i].r.id # cur
    <3>1. i \in 1..Len(Tail(queue)) /\ queue'[i] = Tail(queue)[i]
      <4>1. queue'[i] = WM_SNMP_DONE \/ (i \in 1..Len(Tail(queue)) /\ queue'[i] = Tail(queue)[i])
        BY <1>7, <2>7, <2>15, QueueAppend DEF IsSeq
      <4> QED BY <2>15, <4>1 DEF WM_SNMP_DONE
    <3>2. PICK q : q = queue'[i].r
      OBVIOUS
    <3>3. WalkAnswer(q, x, cur, cur, job.next, job.v2, mib) /\ q.id # cur
      BY <1>10, <1>13, <2>15, <3>1, <3>2
    <3>4. WalkAnswer(q, v.name, cur, cur, job.next, job.v2, mib)
      BY <2>10, <3>3 DEF WalkAnswer
    <3> QED BY <3>2, <3>3, <3>4
  <2>16. v.name >= root
    BY <1>2, <1>5, <2>10
  <2>17. ASSUME NEW n, n = k \/ n = k + 1, Ends(v) \/ r.status # "noError" => n = Len(T)
         PROVE  WWalk(T, v.name, n)'
    <3>1. job.op = "SUBTREE" /\ ~gVars'.fDone => v.name \in Under(root)
      BY <2>8, <2>11
    <3>2. wpc' = "pump"
      BY <1>1
    <3>3. /\ upc' = "start" /\ said' = "" /\ (~failed' => result')
      BY <1>1, <1>4 DEF WWalk
    <3>4. /\ UNCHANGED <<requests, replies, waiting, job, mib>> /\ session'.nRequestId = cur
          /\ session'.nErrorStatus # "noError" => n = Len(T)
          /\ gVars'.fDone => n = Len(T)
      BY <1>1, <1>6, <2>8, <2>17
    <3>5. \A m \in requests' : WalkAsk(m, v.name, cur, 0)
      BY <2>13, <3>4
    <3>6. \A m \in replies' : WalkAnswer(m, v.name, cur, 0, job.next, job.v2, mib)
      BY <2>14, <3>4
    <3>7. /\ \A i \in 1..Len(queue') : queue'[i].msg = "response" =>
                WalkAnswer(queue'[i].r, v.name, cur, cur, job.next, job.v2, mib)
          /\ \A i \in 1..Len(queue') : gVars'.fDone /\ queue'[i].msg = "response" => queue'[i].r.id # cur
      BY <2>15
    <3>8. /\ cur # 0 /\ v.name = gVars'.oid /\ gVars'.startOid = root /\ ~gVars'.doSet
          /\ cur \notin waiting' /\ wpc' # "done"
      BY <2>1, <2>8, <3>2, <3>4
    <3> HIDE DEF r, vb, last
    <3> QED BY <2>12, <3>1, <3>3, <3>4, <3>5, <3>6, <3>7, <3>8, WWalkNext
  <2>18. CASE more
    <3>1. ~Ends(v) /\ r.status = "noError"
      BY <1>5, <2>9, <2>11, <2>18 DEF IsValue
    <3>2. Walked(T, shown', v.name, k + 1)
      BY <1>4, <2>7, <2>10, <2>18, <3>1, WalkedOn
    <3>3. WWalk(T, v.name, k + 1)'
      BY <2>17, <3>1
    <3> QED BY <1>1, <1>3, <2>10, <2>16, <3>2, <3>3, WalkGoal
  <2>19. CASE ~more
    <3>1. k = Len(T) /\ UpTo(T, v.name, k)
      BY <2>10, <2>19
    <3>2. Walked(T, shown', v.name, k)
      <4>1. CASE Ends(v)
        BY <1>4, <2>7, <3>1, <4>1 DEF Walked
      <4>2. CASE ~Ends(v)
        <5>1. ~IsValue(v)
          BY <1>5, <2>1, <2>4, <2>9, <2>11, <2>19, <4>2, ErrorNoValue
        <5> QED BY <1>4, <2>7, <3>1, <4>2, <5>1, WalkedOn
      <4> QED BY <4>1, <4>2
    <3>3. WWalk(T, v.name, k)'
      BY <2>17, <3>1
    <3> QED BY <1>1, <1>3, <2>10, <2>16, <3>2, <3>3, WalkGoal
  <2> QED BY <2>18, <2>19
<1> QED BY <1>12, <1>13

\* A message that is not the response to the current request is added, or the
\* first one is taken away.
LEMMA WalkQueue ==
    ASSUME NEW q, IsSeq(q), NEW x, NEW cur, NEW next, NEW v2, NEW stor, NEW done \in BOOLEAN,
           \A i \in 1..Len(q) : q[i].msg = "response" => WalkAnswer(q[i].r, x, cur, cur, next, v2, stor),
           \A i \in 1..Len(q) : done /\ q[i].msg = "response" => q[i].r.id # cur,
           NEW m, m.msg = "response" => WalkAnswer(m.r, x, cur, cur, next, v2, stor) /\ (done => m.r.id # cur),
           NEW t, t = Append(q, m) \/ (q # << >> /\ t = Tail(q))
    PROVE  /\ \A i \in 1..Len(t) : t[i].msg = "response" => WalkAnswer(t[i].r, x, cur, cur, next, v2, stor)
           /\ \A i \in 1..Len(t) : done /\ t[i].msg = "response" => t[i].r.id # cur
<1>1. \A i \in 1..Len(t) : t[i] = m \/ \E j \in 1..Len(q) : t[i] = q[j]
  <2>1. CASE t = Append(q, m)
    <3>1. \A i \in 1..Len(t) : t[i] = m \/ (i \in 1..Len(q) /\ t[i] = q[i])
      BY <2>1, QueueAppend DEF IsSeq
    <3> QED BY <3>1
  <2>2. CASE q # << >> /\ t = Tail(q)
    <3>1. Len(t) = Len(q) - 1 /\ Len(q) \in Nat /\ \A i \in 1..(Len(q) - 1) : t[i] = q[i + 1]
      BY <2>2, QueueTail, Zenon DEF IsSeq
    <3>2. \A i \in 1..Len(t) : i + 1 \in 1..Len(q) /\ t[i] = q[i + 1]
      BY <3>1
    <3> QED BY <3>2
  <2> QED BY <2>1, <2>2
<1>2. ASSUME NEW i \in 1..Len(t), t[i].msg = "response"
      PROVE  WalkAnswer(t[i].r, x, cur, cur, next, v2, stor) /\ (done => t[i].r.id # cur)
  <2>1. CASE t[i] = m
    BY <1>2, <2>1
  <2>2. ASSUME NEW j \in 1..Len(q), t[i] = q[j]
        PROVE  WalkAnswer(t[i].r, x, cur, cur, next, v2, stor) /\ (done => t[i].r.id # cur)
    BY <1>2, <2>2
  <2> QED BY <1>1, <2>1, <2>2
<1> QED BY <1>2

LEMMA WalkWArrives ==
    ASSUME AgentTyped, WUtilTyped, OnceInv, WalkInv, IsWalk, mib' = mib, upc' = upc, NEW r, WArrives(r)
    PROVE  WalkInv'
<1> DEFINE cur == session.nRequestId
           m == Incoming(r)
<1>1. /\ job.program = "wsnmputil" /\ job' = job /\ r \in replies /\ wpc # "done"
      /\ replies' = replies \ {r} /\ waiting' = waiting \ {r.id}
      /\ queue' = IF r.id \in waiting THEN Append(queue, m) ELSE queue
      /\ UNCHANGED <<requests, shown, said, failed, wpc, result, gVars, session>>
  BY DEF WArrives, WMine, screen
<1>2. PICK x \in Nat, k \in 0..Len(Target) :
         Walked(Target, shown, x, k) /\ x >= job.oids[1] /\ WWalk(Target, x, k)
  BY <1>1 DEF WalkInv
<1>3. PICK T : T = Target
  OBVIOUS
<1>4. PICK c : c = session.nRequestId
  OBVIOUS
<1>5. /\ upc = "start" /\ ~gVars.doSet /\ said = "" /\ (~failed => result)
      /\ \A a \in requests : WalkAsk(a, x, c, WOpen)
      /\ \A a \in replies : WalkAnswer(a, x, c, WOpen, job.next, job.v2, mib)
      /\ (c = 0 => x = job.oids[1]) /\ (c > 0 => x = gVars.oid /\ gVars.startOid = job.oids[1])
      /\ (job.op = "SUBTREE" /\ ~gVars.fDone => x \in Under(job.oids[1]))
      /\ (gVars.fDone => c \notin waiting /\ k = Len(T))
      /\ (session.nErrorStatus # "noError" => k = Len(T))
  BY <1>2, <1>3, <1>4, WWalkNow
<1>6. /\ \A i \in 1..Len(queue) : queue[i].msg = "response" =>
            WalkAnswer(queue[i].r, x, c, c, job.next, job.v2, mib)
      /\ \A i \in 1..Len(queue) : gVars.fDone /\ queue[i].msg = "response" => queue[i].r.id # c
  BY <1>2, <1>3, <1>4, WWalkNow
<1>7. c \in Nat
  BY <1>4 DEF OnceInv
<1>8. PICK o : o = WOpen'
  OBVIOUS
<1>9. o = WOpen \/ o = 0
  BY <1>1, <1>8 DEF WOpen
<1>10. ASSUME NEW a \in requests PROVE WalkAsk(a, x, c, o)
  <2>1. WalkAsk(a, x, c, WOpen)
    BY <1>5
  <2>2. WalkAsk(a, x, c, 0)
    BY <1>7, <2>1, AskOn
  <2> QED BY <1>9, <2>1, <2>2
<1>11. ASSUME NEW a \in replies PROVE WalkAnswer(a, x, c, o, job.next, job.v2, mib)
  <2>1. WalkAnswer(a, x, c, WOpen, job.next, job.v2, mib)
    BY <1>5
  <2>2. WalkAnswer(a, x, c, 0, job.next, job.v2, mib)
    BY <1>7, <2>1, AnswerOn
  <2> QED BY <1>9, <2>1, <2>2
<1>12. /\ \A i \in 1..Len(queue') : queue'[i].msg = "response" =>
             WalkAnswer(queue'[i].r, x, c, c, job.next, job.v2, mib)
       /\ \A i \in 1..Len(queue') : gVars.fDone /\ queue'[i].msg = "response" => queue'[i].r.id # c
  <2>1. CASE r.id \in waiting
    <3>1. m.msg = "response" /\ m.r = r
      BY DEF Incoming
    <3>2. WalkAnswer(r, x, c, c, job.next, job.v2, mib)
      <4>1. WalkAnswer(r, x, c, WOpen, job.next, job.v2, mib)
        BY <1>1, <1>5
      <4>2. r.id = c => WOpen = c
        BY <1>4, <2>1 DEF WOpen
      <4> QED BY <4>1, <4>2 DEF WalkAnswer
    <3>3. gVars.fDone => r.id # c
      BY <1>5, <2>1
    <3>4. queue' = Append(queue, m) /\ IsSeq(queue)
      BY <1>1, <2>1 DEF WUtilTyped, QueueOK
    <3>5. PICK d \in BOOLEAN : d <=> gVars.fDone
      <4>1. (TRUE <=> gVars.fDone) \/ (FALSE <=> gVars.fDone)
        OBVIOUS
      <4> QED BY <4>1
    <3>6. \A i \in 1..Len(queue) : d /\ queue[i].msg = "response" => queue[i].r.id # c
      BY <1>6, <3>5
    <3>7. m.msg = "response" => WalkAnswer(m.r, x, c, c, job.next, job.v2, mib) /\ (d => m.r.id # c)
      BY <3>1, <3>2, <3>3, <3>5
    <3> HIDE DEF m
    <3>8. /\ \A i \in 1..Len(queue') : queue'[i].msg = "response" =>
                WalkAnswer(queue'[i].r, x, c, c, job.next, job.v2, mib)
          /\ \A i \in 1..Len(queue') : d /\ queue'[i].msg = "response" => queue'[i].r.id # c
      BY <1>6, <3>4, <3>6, <3>7, WalkQueue
    <3> QED BY <3>5, <3>8
  <2>2. CASE r.id \notin waiting
    BY <1>1, <1>6, <2>2
  <2> QED BY <2>1, <2>2
<1>13. \A a \in requests' : WalkAsk(a, x, c, o)
  BY <1>1, <1>10
<1>14. \A a \in replies' : WalkAnswer(a, x, c, o, job.next, job.v2, mib)
  BY <1>1, <1>11
<1>15. gVars'.fDone => c \notin waiting' /\ k = Len(T)
  BY <1>1, <1>5
<1>16. WWalk(T, x, k)'
  BY <1>1, <1>4, <1>5, <1>8, <1>12, <1>13, <1>14, <1>15, WWalkNext
<1> QED BY <1>1, <1>2, <1>3, <1>16, WalkGoal

LEMMA WalkWPump ==
    ASSUME AgentTyped, WUtilTyped, OnceInv, WalkInv, IsWalk, mib' = mib, upc' = upc,
           job.program = "wsnmputil",
           PTimeout \/ PTrap \/ PDone \/ WEnd \/ WTrapArrives \/ \E id : WTimesOut(id)
    PROVE  WalkInv'
<1>1. UNCHANGED <<job, requests, replies, shown, session, gVars, waiting>>
  BY DEF PTimeout, PTrap, PDone, WEnd, WTrapArrives, WTimesOut, net, screen
<1>2. PICK x \in Nat, k \in 0..Len(Target) :
         Walked(Target, shown, x, k) /\ x >= job.oids[1] /\ WWalk(Target, x, k)
  BY DEF WalkInv
<1>3. PICK T : T = Target
  OBVIOUS
<1>4. PICK c : c = session.nRequestId
  OBVIOUS
<1>5. /\ upc = "start" /\ ~gVars.doSet /\ said = "" /\ (~failed => result)
      /\ \A a \in requests : WalkAsk(a, x, c, WOpen)
      /\ \A a \in replies : WalkAnswer(a, x, c, WOpen, job.next, job.v2, mib)
      /\ (c = 0 => x = job.oids[1]) /\ (c > 0 => x = gVars.oid /\ gVars.startOid = job.oids[1])
      /\ (job.op = "SUBTREE" /\ ~gVars.fDone => x \in Under(job.oids[1]))
      /\ (gVars.fDone => c \notin waiting /\ k = Len(T))
      /\ (session.nErrorStatus # "noError" => k = Len(T))
      /\ (wpc = "done" /\ ~failed => k = Len(T))
  BY <1>2, <1>3, <1>4, WWalkNow
<1>6. /\ \A i \in 1..Len(queue) : queue[i].msg = "response" =>
            WalkAnswer(queue[i].r, x, c, c, job.next, job.v2, mib)
      /\ \A i \in 1..Len(queue) : gVars.fDone /\ queue[i].msg = "response" => queue[i].r.id # c
  BY <1>2, <1>3, <1>4, WWalkNow
<1>7. \/ queue' = queue
      \/ queue # << >> /\ queue' = Tail(queue)
      \/ queue # << >> /\ queue' = Append(Tail(queue), WM_SNMP_DONE)
      \/ queue' = Append(queue, GivenUp) \/ queue' = Append(queue, TrapMsg)
  BY DEF PTimeout, PTrap, PDone, WEnd, WTrapArrives, WTimesOut
<1>8. IsSeq(queue) /\ (queue # << >> => IsSeq(Tail(queue)))
  BY QueueTail DEF WUtilTyped, QueueOK
<1>9. WM_SNMP_DONE.msg # "response" /\ GivenUp.msg # "response" /\ TrapMsg.msg # "response"
  BY DEF WM_SNMP_DONE, GivenUp, TrapMsg
<1>10. PICK d \in BOOLEAN : d <=> gVars.fDone
  <2>1. (TRUE <=> gVars.fDone) \/ (FALSE <=> gVars.fDone)
    OBVIOUS
  <2> QED BY <2>1
<1> DEFINE Fit(q) == /\ \A i \in 1..Len(q) : q[i].msg = "response" =>
                           WalkAnswer(q[i].r, x, c, c, job.next, job.v2, mib)
                     /\ \A i \in 1..Len(q) : d /\ q[i].msg = "response" => q[i].r.id # c
<1>11. Fit(queue)
  BY <1>6, <1>10
<1>12. ASSUME NEW q, IsSeq(q), Fit(q), NEW m, m.msg # "response"
       PROVE  Fit(Append(q, m)) /\ (q # << >> => Fit(Tail(q)))
  BY <1>12, WalkQueue
<1>13. Fit(queue')
  <2> HIDE DEF Fit
  <2>1. queue # << >> => Fit(Tail(queue))
    BY <1>8, <1>9, <1>11, <1>12
  <2> QED BY <1>7, <1>8, <1>9, <1>11, <1>12, <2>1
<1>14. said' = "" /\ (~failed' => result') /\ (wpc' = "done" /\ ~failed' => k = Len(T))
  <2>1. job.op \in {"WALK", "SUBTREE"}
    BY WalkWSnmputil
  <2>2. CASE PTimeout \/ PTrap \/ PDone
    <3>1. wpc' # "done" /\ said' = said
      BY <2>1, <2>2 DEF PTimeout, PTrap, PDone, screen
    <3>2. ~failed' => result'
      BY <1>5, <2>2 DEF PTimeout, PTrap, PDone, screen
    <3> QED BY <1>5, <3>1, <3>2
  <2>3. CASE WTrapArrives \/ \E id : WTimesOut(id)
    <3>1. UNCHANGED <<said, failed, result, wpc>>
      BY <2>3 DEF WTrapArrives, WTimesOut, screen
    <3> QED BY <1>5, <3>1
  <2>4. CASE WEnd
    <3>1. ~More /\ UNCHANGED <<failed, result>> /\ said' = said
      BY <2>1, <2>4 DEF WEnd
    <3>2. ~result \/ gVars.fDone \/ session.nErrorStatus # "noError"
      BY <2>1, <3>1 DEF More
    <3> QED BY <1>5, <3>1, <3>2
  <2> QED BY <2>2, <2>3, <2>4
<1>15. WOpen' = WOpen
  BY <1>1 DEF WOpen
<1>16. /\ \A i \in 1..Len(queue') : queue'[i].msg = "response" =>
             WalkAnswer(queue'[i].r, x, c, c, job.next, job.v2, mib)
       /\ \A i \in 1..Len(queue') : gVars.fDone /\ queue'[i].msg = "response" => queue'[i].r.id # c
  BY <1>10, <1>13
<1>17. WWalk(T, x, k)'
  BY <1>1, <1>4, <1>5, <1>14, <1>15, <1>16, WWalkNext
<1> QED BY <1>1, <1>2, <1>3, <1>17, WalkGoal

LEMMA WalkNext ==
    ASSUME ReadInv, WalkInv, [Next]_vars PROVE WalkInv'
<1>1. job' = job
  BY JobKept
<1>2. CASE ~IsWalk
  BY <1>1, <1>2 DEF WalkInv, IsWalk
<1>3. CASE IsWalk
  <2>1. AgentTyped /\ WUtilTyped /\ OnceInv
    BY <1>3 DEF ReadInv, SnmpTyped, IsWalk
  <2>2. CASE AgentNext /\ UNCHANGED <<util, wutil>>
    BY <1>3, <2>1, <2>2, WalkAgent
  <2>3. CASE UNext /\ UNCHANGED <<agent, wutil>>
    <3>1. mib' = mib /\ wpc' = wpc
      BY <2>3 DEF agent, wutil
    <3> QED BY <1>3, <2>1, <2>3, <3>1, WalkUOther, WalkUAnswered DEF UNext
  <2>4. CASE WNext /\ UNCHANGED <<agent, util>>
    <3>1. mib' = mib /\ upc' = upc
      BY <2>4 DEF agent, util
    <3>2. job.program = "wsnmputil"
      <4>1. ASSUME NEW r, WArrives(r) PROVE job.program = "wsnmputil"
        BY <4>1 DEF WArrives, WMine
      <4>2. ASSUME NEW id, WTimesOut(id) PROVE job.program = "wsnmputil"
        BY <4>2 DEF WTimesOut, WMine
      <4> QED BY <2>4, <4>1, <4>2, Zenon DEF WNext, WStep, WStart, WRefused, WSendFails, CreatePduSendRequest,
                                 PResponse, PTimeout, PTrap, PDone, WEnd, WTrapArrives, WMine
    <3> QED BY <1>3, <2>1, <2>4, <3>1, <3>2, WalkWStart, WalkWSend, WalkWResponse, WalkWArrives, WalkWPump
            DEF WNext, WStep
  <2>5. CASE UNCHANGED vars
    <3>1. UNCHANGED <<job, mib, requests, replies, shown, said, failed, upc, reqId, vbs,
                      wpc, gVars, session, queue, waiting, result>>
      BY <2>5 DEF vars, net, screen, agent, util, wutil
    <3>2. PICK x \in Nat, k \in 0..Len(Target) :
             /\ Walked(Target, shown, x, k) /\ x >= job.oids[1]
             /\ job.program = "snmputil" => UWalk(Target, x, k)
             /\ job.program = "wsnmputil" => WWalk(Target, x, k)
      BY <1>3 DEF WalkInv
    <3>3. PICK T : T = Target
      OBVIOUS
    <3>4. UWalk(T, x, k) => UWalk(T, x, k)'
      BY <3>1 DEF UWalk, UOpen
    <3>5. WWalk(T, x, k) => WWalk(T, x, k)'
      BY <3>1 DEF WWalk, WOpen
    <3> QED BY <3>1, <3>2, <3>3, <3>4, <3>5, WalkGoal
  <2> QED BY <2>2, <2>3, <2>4, <2>5 DEF Next
<1> QED BY <1>2, <1>3

LEMMA WalkInit ==
    ASSUME Init PROVE WalkInv
<1>1. /\ job \in Jobs /\ mib = Storage0 /\ requests = {} /\ replies = {} /\ shown = << >> /\ said = ""
      /\ failed = FALSE /\ upc = "start" /\ reqId = 0 /\ wpc = "start" /\ queue = << >> /\ waiting = {}
      /\ session = [nRequestId |-> 0, nErrorStatus |-> "noError"] /\ result = TRUE /\ gVars = GInit
  BY DEF Init, NetInit, SnmpExtensionInit, UInit, WInit
<1>2. session.nRequestId = 0 /\ session.nErrorStatus = "noError"
      /\ gVars.fDone = FALSE /\ gVars.doSet = FALSE /\ gVars.startOid = 0
  BY <1>1 DEF GInit
<1>3. SUFFICES ASSUME IsWalk PROVE WalkInv
  BY DEF WalkInv
<1>4. PICK root : root = job.oids[1]
  OBVIOUS
<1>5. root \in Nat
  <2>1. job.oids \in Seq(Nat) /\ Len(job.oids) = 1
    BY <1>1, <1>3, JobFacts DEF IsWalk
  <2> QED BY <1>4, <2>1
<1>6. PICK T : T = Target
  OBVIOUS
<1>7. T \in Seq(VarBinds) /\ \A j \in 1..Len(T) : IsTarget(T[j])
  BY <1>1, <1>3, <1>6, MibStarts, TargetIs
<1>8. ASSUME NEW j \in 1..Len(T) PROVE T[j].name > root /\ T[j].name \in Nat
  <2>1. CASE \E m \in In : T[j] = VarBind(NameOf(m), mib[m])
    <3>1. PICK m \in In : T[j] = VarBind(NameOf(m), mib[m])
      BY <2>1
    <3>2. T[j].name = NameOf(m) /\ m \in Variables /\ NameOf(m) > root
      BY <1>4, <3>1, Records DEF In
    <3> QED BY <3>2, Table DEF NameOf
  <2>2. CASE root < Foreign /\ T[j] = VarBind(Foreign, Text(3))
    BY <1>5, <2>2, Records, NameBound
  <2> QED BY <1>4, <1>7, <2>1, <2>2 DEF IsTarget
<1>9. Len(T) \in Nat
  BY <1>7
<1>10. Walked(T, shown, root, 0)
  <2>1. UpTo(T, root, 0)
    BY <1>5, <1>8, <1>9 DEF UpTo
  <2>2. IsSeq(<< >>) /\ Len(<< >>) = 0
    BY DEF IsSeq
  <2>3. PICK n : n = shown
    OBVIOUS
  <2>4. n = << >>
    BY <1>1, <2>3
  <2>5. IsSeq(n) /\ Len(n) = 0
    BY <2>2, <2>4
  <2>6. Walked(T, n, root, 0)
    BY <1>9, <2>1, <2>5 DEF Walked
  <2> QED BY <2>3, <2>6
<1>11. root \in Under(root)
  BY <1>5, Table DEF Under
<1>12. UWalk(T, root, 0)
  BY <1>1, <1>4, <1>11 DEF UWalk
<1>13. WWalk(T, root, 0)
  <2>1. 1..Len(queue) = {}
    <3>1. Len(<< >>) = 0
      OBVIOUS
    <3>2. queue = << >>
      BY <1>1
    <3>3. Len(queue) = 0
      BY <3>1, <3>2
    <3> QED BY <3>3
  <2>2. upc = "start" /\ said = "" /\ wpc # "done" /\ requests = {} /\ replies = {} /\ result
    BY <1>1
  <2>3. ~gVars.fDone /\ ~gVars.doSet
    BY <1>2
  <2>4. ~(session.nRequestId > 0)
    BY <1>2
  <2>5. ASSUME NEW i \in 1..Len(queue) PROVE FALSE
    BY <2>1, <2>5
  <2> QED BY <1>2, <1>4, <1>11, <2>2, <2>3, <2>4, <2>5 DEF WWalk
<1> QED BY <1>4, <1>5, <1>6, <1>9, <1>10, <1>12, <1>13 DEF WalkInv
-----------------------------------------------------------------------------
(* The refinement. *)

LEMMA TargetValues ==
    ASSUME job \in Jobs, mib \in Storages, MibOK(mib), IsWalk
    PROVE  \A j \in 1..Len(Target) : IsValue(Target[j])
<1>1. \A i \in Variables : mib[i].type \in {"int", "text"}
  BY Table DEF MibOK, Mib
<1>2. \A i \in Variables : IsValue(VarBind(NameOf(i), mib[i]))
  BY <1>1, Records DEF IsValue
<1>3. IsValue(VarBind(Foreign, Text(3)))
  BY Records DEF IsValue, Text, Value
<1>4. \A vb : IsTarget(vb) => IsValue(vb)
  BY <1>2, <1>3 DEF IsTarget, In
<1> QED BY <1>4, TargetIs

\* What was printed of values.
FirstValues(sh) == SubSeq(sh, 1, Cardinality({j \in DOMAIN sh : IsValue(sh[j])}))

LEMMA ValuesAre ==
    ASSUME NEW sh, NEW T, T \in Seq(VarBinds), \A j \in 1..Len(T) : IsValue(T[j]),
           NEW x, NEW k, Walked(T, sh, x, k), NEW vs,
           vs = FirstValues(sh)
    PROVE  IsSeq(vs) /\ Len(vs) = k /\ \A j \in 1..k : vs[j] = T[j]
<1>1. IsSeq(sh) /\ k \in Nat /\ k <= Len(sh) /\ k <= Len(T) /\ Len(sh) \in Nat /\ Len(T) \in Nat
  BY DEF Walked, UpTo, IsSeq
<1>2. DOMAIN sh = 1..Len(sh)
  BY <1>1 DEF IsSeq
<1>3. {j \in DOMAIN sh : IsValue(sh[j])} = 1..k
  <2>1. \A j \in 1..k : j \in DOMAIN sh /\ IsValue(sh[j])
    BY <1>1, <1>2 DEF Walked
  <2>2. \A j \in DOMAIN sh : IsValue(sh[j]) => j \in 1..k
    BY <1>1, <1>2 DEF Walked
  <2> QED BY <2>1, <2>2
<1>4. Cardinality(1..k) = k
  BY <1>1, FS_Interval
<1>5. vs = SubSeq(sh, 1, k)
  BY <1>3, <1>4 DEF FirstValues
<1>6. PICK S : sh \in Seq(S)
  BY <1>1, IsSeqOf
<1>7. SubSeq(sh, 1, k) \in Seq(S) /\ Len(SubSeq(sh, 1, k)) = k
      /\ \A j \in 1..k : SubSeq(sh, 1, k)[j] = sh[j]
  BY <1>1, <1>6
<1>8. IsSeq(SubSeq(sh, 1, k))
  BY <1>7, SeqIs
<1> QED BY <1>5, <1>7, <1>8 DEF Walked

LEMMA SeqSame ==
    ASSUME NEW p, NEW q, IsSeq(p), IsSeq(q), Len(p) = Len(q), \A j \in 1..Len(p) : p[j] = q[j]
    PROVE  p = q
BY DEF IsSeq

\* At most one varbind is printed at a time.
LEMMA ShowsOne ==
    ASSUME ReadInv, WalkInv, IsWalk, [Next]_vars
    PROVE  shown' = shown \/ \E v : shown' = Append(shown, v)
<1>1. AgentTyped /\ WUtilTyped /\ OnceInv
  BY DEF ReadInv, SnmpTyped, IsWalk
<1>2. CASE AgentNext
  <2>1. ASSUME NEW r, AnsweredElsewhere(r) PROVE shown' = shown
    BY <2>1 DEF AnsweredElsewhere, screen
  <2>2. ASSUME NEW r, NEW again, SnmpExtensionQuery(r, again) PROVE shown' = shown
    BY <2>2 DEF SnmpExtensionQuery, screen
  <2> QED BY <1>2, <2>1, <2>2 DEF AgentNext, TrapWake, SnmpExtensionTrap, OtherManager, screen
<1>3. CASE UNext
  <2>1. job.program = "snmputil"
    BY <1>3, UtilIsOther
  <2>2. job.op = "WALK"
    BY <1>1, <2>1, WalkSnmputil
  <2>3. ASSUME NEW r, UAnswered(r) PROVE shown' = shown \/ \E v : shown' = Append(shown, v)
    BY <2>2, <2>3 DEF UAnswered
  <2>4. ASSUME NEW r, ULate(r) PROVE shown' = shown
    BY <2>4 DEF ULate, screen
  <2> QED BY <1>3, <2>3, <2>4 DEF UNext, UStep, UParse, USend, UListen, UTrapWait, UResetEvent, UDrain,
                                 UGivesUp, UTrapArrives, screen
<1>4. CASE PResponse
  <2> DEFINE r == Head(queue).r
  <2>1. job.program = "wsnmputil" /\ wpc = "pump" /\ queue # << >> /\ Head(queue).msg = "response"
    BY <1>4 DEF PResponse, WMine
  <2>2. PICK x \in Nat, k \in 0..Len(Target) : Walked(Target, shown, x, k) /\ WWalk(Target, x, k)
    BY <2>1 DEF WalkInv
  <2>3. Head(queue) = queue[1] /\ 1 \in 1..Len(queue)
    BY <1>1, <2>1, QueueTail DEF WUtilTyped, QueueOK, IsSeq
  <2>4. Len(r.vbs) = 1
    BY <2>1, <2>2, <2>3 DEF WWalk, WalkAnswer, GoesOn
  <2>5. r.vbs \in Seq(VarBinds)
    <3>1. ReplyOK(r, job.op)
      BY <1>1, <2>1, QueueShrinks DEF WUtilTyped, MessageOK
    <3> QED BY <3>1 DEF IsWalk, ReplyOK
  <2>6. ~gVars.doSet /\ IsSeq(shown)
    BY <2>2 DEF WWalk, Walked
  <2>7. PICK s : s = r.vbs
    OBVIOUS
  <2>8. shown \o Printed(s) = IF Ends(s[1]) THEN shown ELSE Append(shown, s[1])
    BY <2>4, <2>5, <2>6, <2>7, PrintsOne
  <2>9. shown' = shown \/ shown' = shown \o Printed(s)
    BY <1>4, <2>7, Zenon DEF PResponse
  <2> QED BY <2>8, <2>9
<1>5. CASE WNext /\ ~PResponse
  <2>1. ASSUME NEW r, WArrives(r) PROVE shown' = shown
    BY <2>1 DEF WArrives, screen
  <2>2. ASSUME NEW id, WTimesOut(id) PROVE shown' = shown
    BY <2>2 DEF WTimesOut, screen
  <2> QED BY <1>5, <2>1, <2>2 DEF WNext, WStep, WStart, WRefused, WSendFails, CreatePduSendRequest,
                                 PTimeout, PTrap, PDone, WEnd, WTrapArrives, screen
<1>6. CASE UNCHANGED vars
  BY <1>6 DEF vars, screen
<1> QED BY <1>2, <1>3, <1>4, <1>5, <1>6 DEF Next

\* A program that is done stays so.
LEMMA DoneStays ==
    ASSUME [Next]_vars PROVE Over1 => Over1'
<1>1. CASE UNext /\ UNCHANGED <<agent, wutil>>
  <2>1. UNCHANGED wpc
    BY <1>1 DEF wutil
  <2>2. ASSUME NEW r, UAnswered(r) \/ ULate(r), upc = "done" PROVE upc' = "done"
    BY <2>2 DEF UAnswered, ULate
  <2>3. upc = "done" => upc' = "done"
    BY <1>1, <2>2 DEF UNext, UStep, UParse, USend, UListen, UTrapWait, UResetEvent, UDrain, UGivesUp, UTrapArrives
  <2> QED BY <2>1, <2>3 DEF Over1
<1>2. CASE WNext /\ UNCHANGED <<agent, util>>
  <2>1. UNCHANGED upc
    BY <1>2 DEF util
  <2>2. ASSUME NEW r, WArrives(r) PROVE wpc' = wpc
    BY <2>2 DEF WArrives
  <2>3. ASSUME NEW id, WTimesOut(id) PROVE wpc' = wpc
    BY <2>3 DEF WTimesOut
  <2>4. wpc = "done" => wpc' = "done"
    BY <1>2, <2>2, <2>3 DEF WNext, WStep, WStart, WRefused, WSendFails, CreatePduSendRequest,
                            PResponse, PTimeout, PTrap, PDone, WEnd, WTrapArrives
  <2> QED BY <2>1, <2>4 DEF Over1
<1>3. CASE (AgentNext /\ UNCHANGED <<util, wutil>>) \/ UNCHANGED vars
  BY <1>3 DEF Over1, util, wutil, vars
<1> QED BY <1>1, <1>2, <1>3 DEF Next

\* Nothing is printed with the step that ends a walk, nor after it.
LEMMA DoneIsSilent ==
    ASSUME ReadInv, WalkInv, IsWalk, [Next]_vars, Over1'
    PROVE  shown' = shown /\ (Over1 => UNCHANGED <<failed, said>>)
<1>1. AgentTyped /\ WUtilTyped /\ job.op # "trap" /\ job.program \in {"snmputil", "wsnmputil"}
  BY JobFacts DEF ReadInv, SnmpTyped, AgentTyped, IsWalk, Programs
<1>2. (job.program = "snmputil" => wpc = "start") /\ (job.program = "wsnmputil" => upc = "start")
  BY DEF WalkInv, UWalk, WWalk
<1>3. CASE UNCHANGED <<screen>>
  BY <1>3 DEF screen
<1>4. CASE AgentNext
  <2>1. ASSUME NEW r, AnsweredElsewhere(r) PROVE UNCHANGED screen
    BY <2>1 DEF AnsweredElsewhere
  <2>2. ASSUME NEW r, NEW again, SnmpExtensionQuery(r, again) PROVE UNCHANGED screen
    BY <2>2 DEF SnmpExtensionQuery
  <2>3. UNCHANGED screen
    BY <1>1, <1>4, <2>1, <2>2 DEF AgentNext, TrapWake, SnmpExtensionTrap, OtherManager
  <2> QED BY <1>3, <2>3
<1>5. CASE UNext /\ UNCHANGED <<agent, wutil>>
  <2>1. job.program = "snmputil" /\ wpc' = "start" /\ wpc = "start"
    BY <1>2, <1>5, UtilIsOther DEF wutil
  <2>2. upc' = "done" /\ job.op = "WALK"
    BY <1>1, <2>1, WalkSnmputil DEF Over1
  <2>3. ASSUME NEW r, UAnswered(r) PROVE shown' = shown /\ upc = "wait"
    BY <2>2, <2>3 DEF UAnswered
  <2>4. ASSUME NEW r, ULate(r) PROVE UNCHANGED screen
    BY <2>4 DEF ULate
  <2>5. CASE UStep
    BY <2>2, <2>5, <2>1 DEF UStep, UParse, USend, UListen, UTrapWait, UResetEvent, UDrain, screen, Over1, UFollow
  <2>6. CASE UGivesUp
    BY <2>1, <2>6 DEF UGivesUp, Over1
  <2>7. CASE UTrapArrives
    BY <2>7 DEF UTrapArrives
  <2> QED BY <1>3, <1>5, <2>1, <2>3, <2>4, <2>5, <2>6, <2>7 DEF UNext, Over1
<1>6. CASE WNext /\ UNCHANGED <<agent, util>>
  <2>1. job.program = "wsnmputil"
    <3>1. ASSUME NEW r, WArrives(r) PROVE job.program = "wsnmputil"
      BY <3>1 DEF WArrives, WMine
    <3>2. ASSUME NEW id, WTimesOut(id) PROVE job.program = "wsnmputil"
      BY <3>2 DEF WTimesOut, WMine
    <3> QED BY <1>6, <3>1, <3>2, Zenon DEF WNext, WStep, WStart, WRefused, WSendFails, CreatePduSendRequest,
                               PResponse, PTimeout, PTrap, PDone, WEnd, WTrapArrives, WMine
  <2>2. wpc' = "done" /\ upc = "start"
    BY <1>2, <1>6, <2>1 DEF Over1, util
  <2>3. ASSUME NEW r, WArrives(r) PROVE UNCHANGED screen
    BY <2>3 DEF WArrives
  <2>4. ASSUME NEW id, WTimesOut(id) PROVE UNCHANGED screen
    BY <2>4 DEF WTimesOut
  <2>5. ~WRefused /\ ~WSendFails /\ ~CreatePduSendRequest /\ ~PResponse /\ ~PTimeout /\ ~PTrap /\ ~PDone
    BY <1>1, <2>2 DEF WRefused, WSendFails, CreatePduSendRequest, PResponse, PTimeout, PTrap, PDone
  <2>6. CASE WStart \/ WEnd
    BY <2>2, <2>6 DEF WStart, WEnd, Over1
  <2>7. CASE WTrapArrives
    BY <2>7 DEF WTrapArrives
  <2> QED BY <1>3, <1>6, <2>3, <2>4, <2>5, <2>6, <2>7 DEF WNext, WStep
<1> QED BY <1>3, <1>4, <1>5, <1>6 DEF Next, vars

\* With the same varbinds printed the walk has come as far, with one more it
\* may have come one further.
LEMMA SameShown ==
    ASSUME NEW T, Len(T) \in Nat, \A j \in 1..Len(T) : IsValue(T[j]), NEW sh,
           NEW x, NEW k, Walked(T, sh, x, k), NEW x2, NEW k2, Walked(T, sh, x2, k2)
    PROVE  k2 = k
<1>1. /\ k \in 0..Len(T) /\ k2 \in 0..Len(T) /\ k <= Len(sh) /\ k2 <= Len(sh) /\ Len(sh) \in Nat
      /\ (\A j \in 1..k : sh[j] = T[j]) /\ (\A j \in 1..Len(sh) : j > k => ~IsValue(sh[j]))
      /\ (\A j \in 1..k2 : sh[j] = T[j]) /\ (\A j \in 1..Len(sh) : j > k2 => ~IsValue(sh[j]))
  BY DEF Walked, UpTo, IsSeq
<1>2. \A j \in 1..k : j <= k2
  BY <1>1
<1>3. \A j \in 1..k2 : j <= k
  BY <1>1
<1> QED BY <1>1, <1>2, <1>3

LEMMA MoreShown ==
    ASSUME NEW T, Len(T) \in Nat, \A j \in 1..Len(T) : IsValue(T[j]), NEW sh, NEW v, NEW sh2,
           sh2 = Append(sh, v),
           NEW x, NEW k, Walked(T, sh, x, k), NEW x2, NEW k2, Walked(T, sh2, x2, k2)
    PROVE  k2 = k \/ k2 = k + 1
<1>1. /\ k \in 0..Len(T) /\ k2 \in 0..Len(T) /\ k <= Len(sh) /\ k2 <= Len(sh2) /\ IsSeq(sh)
      /\ (\A j \in 1..k : sh[j] = T[j]) /\ (\A j \in 1..Len(sh) : j > k => ~IsValue(sh[j]))
      /\ (\A j \in 1..k2 : sh2[j] = T[j]) /\ (\A j \in 1..Len(sh2) : j > k2 => ~IsValue(sh2[j]))
      /\ Len(sh) \in Nat
  BY DEF Walked, UpTo, IsSeq
<1>2. Len(sh2) = Len(sh) + 1 /\ \A i \in 1..Len(sh) : sh2[i] = sh[i]
  BY <1>1, QueueAppend
<1>3. \A j \in 1..k : j <= k2
  BY <1>1, <1>2
<1>4. \A j \in 1..Len(sh) : j <= k2 => j <= k
  BY <1>1, <1>2
<1>5. ASSUME k2 > k + 1 PROVE FALSE
  <2>1. k + 1 \in 1..Len(sh) /\ k + 1 <= k2 /\ ~(k + 1 <= k)
    BY <1>1, <1>2, <1>5
  <2> QED BY <1>4, <2>1
<1>6. ASSUME k2 < k PROVE FALSE
  <2>1. k \in 1..k /\ ~(k <= k2)
    BY <1>1, <1>6
  <2> QED BY <1>3, <2>1
<1> QED BY <1>1, <1>5, <1>6

WEnded == IF ~Over1 THEN "no"
          ELSE IF IsWalk /\ ~failed /\ said # "error status" THEN "complete" ELSE "gave up"

LEMMA WalkStep ==
    ASSUME ReadInv, WalkInv, WalkInv', [Next]_vars, IsWalk
    PROVE  /\ Target' = Target
           /\ \/ Values' = Values
              \/ /\ ~Over1 /\ ~Over1' /\ Len(Values) < Len(Target)
                 /\ Values' = Append(Values, Target[Len(Values) + 1])
           /\ WEnded' = WEnded \/ (WEnded = "no" /\ WEnded' \in {"complete", "gave up"} /\ Values' = Values)
           /\ WEnded' = "complete" /\ WEnded = "no" => Values = Target
<1>1. job' = job /\ job \in Jobs /\ mib \in Storages /\ MibOK(mib)
  BY JobKept DEF ReadInv, SnmpTyped, AgentTyped
<1>2. mib' = mib
  <2>1. AgentTyped /\ job.op # "trap" /\ job.program \in Programs
    BY JobFacts DEF ReadInv, SnmpTyped, AgentTyped, IsWalk
  <2>2. \A r \in requests : r.type = "GETNEXT"
    BY <2>1 DEF WalkInv, Programs, UWalk, WWalk, WalkAsk
  <2>3. CASE AgentNext
    BY <2>1, <2>2, <2>3, AgentWalks
  <2>4. CASE UNCHANGED agent \/ UNCHANGED vars
    BY <2>4 DEF agent, vars
  <2> QED BY <2>3, <2>4 DEF Next
<1>3. Target' = Target /\ IsWalk'
  BY <1>1, <1>2, TargetKept
<1>4. PICK T : T = Target
  OBVIOUS
<1>5. T \in Seq(VarBinds) /\ (\A j \in 1..Len(T) : IsValue(T[j])) /\ Len(T) \in Nat /\ IsSeq(T)
  <2>1. T \in Seq(VarBinds) /\ (\A j \in 1..Len(T) : IsValue(T[j])) /\ IsSeq(T)
    BY <1>1, <1>4, TargetIs, TargetValues
  <2> QED BY <2>1 DEF IsSeq
<1>6. PICK x \in Nat, k \in 0..Len(T) : Walked(T, shown, x, k)
                                        /\ (Over1 /\ ~failed /\ said # "error status" => k = Len(T))
  BY <1>1, <1>4, JobFacts DEF WalkInv, Programs, UWalk, WWalk, Over1
<1>7. PICK x2 \in Nat, k2 \in 0..Len(T) : Walked(T, shown', x2, k2)
                                          /\ (Over1' /\ ~failed' /\ said' # "error status" => k2 = Len(T))
  <2>1. job'.program \in {"snmputil", "wsnmputil"}
    BY <1>1, JobFacts DEF Programs
  <2>2. PICK x2 \in Nat, k2 \in 0..Len(T) :
           /\ Walked(T, shown', x2, k2)
           /\ job'.program = "snmputil" => UWalk(T, x2, k2)'
           /\ job'.program = "wsnmputil" => WWalk(T, x2, k2)'
    BY <1>3, <1>4 DEF WalkInv
  <2>3. Over1' /\ ~failed' /\ said' # "error status" => k2 = Len(T)
    BY <2>1, <2>2 DEF UWalk, WWalk, Over1
  <2> QED BY <2>2, <2>3
<1>8. IsSeq(Values) /\ Len(Values) = k /\ \A j \in 1..k : Values[j] = T[j]
  <2>1. PICK sh, vs : sh = shown /\ vs = Values
    OBVIOUS
  <2>2. vs = FirstValues(sh)
    BY <2>1 DEF Values, FirstValues
  <2>3. Walked(T, sh, x, k)
    BY <1>6, <2>1
  <2>4. IsSeq(vs) /\ Len(vs) = k /\ \A j \in 1..k : vs[j] = T[j]
    BY <1>5, <2>2, <2>3, ValuesAre
  <2> QED BY <2>1, <2>4
<1>9. IsSeq(Values') /\ Len(Values') = k2 /\ \A j \in 1..k2 : Values'[j] = T[j]
  <2>1. PICK sh, vs : sh = shown' /\ vs = Values'
    OBVIOUS
  <2>2. vs = FirstValues(sh)
    BY <1>3, <2>1 DEF Values, FirstValues
  <2>3. Walked(T, sh, x2, k2)
    BY <1>7, <2>1
  <2>4. IsSeq(vs) /\ Len(vs) = k2 /\ \A j \in 1..k2 : vs[j] = T[j]
    BY <1>5, <2>2, <2>3, ValuesAre
  <2> QED BY <2>1, <2>4
<1>10. k2 = k => Values' = Values
  BY <1>5, <1>8, <1>9, SeqSame
<1>11. k2 = k + 1 => Len(Values) < Len(T) /\ Values' = Append(Values, T[Len(Values) + 1])
  <2>1. SUFFICES ASSUME k2 = k + 1 PROVE Len(Values) < Len(T) /\ Values' = Append(Values, T[Len(Values) + 1])
    OBVIOUS
  <2>2. k < Len(T) /\ k \in Nat
    BY <1>5, <2>1
  <2>3. PICK a : a = Append(Values, T[k + 1])
    OBVIOUS
  <2>4. IsSeq(a) /\ Len(a) = k + 1 /\ a[k + 1] = T[k + 1] /\ \A j \in 1..k : a[j] = T[j]
    BY <1>8, <2>3, QueueAppend
  <2>5. \A j \in 1..Len(a) : a[j] = T[j]
    BY <2>2, <2>4
  <2>6. Values' = a
    BY <1>9, <2>1, <2>4, <2>5, SeqSame
  <2> QED BY <1>8, <2>2, <2>3, <2>6
<1>12. shown' = shown => k2 = k
  <2>1. SUFFICES ASSUME shown' = shown PROVE k2 = k
    OBVIOUS
  <2>2. PICK sh : sh = shown
    OBVIOUS
  <2>3. Walked(T, sh, x, k) /\ Walked(T, sh, x2, k2)
    BY <1>6, <1>7, <2>1, <2>2
  <2> QED BY <1>5, <2>3, SameShown
<1>13. shown' # shown => k2 = k \/ k2 = k + 1
  <2>1. SUFFICES ASSUME shown' # shown PROVE k2 = k \/ k2 = k + 1
    OBVIOUS
  <2>2. PICK v : shown' = Append(shown, v)
    BY <2>1, ShowsOne
  <2> QED BY <1>5, <1>6, <1>7, <2>2, MoreShown
<1>14. CASE Over1'
  <2>1. shown' = shown /\ Values' = Values
    BY <1>10, <1>12, <1>14, DoneIsSilent
  <2>2. CASE Over1
    <3>1. UNCHANGED <<failed, said>>
      BY <1>14, <2>2, DoneIsSilent
    <3>2. WEnded' = WEnded /\ WEnded # "no"
      BY <1>3, <1>14, <2>2, <3>1 DEF WEnded
    <3> QED BY <1>3, <2>1, <3>2
  <2>3. CASE ~Over1
    <3>1. WEnded = "no" /\ WEnded' \in {"complete", "gave up"}
      BY <1>14, <2>3 DEF WEnded
    <3>2. WEnded' = "complete" => k2 = Len(T)
      BY <1>7, <1>14 DEF WEnded
    <3>3. k2 = Len(T) => Values = T
      BY <1>5, <1>8, <1>12, <2>1, SeqSame
    <3> QED BY <1>3, <1>4, <2>1, <3>1, <3>2, <3>3
  <2> QED BY <2>2, <2>3
<1>15. CASE ~Over1'
  <2>1. ~Over1 /\ WEnded = "no" /\ WEnded' = "no"
    BY <1>15, DoneStays DEF WEnded
  <2>2. k2 = k \/ k2 = k + 1
    BY <1>12, <1>13
  <2> QED BY <1>3, <1>4, <1>10, <1>11, <1>15, <2>1, <2>2
<1> QED BY <1>14, <1>15

\* A program that does not walk has nothing to show.
LEMMA NoWalkStep ==
    ASSUME [Next]_vars, ~IsWalk
    PROVE  /\ Target' = Target /\ Values' = Values
           /\ WEnded' = WEnded \/ (WEnded = "no" /\ WEnded' = "gave up")
<1>1. ~IsWalk'
  BY JobKept DEF IsWalk
<1>2. Target = << >> /\ Target' = << >>
  BY <1>1 DEF Target
<1>3. Values = << >> /\ Values' = << >>
  BY <1>1 DEF Values
<1>4. WEnded = (IF Over1 THEN "gave up" ELSE "no") /\ WEnded' = (IF Over1' THEN "gave up" ELSE "no")
  BY <1>1 DEF WEnded
<1> QED BY <1>2, <1>3, <1>4, DoneStays

LEMMA WalkStarts ==
    ASSUME Init PROVE Walk!Init
<1>1. /\ job \in Jobs /\ mib = Storage0 /\ shown = << >> /\ upc = "start" /\ wpc = "start"
  BY DEF Init, NetInit, SnmpExtensionInit, UInit, WInit
<1>2. ~Over1
  BY <1>1 DEF Over1
<1>3. Values = << >>
  <2>1. DOMAIN << >> = {}
    OBVIOUS
  <2>2. SubSeq(<< >>, 1, Cardinality({k \in DOMAIN << >> : IsValue(<< >>[k])})) = << >>
    <3>1. {k \in DOMAIN << >> : IsValue(<< >>[k])} = {}
      BY <2>1
    <3>2. Cardinality({}) = 0
      BY FS_EmptySet
    <3>3. SubSeq(<< >>, 1, 0) = << >>
      OBVIOUS
    <3> QED BY <3>1, <3>2, <3>3
  <2> QED BY <1>1, <2>2 DEF Values
<1> DEFINE Item == [name : Nat, value : [type : {"int", "text"}, n : Nat]]
<1>4. Target \in Seq(Item)
  <2>1. CASE ~IsWalk
    BY <2>1 DEF Target
  <2>2. CASE IsWalk
    <3>1. PICK T : T = Target
      OBVIOUS
    <3>2. T \in Seq(VarBinds) /\ \A j \in 1..Len(T) : IsValue(T[j])
      BY <1>1, <2>2, <3>1, MibStarts, TargetIs, TargetValues
    <3>3. ASSUME NEW vb \in VarBinds, IsValue(vb) PROVE vb \in Item
      BY <3>3 DEF IsValue, VarBinds, Values0
    <3>4. Len(T) \in Nat /\ T = [j \in 1..Len(T) |-> T[j]] /\ \A j \in 1..Len(T) : T[j] \in VarBinds
      BY <3>2
    <3>5. \A j \in 1..Len(T) : T[j] \in Item
      BY <3>2, <3>3, <3>4
    <3> HIDE DEF Item
    <3>6. T \in [1..Len(T) -> Item]
      BY <3>4, <3>5
    <3> QED BY <3>1, <3>4, <3>6
  <2> QED BY <2>1, <2>2
<1> QED BY <1>2, <1>3, <1>4 DEF Walk!Init

WalkReadInv == ReadInv /\ WalkInv

\* SnmpUtil.C:317-403, WSnmpUtil.Cpp:151-185, 590-691: both programs carry out
\* the abstract walk: each varbind of the subtree is printed once and in order,
\* and a walk that ends without an error has printed all of them.
THEOREM WalkRefined == Spec => WalkImplemented
<1>1. Init => Walk!Init /\ WalkReadInv
  BY WalkStarts, WalkInit, WUtilTypedInit, OnceInit, AnswersInit DEF WalkReadInv, ReadInv, SnmpTyped
<1>2. WalkReadInv /\ [Next]_vars => WalkReadInv'
  BY ReadNext, WalkNext DEF WalkReadInv
<1>3. WalkReadInv /\ WalkReadInv' /\ [Next]_vars => [Walk!Next]_(Walk!vars)
  <2> SUFFICES ASSUME WalkReadInv, WalkReadInv', [Next]_vars PROVE [Walk!Next]_(Walk!vars)
    OBVIOUS
  <2>1. CASE IsWalk
    BY <2>1, WalkStep DEF WalkReadInv, WEnded, Walk!Next, Walk!vars, Walk!ShowNext, Walk!Complete, Walk!GiveUp
  <2>2. CASE ~IsWalk
    BY <2>2, NoWalkStep DEF WEnded, Walk!Next, Walk!vars, Walk!GiveUp
  <2> QED BY <2>1, <2>2
<1> QED BY <1>1, <1>2, <1>3, PTL DEF Spec, WalkImplemented, Walk!Spec
=============================================================================
