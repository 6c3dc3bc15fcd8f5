-------------------------------- MODULE Ring0 --------------------------------
(***************************************************************************)
(* Ring0.cpp and InstDrv.cpp: every program that reads sensors brings the  *)
(* kernel driver along, installs and starts it as a service if the device  *)
(* is not there, and stops the service when it ends.  The service manager  *)
(* and the named mutex Access_ISABUS.HTP.Method are external.              *)
(***************************************************************************)
EXTENDS LpcBus

CONSTANT Programs

VARIABLES
    pc,       \* where each program is
    service,  \* the service: its entry ("none", "installed" or "marked" for
              \* deletion) and the driver ("stopped", "running" or "stopping")
    handles,  \* programs with the device open
    owner,    \* who holds the mutex, or Nobody
    starts,   \* times each program was started
    killed,   \* programs killed so far
    shared    \* programs that have not been alone since they called Open

os == <<service, handles, owner, starts, killed, shared>>

CONSTANT Nobody
ASSUME NobodyAssumption == Nobody \notin Programs

Gone == {"off", "failed"}
Alive(p) == pc[p] \notin Gone
Others(p) == {q \in Programs \ {p} : Alive(q)}

Fails(call) == call \in board.fails
\* Programs to which OpenSCManager gives the service manager.
Managers == Programs \cap board.rights
\* Programs that can bring the driver up: nothing they call for it is refused.
Able == IF Fails("open") \/ Fails("extract") \/ Fails("create") \/ Fails("start") THEN {} ELSE Managers

OsInit ==
    /\ pc = [p \in Programs |-> "off"]
    /\ service = [entry |-> "none", driver |-> "stopped"]
    /\ handles = {} /\ owner = Nobody /\ killed = 0
    /\ starts = [p \in Programs |-> 0] /\ shared = {}

Goto(p, where) == pc' = [pc EXCEPT ![p] = where]

\* The driver goes when it has been stopped and nobody has the device open,
\* and the entry with it when it is marked.
Settled(s, open) ==
    IF s.driver = "stopping" /\ open = {}
    THEN [entry |-> IF s.entry = "marked" THEN "none" ELSE s.entry, driver |-> "stopped"] ELSE s
-----------------------------------------------------------------------------
\* InitCPUSenor calls Open.
Begin(p) ==
    /\ pc[p] = "off" /\ starts[p] < board.starts[p]
    /\ starts' = [starts EXCEPT ![p] = @ + 1]
    /\ shared' = IF Others(p) = {} THEN shared \ {p} ELSE shared \cup {p} \cup Others(p)
    /\ Goto(p, "open")
    /\ UNCHANGED <<service, handles, owner, killed>>

\* CreateFile of the device; the driver, or why there is no handle.
Opens(p) == service.driver = "running" /\ Goto(p, "cpu") /\ handles' = handles \cup {p}
NotOpened == (service.driver # "running" \/ Fails("open")) /\ UNCHANGED handles

\* Mutant: a program that finds the driver does not install it, and one that
\* does not find it relies on there being no entry.
OpenNoRemove(p) ==
    /\ pc[p] = "open"
    /\ \/ Opens(p)
       \/ NotOpened /\ Goto(p, "create")
    /\ UNCHANGED <<service, owner, starts, killed, shared>>

\* If there is no device, extract the driver's file and install it.
Open(p) ==
    /\ pc[p] = "open"
    /\ \/ Opens(p)
       \/ NotOpened /\ Goto(p, "stop")
       \/ NotOpened /\ Fails("extract") /\ Goto(p, "failed")
    /\ UNCHANGED <<service, owner, starts, killed, shared>>

\* Without the service manager, or without an entry, nothing is stopped.
StopWinIoDriver(p) ==
    service' = IF p \notin Managers \/ service.entry = "none" \/ service.driver # "running" THEN service
               ELSE Settled([service EXCEPT !.driver = "stopping"], handles)

\* RemoveWinIoDriver: stop, then delete.
RemoveStops(p) ==
    /\ pc[p] = "stop" /\ Goto(p, "delete")
    /\ StopWinIoDriver(p)
    /\ UNCHANGED <<handles, owner, starts, killed, shared>>

RemoveWinIoDriver(p) ==
    /\ pc[p] = "delete" /\ Goto(p, "create")
    /\ service' = IF p \notin Managers \/ service.entry = "none" THEN service
                  ELSE [service EXCEPT !.entry = IF service.driver = "stopped" THEN "none" ELSE "marked"]
    /\ UNCHANGED <<handles, owner, starts, killed, shared>>

InstallWinIoDriver(p) ==
    /\ pc[p] = "create"
    /\ \/ /\ p \in Managers /\ service.entry = "none"
          /\ service' = [service EXCEPT !.entry = "installed"] /\ Goto(p, "start")
       \/ /\ p \notin Managers \/ service.entry # "none" \/ Fails("create")
          /\ UNCHANGED service /\ Goto(p, "failed")
    /\ UNCHANGED <<handles, owner, starts, killed, shared>>

\* A driver that runs already counts as started.
Startable == service.entry = "installed" /\ service.driver # "stopping"

StartWinIoDriver(p) ==
    /\ pc[p] = "start"
    /\ \/ /\ p \in Managers /\ Startable
          /\ service' = [service EXCEPT !.driver = "running"] /\ Goto(p, "reopen")
       \/ /\ p \notin Managers \/ ~Startable \/ Fails("start")
          /\ UNCHANGED service /\ Goto(p, "failed")
    /\ UNCHANGED <<handles, owner, starts, killed, shared>>

Reopen(p) ==
    /\ pc[p] = "reopen"
    /\ \/ Opens(p)
       \/ NotOpened /\ Goto(p, "failed")
    /\ UNCHANGED <<service, owner, starts, killed, shared>>

\* ~Ring0: the reference count is read and not used.
Close(p) ==
    /\ pc[p] = "close" /\ Goto(p, "exit")
    /\ StopWinIoDriver(p)
    /\ UNCHANGED <<handles, owner, starts, killed, shared>>

\* The end of a process closes its handle and abandons its mutex.
Ended(p) ==
    /\ handles' = handles \ {p}
    /\ service' = Settled(service, handles')
    /\ owner' = IF owner = p THEN Nobody ELSE owner
    /\ Goto(p, "off")
    /\ UNCHANGED starts

Exit(p) == pc[p] = "exit" /\ Ended(p) /\ UNCHANGED <<killed, shared>>

Kill(p) == Alive(p) /\ killed < board.kills /\ Ended(p) /\ killed' = killed + 1 /\ UNCHANGED shared

Ring0Next(p) ==
    \/ Begin(p) \/ Open(p) \/ RemoveStops(p) \/ RemoveWinIoDriver(p) \/ InstallWinIoDriver(p)
    \/ StartWinIoDriver(p) \/ Reopen(p) \/ Close(p) \/ Exit(p)
-----------------------------------------------------------------------------
\* Mutant: the result of Lock is not looked at.
WaitUnchecked(p) == owner' = p

\* An abandoned mutex is acquired like a free one, and so is one's own.
WaitIsaBusMutex(p) == owner \in {Nobody, p} /\ owner' = p

ReleaseIsaBusMutex(p) == owner' = IF owner = p THEN Nobody ELSE owner
\* It is held by another program for the whole time.
WaitTimesOut(p) == owner \notin {Nobody, p}
-----------------------------------------------------------------------------
(* Properties *)

\* Ring0.cpp:114-160, InstDrv.cpp:18-125: whatever state earlier programs,
\* killed or not, with or without the right to manage services, have left the
\* service in, a program that is alone, has that right and meets no refusal
\* opens the device; and such programs that install the driver beside each
\* other, each removing what the other has installed, do not all fail.
DeviceOpens ==
    /\ \A p \in Able : pc[p] = "failed" => p \in shared
    /\ Able = Programs /\ Cardinality(Programs) > 1 => \E p \in Programs : pc[p] # "failed"
=============================================================================
