------------------------------ MODULE SnmpNet -------------------------------
(***************************************************************************)
(* What the manager programs, the network and the agent share: the command *)
(* line that was given, the messages that are on their way and what has    *)
(* been printed.                                                           *)
(***************************************************************************)
EXTENDS ToasterMib

CONSTANTS
    Jobs,           \* the command lines; the field faults of each is a bound:
                    \* requests given up or sent twice
    MaxRequests,    \* bound: requests of one program
    MaxOthers,      \* bound: requests of other managers
    OtherRequests   \* what other managers ask for

VARIABLES
    job,        \* the command line: program, operation, names, value and
                \* version, and whether another agent follows this one
    requests,   \* requests on their way to the agent
    replies,    \* responses on their way back
    trapNet,    \* traps on their way to the manager's host
    faults,     \* requests given up or sent twice so far
    shown,      \* varbinds printed
    trapsShown, \* traps printed
    missed,     \* traps that came before the program listened
    said,       \* what the program said at the end
    failed      \* a call of the SNMP library failed

net    == <<requests, replies, trapNet, faults>>
screen == <<shown, trapsShown, missed, said, failed>>

Programs == {"snmputil", "wsnmputil"}

Operations(program) ==
    {"GET", "GETNEXT", "WALK", "trap"}
        \cup IF program = "wsnmputil" THEN {"GETBULK", "SUBTREE", "SET"} ELSE {}

\* A command line of an operation other than trap names something; snmputil
\* speaks version 1.  What other managers send is well formed.
ASSUME NetAssumption ==
    /\ \A j \in Jobs :
          /\ j.program \in Programs /\ j.op \in Operations(j.program)
          /\ j.oids \in Seq(Nat) /\ (j.op # "trap" => j.oids # << >>)
          /\ j.v2 \in BOOLEAN /\ j.next \in BOOLEAN /\ (j.program = "snmputil" => ~j.v2)
          /\ j.value \in [type : AsnTypes, n : Nat]
          /\ j.faults \in Nat /\ j.reps \in Nat
    /\ \A x \in OtherRequests :
          /\ x.type \in {"GET", "GETNEXT", "SET"}
          /\ x.vbs \in Seq([name : Nat, value : [type : AsnTypes, n : Nat]]) /\ x.vbs # << >>
    /\ MaxRequests \in Nat /\ MaxOthers \in Nat

Request(id, type, vbs) == [id |-> id, type |-> type, vbs |-> vbs]

\* SnmpUtilOidNCmp and SnmpOidCompare with the length of the root.
Under(root) == IF root = 0 THEN 0..(Outside - 1)
               ELSE IF root % 2 = 1 THEN {root, root + 1} ELSE {root}

\* The variable another agent of the machine serves after this one's view.
Foreign == Outside + 1

NetInit ==
    /\ job \in Jobs
    /\ requests = {} /\ replies = {} /\ trapNet = 0 /\ faults = 0
    /\ shown = << >> /\ trapsShown = 0 /\ missed = 0 /\ said = "" /\ failed = FALSE
=============================================================================
