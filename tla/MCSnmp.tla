------------------------------- MODULE MCSnmp -------------------------------
EXTENDS Snmp

Job(program, op, oids, v2, next, bound) ==
    [program |-> program, op |-> op, oids |-> oids, v2 |-> v2, next |-> next,
     faults |-> bound, value |-> Null, reps |-> 1]

MCJobs ==
    {Job("snmputil", "WALK", <<n>>, FALSE, next, 2) : n \in {0, 7, 9}, next \in BOOLEAN}
    \cup {Job("snmputil", "WALK", <<0, 2>>, FALSE, FALSE, 0)}
    \cup {Job("snmputil", op, <<6, n>>, FALSE, next, 2) :
             op \in {"GET", "GETNEXT"}, n \in {3, 10}, next \in BOOLEAN}
    \cup {Job("wsnmputil", "WALK", <<6>>, TRUE, TRUE, 1), Job("wsnmputil", "SUBTREE", <<0>>, TRUE, TRUE, 0)}
    \cup {Job("wsnmputil", "WALK", <<8>>, v2, next, IF v2 \/ next THEN 1 ELSE 2) :
             v2 \in BOOLEAN, next \in BOOLEAN}
    \cup {Job("wsnmputil", op, <<0>>, FALSE, FALSE, 0) : op \in {"WALK", "SUBTREE"}}
    \cup {Job("wsnmputil", "SUBTREE", <<n>>, v2, FALSE, 2) : n \in {5, 7}, v2 \in BOOLEAN}
    \cup {Job("wsnmputil", "SUBTREE", <<10>>, TRUE, FALSE, 0)}
    \cup {Job("wsnmputil", op, oids, v2, FALSE, 2) :
             op \in {"GET", "GETNEXT"}, oids \in {<<6, 3, 10>>, <<8, Bad, 4>>}, v2 \in BOOLEAN}
    \cup {[Job("wsnmputil", "GETBULK", <<6, 10>>, v2, next, 2) EXCEPT !.reps = 2] :
             v2 \in BOOLEAN, next \in BOOLEAN}
    \cup {[Job("wsnmputil", "SET", <<n>>, v2, FALSE, 2) EXCEPT !.value = value] :
             n \in {2, 5, 6}, v2 \in BOOLEAN, value \in {Null, Number(2), Number(8)}}
    \cup {Job(program, "trap", << >>, FALSE, FALSE, 0) : program \in Programs}

\* Good and bad varbinds of a SET: two variables with one good and one bad
\* value each, a read-only variable, a wrong type and a name that is none.
Written == {VarBind(6, Number(2)), VarBind(6, Number(3)), VarBind(8, Number(5)), VarBind(8, Number(11)),
            VarBind(2, Text(5)), VarBind(8, Text(5)), VarBind(9, Number(1))}
MCOtherRequests ==
    {[type |-> "SET", vbs |-> <<x, y>>] : x \in Written, y \in Written}
    \cup {[type |-> type, vbs |-> <<VarBind(m, Null), VarBind(n, Null)>>] :
             type \in {"GET", "GETNEXT"}, m \in {0, 6}, n \in {8, 11}}
=============================================================================
