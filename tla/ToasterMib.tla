----------------------------- MODULE ToasterMib -----------------------------
(***************************************************************************)
(* The MIB of the sample extension agent (src/snmp/testdll/TestMIB.C) and  *)
(* what SnmpExtensionQuery of TestDll.C does with a list of varbinds, as   *)
(* functions of the storage.                                               *)
(*                                                                         *)
(* Object identifiers are the naturals: their order is all the code uses.  *)
(* 0 is the prefix of the view, 2*i is the instance of variable i and      *)
(* 2*i - 1 the column above it; Outside is the prefix with its last number *)
(* incremented.                                                            *)
(***************************************************************************)
EXTENDS Naturals, Sequences, SequencesExt

Value(type, n) == [type |-> type, n |-> n]
AsnTypes == {"int", "text", "null", "end", "none", "unset"}
Number(n) == Value("int", n)
Text(n) == Value("text", n)     \* n tells one text from another
Null == Value("null", 0)

\* The table: what may be done with each variable and in which range.
Mib == <<[access |-> "read", type |-> "text", low |-> 0, high |-> 0],
         [access |-> "read", type |-> "text", low |-> 0, high |-> 0],
         [access |-> "readwrite", type |-> "int", low |-> 1, high |-> 2],
         [access |-> "readwrite", type |-> "int", low |-> 1, high |-> 10],
         [access |-> "readwrite", type |-> "int", low |-> 1, high |-> 7]>>

Storage0 == <<Text(1), Text(2), Number(1), Number(2), Number(3)>>

Variables == DOMAIN Mib
NameOf(i) == 2 * i
Outside   == 2 * Len(Mib) + 2

VarBind(name, value) == [name |-> name, value |-> value]
Result(status, vb, stor) == [status |-> status, vb |-> vb, stor |-> stor]
-----------------------------------------------------------------------------
MIB_leaf_func(action, i, vb, stor) ==
    LET Got(j) == Result("noError", VarBind(NameOf(j), stor[j]), stor)
    IN  CASE action = "GETNEXT" /\ i + 1 \in Variables -> Got(i + 1)
          [] action = "GETNEXT" /\ i + 1 \notin Variables -> Result("noSuchName", vb, stor)
          [] action = "GET" -> Got(i)
          [] action = "SET" /\ Mib[i].access # "readwrite" -> Result("noSuchName", vb, stor)
          [] action = "SET" /\ Mib[i].access = "readwrite" /\ Mib[i].type # vb.value.type ->
                 Result("badValue", vb, stor)
          [] OTHER -> Result("noError", vb, [stor EXCEPT ![i] = vb.value])

\* Mutant: the upper end of the range is not looked at.
MibFuncNoHigh(action, i, vb, stor) ==
    IF /\ action = "SET" /\ Mib[i].access = "readwrite"
       /\ Mib[i].type = vb.value.type /\ vb.value.n < Mib[i].low
    THEN Result("badValue", vb, stor)
    ELSE MIB_leaf_func(action, i, vb, stor)

\* MIB_control_func, MIB_doneness_func and MIB_toasttype_func look at access,
\* type and range before they leave the rest to MIB_leaf_func.
MibFunc(action, i, vb, stor) ==
    IF /\ action = "SET" /\ Mib[i].access = "readwrite"
       /\ Mib[i].type = vb.value.type /\ vb.value.n \notin Mib[i].low..Mib[i].high
    THEN Result("badValue", vb, stor)
    ELSE MIB_leaf_func(action, i, vb, stor)

\* The scan stops at the first variable that is not before the name.
ResolveVarBind(action, vb, stor) ==
    LET Rest == {i \in Variables : vb.name <= NameOf(i)}
        i    == CHOOSE j \in Rest : \A k \in Rest : j <= k
    IN  CASE Rest = {} -> Result("noSuchName", vb, stor)
          [] Rest # {} /\ vb.name = NameOf(i) -> MibFunc(action, i, vb, stor)
          [] Rest # {} /\ vb.name # NameOf(i) /\ action = "GETNEXT" ->
                 MibFunc("GET", i, [vb EXCEPT !.name = NameOf(i)], stor)
          [] OTHER -> Result("noSuchName", vb, stor)

\* Mutant: an error does not end the loop.
AfterGoesOn(action, acc, I, r) ==
    IF action = "GETNEXT" /\ r.status = "noSuchName" THEN [acc EXCEPT !.vbs[I].name = Outside]
    ELSE [status |-> r.status, vbs |-> [acc.vbs EXCEPT ![I] = r.vb],
          index |-> IF r.status = "noError" THEN 0 ELSE I, stor |-> r.stor]

\* The state of the loop after varbind I, whose result is r.  A GETNEXT that
\* finds nothing is no error: its name is put just outside the view.
After(action, acc, I, r) ==
    CASE acc.status # "noError" -> acc
      [] acc.status = "noError" /\ action = "GETNEXT" /\ r.status = "noSuchName" ->
             [acc EXCEPT !.vbs[I].name = Outside]
      [] OTHER -> [status |-> r.status, vbs |-> [acc.vbs EXCEPT ![I] = r.vb],
                   index |-> IF r.status = "noError" THEN 0 ELSE I, stor |-> r.stor]

\* The loop of SnmpExtensionQuery, one varbind after another up to an error.
Untouched(vbs, stor) == [status |-> "noError", index |-> 0, vbs |-> vbs, stor |-> stor]

Turn(action, acc, I) ==
    After(action, acc, I, ResolveVarBind(action, acc.vbs[I], acc.stor))

Query(action, vbs, stor) ==
    LET Loop[I \in 0..Len(vbs)] ==
            IF I = 0 THEN Untouched(vbs, stor) ELSE Turn(action, Loop[I - 1], I)
    IN  Loop[Len(vbs)]
-----------------------------------------------------------------------------
(* What a query promises, said without the table's scan. *)

NextName(name) ==
    LET Beyond == {NameOf(i) : i \in Variables} \cap ((name + 1)..Outside)
    IN  IF Beyond = {} THEN Outside ELSE CHOOSE m \in Beyond : \A k \in Beyond : m <= k

Good(action, vb) ==
    CASE action = "GETNEXT" -> TRUE
      [] action = "GET" -> \E i \in Variables : vb.name = NameOf(i)
      [] action = "SET" -> \E i \in 3..5 : vb.name = NameOf(i) /\ vb.value.type = "int"
                                           /\ vb.value.n \in 1..(CASE i = 3 -> 2 [] i = 4 -> 10 [] i = 5 -> 7)

\* A read gives the value of the variable named, or of the next one.  A write
\* stops at the first varbind that is not good and has carried out exactly the
\* ones before it, the last one counting where a variable is named twice.
QueryPromise(action, vbs, stor) ==
    LET q    == Query(action, vbs, stor)
        Bad  == {I \in DOMAIN vbs : ~Good(action, vbs[I])}
        upTo == IF Bad = {} THEN Len(vbs) ELSE q.index - 1
        LastFor(i) == LET On == {I \in 1..upTo : vbs[I].name = NameOf(i)}
                      IN  IF On = {} THEN stor[i]
                          ELSE vbs[CHOOSE I \in On : \A J \in On : J <= I].value
    IN  /\ Bad = {} <=> q.status = "noError"
        /\ Bad # {} => q.index \in Bad /\ \A I \in Bad : q.index <= I
        /\ action = "SET" => \A i \in Variables : q.stor[i] = LastFor(i)
        /\ action # "SET" => q.stor = stor
        /\ action = "GETNEXT" => \A I \in DOMAIN vbs : q.vbs[I].name = NextName(vbs[I].name)
        /\ action = "GET" => \A I \in 1..upTo : q.vbs[I].name = vbs[I].name
        /\ action # "SET" => \A I \in 1..upTo, i \in Variables :
               q.vbs[I].name = NameOf(i) => q.vbs[I].value = stor[i]
=============================================================================
