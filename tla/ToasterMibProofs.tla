-------------------------- MODULE ToasterMibProofs --------------------------
(***************************************************************************)
(* Proofs about the agent's MIB (module ToasterMib): what the loop of      *)
(* SnmpExtensionQuery answers to any list of varbinds in any storage.      *)
(***************************************************************************)
EXTENDS ToasterMib, WellFoundedInduction, TLAPS

Values0  == [type : AsnTypes, n : Nat]
VarBinds == [name : Nat, value : Values0]
Storages == [Variables -> Values0]
Actions  == {"GET", "GETNEXT", "SET"}

-----------------------------------------------------------------------------
(* The table. *)

LEMMA Table ==
    /\ Variables = 1..5 /\ Len(Mib) = 5 /\ Outside = 12
    /\ \A i \in 1..5 : Mib[i].access \in {"read", "readwrite"} /\ (Mib[i].access = "readwrite" <=> i \in 3..5)
    /\ \A i \in 3..5 : Mib[i].type = "int" /\ Mib[i].low = 1
    /\ Mib[3].high = 2 /\ Mib[4].high = 10 /\ Mib[5].high = 7
BY DEF Mib, Variables, Outside

LEMMA Records ==
    /\ \A n, v : VarBind(n, v).name = n /\ VarBind(n, v).value = v
    /\ \A n \in Nat, v \in Values0 : VarBind(n, v) \in VarBinds
    /\ \A s, b, t : Result(s, b, t).status = s /\ Result(s, b, t).vb = b /\ Result(s, b, t).stor = t
BY DEF VarBind, VarBinds, Result

\* The scan of ResolveVarBind.
Rest(name) == {i \in Variables : name <= NameOf(i)}
First(name) == CHOOSE j \in Rest(name) : \A k \in Rest(name) : j <= k

LEMMA Scan ==
    ASSUME NEW name \in Nat
    PROVE  /\ name > 10 <=> Rest(name) = {}
           /\ name <= 10 => /\ First(name) \in 1..5 /\ name <= NameOf(First(name))
                            /\ \A k \in 1..5 : name <= NameOf(k) => First(name) <= k
           /\ \A k \in 1..5 : name = NameOf(k) => First(name) = k
<1>1. ASSUME NEW i \in 1..5, name <= 2 * i, \A k \in 1..5 : name <= 2 * k => i <= k
      PROVE  First(name) = i /\ Rest(name) # {}
  <2>1. i \in Rest(name) /\ \A k \in Rest(name) : i <= k
    BY <1>1, Table DEF Rest, NameOf
  <2>2. \A j \in Rest(name) : (\A k \in Rest(name) : j <= k) => j = i
    BY <2>1, Table DEF Rest
  <2> QED BY <2>1, <2>2 DEF First
<1>2. CASE name > 10
  BY <1>2, Table DEF Rest, NameOf
<1>3. CASE name \in 0..2
  BY <1>1, <1>3 DEF NameOf
<1>4. CASE name \in 3..4
  BY <1>1, <1>4 DEF NameOf
<1>5. CASE name \in 5..6
  BY <1>1, <1>5 DEF NameOf
<1>6. CASE name \in 7..8
  BY <1>1, <1>6 DEF NameOf
<1>7. CASE name \in 9..10
  BY <1>1, <1>7 DEF NameOf
<1> QED BY <1>2, <1>3, <1>4, <1>5, <1>6, <1>7

\* The next name, as the scan finds it.
LEMMA NextIs ==
    ASSUME NEW name \in Nat
    PROVE  /\ name >= 10 => NextName(name) = Outside
           /\ \A i \in 1..5 :
                 name < NameOf(i) /\ (\A k \in 1..5 : name < NameOf(k) => i <= k)
                     => NextName(name) = NameOf(i)
<1> DEFINE Beyond == {NameOf(i) : i \in Variables} \cap ((name + 1)..Outside)
<1>1. NextName(name) = IF Beyond = {} THEN Outside ELSE CHOOSE m \in Beyond : \A k \in Beyond : m <= k
  BY DEF NextName
<1>2. Beyond = {NameOf(i) : i \in {k \in 1..5 : name < NameOf(k)}}
  BY Table DEF NameOf
<1> HIDE DEF Beyond
<1>3. ASSUME name >= 10 PROVE NextName(name) = Outside
  <2>1. Beyond = {}
    BY <1>2, <1>3 DEF NameOf
  <2> QED BY <1>1, <2>1
<1>4. ASSUME NEW i \in 1..5, name < NameOf(i), \A k \in 1..5 : name < NameOf(k) => i <= k
      PROVE  NextName(name) = NameOf(i)
  <2>1. NameOf(i) \in Beyond /\ \A k \in Beyond : NameOf(i) <= k
    BY <1>2, <1>4 DEF NameOf
  <2>2. \A m \in Beyond : m \in Nat
    BY <1>2 DEF NameOf
  <2>3. \A m \in Beyond : (\A k \in Beyond : m <= k) => m = NameOf(i)
    BY <2>1, <2>2
  <2> QED BY <1>1, <2>1, <2>3
<1> QED BY <1>3, <1>4

\* What MibFunc gives: the value that is stored, or the value stored.
LEMMA GetVariable ==
    ASSUME NEW i \in 1..5, NEW vb, NEW stor
    PROVE  MibFunc("GET", i, vb, stor) = Result("noError", VarBind(NameOf(i), stor[i]), stor)
BY DEF MibFunc, MIB_leaf_func

LEMMA NextVariable ==
    ASSUME NEW i \in 1..5, NEW vb, NEW stor
    PROVE  /\ i < 5 => MibFunc("GETNEXT", i, vb, stor)
                          = Result("noError", VarBind(NameOf(i + 1), stor[i + 1]), stor)
           /\ i = 5 => MibFunc("GETNEXT", i, vb, stor) = Result("noSuchName", vb, stor)
BY Table DEF MibFunc, MIB_leaf_func

LEMMA SetVariable ==
    ASSUME NEW i \in 1..5, NEW vb \in VarBinds, NEW stor, vb.name = NameOf(i)
    PROVE  /\ Good("SET", vb) => MibFunc("SET", i, vb, stor)
                                    = Result("noError", vb, [stor EXCEPT ![i] = vb.value])
           /\ ~Good("SET", vb) => \/ MibFunc("SET", i, vb, stor) = Result("noSuchName", vb, stor)
                                  \/ MibFunc("SET", i, vb, stor) = Result("badValue", vb, stor)
<1>1. vb.value.n \in Nat
  BY DEF VarBinds, Values0
<1>2. Good("SET", vb) <=> i \in 3..5 /\ vb.value.type = "int" /\ vb.value.n \in Mib[i].low..Mib[i].high
  BY Table DEF Good, NameOf
<1> QED BY <1>1, <1>2, Table DEF MibFunc, MIB_leaf_func
-----------------------------------------------------------------------------
(* One varbind: what ResolveVarBind gives. *)

LEMMA Resolve ==
    ASSUME NEW action, NEW vb \in VarBinds, NEW stor
    PROVE  /\ vb.name > 10 => ResolveVarBind(action, vb, stor) = Result("noSuchName", vb, stor)
           /\ \A i \in 1..5 : vb.name = NameOf(i) =>
                 ResolveVarBind(action, vb, stor) = MibFunc(action, i, vb, stor)
           /\ vb.name <= 10 /\ (\A i \in 1..5 : vb.name # NameOf(i)) /\ action # "GETNEXT" =>
                 ResolveVarBind(action, vb, stor) = Result("noSuchName", vb, stor)
           /\ \A i \in 1..5 :
                 action = "GETNEXT" /\ vb.name < NameOf(i) /\ (\A k \in 1..5 : vb.name <= NameOf(k) => i <= k)
                     => ResolveVarBind(action, vb, stor)
                            = Result("noError", VarBind(NameOf(i), stor[i]), stor)
<1>1. vb.name \in Nat
  BY DEF VarBinds
<1>2. ResolveVarBind(action, vb, stor) =
        CASE Rest(vb.name) = {} -> Result("noSuchName", vb, stor)
          [] Rest(vb.name) # {} /\ vb.name = NameOf(First(vb.name)) ->
                 MibFunc(action, First(vb.name), vb, stor)
          [] Rest(vb.name) # {} /\ vb.name # NameOf(First(vb.name)) /\ action = "GETNEXT" ->
                 MibFunc("GET", First(vb.name), [vb EXCEPT !.name = NameOf(First(vb.name))], stor)
          [] OTHER -> Result("noSuchName", vb, stor)
  BY DEF ResolveVarBind, Rest, First
<1>3. /\ vb.name > 10 <=> Rest(vb.name) = {}
      /\ vb.name <= 10 => /\ First(vb.name) \in 1..5 /\ vb.name <= NameOf(First(vb.name))
                          /\ \A k \in 1..5 : vb.name <= NameOf(k) => First(vb.name) <= k
      /\ \A k \in 1..5 : vb.name = NameOf(k) => First(vb.name) = k
  BY <1>1, Scan
<1>4. \A i \in 1..5 : NameOf(i) \in Nat /\ NameOf(i) <= 10
  BY DEF NameOf
<1>5. ASSUME vb.name > 10 PROVE ResolveVarBind(action, vb, stor) = Result("noSuchName", vb, stor)
  BY <1>2, <1>3, <1>5
<1>6. ASSUME NEW i \in 1..5, vb.name = NameOf(i)
      PROVE  ResolveVarBind(action, vb, stor) = MibFunc(action, i, vb, stor)
  BY <1>1, <1>2, <1>3, <1>4, <1>6
<1>7. ASSUME vb.name <= 10, \A i \in 1..5 : vb.name # NameOf(i), action # "GETNEXT"
      PROVE  ResolveVarBind(action, vb, stor) = Result("noSuchName", vb, stor)
  BY <1>1, <1>2, <1>3, <1>7
<1>8. ASSUME NEW i \in 1..5, vb.name < NameOf(i), \A k \in 1..5 : vb.name <= NameOf(k) => i <= k,
             action = "GETNEXT"
      PROVE  ResolveVarBind(action, vb, stor) = Result("noError", VarBind(NameOf(i), stor[i]), stor)
  <2>1. vb.name <= 10
    BY <1>1, <1>4, <1>8
  <2>2. First(vb.name) = i
    BY <1>1, <1>3, <1>4, <1>8, <2>1
  <2>3. Rest(vb.name) # {} /\ vb.name # NameOf(i)
    BY <1>1, <1>3, <1>4, <1>8, <2>1
  <2>4. ResolveVarBind(action, vb, stor) = MibFunc("GET", i, [vb EXCEPT !.name = NameOf(i)], stor)
    BY <1>2, <1>8, <2>2, <2>3
  <2> QED BY <2>4, GetVariable
<1> QED BY <1>5, <1>6, <1>7, <1>8

LEMMA GetResolved ==
    ASSUME NEW vb \in VarBinds, NEW stor
    PROVE  /\ Good("GET", vb) <=> \E i \in 1..5 : vb.name = NameOf(i)
           /\ \A i \in 1..5 : vb.name = NameOf(i) =>
                 ResolveVarBind("GET", vb, stor) = Result("noError", VarBind(NameOf(i), stor[i]), stor)
           /\ ~Good("GET", vb) => ResolveVarBind("GET", vb, stor) = Result("noSuchName", vb, stor)
<1>1. vb.name \in Nat
  BY DEF VarBinds
<1>2. Good("GET", vb) <=> \E i \in 1..5 : vb.name = NameOf(i)
  BY Table DEF Good
<1> QED BY <1>1, <1>2, Resolve, GetVariable

LEMMA NextResolved ==
    ASSUME NEW vb \in VarBinds, NEW stor
    PROVE  /\ Good("GETNEXT", vb)
           /\ \/ /\ NextName(vb.name) = Outside
                 /\ ResolveVarBind("GETNEXT", vb, stor) = Result("noSuchName", vb, stor)
              \/ \E i \in 1..5 :
                    /\ NextName(vb.name) = NameOf(i)
                    /\ ResolveVarBind("GETNEXT", vb, stor)
                           = Result("noError", VarBind(NameOf(i), stor[i]), stor)
<1>0. Good("GETNEXT", vb)
  BY DEF Good
<1>1. vb.name \in Nat
  BY DEF VarBinds
<1>2. CASE vb.name > 10
  <2>1. NextName(vb.name) = Outside
    BY <1>1, <1>2, NextIs
  <2> QED BY <1>0, <1>2, <2>1, Resolve
<1>3. ASSUME NEW i \in 1..5, vb.name = NameOf(i)
      PROVE  \/ /\ NextName(vb.name) = Outside
                /\ ResolveVarBind("GETNEXT", vb, stor) = Result("noSuchName", vb, stor)
             \/ \E j \in 1..5 :
                   /\ NextName(vb.name) = NameOf(j)
                   /\ ResolveVarBind("GETNEXT", vb, stor)
                          = Result("noError", VarBind(NameOf(j), stor[j]), stor)
  <2>1. ResolveVarBind("GETNEXT", vb, stor) = MibFunc("GETNEXT", i, vb, stor)
    BY <1>3, Resolve
  <2>2. CASE i = 5
    <3>1. NextName(vb.name) = Outside
      BY <1>1, <1>3, <2>2, NextIs DEF NameOf
    <3> QED BY <2>1, <2>2, <3>1, NextVariable
  <2>3. CASE i < 5
    <3>1. i + 1 \in 1..5 /\ vb.name < NameOf(i + 1)
             /\ \A k \in 1..5 : vb.name < NameOf(k) => i + 1 <= k
      BY <1>3, <2>3 DEF NameOf
    <3>2. NextName(vb.name) = NameOf(i + 1)
      BY <1>1, <3>1, NextIs
    <3> QED BY <2>1, <2>3, <3>1, <3>2, NextVariable
  <2> QED BY <2>2, <2>3
<1>4. CASE vb.name <= 10 /\ \A i \in 1..5 : vb.name # NameOf(i)
  <2>1. First(vb.name) \in 1..5 /\ vb.name <= NameOf(First(vb.name))
           /\ \A k \in 1..5 : vb.name <= NameOf(k) => First(vb.name) <= k
    BY <1>1, <1>4, Scan
  <2> DEFINE i == First(vb.name)
  <2> HIDE DEF i
  <2>2. i \in 1..5 /\ vb.name < NameOf(i) /\ (\A k \in 1..5 : vb.name <= NameOf(k) => i <= k)
    BY <1>1, <1>4, <2>1 DEF i, NameOf
  <2>3. NextName(vb.name) = NameOf(i)
    <3>1. \A k \in 1..5 : vb.name < NameOf(k) => i <= k
      BY <1>1, <2>2 DEF NameOf
    <3> QED BY <1>1, <2>2, <3>1, NextIs
  <2>4. ResolveVarBind("GETNEXT", vb, stor) = Result("noError", VarBind(NameOf(i), stor[i]), stor)
    BY <2>2, Resolve
  <2> QED BY <1>0, <2>2, <2>3, <2>4
<1> QED BY <1>0, <1>1, <1>2, <1>3, <1>4

LEMMA SetResolved ==
    ASSUME NEW vb \in VarBinds, NEW stor
    PROVE  /\ Good("SET", vb) => \E i \in 1..5 :
                 /\ vb.name = NameOf(i)
                 /\ ResolveVarBind("SET", vb, stor)
                        = Result("noError", vb, [stor EXCEPT ![i] = vb.value])
           /\ ~Good("SET", vb) =>
                 \E s \in {"noSuchName", "badValue"} :
                     ResolveVarBind("SET", vb, stor) = Result(s, vb, stor)
<1>1. vb.name \in Nat
  BY DEF VarBinds
<1>2. Good("SET", vb) => \E i \in 1..5 : vb.name = NameOf(i)
  BY DEF Good
<1>3. CASE \E i \in 1..5 : vb.name = NameOf(i)
  <2>1. PICK i \in 1..5 : vb.name = NameOf(i)
    BY <1>3
  <2>2. ResolveVarBind("SET", vb, stor) = MibFunc("SET", i, vb, stor)
    BY <2>1, Resolve
  <2>3. CASE Good("SET", vb)
    <3>1. MibFunc("SET", i, vb, stor) = Result("noError", vb, [stor EXCEPT ![i] = vb.value])
      BY <2>1, <2>3, SetVariable
    <3> QED BY <2>1, <2>2, <2>3, <3>1
  <2>4. CASE ~Good("SET", vb)
    <3>1. \/ MibFunc("SET", i, vb, stor) = Result("noSuchName", vb, stor)
          \/ MibFunc("SET", i, vb, stor) = Result("badValue", vb, stor)
      BY <2>1, <2>4, SetVariable
    <3> QED BY <2>2, <2>4, <3>1
  <2> QED BY <2>3, <2>4
<1>4. CASE \A i \in 1..5 : vb.name # NameOf(i)
  BY <1>1, <1>2, <1>4, Resolve
<1> QED BY <1>3, <1>4
-----------------------------------------------------------------------------
(* The loop exists: it is a function by recursion over the varbinds. *)

IsLoop(f, n, action, vbs, stor) ==
    f = [I \in 0..n |-> IF I = 0 THEN Untouched(vbs, stor) ELSE Turn(action, f[I - 1], I)]

LEMMA LeastNatural ==
    ASSUME NEW T, T \subseteq Nat, T # {}
    PROVE  \E m \in T : \A k \in T : m <= k
<1>1. PICK m \in T : \A k \in T : ~(<<k, m>> \in OpToRel(<, Nat))
  BY NatLessThanWellFounded, WFMin, Zenon
<1>2. ASSUME NEW k \in T PROVE m <= k
  <2>1. k \in Nat /\ m \in Nat
    OBVIOUS
  <2>2. <<k, m>> \notin {ss \in Nat \X Nat : ss[1] < ss[2]}
    BY <1>1, Zenon DEF OpToRel
  <2> QED BY <2>1, <2>2
<1> QED BY <1>2

LEMMA LoopStarts ==
    ASSUME NEW action, NEW vbs, NEW stor
    PROVE  \E f : IsLoop(f, 0, action, vbs, stor)
<1> DEFINE f == [I \in 0..0 |-> Untouched(vbs, stor)]
<1>1. f = [I \in 0..0 |-> IF I = 0 THEN Untouched(vbs, stor) ELSE Turn(action, f[I - 1], I)]
  <2>1. \A I \in 0..0 : I = 0
    OBVIOUS
  <2> QED BY <2>1
<1> QED BY <1>1 DEF IsLoop

LEMMA LoopGoesOn ==
    ASSUME NEW action, NEW vbs, NEW stor, NEW n \in Nat, NEW g, IsLoop(g, n, action, vbs, stor)
    PROVE  \E f : IsLoop(f, n + 1, action, vbs, stor)
<1> DEFINE f == [I \in 0..(n + 1) |-> IF I = 0 THEN Untouched(vbs, stor) ELSE Turn(action, g[I - 1], I)]
<1>1. ASSUME NEW I \in 0..(n + 1), I # 0 PROVE f[I - 1] = g[I - 1]
  <2>1. I - 1 \in 0..n /\ I - 1 \in 0..(n + 1)
    BY <1>1
  <2>2. g[I - 1] = IF I - 1 = 0 THEN Untouched(vbs, stor) ELSE Turn(action, g[I - 1 - 1], I - 1)
    BY <2>1 DEF IsLoop
  <2> QED BY <2>1, <2>2
<1>2. f = [I \in 0..(n + 1) |-> IF I = 0 THEN Untouched(vbs, stor) ELSE Turn(action, f[I - 1], I)]
  <2>1. \A I \in 0..(n + 1) : (IF I = 0 THEN Untouched(vbs, stor) ELSE Turn(action, g[I - 1], I))
            = (IF I = 0 THEN Untouched(vbs, stor) ELSE Turn(action, f[I - 1], I))
    BY <1>1
  <2> HIDE DEF f
  <2> QED BY <2>1 DEF f
<1> QED BY <1>2 DEF IsLoop

LEMMA LoopExists ==
    ASSUME NEW action, NEW vbs, NEW stor, NEW n \in Nat
    PROVE  \E f : IsLoop(f, n, action, vbs, stor)
<1> DEFINE T == {k \in Nat : ~\E f : IsLoop(f, k, action, vbs, stor)}
<1> SUFFICES ASSUME T # {} PROVE FALSE
  OBVIOUS
<1>1. PICK m \in T : \A k \in T : m <= k
  BY LeastNatural
<1>2. m # 0
  BY LoopStarts
<1>3. m - 1 \in Nat /\ m - 1 \notin T
  BY <1>1, <1>2
<1>4. PICK g : IsLoop(g, m - 1, action, vbs, stor)
  BY <1>3
<1>5. \E f : IsLoop(f, (m - 1) + 1, action, vbs, stor)
  BY <1>3, <1>4, LoopGoesOn
<1> QED BY <1>5

LEMMA QueryIsLoop ==
    ASSUME NEW action, NEW vbs, NEW stor, Len(vbs) \in Nat
    PROVE  \E f : /\ f[0] = Untouched(vbs, stor)
                  /\ \A I \in 1..Len(vbs) : f[I] = Turn(action, f[I - 1], I)
                  /\ Query(action, vbs, stor) = f[Len(vbs)]
<1> DEFINE n == Len(vbs)
           f == CHOOSE f : IsLoop(f, n, action, vbs, stor)
<1>1. IsLoop(f, n, action, vbs, stor)
  BY LoopExists
<1>2. Query(action, vbs, stor) = f[n]
  BY DEF Query, IsLoop
<1> HIDE DEF f
<1>3. f[0] = Untouched(vbs, stor) /\ \A I \in 1..n : f[I] = Turn(action, f[I - 1], I)
  BY <1>1 DEF IsLoop
<1> QED BY <1>2, <1>3
-----------------------------------------------------------------------------
(* The loop's invariant: acc is its state after I of the varbinds. *)

Statuses == {"noError", "noSuchName", "badValue"}

\* The first K varbinds are good.
GoodUpTo(action, vbs, K) == \A J \in 1..K : Good(action, vbs[J])

Typed(acc, vbs) ==
    /\ acc.status \in Statuses /\ acc.index \in Nat
    /\ acc.vbs \in [1..Len(vbs) -> VarBinds]
    /\ acc.stor \in Storages
    /\ acc = [status |-> acc.status, index |-> acc.index, vbs |-> acc.vbs, stor |-> acc.stor]

Ahead(acc, I, vbs) == \A K \in (I + 1)..Len(vbs) : acc.vbs[K] = vbs[K]

Stopped(acc, I, action, vbs) ==
    /\ acc.status = "noError" => GoodUpTo(action, vbs, I)
    /\ acc.status # "noError" => /\ acc.index \in 1..I /\ ~Good(action, vbs[acc.index])
                                 /\ GoodUpTo(action, vbs, acc.index - 1)

\* What varbind K of a read carries.
Carries(vb, action, asked, stor) ==
    /\ action = "GET" => vb.name = asked.name
    /\ action = "GETNEXT" => vb.name = NextName(asked.name)
    /\ \A i \in 1..5 : vb.name = NameOf(i) => vb.value = stor[i]

Read(acc, I, action, vbs, stor) ==
    /\ acc.stor = stor
    /\ \A K \in 1..I : GoodUpTo(action, vbs, K) => Carries(acc.vbs[K], action, vbs[K], stor)

\* What a write has done: the last varbind for a variable that was reached.
Stored(new, I, action, vbs, stor) ==
    \A i \in 1..5 :
        /\ (\A K \in 1..I : GoodUpTo(action, vbs, K) => vbs[K].name # NameOf(i)) => new[i] = stor[i]
        /\ \A K \in 1..I :
              /\ GoodUpTo(action, vbs, K) /\ vbs[K].name = NameOf(i)
              /\ \A L \in (K + 1)..I : GoodUpTo(action, vbs, L) => vbs[L].name # NameOf(i)
              => new[i] = vbs[K].value

LoopInv(acc, I, action, vbs, stor) ==
    /\ Typed(acc, vbs)
    /\ Ahead(acc, I, vbs)
    /\ Stopped(acc, I, action, vbs)
    /\ action # "SET" => Read(acc, I, action, vbs, stor)
    /\ action = "SET" => Stored(acc.stor, I, action, vbs, stor)

LEMMA LoopInvStarts ==
    ASSUME NEW action \in Actions, NEW vbs \in Seq(VarBinds), NEW stor \in Storages
    PROVE  LoopInv(Untouched(vbs, stor), 0, action, vbs, stor)
<1> DEFINE acc == Untouched(vbs, stor)
<1>1. acc.status = "noError" /\ acc.index = 0 /\ acc.vbs = vbs /\ acc.stor = stor
         /\ acc = [status |-> acc.status, index |-> acc.index, vbs |-> acc.vbs, stor |-> acc.stor]
  BY DEF Untouched
<1> HIDE DEF acc
<1>2. vbs \in [1..Len(vbs) -> VarBinds]
  OBVIOUS
<1>3. Typed(acc, vbs)
  BY <1>1, <1>2 DEF Typed, Statuses
<1>4. Ahead(acc, 0, vbs) /\ Stopped(acc, 0, action, vbs)
  BY <1>1 DEF Ahead, Stopped, GoodUpTo
<1>5. Read(acc, 0, action, vbs, stor)
  BY <1>1 DEF Read
<1>6. Stored(acc.stor, 0, action, vbs, stor)
  BY <1>1 DEF Stored
<1> QED BY <1>3, <1>4, <1>5, <1>6 DEF LoopInv, acc

\* A storage into which one more varbind has been written.
LEMMA StoredOneMore ==
    ASSUME NEW vbs \in Seq(VarBinds), NEW stor \in Storages, NEW old \in Storages,
           NEW I \in 1..Len(vbs), NEW i \in 1..5, Stored(old, I - 1, "SET", vbs, stor),
           GoodUpTo("SET", vbs, I), vbs[I].name = NameOf(i)
    PROVE  Stored([old EXCEPT ![i] = vbs[I].value], I, "SET", vbs, stor)
<1> DEFINE new == [old EXCEPT ![i] = vbs[I].value]
<1>0. DOMAIN old = 1..5
  BY Table DEF Storages
<1>1. new[i] = vbs[I].value /\ \A j \in 1..5 : j # i => new[j] = old[j]
  BY <1>0
<1> HIDE DEF new
<1>2. \A j \in 1..5 : j # i => NameOf(j) # NameOf(i)
  BY DEF NameOf
<1> DEFINE G(K) == GoodUpTo("SET", vbs, K)
<1> HIDE DEF G
<1>3. ASSUME NEW j \in 1..5, \A K \in 1..I : G(K) => vbs[K].name # NameOf(j)
      PROVE  new[j] = stor[j]
  <2>1. j # i
    BY <1>3 DEF G
  <2>2. \A K \in 1..(I - 1) : G(K) => vbs[K].name # NameOf(j)
    BY <1>3
  <2>3. old[j] = stor[j]
    BY <2>2 DEF Stored, G
  <2> QED BY <1>1, <2>1, <2>3
<1>4. ASSUME NEW j \in 1..5, NEW K \in 1..I, G(K), vbs[K].name = NameOf(j),
             \A L \in (K + 1)..I : G(L) => vbs[L].name # NameOf(j)
      PROVE  new[j] = vbs[K].value
  <2>1. CASE K = I
    BY <1>1, <1>2, <1>4, <2>1
  <2>2. CASE K < I
    <3>1. j # i
      BY <1>4, <2>2 DEF G
    <3>2. K \in 1..(I - 1) /\ \A L \in (K + 1)..(I - 1) : G(L) => vbs[L].name # NameOf(j)
      BY <1>4, <2>2
    <3>3. old[j] = vbs[K].value
      BY <1>4, <3>2 DEF Stored, G
    <3> QED BY <1>1, <3>1, <3>3
  <2> QED BY <2>1, <2>2
<1>5. Stored(new, I, "SET", vbs, stor)
  BY <1>3, <1>4 DEF Stored, G
<1> QED BY <1>5 DEF new

\* One in which the varbind is not carried out.
LEMMA StoredNoMore ==
    ASSUME NEW vbs, NEW stor, NEW old, NEW action, NEW I \in Nat \ {0},
           Stored(old, I - 1, action, vbs, stor), ~GoodUpTo(action, vbs, I)
    PROVE  Stored(old, I, action, vbs, stor)
<1> DEFINE G(K) == GoodUpTo(action, vbs, K)
<1> HIDE DEF G
<1>1. ~G(I)
  BY DEF G
<1>2. ASSUME NEW j \in 1..5, \A K \in 1..I : G(K) => vbs[K].name # NameOf(j)
      PROVE  old[j] = stor[j]
  <2>1. \A K \in 1..(I - 1) : G(K) => vbs[K].name # NameOf(j)
    BY <1>2
  <2> QED BY <2>1 DEF Stored, G
<1>3. ASSUME NEW j \in 1..5, NEW K \in 1..I, G(K), vbs[K].name = NameOf(j),
             \A L \in (K + 1)..I : G(L) => vbs[L].name # NameOf(j)
      PROVE  old[j] = vbs[K].value
  <2>1. K \in 1..(I - 1) /\ \A L \in (K + 1)..(I - 1) : G(L) => vbs[L].name # NameOf(j)
    BY <1>1, <1>3
  <2> QED BY <1>3, <2>1 DEF Stored, G
<1> QED BY <1>2, <1>3 DEF Stored, G

\* The turn of a varbind, with what ResolveVarBind gives for it.
LEMMA TurnIs ==
    ASSUME NEW action, NEW acc, NEW I,
           acc.status = "noError",
           acc = [status |-> acc.status, index |-> acc.index, vbs |-> acc.vbs, stor |-> acc.stor],
           NEW s, NEW vb, NEW t, ResolveVarBind(action, acc.vbs[I], acc.stor) = Result(s, vb, t)
    PROVE  /\ ~(action = "GETNEXT" /\ s = "noSuchName") =>
                 Turn(action, acc, I) = [status |-> s, index |-> IF s = "noError" THEN 0 ELSE I,
                                         vbs |-> [acc.vbs EXCEPT ![I] = vb], stor |-> t]
           /\ action = "GETNEXT" /\ s = "noSuchName" =>
                 Turn(action, acc, I) = [status |-> acc.status, index |-> acc.index,
                                         vbs |-> [acc.vbs EXCEPT ![I].name = Outside], stor |-> acc.stor]
<1> DEFINE r == Result(s, vb, t)
<1>1. r.status = s /\ r.vb = vb /\ r.stor = t
  BY Records
<1>2. Turn(action, acc, I) = After(action, acc, I, r)
  BY DEF Turn
<1> HIDE DEF r
<1>3. ASSUME ~(action = "GETNEXT" /\ s = "noSuchName")
      PROVE  Turn(action, acc, I) = [status |-> s, index |-> IF s = "noError" THEN 0 ELSE I,
                                     vbs |-> [acc.vbs EXCEPT ![I] = vb], stor |-> t]
  BY <1>1, <1>2, <1>3 DEF After
<1>4. ASSUME action = "GETNEXT", s = "noSuchName"
      PROVE  Turn(action, acc, I) = [status |-> acc.status, index |-> acc.index,
                                     vbs |-> [acc.vbs EXCEPT ![I].name = Outside], stor |-> acc.stor]
  <2>1. Turn(action, acc, I) = [acc EXCEPT !.vbs[I].name = Outside]
    BY <1>1, <1>2, <1>4 DEF After
  <2> QED BY <2>1
<1> QED BY <1>3, <1>4

\* An error ends the loop.
LEMMA TurnStopped ==
    ASSUME NEW action \in Actions, NEW vbs \in Seq(VarBinds), NEW stor \in Storages, NEW acc,
           NEW I \in 1..Len(vbs), LoopInv(acc, I - 1, action, vbs, stor), acc.status # "noError"
    PROVE  LoopInv(Turn(action, acc, I), I, action, vbs, stor)
<1>1. Turn(action, acc, I) = acc
  BY DEF Turn, After
<1>2. acc.index \in 1..(I - 1) /\ ~Good(action, vbs[acc.index]) /\ GoodUpTo(action, vbs, acc.index - 1)
  BY DEF LoopInv, Stopped
<1>3. ~GoodUpTo(action, vbs, I)
  BY <1>2 DEF GoodUpTo
<1>4. Typed(acc, vbs) /\ Ahead(acc, I, vbs)
  BY DEF LoopInv, Ahead
<1>5. Stopped(acc, I, action, vbs)
  BY <1>2 DEF Stopped
<1>6. ASSUME action # "SET" PROVE Read(acc, I, action, vbs, stor)
  <2>1. Read(acc, I - 1, action, vbs, stor)
    BY <1>6 DEF LoopInv
  <2>2. \A K \in 1..I : GoodUpTo(action, vbs, K) => K \in 1..(I - 1)
    BY <1>3
  <2> QED BY <2>1, <2>2 DEF Read
<1>7. ASSUME action = "SET" PROVE Stored(acc.stor, I, action, vbs, stor)
  <2>1. Stored(acc.stor, I - 1, action, vbs, stor)
    BY <1>7 DEF LoopInv
  <2> QED BY <1>3, <2>1, StoredNoMore
<1> QED BY <1>1, <1>4, <1>5, <1>6, <1>7 DEF LoopInv

\* What the invariant says of the varbind whose turn it is.
LEMMA TurnComes ==
    ASSUME NEW action \in Actions, NEW vbs \in Seq(VarBinds), NEW stor \in Storages, NEW acc,
           NEW I \in 1..Len(vbs), LoopInv(acc, I - 1, action, vbs, stor), acc.status = "noError"
    PROVE  /\ acc.vbs[I] = vbs[I] /\ vbs[I] \in VarBinds /\ vbs[I].name \in Nat
           /\ acc = [status |-> acc.status, index |-> acc.index, vbs |-> acc.vbs, stor |-> acc.stor]
           /\ acc.index \in Nat
           /\ acc.vbs \in [1..Len(vbs) -> VarBinds] /\ acc.stor \in Storages
           /\ GoodUpTo(action, vbs, I - 1)
           /\ GoodUpTo(action, vbs, I) <=> Good(action, vbs[I])
<1>1. Typed(acc, vbs) /\ Ahead(acc, I - 1, vbs) /\ Stopped(acc, I - 1, action, vbs)
  BY DEF LoopInv
<1>2. acc.vbs[I] = vbs[I]
  BY <1>1 DEF Ahead
<1>3. GoodUpTo(action, vbs, I - 1)
  BY <1>1 DEF Stopped
<1>4. GoodUpTo(action, vbs, I) <=> Good(action, vbs[I])
  BY <1>3 DEF GoodUpTo
<1>5. vbs[I] \in VarBinds
  OBVIOUS
<1>6. vbs[I].name \in Nat
  BY <1>5 DEF VarBinds
<1> QED BY <1>1, <1>2, <1>3, <1>4, <1>5, <1>6 DEF Typed

\* The record after a turn that puts vb in place.
Fields(new, acc, I, vb) ==
    /\ new.status \in Statuses /\ new.index \in Nat /\ new.vbs = [acc.vbs EXCEPT ![I] = vb]
    /\ new = [status |-> new.status, index |-> new.index, vbs |-> new.vbs, stor |-> new.stor]

\* The invariant after a turn that puts vb and t in place with status s.
LEMMA TurnTyped ==
    ASSUME NEW action \in Actions, NEW vbs \in Seq(VarBinds), NEW stor \in Storages, NEW acc,
           NEW I \in 1..Len(vbs), LoopInv(acc, I - 1, action, vbs, stor), acc.status = "noError",
           NEW vb \in VarBinds, NEW new, Fields(new, acc, I, vb), new.stor \in Storages,
           new.status = "noError" => Good(action, vbs[I]),
           new.status # "noError" => new.index = I /\ ~Good(action, vbs[I])
    PROVE  /\ Typed(new, vbs) /\ Ahead(new, I, vbs) /\ Stopped(new, I, action, vbs)
           /\ new.vbs[I] = vb
           /\ \A K \in 1..(I - 1) : new.vbs[K] = acc.vbs[K]
<1>1. acc.vbs \in [1..Len(vbs) -> VarBinds] /\ Ahead(acc, I - 1, vbs) /\ GoodUpTo(action, vbs, I - 1)
         /\ (GoodUpTo(action, vbs, I) <=> Good(action, vbs[I]))
  BY TurnComes DEF LoopInv
<1>2. new.vbs = [acc.vbs EXCEPT ![I] = vb]
  BY DEF Fields
<1>3. new.vbs \in [1..Len(vbs) -> VarBinds] /\ new.vbs[I] = vb
         /\ \A K \in 1..Len(vbs) : K # I => new.vbs[K] = acc.vbs[K]
  BY <1>1, <1>2
<1>4. Typed(new, vbs)
  BY <1>3 DEF Typed, Fields
<1>5. Ahead(new, I, vbs)
  BY <1>1, <1>3 DEF Ahead
<1>6. Stopped(new, I, action, vbs)
  BY <1>1 DEF Stopped
<1> QED BY <1>3, <1>4, <1>5, <1>6

\* A read of which one more varbind is there.
LEMMA ReadOneMore ==
    ASSUME NEW action, NEW vbs, NEW stor, NEW acc, NEW new, NEW I \in Nat \ {0},
           Read(acc, I - 1, action, vbs, stor), new.stor = acc.stor,
           \A K \in 1..(I - 1) : new.vbs[K] = acc.vbs[K],
           GoodUpTo(action, vbs, I) => Carries(new.vbs[I], action, vbs[I], stor)
    PROVE  Read(new, I, action, vbs, stor)
<1>1. ASSUME NEW K \in 1..I, GoodUpTo(action, vbs, K)
      PROVE  Carries(new.vbs[K], action, vbs[K], stor)
  <2>1. CASE K = I
    BY <1>1, <2>1
  <2>2. CASE K # I
    <3>1. K \in 1..(I - 1)
      BY <2>2
    <3>2. Carries(acc.vbs[K], action, vbs[K], stor)
      BY <1>1, <3>1 DEF Read
    <3> QED BY <3>1, <3>2
  <2> QED BY <2>1, <2>2
<1> QED BY <1>1 DEF Read

LEMMA ValueCarried ==
    ASSUME NEW i \in 1..5, NEW stor \in Storages, NEW asked, NEW action \in {"GET", "GETNEXT"},
           action = "GET" => asked.name = NameOf(i),
           action = "GETNEXT" => NextName(asked.name) = NameOf(i)
    PROVE  /\ Carries(VarBind(NameOf(i), stor[i]), action, asked, stor)
           /\ VarBind(NameOf(i), stor[i]) \in VarBinds
<1>1. VarBind(NameOf(i), stor[i]).name = NameOf(i) /\ VarBind(NameOf(i), stor[i]).value = stor[i]
  BY Records
<1>2. \A j \in 1..5 : NameOf(i) = NameOf(j) => i = j
  BY DEF NameOf
<1>3. NameOf(i) \in Nat
  BY DEF NameOf
<1>4. stor[i] \in Values0
  BY Table DEF Storages
<1> QED BY <1>1, <1>2, <1>3, <1>4, Records DEF Carries

LEMMA TurnRead ==
    ASSUME NEW action \in {"GET", "GETNEXT"}, NEW vbs \in Seq(VarBinds), NEW stor \in Storages, NEW acc,
           NEW I \in 1..Len(vbs), LoopInv(acc, I - 1, action, vbs, stor), acc.status = "noError",
           NEW vb \in VarBinds, Good(action, vbs[I]), Carries(vb, action, vbs[I], stor),
           ResolveVarBind(action, vbs[I], stor) = Result("noError", vb, stor)
    PROVE  LoopInv(Turn(action, acc, I), I, action, vbs, stor)
<1> DEFINE new == Turn(action, acc, I)
<1>0. action \in Actions
  BY DEF Actions
<1>1. /\ acc.vbs[I] = vbs[I]
      /\ acc = [status |-> acc.status, index |-> acc.index, vbs |-> acc.vbs, stor |-> acc.stor]
  BY <1>0, TurnComes
<1>2. acc.stor = stor /\ Read(acc, I - 1, action, vbs, stor)
  BY DEF LoopInv, Read
<1>3. new = [status |-> "noError", index |-> 0, vbs |-> [acc.vbs EXCEPT ![I] = vb], stor |-> stor]
  BY <1>1, <1>2, TurnIs
<1>4. Fields(new, acc, I, vb) /\ new.status = "noError" /\ new.stor = stor
  BY <1>3 DEF Fields, Statuses
<1> HIDE DEF new
<1>5. /\ Typed(new, vbs) /\ Ahead(new, I, vbs) /\ Stopped(new, I, action, vbs)
      /\ new.vbs[I] = vb /\ \A K \in 1..(I - 1) : new.vbs[K] = acc.vbs[K]
  BY <1>0, <1>4, TurnTyped
<1>6. Read(new, I, action, vbs, stor)
  <2>1. Carries(new.vbs[I], action, vbs[I], stor) /\ new.stor = acc.stor /\ I \in Nat \ {0}
    BY <1>2, <1>4, <1>5
  <2> QED BY <1>2, <1>5, <2>1, ReadOneMore
<1>7. action # "SET"
  OBVIOUS
<1> QED BY <1>5, <1>6, <1>7 DEF LoopInv, new

LEMMA TurnGet ==
    ASSUME NEW vbs \in Seq(VarBinds), NEW stor \in Storages, NEW acc,
           NEW I \in 1..Len(vbs), LoopInv(acc, I - 1, "GET", vbs, stor), acc.status = "noError"
    PROVE  LoopInv(Turn("GET", acc, I), I, "GET", vbs, stor)
<1> DEFINE new == Turn("GET", acc, I)
<1>0. "GET" \in Actions
  BY DEF Actions
<1>1. /\ acc.vbs[I] = vbs[I] /\ vbs[I] \in VarBinds
      /\ acc = [status |-> acc.status, index |-> acc.index, vbs |-> acc.vbs, stor |-> acc.stor]
      /\ (GoodUpTo("GET", vbs, I) <=> Good("GET", vbs[I]))
  BY <1>0, TurnComes
<1>2. acc.stor = stor /\ Read(acc, I - 1, "GET", vbs, stor)
  BY DEF LoopInv, Read
<1>3. ASSUME NEW i \in 1..5, vbs[I].name = NameOf(i)
      PROVE  LoopInv(new, I, "GET", vbs, stor)
  <2> DEFINE vb == VarBind(NameOf(i), stor[i])
  <2>1. ResolveVarBind("GET", vbs[I], stor) = Result("noError", vb, stor) /\ Good("GET", vbs[I])
    BY <1>1, <1>3, GetResolved
  <2>2. Carries(vb, "GET", vbs[I], stor) /\ vb \in VarBinds
    BY <1>3, ValueCarried
  <2> QED BY <1>1, <2>1, <2>2, TurnRead
<1>4. ASSUME ~Good("GET", vbs[I]) PROVE LoopInv(new, I, "GET", vbs, stor)
  <2>1. ResolveVarBind("GET", vbs[I], stor) = Result("noSuchName", vbs[I], stor)
    BY <1>1, <1>4, GetResolved
  <2>2. Fields(new, acc, I, vbs[I]) /\ new.status = "noSuchName" /\ new.index = I /\ new.stor = stor
    <3>1. new = [status |-> "noSuchName", index |-> I, vbs |-> [acc.vbs EXCEPT ![I] = vbs[I]], stor |-> stor]
      BY <1>1, <1>2, <2>1, TurnIs
    <3> QED BY <3>1 DEF Fields, Statuses
  <2> HIDE DEF new
  <2>3. /\ Typed(new, vbs) /\ Ahead(new, I, vbs) /\ Stopped(new, I, "GET", vbs)
        /\ new.stor = stor /\ \A K \in 1..(I - 1) : new.vbs[K] = acc.vbs[K]
    BY <1>0, <1>1, <1>4, <2>2, TurnTyped DEF Statuses
  <2>4. Read(new, I, "GET", vbs, stor)
    BY <1>1, <1>2, <1>4, <2>3, ReadOneMore
  <2> QED BY <2>3, <2>4 DEF LoopInv
<1> QED BY <1>1, <1>3, <1>4, GetResolved

LEMMA TurnNext ==
    ASSUME NEW vbs \in Seq(VarBinds), NEW stor \in Storages, NEW acc,
           NEW I \in 1..Len(vbs), LoopInv(acc, I - 1, "GETNEXT", vbs, stor), acc.status = "noError"
    PROVE  LoopInv(Turn("GETNEXT", acc, I), I, "GETNEXT", vbs, stor)
<1> DEFINE new == Turn("GETNEXT", acc, I)
<1>0. "GETNEXT" \in Actions
  BY DEF Actions
<1>1. /\ acc.vbs[I] = vbs[I] /\ vbs[I] \in VarBinds /\ vbs[I].name \in Nat
      /\ acc = [status |-> acc.status, index |-> acc.index, vbs |-> acc.vbs, stor |-> acc.stor]
      /\ acc.vbs \in [1..Len(vbs) -> VarBinds] /\ acc.index \in Nat
  BY <1>0, TurnComes
<1>2. acc.stor = stor /\ Read(acc, I - 1, "GETNEXT", vbs, stor)
  BY DEF LoopInv, Read
<1>3. Good("GETNEXT", vbs[I])
  BY <1>1, NextResolved
<1>4. ASSUME NEW i \in 1..5, NextName(vbs[I].name) = NameOf(i),
             ResolveVarBind("GETNEXT", vbs[I], stor) = Result("noError", VarBind(NameOf(i), stor[i]), stor)
      PROVE  LoopInv(new, I, "GETNEXT", vbs, stor)
  <2> DEFINE vb == VarBind(NameOf(i), stor[i])
  <2>1. ResolveVarBind("GETNEXT", vbs[I], stor) = Result("noError", vb, stor)
    BY <1>4
  <2>2. Carries(vb, "GETNEXT", vbs[I], stor) /\ vb \in VarBinds
    BY <1>4, ValueCarried
  <2> QED BY <1>3, <2>1, <2>2, TurnRead
<1>5. ASSUME NextName(vbs[I].name) = Outside,
             ResolveVarBind("GETNEXT", vbs[I], stor) = Result("noSuchName", vbs[I], stor)
      PROVE  LoopInv(new, I, "GETNEXT", vbs, stor)
  <2> DEFINE vb == [vbs[I] EXCEPT !.name = Outside]
  <2>1. vb \in VarBinds /\ vb.name = Outside
    BY <1>1, Table DEF VarBinds
  <2>2. Carries(vb, "GETNEXT", vbs[I], stor)
    BY <1>5, <2>1, Table DEF Carries, NameOf
  <2>3. new = [status |-> acc.status, index |-> acc.index,
               vbs |-> [acc.vbs EXCEPT ![I].name = Outside], stor |-> acc.stor]
    BY <1>1, <1>2, <1>5, TurnIs
  <2>4. [acc.vbs EXCEPT ![I].name = Outside] = [acc.vbs EXCEPT ![I] = vb]
    BY <1>1
  <2> HIDE DEF vb, new
  <2>5. Fields(new, acc, I, vb) /\ new.status = "noError" /\ new.index = acc.index /\ new.stor = stor
    BY <1>1, <1>2, <2>3, <2>4 DEF Fields, Statuses
  <2>6. /\ Typed(new, vbs) /\ Ahead(new, I, vbs) /\ Stopped(new, I, "GETNEXT", vbs)
        /\ new.stor = stor /\ new.vbs[I] = vb /\ \A K \in 1..(I - 1) : new.vbs[K] = acc.vbs[K]
    BY <1>0, <1>1, <1>3, <2>1, <2>5, TurnTyped DEF Statuses
  <2>7. Read(new, I, "GETNEXT", vbs, stor)
    <3>1. Carries(new.vbs[I], "GETNEXT", vbs[I], stor) /\ new.stor = acc.stor /\ I \in Nat \ {0}
      BY <1>2, <2>2, <2>6
    <3> QED BY <1>2, <2>6, <3>1, ReadOneMore
  <2> QED BY <2>6, <2>7 DEF LoopInv
<1> QED BY <1>1, <1>4, <1>5, NextResolved

LEMMA SetInv ==
    ASSUME NEW vbs, NEW stor, NEW acc, NEW I,
           Typed(acc, vbs), Ahead(acc, I, vbs), Stopped(acc, I, "SET", vbs),
           Stored(acc.stor, I, "SET", vbs, stor)
    PROVE  LoopInv(acc, I, "SET", vbs, stor)
BY DEF LoopInv

LEMMA TurnSet ==
    ASSUME NEW vbs \in Seq(VarBinds), NEW stor \in Storages, NEW acc,
           NEW I \in 1..Len(vbs), LoopInv(acc, I - 1, "SET", vbs, stor), acc.status = "noError"
    PROVE  LoopInv(Turn("SET", acc, I), I, "SET", vbs, stor)
<1> DEFINE new == Turn("SET", acc, I)
<1>0. "SET" \in Actions
  BY DEF Actions
<1>1. /\ acc.vbs[I] = vbs[I] /\ vbs[I] \in VarBinds /\ acc.stor \in Storages
      /\ acc = [status |-> acc.status, index |-> acc.index, vbs |-> acc.vbs, stor |-> acc.stor]
      /\ (GoodUpTo("SET", vbs, I) <=> Good("SET", vbs[I]))
  BY <1>0, TurnComes
<1>2. Stored(acc.stor, I - 1, "SET", vbs, stor)
  BY DEF LoopInv
<1>3. CASE Good("SET", vbs[I])
  <2>1. PICK i \in 1..5 : /\ vbs[I].name = NameOf(i)
                          /\ ResolveVarBind("SET", vbs[I], acc.stor)
                                 = Result("noError", vbs[I], [acc.stor EXCEPT ![i] = vbs[I].value])
    BY <1>1, <1>3, SetResolved
  <2> DEFINE t == [acc.stor EXCEPT ![i] = vbs[I].value]
  <2>2. t \in Storages
    <3>1. vbs[I].value \in Values0
      BY <1>1 DEF VarBinds
    <3> QED BY <1>1, <3>1, Table DEF Storages
  <2>3. Stored(t, I, "SET", vbs, stor)
    BY <1>1, <1>2, <1>3, <2>1, StoredOneMore
  <2> HIDE DEF t
  <2>4. ResolveVarBind("SET", acc.vbs[I], acc.stor) = Result("noError", vbs[I], t)
    BY <1>1, <2>1 DEF t
  <2>5. Fields(new, acc, I, vbs[I]) /\ new.status = "noError" /\ new.index = 0 /\ new.stor = t
    <3>1. new = [status |-> "noError", index |-> 0, vbs |-> [acc.vbs EXCEPT ![I] = vbs[I]], stor |-> t]
      BY <1>1, <2>4, TurnIs
    <3> QED BY <3>1 DEF Fields, Statuses
  <2> HIDE DEF new
  <2>6. Typed(new, vbs) /\ Ahead(new, I, vbs) /\ Stopped(new, I, "SET", vbs) /\ new.stor = t
    BY <1>0, <1>1, <1>3, <2>2, <2>5, TurnTyped DEF Statuses
  <2>7. Stored(new.stor, I, "SET", vbs, stor)
    BY <2>3, <2>6
  <2> QED BY <2>6, <2>7, SetInv DEF new
<1>4. CASE ~Good("SET", vbs[I])
  <2>1. PICK s \in {"noSuchName", "badValue"} :
            ResolveVarBind("SET", vbs[I], acc.stor) = Result(s, vbs[I], acc.stor)
    BY <1>1, <1>4, SetResolved
  <2>2. Fields(new, acc, I, vbs[I]) /\ new.status = s /\ new.index = I /\ new.stor = acc.stor
    <3>1. new = [status |-> s, index |-> I, vbs |-> [acc.vbs EXCEPT ![I] = vbs[I]], stor |-> acc.stor]
      BY <1>1, <2>1, TurnIs
    <3> QED BY <3>1 DEF Fields, Statuses
  <2> HIDE DEF new
  <2>3. Typed(new, vbs) /\ Ahead(new, I, vbs) /\ Stopped(new, I, "SET", vbs) /\ new.stor = acc.stor
    BY <1>0, <1>1, <1>4, <2>2, TurnTyped DEF Statuses
  <2>4. Stored(acc.stor, I, "SET", vbs, stor)
    BY <1>1, <1>2, <1>4, StoredNoMore
  <2>5. Stored(new.stor, I, "SET", vbs, stor)
    BY <2>3, <2>4
  <2> QED BY <2>3, <2>5, SetInv DEF new
<1> QED BY <1>3, <1>4

LEMMA LoopInvTurn ==
    ASSUME NEW action \in Actions, NEW vbs \in Seq(VarBinds), NEW stor \in Storages, NEW acc,
           NEW I \in 1..Len(vbs), LoopInv(acc, I - 1, action, vbs, stor)
    PROVE  LoopInv(Turn(action, acc, I), I, action, vbs, stor)
BY TurnStopped, TurnGet, TurnNext, TurnSet DEF Actions

LEMMA LoopKeepsInv ==
    ASSUME NEW action \in Actions, NEW vbs \in Seq(VarBinds), NEW stor \in Storages
    PROVE  LoopInv(Query(action, vbs, stor), Len(vbs), action, vbs, stor)
<1> DEFINE n == Len(vbs)
<1>1. PICK f : /\ f[0] = Untouched(vbs, stor)
               /\ \A I \in 1..n : f[I] = Turn(action, f[I - 1], I)
               /\ Query(action, vbs, stor) = f[n]
  BY QueryIsLoop
<1> DEFINE T == {k \in 0..n : ~LoopInv(f[k], k, action, vbs, stor)}
<1>2. T = {}
  <2> SUFFICES ASSUME T # {} PROVE FALSE
    OBVIOUS
  <2>0. n \in Nat
    OBVIOUS
  <2>1. PICK m \in T : \A k \in T : m <= k
    <3>1. T \subseteq Nat
      BY <2>0
    <3> HIDE DEF T
    <3> QED BY <3>1, LeastNatural
  <2>2. m # 0
    BY <1>1, LoopInvStarts
  <2>3. m \in 1..n /\ m - 1 \in 0..n /\ m - 1 \notin T
    BY <2>1, <2>2
  <2>4. LoopInv(f[m - 1], m - 1, action, vbs, stor)
    BY <2>3
  <2>5. LoopInv(f[m], m, action, vbs, stor)
    BY <1>1, <2>3, <2>4, LoopInvTurn
  <2> QED BY <2>3, <2>5
<1>3. n \in 0..n
  OBVIOUS
<1> QED BY <1>1, <1>2, <1>3
-----------------------------------------------------------------------------
(* What a query promises. *)

LEMMA Greatest ==
    ASSUME NEW n \in Nat, NEW T, T \subseteq 1..n, T # {}
    PROVE  \E m \in T : \A k \in T : k <= m
<1> DEFINE U == {k \in Nat : k <= n /\ n - k \in T}
<1>1. U # {}
  <2>1. PICK t \in T : TRUE
    OBVIOUS
  <2>2. n - t \in Nat /\ n - t <= n /\ n - (n - t) = t
    BY <2>1
  <2> QED BY <2>2
<1>2. U \subseteq Nat
  OBVIOUS
<1>3. PICK m \in U : \A k \in U : m <= k
  <2> HIDE DEF U
  <2> QED BY <1>1, <1>2, LeastNatural
<1>4. n - m \in T
  OBVIOUS
<1>5. ASSUME NEW k \in T PROVE k <= n - m
  <2>1. k \in 1..n /\ n - k \in Nat /\ n - k <= n /\ n - (n - k) = k
    OBVIOUS
  <2>2. m <= n - k
    BY <1>3, <2>1
  <2> QED BY <2>1, <2>2
<1> QED BY <1>4, <1>5

\* TestDll.C:228-265, TestMIB.C:209-330: whatever varbinds are asked for and
\* whatever the storage holds, the answer of SnmpExtensionQuery is the one
\* promised: a read carries the value of the variable named or of the next, the
\* error index is the first varbind that is not good, and a write has changed
\* exactly what the varbinds before that one say.
THEOREM PromiseKept ==
    ASSUME NEW action \in Actions, NEW vbs \in Seq(VarBinds), NEW stor \in Storages
    PROVE  QueryPromise(action, vbs, stor)
<1> DEFINE q    == Query(action, vbs, stor)
           n    == Len(vbs)
           Bad  == {I \in DOMAIN vbs : ~Good(action, vbs[I])}
           upTo == IF Bad = {} THEN n ELSE q.index - 1
           On(i) == {I \in 1..upTo : vbs[I].name = NameOf(i)}
           LastFor(i) == IF On(i) = {} THEN stor[i]
                         ELSE vbs[CHOOSE I \in On(i) : \A J \in On(i) : J <= I].value
<1>1. LoopInv(q, n, action, vbs, stor) /\ n \in Nat /\ DOMAIN vbs = 1..n
  BY LoopKeepsInv
<1> HIDE DEF q
<1>2. /\ q.status = "noError" => Bad = {}
      /\ q.status # "noError" => q.index \in Bad /\ \A I \in Bad : q.index <= I
  <2>1. Stopped(q, n, action, vbs)
    BY <1>1 DEF LoopInv
  <2>2. ASSUME q.status # "noError", NEW I \in Bad PROVE q.index <= I
    BY <1>1, <2>1, <2>2 DEF Stopped, GoodUpTo
  <2> QED BY <1>1, <2>1, <2>2 DEF Stopped, GoodUpTo
<1>3. upTo \in 0..n
  BY <1>1, <1>2
<1>4. \A I \in 1..n : GoodUpTo(action, vbs, I) <=> I <= upTo
  <2>1. ASSUME NEW I \in 1..n PROVE GoodUpTo(action, vbs, I) <=> I <= upTo
    <3>1. CASE Bad = {}
      BY <1>1, <3>1 DEF GoodUpTo
    <3>2. CASE Bad # {}
      <4>1. q.index \in 1..n /\ ~Good(action, vbs[q.index]) /\ (\A J \in Bad : q.index <= J)
              /\ upTo = q.index - 1
        BY <1>1, <1>2, <3>2
      <4>2. \A J \in 1..n : J < q.index => Good(action, vbs[J])
        BY <1>1, <4>1
      <4> HIDE DEF Bad, upTo
      <4> QED BY <4>1, <4>2 DEF GoodUpTo
    <3> QED BY <3>1, <3>2
  <2> QED BY <2>1
<1> HIDE DEF Bad, upTo
<1>5. ASSUME action = "SET", NEW i \in Variables PROVE q.stor[i] = LastFor(i)
  <2>0. i \in 1..5
    BY Table
  <2>1. Stored(q.stor, n, action, vbs, stor)
    BY <1>1, <1>5 DEF LoopInv
  <2>2. CASE On(i) = {}
    <3>1. \A K \in 1..n : GoodUpTo(action, vbs, K) => vbs[K].name # NameOf(i)
      BY <1>3, <1>4, <2>2
    <3>2. q.stor[i] = stor[i]
      BY <2>0, <2>1, <3>1 DEF Stored
    <3> QED BY <2>2, <3>2
  <2>3. CASE On(i) # {}
    <3> DEFINE K == CHOOSE I \in On(i) : \A J \in On(i) : J <= I
    <3>1. On(i) \subseteq 1..n
      BY <1>1, <1>3
    <3>2. \E I \in On(i) : \A J \in On(i) : J <= I
      <4> HIDE DEF On
      <4> QED BY <1>1, <2>3, <3>1, Greatest
    <3>3. K \in On(i) /\ \A J \in On(i) : J <= K
      BY <3>2
    <3> HIDE DEF K
    <3>4. K \in 1..n /\ GoodUpTo(action, vbs, K) /\ vbs[K].name = NameOf(i)
      BY <1>1, <1>3, <1>4, <3>3
    <3>5. \A L \in (K + 1)..n : GoodUpTo(action, vbs, L) => vbs[L].name # NameOf(i)
      <4>1. ASSUME NEW L \in (K + 1)..n, GoodUpTo(action, vbs, L), vbs[L].name = NameOf(i) PROVE FALSE
        <5>1. L \in 1..n
          BY <1>1, <3>4
        <5>2. L \in On(i)
          BY <1>3, <1>4, <4>1, <5>1
        <5> QED BY <3>3, <3>4, <5>1, <5>2
      <4> QED BY <4>1
    <3>6. q.stor[i] = vbs[K].value
      BY <2>0, <2>1, <3>4, <3>5 DEF Stored
    <3>7. LastFor(i) = vbs[K].value
      BY <2>3 DEF K
    <3> QED BY <3>6, <3>7
  <2> QED BY <2>2, <2>3
<1>6. ASSUME action # "SET"
      PROVE  /\ q.stor = stor
             /\ \A I \in 1..upTo : Carries(q.vbs[I], action, vbs[I], stor)
  <2>1. Read(q, n, action, vbs, stor)
    BY <1>1, <1>6 DEF LoopInv
  <2>2. \A I \in 1..upTo : I \in 1..n /\ GoodUpTo(action, vbs, I)
    BY <1>1, <1>3, <1>4
  <2> QED BY <2>1, <2>2 DEF Read
<1>7. ASSUME action = "GETNEXT" PROVE upTo = n
  <2>1. Bad = {}
    BY <1>7 DEF Good, Bad
  <2> QED BY <2>1 DEF upTo
<1>8. action = "GETNEXT" => \A I \in DOMAIN vbs : q.vbs[I].name = NextName(vbs[I].name)
  BY <1>1, <1>6, <1>7 DEF Carries
<1>9. action = "GET" => \A I \in 1..upTo : q.vbs[I].name = vbs[I].name
  BY <1>6 DEF Carries
<1>10. action # "SET" => \A I \in 1..upTo, i \in Variables :
           q.vbs[I].name = NameOf(i) => q.vbs[I].value = stor[i]
  BY <1>6, Table DEF Carries
<1> HIDE DEF LastFor
<1>11. action = "SET" => \A i \in Variables : q.stor[i] = LastFor(i)
  BY <1>5
<1>12. action # "SET" => q.stor = stor
  BY <1>6
<1>13. (Bad = {} <=> q.status = "noError") /\ (Bad # {} => q.index \in Bad /\ \A I \in Bad : q.index <= I)
  BY <1>2
<1> QED BY <1>8, <1>9, <1>10, <1>11, <1>12, <1>13 DEF QueryPromise, q, n, Bad, upTo, On, LastFor
-----------------------------------------------------------------------------
(* What the callers of Query need of its result. *)

LEMMA QueryTyped ==
    ASSUME NEW action \in Actions, NEW vbs \in Seq(VarBinds), NEW stor \in Storages
    PROVE  /\ Query(action, vbs, stor).status \in Statuses
           /\ Query(action, vbs, stor).status # "noError" =>
                 Query(action, vbs, stor).index \in 1..Len(vbs)
           /\ Query(action, vbs, stor).vbs \in [1..Len(vbs) -> VarBinds]
           /\ Query(action, vbs, stor).stor \in Storages
           /\ action # "SET" => Query(action, vbs, stor).stor = stor
BY LoopKeepsInv DEF LoopInv, Typed, Stopped, Read

\* A variable keeps its value or has one that a good varbind wrote.
LEMMA QueryWrites ==
    ASSUME NEW vbs \in Seq(VarBinds), NEW stor \in Storages, NEW i \in 1..5
    PROVE  \/ Query("SET", vbs, stor).stor[i] = stor[i]
           \/ \E K \in 1..Len(vbs) : /\ Good("SET", vbs[K]) /\ vbs[K].name = NameOf(i)
                                     /\ Query("SET", vbs, stor).stor[i] = vbs[K].value
<1> DEFINE q == Query("SET", vbs, stor)
           n == Len(vbs)
           T == {K \in 1..n : GoodUpTo("SET", vbs, K) /\ vbs[K].name = NameOf(i)}
<1>1. Stored(q.stor, n, "SET", vbs, stor) /\ n \in Nat
  BY LoopKeepsInv DEF LoopInv, Actions
<1> HIDE DEF q
<1>2. CASE T = {}
  <2>1. \A K \in 1..n : GoodUpTo("SET", vbs, K) => vbs[K].name # NameOf(i)
    BY <1>2
  <2>2. q.stor[i] = stor[i]
    BY <1>1, <2>1 DEF Stored
  <2> QED BY <2>2 DEF q
<1>3. CASE T # {}
  <2>1. PICK K \in T : \A L \in T : L <= K
    <3>1. T \subseteq 1..n
      OBVIOUS
    <3> HIDE DEF T
    <3> QED BY <1>1, <1>3, <3>1, Greatest
  <2>2. K \in 1..n /\ GoodUpTo("SET", vbs, K) /\ vbs[K].name = NameOf(i)
    OBVIOUS
  <2>3. \A L \in (K + 1)..n : GoodUpTo("SET", vbs, L) => vbs[L].name # NameOf(i)
    BY <1>1, <2>1, <2>2
  <2>4. q.stor[i] = vbs[K].value
    BY <1>1, <2>2, <2>3 DEF Stored
  <2>5. Good("SET", vbs[K])
    BY <2>2 DEF GoodUpTo
  <2> QED BY <2>2, <2>4, <2>5 DEF q
<1> QED BY <1>2, <1>3

\* The variables keep their types, the writable ones their ranges and the
\* others their values.
MibOK(stor) ==
    \A i \in Variables :
        /\ stor[i].type = Mib[i].type
        /\ Mib[i].access = "readwrite" => stor[i].n \in Mib[i].low..Mib[i].high
        /\ Mib[i].access = "read" => stor[i] = Storage0[i]

LEMMA MibStarts == Storage0 \in Storages /\ MibOK(Storage0)
<1>0. \A n \in Nat : Text(n) \in Values0 /\ Number(n) \in Values0
  BY DEF Values0, AsnTypes, Text, Number, Value
<1>1. \A i \in 1..5 : Storage0[i] \in Values0
  BY <1>0 DEF Storage0
<1>2. Storage0 \in [1..5 -> Values0]
  BY <1>1 DEF Storage0
<1>3. MibOK(Storage0)
  BY Table DEF MibOK, Storage0, Mib, Text, Number, Value
<1> QED BY <1>2, <1>3, Table DEF Storages

LEMMA MibKept ==
    ASSUME NEW vbs \in Seq(VarBinds), NEW stor \in Storages, MibOK(stor)
    PROVE  MibOK(Query("SET", vbs, stor).stor)
<1> DEFINE new == Query("SET", vbs, stor).stor
<1>1. \A i \in 1..5 : \/ new[i] = stor[i]
                      \/ \E K \in 1..Len(vbs) : /\ Good("SET", vbs[K]) /\ vbs[K].name = NameOf(i)
                                                /\ new[i] = vbs[K].value
  BY QueryWrites
<1> HIDE DEF new
<1>2. ASSUME NEW i \in 1..5, NEW vb, Good("SET", vb), vb.name = NameOf(i), new[i] = vb.value
      PROVE  i \in 3..5 /\ new[i].type = "int" /\ new[i].n \in 1..Mib[i].high
  BY <1>2, Table DEF Good, NameOf
<1>3. ASSUME NEW i \in 1..5
      PROVE  /\ new[i].type = Mib[i].type
             /\ Mib[i].access = "readwrite" => new[i].n \in Mib[i].low..Mib[i].high
             /\ Mib[i].access = "read" => new[i] = Storage0[i]
  <2>1. CASE new[i] = stor[i]
    BY <2>1, Table DEF MibOK
  <2>2. CASE \E K \in 1..Len(vbs) : /\ Good("SET", vbs[K]) /\ vbs[K].name = NameOf(i)
                                    /\ new[i] = vbs[K].value
    <3>1. i \in 3..5 /\ new[i].type = "int" /\ new[i].n \in 1..Mib[i].high
      BY <1>2, <2>2
    <3> QED BY <3>1, Table
  <2> QED BY <1>1, <2>1, <2>2
<1> QED BY <1>3, Table DEF MibOK, new
=============================================================================
