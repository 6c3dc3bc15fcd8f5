------------------------- MODULE ConfigReaderProofs -------------------------
(***************************************************************************)
(* Proofs about ConfigReader: for every file, of any length.               *)
(***************************************************************************)
EXTENDS ConfigReader, WellFoundedInduction, TLAPS

LEMMA GetlineType ==
    ASSUME TypeOK, NEW l \in Line, Getline(l)
    PROVE  /\ reading' \in BOOLEAN /\ before' \in Timer /\ reads' \in 0..MaxReads
           /\ lines' \in Seq(Line) /\ Len(lines') <= MaxLines
    BY ConfigAssumption DEF TypeOK, Getline

LEMMA ReadHeaderType ==
    ASSUME TypeOK, NEW l \in Line, l.field = "header", ReadHeader(l) PROVE TypeOK'
<1>1. l \in Header
    BY DEF Line, Field, Header
<1>2. l.flag \in 0..5 /\ l.name \in Name \cup {None} /\ (l.flag # 1 => l.name = None)
    BY <1>1 DEF Header, Nothing, Bare
<1>3. (l.flag # Nothing => TypeRead(l) \in 0..3) /\ type' \in 0..3
    BY <1>2 DEF ReadHeader, TypeRead, TypeOK, Nothing, Bare
<1>4. CASE l.flag = Nothing \/ (TypeRead(l) = 1 /\ l.name = None)
    BY <1>3, <1>4, GetlineType DEF ReadHeader, TypeOK
<1>5. CASE ~(l.flag = Nothing \/ (TypeRead(l) = 1 /\ l.name = None)) /\ TypeRead(l) = 1
  <2> DEFINE item == [name |-> l.name, hung |-> FALSE, wins |-> << >>]
  <2>1. item \in Item
    <3>1. l.name \in Name /\ << >> \in Seq([title : Text, content : Text])
      BY <1>2, <1>5
    <3> QED BY <3>1 DEF Item
  <2>2. /\ procItems' = Append(procItems, item) /\ nCount' = nCount + 1
        /\ ItemFlag' = 1 /\ timer' = timer
    BY <1>5 DEF ReadHeader, PushItem
  <2> HIDE DEF item
  <2>3. /\ procItems' \in Seq(Item) /\ Len(procItems') = Len(procItems) + 1
        /\ Len(procItems) \in Nat
    BY <2>1, <2>2 DEF TypeOK
  <2>4. nCount' = Len(procItems') /\ nCount' > 0
    BY <2>2, <2>3 DEF TypeOK
  <2> QED BY <1>3, <2>2, <2>3, <2>4, GetlineType DEF ReadHeader, TypeOK
<1>6. CASE ~(l.flag = Nothing \/ (TypeRead(l) = 1 /\ l.name = None)) /\ TypeRead(l) # 1
  <2>1. ItemFlag' = TypeRead(l) /\ ItemFlag' \in 0..3 /\ UNCHANGED <<procItems, nCount, timer>>
    BY <1>3, <1>6 DEF ReadHeader
  <2> QED BY <1>3, <1>6, <2>1, GetlineType DEF ReadHeader, TypeOK
<1> QED BY <1>4, <1>5, <1>6

\* The item a line of a process section is stored in exists.
LEMMA ReadProcessConfigType ==
    ASSUME TypeOK, NEW l \in Line, ItemFlag = 1, ReadProcessConfig(l) PROVE TypeOK'
<1>1. nCount \in 1..Len(procItems) /\ Len(procItems) = nCount /\ procItems \in Seq(Item)
    BY DEF TypeOK
<1>2. procItems[nCount] \in Item
    BY <1>1
<1>3. ASSUME NEW b \in BOOLEAN, procItems' = [procItems EXCEPT ![nCount].hung = b]
      PROVE  procItems' \in Seq(Item) /\ Len(procItems') = Len(procItems)
  <2>1. [procItems[nCount] EXCEPT !.hung = b] \in Item
    BY <1>2 DEF Item
  <2> QED BY <1>1, <1>3, <2>1
<1>4. ASSUME NEW t \in Text, NEW c \in Text,
             procItems' = [procItems EXCEPT ![nCount].wins =
                              Append(@, [title |-> t, content |-> c])]
      PROVE  procItems' \in Seq(Item) /\ Len(procItems') = Len(procItems)
  <2> DEFINE W == [title : Text, content : Text]
             w == [title |-> t, content |-> c]
  <2>1. [procItems[nCount] EXCEPT !.wins = Append(@, w)] \in Item
    <3>1. w \in W /\ procItems[nCount].wins \in Seq(W)
      BY <1>2 DEF Item
    <3> HIDE DEF w
    <3>2. Append(procItems[nCount].wins, w) \in Seq(W)
      BY <3>1
    <3> QED BY <1>2, <3>2 DEF Item
  <2> QED BY <1>1, <1>4, <2>1
<1>5. l.field = "wnd" => l.title \in Text \cup {None} /\ l.content \in Text \cup {None}
    BY DEF Line, Field, Header
<1>6. procItems' \in Seq(Item) /\ Len(procItems') = Len(procItems)
  <2>1. CASE l.field = "hung"
    BY <2>1, <1>3 DEF ReadProcessConfig
  <2>2. CASE l.field = "wnd"
    <3>1. PICK t \in Values(l.title, Text), c \in Values(l.content, Text) :
             procItems' = [procItems EXCEPT ![nCount].wins =
                              Append(@, [title |-> t, content |-> c])]
      BY <2>2 DEF ReadProcessConfig
    <3>2. t \in Text /\ c \in Text
      BY <1>5, <2>2 DEF Values
    <3> QED BY <1>4, <3>1, <3>2
  <2>3. CASE l.field = "timer"
    BY <1>1, <2>3 DEF ReadProcessConfig
  <2> QED BY <2>1, <2>2, <2>3 DEF ReadProcessConfig
<1> QED BY <1>1, <1>6, GetlineType DEF ReadProcessConfig, TypeOK

LEMMA ReadSettingConfigType ==
    ASSUME TypeOK, NEW l \in Line, ReadSettingConfig(l) PROVE TypeOK'
<1>1. l.field = "timer" => l.val \in Timer \cup {None}
    BY DEF Line, Field, Header
<1>2. timer' \in Timer
    BY <1>1 DEF ReadSettingConfig, Values, TypeOK
<1> QED BY <1>2, GetlineType DEF ReadSettingConfig, TypeOK

LEMMA InitType == Init => TypeOK
<1> SUFFICES ASSUME Init PROVE TypeOK
  OBVIOUS
<1>1. procItems = << >> /\ lines = << >> /\ nCount = 0 /\ ItemFlag = 0 /\ type = 0 /\ reads = 0
      /\ reading = FALSE /\ timer \in Timer /\ before = timer
  BY DEF Init
<1>2. MaxLines \in Nat /\ MaxReads \in Nat
  BY ConfigAssumption
<1>3. /\ procItems \in Seq(Item) /\ lines \in Seq(Line)
      /\ Len(procItems) = 0 /\ Len(lines) = 0
  BY <1>1
<1>4. reading \in BOOLEAN
  BY <1>1
<1> QED BY <1>1, <1>2, <1>3, <1>4 DEF TypeOK

LEMMA NextType == TypeOK /\ [Next]_vars => TypeOK'
<1> SUFFICES ASSUME TypeOK, [Next]_vars PROVE TypeOK'
  OBVIOUS
<1>1. CASE Open
  BY <1>1, ConfigAssumption DEF TypeOK, Open
<1>2. CASE OpenFails
  BY <1>2, ConfigAssumption DEF TypeOK, OpenFails
<1>3. CASE \E l \in Line : ReadLine(l)
  <2>1. PICK l \in Line : ReadLine(l)
    BY <1>3
  <2>2. CASE l.field = "header"
    BY <2>1, <2>2, ReadHeaderType DEF ReadLine
  <2>3. CASE ItemFlag = 1 /\ ReadProcessConfig(l)
    BY <2>3, ReadProcessConfigType
  <2>4. CASE ItemFlag = 3 /\ ReadSettingConfig(l)
    BY <2>4, ReadSettingConfigType
  <2>5. CASE ItemFlag \in {0, 2} /\ SkipLine(l)
    BY <2>5, GetlineType DEF SkipLine, TypeOK
  <2> QED BY <2>1, <2>2, <2>3, <2>4, <2>5 DEF ReadLine
<1>4. CASE EndOfFile
  <2>1. reading' \in BOOLEAN
    BY <1>4 DEF EndOfFile
  <2>2. type' \in 0..3
    BY <1>4 DEF EndOfFile
  <2>3. UNCHANGED <<procItems, nCount, ItemFlag, timer, lines, before, reads>>
    BY <1>4 DEF EndOfFile
  <2> QED BY <2>1, <2>2, <2>3 DEF TypeOK
<1>5. CASE UNCHANGED vars
  BY <1>5 DEF TypeOK, vars
<1> QED BY <1>1, <1>2, <1>3, <1>4, <1>5 DEF Next

\* Whatever config.ini contains, a line of a process section is stored in the
\* last item, which exists: no header, however malformed, opens a process
\* section without an item.
THEOREM IndexInItems == Spec => []TypeOK
    BY InitType, NextType, PTL DEF Spec
-----------------------------------------------------------------------------
(* What the items and the timer say is what the file says.  The loop knows *)
(* the section it is in; the induction says which one that is.             *)

\* The section the loop is in is the one of the last line, unless no header
\* has begun one: a header without a type may then have chosen any section
\* but that of a process.
SectionInv ==
    LET h == SectionOf(lines, Len(lines))
    IN  IF h = 0 THEN /\ ItemFlag # 1
                      /\ ItemFlag # 0 => \E k \in 1..Len(lines) : Unknown(lines, k)
        ELSE ItemFlag = lines[h].flag

\* The buffer type holds that of the last header that has one.
LastTyped(f) == Last({k \in 1..Len(f) : Typed(f, k)})

TypeInv ==
    reading /\ (\E k \in 1..Len(lines) : Typed(lines, k)) => type = lines[LastTyped(lines)].flag

\* What the loop knows of the lines it has read.
ReadInv == TypeOK /\ SectionInv /\ TypeInv

FileInv == ReadInv /\ ItemsAsWritten /\ TimerAsWritten
-----------------------------------------------------------------------------
(* The last of a set of lines.                                             *)

\* A set of natural numbers that has a member has a least one.
LEMMA LeastNatural ==
    ASSUME NEW T, T \subseteq Nat, T # {}
    PROVE  \E m \in T : \A k \in T : m <= k
<1>1. PICK m \in T : \A k \in T : ~(<<k, m>> \in OpToRel(<, Nat))
  BY NatLessThanWellFounded, WFMin, Zenon
<1>2. ASSUME NEW k \in T PROVE m <= k
  <2>1. k \in Nat /\ m \in Nat
    OBVIOUS
  <2>2. <<k, m>> \notin {ss \in Nat \X Nat : ss[1] < ss[2]}
    BY <1>1, Zenon DEF OpToRel
  <2> QED BY <2>1, <2>2
<1> QED BY <1>2

LEMMA LastExists ==
    ASSUME NEW n \in Nat, NEW S \in SUBSET (0..n), S # {}
    PROVE  \E h \in S : \A j \in S : j <= h
<1>1. PICK T : T = {k \in 0..n : n - k \in S}
    OBVIOUS
<1>2. PICK x \in S : TRUE
    OBVIOUS
<1>3. x \in 0..n /\ n - x \in 0..n /\ n - (n - x) = x
    OBVIOUS
<1>4. n - x \in T
    BY <1>1, <1>2, <1>3
<1>5. T \subseteq Nat /\ T # {}
    BY <1>1, <1>4
<1>6. PICK t \in T : \A m \in T : t <= m
    BY <1>5, LeastNatural
<1>7. t \in 0..n /\ n - t \in S
    BY <1>1, <1>6
<1>8. ASSUME NEW j \in S PROVE j <= n - t
  <2>1. j \in 0..n /\ n - j \in 0..n /\ n - (n - j) = j
    OBVIOUS
  <2>2. n - j \in T
    BY <1>1, <1>8, <2>1
  <2>3. t <= n - j
    BY <1>6, <2>2
  <2> QED BY <1>7, <2>1, <2>3
<1> QED BY <1>7, <1>8

LEMMA LastMax ==
    ASSUME NEW n \in Nat, NEW S \in SUBSET (0..n), S # {}
    PROVE  Last(S) \in S /\ \A j \in S : j <= Last(S)
    BY LastExists DEF Last

LEMMA LastIs ==
    ASSUME NEW S \in SUBSET Nat, NEW h \in S, \A j \in S : j <= h
    PROVE  Last(S) = h
<1>1. Last(S) \in S /\ \A j \in S : j <= Last(S)
    BY DEF Last
<1>2. h <= Last(S) /\ Last(S) <= h /\ h \in Nat /\ Last(S) \in Nat
    BY <1>1
<1> QED BY <1>2

-----------------------------------------------------------------------------
(* One more line at the end of a file.                                     *)

\* e is the file f with the line l at its end, which has the number k.
Longer(e, f, l, k) ==
    /\ f \in Seq(Line) /\ l \in Line /\ e = Append(f, l)
    /\ k = Len(f) + 1 /\ k \in Nat \ {0} /\ Len(f) = k - 1 /\ Len(e) = k
    /\ e[k] = l /\ \A j \in 1..(k - 1) : e[j] = f[j]

LEMMA LongerBy ==
    ASSUME NEW f \in Seq(Line), NEW l \in Line
    PROVE  Longer(Append(f, l), f, l, Len(f) + 1)
    BY DEF Longer

LEMMA SectionBefore ==
    ASSUME NEW f, NEW k \in Nat
    PROVE  /\ SectionOf(f, k) \in 0..k
           /\ SectionOf(f, k) # 0 => Begins(f, SectionOf(f, k))
           /\ \A j \in 1..k : Begins(f, j) => j <= SectionOf(f, k)
<1>1. PICK H : H = {h \in 1..k : Begins(f, h)}
    OBVIOUS
<1>2. SectionOf(f, k) = IF H = {} THEN 0 ELSE Last(H)
    BY <1>1 DEF SectionOf
<1>3. CASE H = {}
    BY <1>1, <1>2, <1>3
<1>4. CASE H # {}
  <2>1. H \in SUBSET (0..k)
    BY <1>1
  <2>2. Last(H) \in H /\ \A j \in H : j <= Last(H)
    BY <1>4, <2>1, LastMax
  <2> QED BY <1>1, <1>2, <1>4, <2>2
<1> QED BY <1>3, <1>4

\* What is known of the lines before does not change.
LEMMA SameBefore ==
    ASSUME NEW e, NEW f, NEW l, NEW k, Longer(e, f, l, k), NEW j \in 1..(k - 1)
    PROVE  /\ Typed(e, j) <=> Typed(f, j)
           /\ Begins(e, j) <=> Begins(f, j)
           /\ Unknown(e, j) <=> Unknown(f, j)
           /\ SectionOf(e, j) = SectionOf(f, j)
<1>1. \A m \in 1..j : (Typed(e, m) <=> Typed(f, m)) /\ (Begins(e, m) <=> Begins(f, m))
  <2> SUFFICES ASSUME NEW m \in 1..j
               PROVE (Typed(e, m) <=> Typed(f, m)) /\ (Begins(e, m) <=> Begins(f, m))
    OBVIOUS
  <2>1. e[m] = f[m]
    BY DEF Longer
  <2> QED BY <2>1 DEF Typed, Begins
<1>2. j \in 1..j /\ e[j] = f[j]
    BY DEF Longer
<1>3. {h \in 1..j : Begins(e, h)} = {h \in 1..j : Begins(f, h)}
    BY <1>1
<1>4. SectionOf(e, j) = SectionOf(f, j)
    BY <1>3, Zenon DEF SectionOf
<1>5. Unknown(e, j) <=> Unknown(f, j)
    BY <1>1, <1>2, Zenon DEF Unknown
<1> QED BY <1>1, <1>2, <1>4, <1>5

\* A line that begins no section is in that of the line before.
LEMMA SectionOfLast ==
    ASSUME NEW e, NEW f, NEW l, NEW k, Longer(e, f, l, k)
    PROVE  SectionOf(e, k) = IF Begins(e, k) THEN k ELSE SectionOf(f, k - 1)
<1>1. PICK H : H = {h \in 1..(k - 1) : Begins(f, h)}
    OBVIOUS
<1>2. PICK I : I = {h \in 1..k : Begins(e, h)}
    OBVIOUS
<1>3. k \in Nat \ {0}
    BY DEF Longer
<1>4. \A j \in 1..(k - 1) : Begins(e, j) <=> Begins(f, j)
    BY SameBefore
<1>5. CASE Begins(e, k)
  <2>1. I \in SUBSET Nat /\ k \in I /\ \A j \in I : j <= k
    BY <1>2, <1>3, <1>5
  <2>2. Last(I) = k
    BY <2>1, LastIs
  <2> QED BY <1>2, <1>5, <2>1, <2>2 DEF SectionOf
<1>6. CASE ~Begins(e, k)
  <2>1. I = H
    BY <1>1, <1>2, <1>3, <1>4, <1>6
  <2> QED BY <1>1, <1>2, <1>6, <2>1, Zenon DEF SectionOf
<1> QED BY <1>5, <1>6

\* The headers of processes are those of before and the new one.
LEMMA ProcessesLonger ==
    ASSUME NEW e, NEW f, NEW l, NEW k, Longer(e, f, l, k)
    PROVE  /\ Processes(f) \subseteq 1..(k - 1)
           /\ Processes(e) = IF Begins(e, k) /\ l.flag = 1 THEN Processes(f) \cup {k}
                             ELSE Processes(f)
<1>1. /\ Processes(f) = {h \in 1..(k - 1) : Begins(f, h) /\ f[h].flag = 1}
      /\ Processes(e) = {h \in 1..k : Begins(e, h) /\ e[h].flag = 1}
    BY DEF Longer, Processes
<1>2. \A j \in 1..(k - 1) : (Begins(e, j) <=> Begins(f, j)) /\ e[j] = f[j]
    BY SameBefore DEF Longer
<1>3. k \in Nat \ {0} /\ e[k] = l
    BY DEF Longer
<1> QED BY <1>1, <1>2, <1>3

\* The lines of a section that has begun are those of before and the new one,
\* when it is of that section.
LEMMA LinesLonger ==
    ASSUME NEW e, NEW f, NEW l, NEW k, Longer(e, f, l, k), NEW h \in 1..(k - 1), NEW field
    PROVE  /\ LinesOf(f, h, field) \subseteq 1..(k - 1)
           /\ LinesOf(e, h, field) = IF l.field = field /\ SectionOf(e, k) = h
                                     THEN LinesOf(f, h, field) \cup {k}
                                     ELSE LinesOf(f, h, field)
<1>1. /\ LinesOf(f, h, field) = {j \in 1..(k - 1) : f[j].field = field /\ SectionOf(f, j) = h}
      /\ LinesOf(e, h, field) = {j \in 1..k : e[j].field = field /\ SectionOf(e, j) = h}
    BY DEF Longer, LinesOf
<1>2. \A j \in 1..(k - 1) : SectionOf(e, j) = SectionOf(f, j)
    BY SameBefore
<1>3. k \in Nat \ {0} /\ e[k] = l /\ \A j \in 1..(k - 1) : e[j] = f[j]
    BY DEF Longer
<1> QED BY <1>1, <1>2, <1>3

\* A section that begins has no lines yet.
LEMMA LinesNone ==
    ASSUME NEW e, NEW f, NEW l, NEW k, Longer(e, f, l, k), Begins(e, k),
           NEW field, field # "header"
    PROVE  LinesOf(e, k, field) = {}
<1>1. LinesOf(e, k, field) = {j \in 1..k : e[j].field = field /\ SectionOf(e, j) = k}
    BY DEF Longer, LinesOf
<1>2. k \in Nat \ {0} /\ e[k].field = "header"
    BY DEF Longer, Begins, Typed
<1>3. ASSUME NEW j \in 1..(k - 1) PROVE SectionOf(e, j) # k
  <2>1. SectionOf(e, j) \in 0..j
    BY <1>2, SectionBefore
  <2> QED BY <1>2, <2>1
<1> QED BY <1>1, <1>2, <1>3

\* A listing of lines, with a later line at its end.
Continued(at, m, S, k) ==
    \E more \in [1..(m + 1) -> S \cup {k}] :
        Lists(more, S \cup {k}) /\ more[m + 1] = k /\ \A j \in 1..m : more[j] = at[j]

LEMMA ListsLonger ==
    ASSUME NEW k \in Nat \ {0}, NEW S \in SUBSET (1..(k - 1)), NEW m \in Nat,
           NEW at \in [1..m -> S], Lists(at, S)
    PROVE  Continued(at, m, S, k)
<1> DEFINE more == [j \in 1..(m + 1) |-> IF j = m + 1 THEN k ELSE at[j]]
<1>1. more \in [1..(m + 1) -> S \cup {k}]
    OBVIOUS
<1>2. more[m + 1] = k /\ \A j \in 1..m : more[j] = at[j]
    OBVIOUS
<1>3. DOMAIN more = 1..(m + 1) /\ DOMAIN at = 1..m
    OBVIOUS
<1> HIDE DEF more
<1>4. S \cup {k} = {more[j] : j \in DOMAIN more}
  <2>1. S = {at[j] : j \in DOMAIN at}
    BY DEF Lists
  <2>2. ASSUME NEW x \in S PROVE \E j \in 1..(m + 1) : more[j] = x
    <3>1. PICK j \in 1..m : at[j] = x
        BY <1>3, <2>1
    <3>2. j \in 1..(m + 1)
        OBVIOUS
    <3> QED BY <1>2, <3>1, <3>2
  <2>3. m + 1 \in 1..(m + 1)
    OBVIOUS
  <2>4. ASSUME NEW j \in 1..(m + 1) PROVE more[j] \in S \cup {k}
    BY <1>1
  <2>5. PICK T : T = {more[j] : j \in DOMAIN more}
    OBVIOUS
  <2>6. \A x : x \in T <=> \E j \in 1..(m + 1) : more[j] = x
    BY <1>3, <2>5
  <2>7. S \cup {k} \subseteq T
    BY <1>2, <2>2, <2>3, <2>6
  <2>8. T \subseteq S \cup {k}
    BY <2>4, <2>6
  <2> QED BY <2>5, <2>7, <2>8
<1>5. \A i, j \in DOMAIN more : i < j => more[i] < more[j]
  <2> SUFFICES ASSUME NEW i \in 1..(m + 1), NEW j \in 1..(m + 1), i < j
               PROVE  more[i] < more[j]
    BY <1>3
  <2>0. \A c \in 1..m : at[c] \in S /\ at[c] \in 1..(k - 1) /\ more[c] = at[c]
    BY <1>2
  <2>1. i \in 1..m
    OBVIOUS
  <2>2. CASE j = m + 1
    <3>1. at[i] \in 1..(k - 1) /\ more[i] = at[i] /\ more[j] = k
        BY <1>2, <2>0, <2>1, <2>2
    <3> QED BY <3>1
  <2>3. CASE j # m + 1
    <3>1. j \in 1..m
        BY <2>3
    <3>2. at[i] < at[j]
        BY <1>3, <2>1, <3>1 DEF Lists
    <3> QED BY <2>0, <2>1, <3>1, <3>2
  <2> QED BY <2>2, <2>3
<1>6. Lists(more, S \cup {k})
    BY <1>4, <1>5, Zenon DEF Lists
<1> QED BY <1>1, <1>2, <1>6 DEF Continued

\* The last line of a set comes last in a listing of it, and only there.
IsLast(S, h) == h \in S /\ \A j \in S : j <= h

LastAt(at, m, h) == m \in 1..m /\ at[m] = h /\ \A j \in 1..(m - 1) : at[j] # h

LEMMA ListedLast ==
    ASSUME NEW S \in SUBSET Nat, NEW m \in Nat, NEW at \in [1..m -> S], Lists(at, S),
           NEW h, IsLast(S, h)
    PROVE  LastAt(at, m, h)
<1>0. h \in S /\ \A j \in S : j <= h
    BY DEF IsLast
<1>1. \A i, j \in 1..m : i < j => at[i] < at[j]
    BY DEF Lists
<1>2. PICK i \in 1..m : at[i] = h
    BY <1>0 DEF Lists
<1>3. m \in 1..m
    BY <1>2
<1>4. at[m] \in S /\ at[m] \in Nat /\ h \in Nat
    BY <1>0, <1>3
<1>5. i = m
  <2> SUFFICES ASSUME i # m PROVE FALSE
    OBVIOUS
  <2>1. i < m
    OBVIOUS
  <2>2. h < at[m]
    BY <1>1, <1>2, <1>3, <2>1
  <2>3. at[m] <= h
    BY <1>0, <1>4
  <2> QED BY <1>4, <2>2, <2>3
<1>6. ASSUME NEW j \in 1..(m - 1) PROVE at[j] # h
  <2>1. j \in 1..m /\ j < m
    OBVIOUS
  <2>2. at[j] < at[m] /\ at[j] \in S
    BY <1>1, <1>3, <2>1
  <2>3. at[j] \in Nat
    BY <2>2
  <2> QED BY <1>2, <1>4, <1>5, <2>2, <2>3
<1> QED BY <1>2, <1>3, <1>5, <1>6 DEF LastAt

\* Lines that follow change nothing about a section they are not of.
LEMMA HungSame ==
    ASSUME NEW e, NEW f, NEW l, NEW k, Longer(e, f, l, k), NEW H \in SUBSET (1..(k - 1)),
           NEW hung, HungAs(f, H, hung)
    PROVE  HungAs(e, H, hung)
<1>1. CASE H = {}
    BY <1>1 DEF HungAs
<1>2. CASE H # {}
  <2>1. k - 1 \in Nat /\ H \in SUBSET (0..(k - 1))
    BY DEF Longer
  <2>2. Last(H) \in H
    BY <1>2, <2>1, LastMax
  <2>3. e[Last(H)] = f[Last(H)]
    BY <2>2 DEF Longer
  <2> QED BY <1>2, <2>3 DEF HungAs
<1> QED BY <1>1, <1>2

LEMMA WindowsSame ==
    ASSUME NEW e, NEW f, NEW l, NEW k, Longer(e, f, l, k), NEW W \in SUBSET (1..(k - 1)),
           NEW wins, WindowsAs(f, W, wins)
    PROVE  WindowsAs(e, W, wins)
<1>1. PICK at \in [1..Len(wins) -> W] :
         Lists(at, W) /\ \A j \in 1..Len(wins) : WindowAs(f[at[j]], wins[j])
    BY DEF WindowsAs
<1>2. ASSUME NEW j \in 1..Len(wins) PROVE WindowAs(e[at[j]], wins[j])
  <2>1. at[j] \in 1..(k - 1)
    BY <1>2
  <2>2. e[at[j]] = f[at[j]]
    BY <2>1 DEF Longer
  <2> QED BY <1>1, <1>2, <2>2
<1> QED BY <1>1, <1>2 DEF WindowsAs

LEMMA DescribesSame ==
    ASSUME NEW e, NEW f, NEW l, NEW k, Longer(e, f, l, k), NEW h \in 1..(k - 1), NEW item,
           Describes(f, h, item), ~(l.field \in {"hung", "wnd"} /\ SectionOf(e, k) = h)
    PROVE  Describes(e, h, item)
<1>1. LinesOf(e, h, "hung") = LinesOf(f, h, "hung") /\ LinesOf(f, h, "hung") \subseteq 1..(k - 1)
    BY LinesLonger
<1>2. LinesOf(e, h, "wnd") = LinesOf(f, h, "wnd") /\ LinesOf(f, h, "wnd") \subseteq 1..(k - 1)
    BY LinesLonger
<1>3. e[h] = f[h]
    BY DEF Longer
<1>4. HungAs(e, LinesOf(e, h, "hung"), item.hung)
    BY <1>1, HungSame DEF Describes
<1>5. WindowsAs(e, LinesOf(e, h, "wnd"), item.wins)
    BY <1>2, WindowsSame DEF Describes
<1> QED BY <1>3, <1>4, <1>5 DEF Describes

\* A hung line of the section counts, whatever the lines before it said.
LEMMA DescribesHung ==
    ASSUME NEW e, NEW f, NEW l, NEW k, Longer(e, f, l, k), NEW h \in 1..(k - 1), NEW item,
           Describes(f, h, item), l.field = "hung", SectionOf(e, k) = h,
           NEW v \in Values(l.val, {"n", "y"}), l.val \in {"n", "y", None},
           NEW new, new.name = item.name, new.wins = item.wins, new.hung = (v # "n")
    PROVE  Describes(e, h, new)
<1>1. /\ LinesOf(e, h, "hung") = LinesOf(f, h, "hung") \cup {k}
      /\ LinesOf(f, h, "hung") \subseteq 1..(k - 1)
    BY LinesLonger
<1>2. LinesOf(e, h, "wnd") = LinesOf(f, h, "wnd") /\ LinesOf(f, h, "wnd") \subseteq 1..(k - 1)
    BY LinesLonger
<1>3. e[h] = f[h] /\ k \in Nat /\ e[k] = l
    BY DEF Longer
<1>4. PICK H : H = LinesOf(e, h, "hung")
    OBVIOUS
<1>5. H \in SUBSET Nat /\ k \in H /\ \A j \in H : j <= k
    BY <1>1, <1>3, <1>4
<1>6. Last(H) = k
    BY <1>5, LastIs
<1>7. l.val # None => new.hung = (l.val = "y")
    BY DEF Values
<1>8. HungAs(e, H, new.hung)
    BY <1>3, <1>5, <1>6, <1>7 DEF HungAs
<1>9. WindowsAs(e, LinesOf(e, h, "wnd"), new.wins)
    BY <1>2, WindowsSame DEF Describes
<1> QED BY <1>3, <1>4, <1>8, <1>9 DEF Describes

\* A window line of the section adds its window at the end.
LEMMA DescribesWindow ==
    ASSUME NEW e, NEW f, NEW l, NEW k, Longer(e, f, l, k), NEW h \in 1..(k - 1), NEW item,
           Describes(f, h, item), l.field = "wnd", SectionOf(e, k) = h,
           NEW S, item.wins \in Seq(S), NEW win \in S, WindowAs(l, win),
           NEW new, new.name = item.name, new.hung = item.hung,
           new.wins = Append(item.wins, win)
    PROVE  Describes(e, h, new)
<1>1. LinesOf(e, h, "hung") = LinesOf(f, h, "hung") /\ LinesOf(f, h, "hung") \subseteq 1..(k - 1)
    BY LinesLonger
<1>2. /\ LinesOf(e, h, "wnd") = LinesOf(f, h, "wnd") \cup {k}
      /\ LinesOf(f, h, "wnd") \subseteq 1..(k - 1)
    BY LinesLonger
<1>3. e[h] = f[h] /\ k \in Nat \ {0} /\ e[k] = l
    BY DEF Longer
<1>4. HungAs(e, LinesOf(e, h, "hung"), new.hung)
    BY <1>1, HungSame DEF Describes
<1>5. PICK W : W = LinesOf(f, h, "wnd")
    OBVIOUS
<1>6. PICK m \in Nat : m = Len(item.wins)
    OBVIOUS
<1>7. PICK at \in [1..m -> W] : Lists(at, W) /\ \A j \in 1..m : WindowAs(f[at[j]], item.wins[j])
    BY <1>5, <1>6 DEF Describes, WindowsAs
<1>8. PICK more \in [1..(m + 1) -> W \cup {k}] :
         Lists(more, W \cup {k}) /\ more[m + 1] = k /\ \A j \in 1..m : more[j] = at[j]
  <2>1. W \in SUBSET (1..(k - 1)) /\ k \in Nat \ {0} /\ Lists(at, W)
    BY <1>2, <1>3, <1>5, <1>7
  <2>2. Continued(at, m, W, k)
    BY <2>1, ListsLonger
  <2> QED BY <2>2 DEF Continued
<1>9. Len(new.wins) = m + 1 /\ new.wins[m + 1] = win /\ \A j \in 1..m : new.wins[j] = item.wins[j]
  <2>1. Len(item.wins) = m /\ item.wins \in Seq(S) /\ new.wins = Append(item.wins, win)
    BY <1>6
  <2>2. new.wins \in Seq(S) /\ Len(new.wins) = m + 1 /\ new.wins[m + 1] = win
    BY <2>1
  <2>3. ASSUME NEW j \in 1..m PROVE new.wins[j] = item.wins[j]
    BY <2>1
  <2> QED BY <2>2, <2>3
<1>10. ASSUME NEW j \in 1..(m + 1) PROVE WindowAs(e[more[j]], new.wins[j])
  <2>1. CASE j = m + 1
    <3>1. more[j] = k /\ new.wins[j] = win
        BY <1>8, <1>9, <2>1
    <3> QED BY <1>3, <3>1
  <2>2. CASE j # m + 1
    <3>1. j \in 1..m
        BY <2>2
    <3>2. more[j] = at[j] /\ at[j] \in W
        BY <1>8, <3>1
    <3>3. at[j] \in 1..(k - 1)
        BY <1>2, <1>5, <3>2
    <3>4. e[more[j]] = f[at[j]]
        BY <3>2, <3>3 DEF Longer
    <3>5. WindowAs(f[at[j]], item.wins[j]) /\ new.wins[j] = item.wins[j]
        BY <1>7, <1>9, <3>1
    <3> QED BY <3>4, <3>5
  <2> QED BY <2>1, <2>2
<1>11. WindowsAs(e, W \cup {k}, new.wins)
    BY <1>8, <1>9, <1>10 DEF WindowsAs
<1> QED BY <1>2, <1>3, <1>4, <1>5, <1>11 DEF Describes

-----------------------------------------------------------------------------
(* The section the loop is in.                                             *)

\* The last header with a type, which is l when it has one.
LEMMA LastTypedLonger ==
    ASSUME NEW e, NEW f, NEW l, NEW k, Longer(e, f, l, k)
    PROVE  /\ Typed(e, k) => LastTyped(e) = k
           /\ ~Typed(e, k) =>
                /\ LastTyped(e) = LastTyped(f)
                /\ (\E j \in 1..k : Typed(e, j)) => \E j \in 1..(k - 1) : Typed(f, j)
<1>1. k \in Nat \ {0} /\ Len(e) = k /\ Len(f) = k - 1
    BY DEF Longer
<1>2. \A j \in 1..(k - 1) : Typed(e, j) <=> Typed(f, j)
    BY SameBefore
<1>3. PICK T : T = {j \in 1..(k - 1) : Typed(f, j)}
    OBVIOUS
<1>4. PICK U : U = {j \in 1..k : Typed(e, j)}
    OBVIOUS
<1>5. LastTyped(f) = Last(T) /\ LastTyped(e) = Last(U)
    BY <1>1, <1>3, <1>4, Zenon DEF LastTyped
<1>6. CASE Typed(e, k)
  <2>1. U \in SUBSET Nat /\ k \in U /\ \A j \in U : j <= k
    BY <1>1, <1>4, <1>6
  <2> QED BY <1>5, <1>6, <2>1, LastIs
<1>7. CASE ~Typed(e, k)
  <2>1. U = T
    BY <1>1, <1>2, <1>3, <1>4, <1>7
  <2> QED BY <1>3, <1>4, <1>5, <1>7, <2>1
<1> QED BY <1>6, <1>7

\* The last header with a type is a header with a type.
LEMMA LastTypedBefore ==
    ASSUME NEW f \in Seq(Line), \E j \in 1..Len(f) : Typed(f, j)
    PROVE  /\ LastTyped(f) \in 1..Len(f) /\ Typed(f, LastTyped(f))
           /\ \A j \in 1..Len(f) : Typed(f, j) => j <= LastTyped(f)
<1>1. PICK n \in Nat : n = Len(f)
    OBVIOUS
<1>2. PICK T : T = {j \in 1..n : Typed(f, j)}
    OBVIOUS
<1>3. T \in SUBSET (0..n) /\ T # {}
    BY <1>1, <1>2
<1>4. Last(T) \in T /\ \A j \in T : j <= Last(T)
    BY <1>3, LastMax
<1>5. LastTyped(f) = Last(T)
    BY <1>1, <1>2, Zenon DEF LastTyped
<1> QED BY <1>1, <1>2, <1>4, <1>5

\* Unless it names a process without giving its name, it has begun the section
\* of the last line.
LEMMA LastTypedBegins ==
    ASSUME NEW f \in Seq(Line), \E j \in 1..Len(f) : Typed(f, j), f[LastTyped(f)].flag # 1
    PROVE  SectionOf(f, Len(f)) = LastTyped(f) /\ LastTyped(f) # 0
<1>1. /\ LastTyped(f) \in 1..Len(f) /\ Typed(f, LastTyped(f))
      /\ \A j \in 1..Len(f) : Typed(f, j) => j <= LastTyped(f)
    BY LastTypedBefore
<1>2. Begins(f, LastTyped(f))
    BY <1>1 DEF Begins
<1>3. /\ SectionOf(f, Len(f)) \in 0..Len(f)
      /\ SectionOf(f, Len(f)) # 0 => Begins(f, SectionOf(f, Len(f)))
      /\ \A j \in 1..Len(f) : Begins(f, j) => j <= SectionOf(f, Len(f))
    BY SectionBefore
<1>4. LastTyped(f) <= SectionOf(f, Len(f))
    BY <1>1, <1>2, <1>3
<1>5. SectionOf(f, Len(f)) \in 1..Len(f) /\ Typed(f, SectionOf(f, Len(f)))
    BY <1>1, <1>3, <1>4 DEF Begins
<1>6. SectionOf(f, Len(f)) <= LastTyped(f)
    BY <1>1, <1>5
<1> QED BY <1>1, <1>3, <1>4, <1>6

\* What a step that reads the line l does to the lines.
LEMMA LineRead ==
    ASSUME TypeOK, NEW l \in Line, Getline(l)
    PROVE  /\ \E k \in Nat \ {0} : Longer(lines', lines, l, k) /\ Len(lines) = k - 1
           /\ reading /\ reading' /\ before' = before
<1>1. lines \in Seq(Line) /\ lines' = Append(lines, l)
    BY DEF TypeOK, Getline
<1>2. Longer(lines', lines, l, Len(lines) + 1)
    BY <1>1, LongerBy
<1> QED BY <1>1, <1>2 DEF Getline, Longer

\* A line that begins no section leaves the section as it is.
LEMMA SectionKept ==
    ASSUME ReadInv, NEW l \in Line, Getline(l), ~Begins(lines', Len(lines')), ItemFlag' = ItemFlag
    PROVE  SectionInv' /\ SectionOf(lines', Len(lines')) = SectionOf(lines, Len(lines))
<1>1. PICK k \in Nat \ {0} : Longer(lines', lines, l, k) /\ Len(lines) = k - 1 /\ Len(lines') = k
    BY LineRead DEF ReadInv, Longer
<1>2. PICK e : e = lines'
    OBVIOUS
<1>3. SectionOf(e, k) = SectionOf(lines, k - 1)
    BY <1>1, <1>2, SectionOfLast
<1>4. PICK h : h = SectionOf(lines, k - 1)
    OBVIOUS
<1>5. CASE h = 0
  <2>1. /\ ItemFlag # 1
        /\ ItemFlag # 0 => \E j \in 1..(k - 1) : Unknown(lines, j)
    BY <1>1, <1>4, <1>5 DEF ReadInv, SectionInv
  <2>2. \A j \in 1..(k - 1) : Unknown(e, j) <=> Unknown(lines, j)
    BY <1>1, <1>2, SameBefore
  <2>3. ItemFlag # 0 => \E j \in 1..k : Unknown(e, j)
    BY <2>1, <2>2
  <2>4. SectionOf(lines', Len(lines')) = 0
    BY <1>1, <1>2, <1>3, <1>4, <1>5
  <2> QED BY <1>1, <1>2, <1>3, <1>4, <1>5, <2>1, <2>3, <2>4 DEF SectionInv
<1>6. CASE h # 0
  <2>1. ItemFlag = lines[h].flag
    BY <1>1, <1>4, <1>6 DEF ReadInv, SectionInv
  <2>2. h \in 1..(k - 1)
    BY <1>4, <1>6, SectionBefore
  <2>3. e[h] = lines[h]
    BY <1>1, <1>2, <2>2 DEF Longer
  <2>4. SectionOf(lines', Len(lines')) = h
    BY <1>1, <1>2, <1>3, <1>4
  <2> QED BY <1>1, <1>2, <1>3, <1>4, <1>6, <2>1, <2>3, <2>4 DEF SectionInv
<1> QED BY <1>5, <1>6

\* A line without a type leaves the last type as it is.
LEMMA TypeKept ==
    ASSUME ReadInv, NEW l \in Line, Getline(l), ~Typed(lines', Len(lines')), type' = type
    PROVE  TypeInv'
<1>1. PICK k \in Nat \ {0} : Longer(lines', lines, l, k) /\ Len(lines) = k - 1 /\ Len(lines') = k
    BY LineRead DEF ReadInv, Longer
<1>2. PICK e : e = lines'
    OBVIOUS
<1>3. /\ LastTyped(e) = LastTyped(lines)
      /\ (\E j \in 1..k : Typed(e, j)) => \E j \in 1..(k - 1) : Typed(lines, j)
    BY <1>1, <1>2, LastTypedLonger
<1>4. SUFFICES ASSUME \E j \in 1..k : Typed(e, j) PROVE type = e[LastTyped(e)].flag
    BY <1>1, <1>2 DEF TypeInv
<1>5. \E j \in 1..Len(lines) : Typed(lines, j)
    BY <1>1, <1>3, <1>4
<1>6. type = lines[LastTyped(lines)].flag
    BY <1>5, LineRead DEF ReadInv, TypeInv
<1>7. LastTyped(lines) \in 1..(k - 1)
    BY <1>1, <1>5, LastTypedBefore DEF ReadInv, TypeOK
<1>8. e[LastTyped(lines)] = lines[LastTyped(lines)]
    BY <1>1, <1>2, <1>7 DEF Longer
<1> QED BY <1>3, <1>6, <1>8

\* A header begins a section, and the loop is in it, or the section goes on;
\* an item is pushed exactly when it is that of a process.
LEMMA HeaderSection ==
    ASSUME ReadInv, NEW l \in Line, l.field = "header", ReadHeader(l)
    PROVE  /\ SectionInv' /\ TypeInv'
           /\ IF Begins(lines', Len(lines')) /\ l.flag = 1 THEN PushItem(l.name) /\ l.name \in Name
              ELSE UNCHANGED <<procItems, nCount>>
<1>0. Getline(l)
    BY DEF ReadHeader
<1>1. PICK k \in Nat \ {0} : Longer(lines', lines, l, k) /\ Len(lines) = k - 1 /\ Len(lines') = k
    BY <1>0, LineRead DEF ReadInv, Longer
<1>2. PICK e : e = lines'
    OBVIOUS
<1>3. e[k] = l /\ l.flag \in 0..5 /\ (l.flag # 1 => l.name = None) /\ (l.flag = 1 => l.name \in Name \cup {None})
  <2>1. l \in Header
    BY DEF Line, Field
  <2> QED BY <1>1, <1>2, <2>1 DEF Header, Nothing, Bare, Longer
<1>4. (Typed(e, k) <=> l.flag \in 0..3) /\ (Begins(e, k) <=> l.flag \in 0..3 /\ (l.flag = 1 => l.name # None))
    BY <1>3 DEF Typed, Begins
<1>5. CASE Typed(e, k)
  <2>1. TypeRead(l) = l.flag /\ l.flag # Nothing /\ type' = l.flag
    BY <1>4, <1>5 DEF TypeRead, ReadHeader, Nothing, Bare
  <2>2. LastTyped(e) = k
    BY <1>1, <1>2, <1>5, LastTypedLonger
  <2>3. TypeInv'
    BY <1>2, <1>3, <2>1, <2>2 DEF TypeInv
  <2>4. CASE Begins(e, k)
    <3>1. /\ ItemFlag' = l.flag
          /\ IF l.flag = 1 THEN PushItem(l.name) ELSE UNCHANGED <<procItems, nCount>>
        BY <1>4, <2>1, <2>4 DEF ReadHeader
    <3>2. SectionOf(e, k) = k
        BY <1>1, <1>2, <2>4, SectionOfLast
    <3>3. SectionInv'
        BY <1>1, <1>2, <1>3, <3>1, <3>2 DEF SectionInv
    <3> QED BY <1>1, <1>2, <1>3, <1>4, <2>3, <2>4, <3>1, <3>3
  <2>5. CASE ~Begins(e, k)
    <3>1. l.flag = 1 /\ l.name = None
        BY <1>4, <1>5, <2>5
    <3>2. UNCHANGED <<procItems, nCount, ItemFlag>>
        BY <2>1, <3>1 DEF ReadHeader
    <3>3. SectionInv'
        BY <1>0, <1>1, <1>2, <2>5, <3>2, SectionKept
    <3> QED BY <1>1, <1>2, <2>3, <2>5, <3>2, <3>3
  <2> QED BY <2>4, <2>5
<1>6. CASE ~Typed(e, k)
  <2>1. ~Begins(e, k) /\ (l.flag = Nothing \/ l.flag = Bare)
    BY <1>3, <1>4, <1>6 DEF Nothing, Bare
  <2>2. type' = type /\ (l.flag = Bare => TypeRead(l) = type)
    BY <2>1 DEF ReadHeader, TypeRead, Nothing, Bare
  <2>3. TypeInv'
    BY <1>0, <1>1, <1>2, <1>6, <2>2, TypeKept
  <2>4. UNCHANGED <<procItems, nCount>>
    BY <1>3, <2>1, <2>2 DEF ReadHeader, Nothing, Bare
  <2>5. CASE ItemFlag' = ItemFlag
    <3>1. SectionInv'
        BY <1>0, <1>1, <1>2, <2>1, <2>5, SectionKept
    <3> QED BY <1>1, <1>2, <2>1, <2>3, <2>4, <3>1
  <2>6. CASE ItemFlag' # ItemFlag
    <3>1. l.flag = Bare /\ ItemFlag' = type /\ type # 1
        BY <1>3, <2>1, <2>2, <2>6 DEF ReadHeader, Nothing, Bare
    <3>2. ~\E j \in 1..Len(lines) : Typed(lines, j)
      <4> SUFFICES ASSUME \E j \in 1..Len(lines) : Typed(lines, j) PROVE FALSE
        OBVIOUS
      <4>1. type = lines[LastTyped(lines)].flag
        BY <1>0, LineRead DEF ReadInv, TypeInv
      <4>2. /\ SectionOf(lines, Len(lines)) = LastTyped(lines)
            /\ LastTyped(lines) # 0
        BY <3>1, <4>1, LastTypedBegins DEF ReadInv, TypeOK
      <4>3. ItemFlag = type
        BY <4>1, <4>2 DEF ReadInv, SectionInv
      <4> QED BY <2>6, <3>1, <4>3
    <3>3. \A j \in 1..k : ~Typed(e, j)
        BY <1>1, <1>2, <1>6, <3>2, SameBefore
    <3>4. Unknown(e, k) /\ k \in 1..k
        BY <1>3, <3>1, <3>3 DEF Unknown
    <3>5. SectionOf(e, k) = 0
      <4>1. SectionOf(e, k) \in 0..k /\ (SectionOf(e, k) # 0 => Begins(e, SectionOf(e, k)))
        BY SectionBefore
      <4> QED BY <3>3, <4>1 DEF Begins
    <3>6. SectionInv'
        BY <1>1, <1>2, <3>1, <3>4, <3>5 DEF SectionInv
    <3> QED BY <1>1, <1>2, <2>1, <2>3, <2>4, <3>6
  <2> QED BY <2>5, <2>6
<1> QED BY <1>5, <1>6

-----------------------------------------------------------------------------
(* The items.                                                              *)

\* A line that is not one of an item leaves the items as they are written.
LEMMA ItemsKept ==
    ASSUME ReadInv, ItemsAsWritten, NEW l \in Line, Getline(l), procItems' = procItems,
           ~(Begins(lines', Len(lines')) /\ l.flag = 1),
           l.field \in {"hung", "wnd"} => SectionOf(lines', Len(lines')) \notin Processes(lines)
    PROVE  ItemsAsWritten'
<1>1. PICK k \in Nat \ {0} : Longer(lines', lines, l, k) /\ Len(lines) = k - 1 /\ Len(lines') = k
    BY LineRead DEF ReadInv, Longer
<1>2. PICK e : e = lines'
    OBVIOUS
<1>3. Processes(e) = Processes(lines) /\ Processes(lines) \subseteq 1..(k - 1)
    BY <1>1, <1>2, ProcessesLonger
<1>4. PICK at \in [1..Len(procItems) -> Processes(lines)] :
         Lists(at, Processes(lines)) /\ \A j \in 1..Len(procItems) : Describes(lines, at[j], procItems[j])
    BY DEF ItemsAsWritten
<1>5. ASSUME NEW j \in 1..Len(procItems) PROVE Describes(e, at[j], procItems[j])
  <2>1. at[j] \in Processes(lines) /\ at[j] \in 1..(k - 1)
    BY <1>3, <1>4
  <2>2. Describes(lines, at[j], procItems[j])
    BY <1>4
  <2>3. ~(l.field \in {"hung", "wnd"} /\ SectionOf(e, k) = at[j])
    BY <1>1, <1>2, <2>1
  <2>4. Longer(e, lines, l, k)
    BY <1>1, <1>2
  <2> QED BY <2>1, <2>2, <2>3, <2>4, DescribesSame
<1>6. at \in [1..Len(procItems) -> Processes(e)] /\ Lists(at, Processes(e))
    BY <1>3, <1>4
<1>7. \E a \in [1..Len(procItems) -> Processes(e)] :
         Lists(a, Processes(e)) /\ \A j \in 1..Len(procItems) : Describes(e, a[j], procItems[j])
    BY <1>5, <1>6
<1> QED BY <1>2, <1>7 DEF ItemsAsWritten

\* The item of a header that begins a process is described by it.
LEMMA NewItem ==
    ASSUME NEW e, NEW f, NEW l, NEW k, Longer(e, f, l, k), Begins(e, k)
    PROVE  Describes(e, k, [name |-> l.name, hung |-> FALSE, wins |-> << >>])
<1>1. e[k] = l /\ LinesOf(e, k, "hung") = {} /\ LinesOf(e, k, "wnd") = {}
    BY LinesNone DEF Longer
<1>2. WindowsAs(e, {}, << >>)
  <2>1. << >> \in [1..Len(<< >>) -> {}] /\ Lists(<< >>, {})
    BY DEF Lists
  <2>2. \A j \in 1..Len(<< >>) : WindowAs(e[<< >>[j]], << >>[j])
    OBVIOUS
  <2> QED BY <2>1, <2>2 DEF WindowsAs
<1>3. HungAs(e, {}, FALSE)
    BY DEF HungAs
<1> QED BY <1>1, <1>2, <1>3 DEF Describes

\* Without lines there are no items.
LEMMA NothingListed ==
    \E at \in [1..0 -> Processes(<< >>)] :
        Lists(at, Processes(<< >>)) /\ \A j \in 1..0 : Describes(<< >>, at[j], << >>[j])
<1>1. Processes(<< >>) = {}
    BY DEF Processes
<1>2. << >> \in [1..0 -> {}] /\ Lists(<< >>, {})
    BY DEF Lists
<1> QED BY <1>1, <1>2

\* The header of a process adds its item.
LEMMA ItemsPushed ==
    ASSUME ReadInv, ItemsAsWritten, NEW l \in Line, Getline(l), l.field = "header",
           Begins(lines', Len(lines')), l.flag = 1, PushItem(l.name)
    PROVE  ItemsAsWritten'
<1>1. PICK k \in Nat \ {0} : Longer(lines', lines, l, k) /\ Len(lines) = k - 1 /\ Len(lines') = k
    BY LineRead DEF ReadInv, Longer
<1>2. PICK e : e = lines' /\ Longer(e, lines, l, k) /\ Begins(e, k)
    BY <1>1
<1>3. Processes(e) = Processes(lines) \cup {k} /\ Processes(lines) \subseteq 1..(k - 1)
    BY <1>2, ProcessesLonger
<1>4. PICK m \in Nat : m = Len(procItems)
    BY DEF ReadInv, TypeOK
<1>5. PICK at \in [1..m -> Processes(lines)] :
         Lists(at, Processes(lines)) /\ \A j \in 1..m : Describes(lines, at[j], procItems[j])
    BY <1>4 DEF ItemsAsWritten
<1>6. PICK item : item = [name |-> l.name, hung |-> FALSE, wins |-> << >>]
    OBVIOUS
<1>7. /\ Len(procItems') = m + 1 /\ procItems'[m + 1] = item
      /\ \A j \in 1..m : procItems'[j] = procItems[j]
  <2>1. procItems' = Append(procItems, item) /\ procItems \in Seq(Item)
    BY <1>6 DEF PushItem, ReadInv, TypeOK
  <2> QED BY <1>4, <2>1
<1>8. Continued(at, m, Processes(lines), k)
    BY <1>3, <1>5, ListsLonger
<1>9. PICK more \in [1..(m + 1) -> Processes(lines) \cup {k}] :
         /\ Lists(more, Processes(lines) \cup {k}) /\ more[m + 1] = k
         /\ \A j \in 1..m : more[j] = at[j]
    BY <1>8 DEF Continued
<1>10. ASSUME NEW j \in 1..(m + 1) PROVE Describes(e, more[j], procItems'[j])
  <2>1. CASE j = m + 1
    BY <1>2, <1>6, <1>7, <1>9, <2>1, NewItem
  <2>2. CASE j # m + 1
    <3>1. j \in 1..m
        BY <2>2
    <3>2. more[j] = at[j] /\ at[j] \in 1..(k - 1) /\ procItems'[j] = procItems[j]
        BY <1>3, <1>5, <1>7, <1>9, <3>1
    <3>3. Describes(lines, at[j], procItems[j])
        BY <1>5, <3>1
    <3> QED BY <1>2, <3>2, <3>3, DescribesSame
  <2> QED BY <2>1, <2>2
<1>11. \E a \in [1..Len(procItems') -> Processes(e)] :
          Lists(a, Processes(e)) /\ \A j \in 1..Len(procItems') : Describes(e, a[j], procItems'[j])
    BY <1>3, <1>7, <1>9, <1>10
<1> QED BY <1>2, <1>11 DEF ItemsAsWritten

\* In a process section, the last item is that of the section.
LEMMA LastItem ==
    ASSUME ReadInv, ItemFlag = 1
    PROVE  IsLast(Processes(lines), SectionOf(lines, Len(lines)))
<1>1. PICK n \in Nat : n = Len(lines)
    BY DEF ReadInv, TypeOK
<1>2. PICK h : h = SectionOf(lines, n)
    OBVIOUS
<1>3. h # 0 /\ lines[h].flag = 1
    BY <1>1, <1>2 DEF ReadInv, SectionInv
<1>4. h \in 1..n /\ Begins(lines, h) /\ \A j \in 1..n : Begins(lines, j) => j <= h
    BY <1>2, <1>3, SectionBefore
<1> QED BY <1>1, <1>2, <1>3, <1>4 DEF Processes, IsLast

LEMMA LastReplaced ==
    ASSUME NEW S, NEW s \in Seq(S), NEW x \in S, NEW m \in 1..Len(s),
           NEW t, t = [s EXCEPT ![m] = x]
    PROVE  /\ Len(t) = Len(s) /\ t[m] = x
           /\ \A j \in 1..(m - 1) : t[j] = s[j]
<1>1. t \in Seq(S) /\ Len(t) = Len(s) /\ t[m] = x
    OBVIOUS
<1>2. ASSUME NEW j \in 1..(m - 1) PROVE t[j] = s[j]
    OBVIOUS
<1> QED BY <1>1, <1>2

\* A line of an item changes the last item, to what its section now says.
LEMMA ItemsChanged ==
    ASSUME ReadInv, ItemsAsWritten, ItemFlag = 1, NEW l \in Line, Getline(l), l.field # "header",
           NEW new \in Item, procItems' = [procItems EXCEPT ![nCount] = new],
           \A e, f, k, h : Longer(e, f, l, k) /\ h \in 1..(k - 1) /\ SectionOf(e, k) = h
                              /\ Describes(f, h, procItems[nCount]) => Describes(e, h, new)
    PROVE  ItemsAsWritten'
<1>1. PICK k \in Nat \ {0} : Longer(lines', lines, l, k) /\ Len(lines) = k - 1 /\ Len(lines') = k
    BY LineRead DEF ReadInv, Longer
<1>2. PICK e : e = lines' /\ Longer(e, lines, l, k) /\ ~Begins(e, k)
    BY <1>1 DEF Begins, Typed, Longer
<1>3. Processes(e) = Processes(lines) /\ Processes(lines) \subseteq 1..(k - 1)
    BY <1>2, ProcessesLonger
<1>4. PICK m \in Nat : m = Len(procItems) /\ m = nCount
    BY DEF ReadInv, TypeOK
<1>5. PICK at \in [1..m -> Processes(lines)] :
         Lists(at, Processes(lines)) /\ \A j \in 1..m : Describes(lines, at[j], procItems[j])
    BY <1>4 DEF ItemsAsWritten
<1>6. PICK h : h = SectionOf(lines, k - 1)
    OBVIOUS
<1>7. IsLast(Processes(lines), h) /\ h \in Processes(lines)
    BY <1>1, <1>6, LastItem DEF IsLast
<1>8. m \in 1..m /\ at[m] = h /\ \A j \in 1..(m - 1) : at[j] # h
  <2>1. PICK S \in SUBSET Nat : S = Processes(lines)
    BY <1>3
  <2>2. at \in [1..m -> S] /\ Lists(at, S) /\ IsLast(S, h)
    BY <1>5, <1>7, <2>1
  <2>3. LastAt(at, m, h)
    BY <2>2, ListedLast
  <2> QED BY <2>3 DEF LastAt
<1>9. SectionOf(e, k) = h /\ h \in 1..(k - 1)
    BY <1>2, <1>3, <1>6, <1>7, SectionOfLast
<1>10. /\ Len(procItems') = m /\ procItems'[m] = new
       /\ \A j \in 1..(m - 1) : procItems'[j] = procItems[j]
  <2>1. procItems \in Seq(Item)
    BY DEF ReadInv, TypeOK
  <2>2. procItems' = [procItems EXCEPT ![m] = new]
    BY <1>4
  <2>3. m \in 1..Len(procItems)
    BY <1>4, <1>8
  <2>4. PICK s, t : s \in Seq(Item) /\ s = procItems /\ t = procItems'
    BY <2>1
  <2>5. t = [s EXCEPT ![m] = new] /\ m \in 1..Len(s) /\ Len(s) = m
    BY <1>4, <2>2, <2>3, <2>4
  <2>6. Len(t) = m /\ t[m] = new /\ \A j \in 1..(m - 1) : t[j] = s[j]
    BY <2>5, LastReplaced
  <2> QED BY <2>4, <2>6
<1>11. ASSUME NEW j \in 1..m PROVE Describes(e, at[j], procItems'[j])
  <2>1. CASE j = m
    <3>1. Describes(lines, h, procItems[nCount])
        BY <1>4, <1>5, <1>8
    <3>2. Describes(e, h, new)
        BY <1>2, <1>9, <3>1
    <3> QED BY <1>8, <1>10, <2>1, <3>2
  <2>2. CASE j # m
    <3>1. j \in 1..(m - 1)
        BY <2>2
    <3>2. at[j] # SectionOf(e, k) /\ procItems'[j] = procItems[j]
        BY <1>8, <1>9, <1>10, <3>1
    <3>3. at[j] \in 1..(k - 1) /\ Describes(lines, at[j], procItems[j])
        BY <1>3, <1>5
    <3> QED BY <1>2, <3>2, <3>3, DescribesSame
  <2> QED BY <2>1, <2>2
<1>12. \E a \in [1..Len(procItems') -> Processes(e)] :
          Lists(a, Processes(e)) /\ \A j \in 1..Len(procItems') : Describes(e, a[j], procItems'[j])
    BY <1>3, <1>5, <1>10, <1>11
<1> QED BY <1>2, <1>12 DEF ItemsAsWritten

LEMMA HungLine ==
    ASSUME ReadInv, ItemsAsWritten, ItemFlag = 1, NEW l \in Line, l.field = "hung",
           ReadProcessConfig(l)
    PROVE  ItemsAsWritten'
<1>1. PICK item \in Item : item = procItems[nCount]
    BY DEF ReadInv, TypeOK
<1>2. l.val \in {"n", "y", None}
    BY DEF Line, Field, Header
<1>3. PICK v \in Values(l.val, {"n", "y"}) :
         procItems' = [procItems EXCEPT ![nCount].hung = (v # "n")]
    BY DEF ReadProcessConfig
<1>4. PICK new : new = [item EXCEPT !.hung = (v # "n")]
    OBVIOUS
<1>5. new.name = item.name /\ new.wins = item.wins /\ new.hung = (v # "n") /\ new \in Item
    BY <1>4 DEF Item
<1>6. procItems' = [procItems EXCEPT ![nCount] = new]
    BY <1>1, <1>3, <1>4
<1>7. ASSUME NEW e, NEW f, NEW k, NEW h, Longer(e, f, l, k), h \in 1..(k - 1),
             SectionOf(e, k) = h, Describes(f, h, item)
      PROVE  Describes(e, h, new)
    BY <1>2, <1>5, <1>7, DescribesHung
<1>8. \A e, f, k, h : Longer(e, f, l, k) /\ h \in 1..(k - 1) /\ SectionOf(e, k) = h
                         /\ Describes(f, h, procItems[nCount]) => Describes(e, h, new)
    BY <1>1, <1>7
<1>9. Getline(l) /\ l.field # "header"
    BY DEF ReadProcessConfig
<1> QED BY <1>5, <1>6, <1>8, <1>9, ItemsChanged

LEMMA WindowLine ==
    ASSUME ReadInv, ItemsAsWritten, ItemFlag = 1, NEW l \in Line, l.field = "wnd",
           ReadProcessConfig(l)
    PROVE  ItemsAsWritten'
<1> DEFINE W == [title : Text, content : Text]
<1>1. PICK item \in Item : item = procItems[nCount]
    BY DEF ReadInv, TypeOK
<1>2. l.title \in Text \cup {None} /\ l.content \in Text \cup {None}
    BY DEF Line, Field, Header
<1>3. PICK t \in Values(l.title, Text), c \in Values(l.content, Text) :
         procItems' = [procItems EXCEPT ![nCount].wins = Append(@, [title |-> t, content |-> c])]
    BY DEF ReadProcessConfig
<1>4. t \in Text /\ c \in Text
    BY <1>2, <1>3 DEF Values
<1>5. PICK win \in W : win = [title |-> t, content |-> c]
    BY <1>4
<1>6. WindowAs(l, win)
    BY <1>3, <1>5 DEF WindowAs
<1>7. PICK new : new = [item EXCEPT !.wins = Append(item.wins, win)]
    OBVIOUS
<1>8. item.wins \in Seq(W) /\ Append(item.wins, win) \in Seq(W)
    BY DEF Item
<1>9. /\ new.name = item.name /\ new.hung = item.hung /\ new.wins = Append(item.wins, win)
      /\ new \in Item
    BY <1>7, <1>8 DEF Item
<1>10. procItems' = [procItems EXCEPT ![nCount] = new]
    BY <1>1, <1>3, <1>5, <1>7
<1> HIDE DEF W
<1>11. ASSUME NEW e, NEW f, NEW k, NEW h, Longer(e, f, l, k), h \in 1..(k - 1),
              SectionOf(e, k) = h, Describes(f, h, item)
       PROVE  Describes(e, h, new)
    BY <1>6, <1>8, <1>9, <1>11, DescribesWindow
<1>12. \A e, f, k, h : Longer(e, f, l, k) /\ h \in 1..(k - 1) /\ SectionOf(e, k) = h
                          /\ Describes(f, h, procItems[nCount]) => Describes(e, h, new)
    BY <1>1, <1>11
<1>13. Getline(l) /\ l.field # "header"
    BY DEF ReadProcessConfig
<1> QED BY <1>9, <1>10, <1>12, <1>13, ItemsChanged

\* Outside the sections of processes no line is one of an item.
LEMMA NoProcessSection ==
    ASSUME ReadInv, ItemFlag # 1
    PROVE  SectionOf(lines, Len(lines)) \notin Processes(lines)
<1>1. PICK h : h = SectionOf(lines, Len(lines))
    OBVIOUS
<1>2. CASE h = 0
    BY <1>1, <1>2 DEF Processes
<1>3. CASE h # 0
  <2>1. lines[h].flag # 1
    BY <1>1, <1>3 DEF ReadInv, SectionInv
  <2> QED BY <1>1, <2>1 DEF Processes
<1> QED BY <1>2, <1>3

\* Every line of a file leaves the items as the lines so far describe them.
LEMMA ItemsRead ==
    ASSUME ReadInv, ItemsAsWritten, NEW l \in Line, ReadLine(l)
    PROVE  ItemsAsWritten'
<1>1. CASE l.field = "header"
  <2>1. ReadHeader(l) /\ Getline(l)
    BY <1>1 DEF ReadLine, ReadHeader
  <2>2. IF Begins(lines', Len(lines')) /\ l.flag = 1 THEN PushItem(l.name)
        ELSE UNCHANGED <<procItems, nCount>>
    BY <1>1, <2>1, HeaderSection
  <2> QED BY <1>1, <2>1, <2>2, ItemsKept, ItemsPushed
<1>2. CASE l.field # "header"
  <2>1. Getline(l)
    BY <1>2 DEF ReadLine, ReadProcessConfig, ReadSettingConfig, SkipLine
  <2>2. ~Begins(lines', Len(lines'))
    <3>1. PICK k \in Nat \ {0} : Longer(lines', lines, l, k)
        BY <2>1, LineRead DEF ReadInv
    <3> QED BY <1>2, <3>1 DEF Longer, Begins, Typed
  <2>3. ItemFlag' = ItemFlag
    BY <1>2 DEF ReadLine, ReadProcessConfig, ReadSettingConfig, SkipLine
  <2>4. SectionOf(lines', Len(lines')) = SectionOf(lines, Len(lines))
    BY <2>1, <2>2, <2>3, SectionKept
  <2>5. CASE ItemFlag = 1 /\ l.field # "timer"
    <3>1. ReadProcessConfig(l) /\ l.field \in {"hung", "wnd"}
        BY <1>2, <2>5 DEF ReadLine, Line, Header, Field
    <3> QED BY <2>5, <3>1, HungLine, WindowLine
  <2>6. CASE ItemFlag = 1 /\ l.field = "timer"
    <3>1. procItems' = procItems
        BY <1>2, <2>6 DEF ReadLine, ReadProcessConfig
    <3> QED BY <2>1, <2>2, <2>6, <3>1, ItemsKept
  <2>7. CASE ItemFlag # 1
    <3>1. procItems' = procItems
        BY <1>2, <2>7 DEF ReadLine, ReadSettingConfig, SkipLine
    <3>2. SectionOf(lines', Len(lines')) \notin Processes(lines)
        BY <2>4, <2>7, NoProcessSection
    <3> QED BY <2>1, <2>2, <3>1, <3>2, ItemsKept
  <2> QED BY <2>5, <2>6, <2>7
<1> QED BY <1>1, <1>2

-----------------------------------------------------------------------------
(* The timer.                                                              *)

\* The lines that set the timer are those of before and the new one, when it is
\* a timer line of a setting section.
LEMMA SetsLonger ==
    ASSUME NEW e, NEW f, NEW l, NEW k, Longer(e, f, l, k)
    PROVE  /\ SetsTimer(f) \subseteq 1..(k - 1)
           /\ SetsTimer(e) = IF l.field = "timer" /\ SectionOf(e, k) # 0
                                   /\ e[SectionOf(e, k)].flag = 3
                             THEN SetsTimer(f) \cup {k} ELSE SetsTimer(f)
<1>1. /\ SetsTimer(f) = {j \in 1..(k - 1) : /\ f[j].field = "timer"
                                            /\ SectionOf(f, j) # 0 /\ f[SectionOf(f, j)].flag = 3}
      /\ SetsTimer(e) = {j \in 1..k : /\ e[j].field = "timer"
                                      /\ SectionOf(e, j) # 0 /\ e[SectionOf(e, j)].flag = 3}
    BY DEF Longer, SetsTimer
<1>2. k \in Nat \ {0} /\ e[k] = l
    BY DEF Longer
<1>3. ASSUME NEW j \in 1..(k - 1)
      PROVE  /\ e[j] = f[j] /\ SectionOf(e, j) = SectionOf(f, j)
             /\ SectionOf(f, j) # 0 => e[SectionOf(f, j)] = f[SectionOf(f, j)]
  <2>1. SectionOf(e, j) = SectionOf(f, j)
    BY SameBefore
  <2>2. j \in Nat
    BY <1>2
  <2>3. SectionOf(f, j) \in 0..j
    BY <2>2, SectionBefore
  <2>4. SectionOf(f, j) # 0 => SectionOf(f, j) \in 1..(k - 1)
    BY <1>2, <2>3
  <2>5. \A i \in 1..(k - 1) : e[i] = f[i]
    BY DEF Longer
  <2> QED BY <2>1, <2>4, <2>5
<1> QED BY <1>1, <1>2, <1>3

\* Before a section has begun, no line sets the timer.
LEMMA NoneSets ==
    ASSUME NEW f \in Seq(Line), SectionOf(f, Len(f)) = 0
    PROVE  SetsTimer(f) = {}
<1>1. PICK n \in Nat : n = Len(f)
    OBVIOUS
<1>2. \A j \in 1..n : ~Begins(f, j)
  <2>1. \A j \in 1..n : Begins(f, j) => j <= SectionOf(f, n)
    BY SectionBefore
  <2> QED BY <1>1, <2>1
<1>3. ASSUME NEW j \in 1..n PROVE SectionOf(f, j) = 0
  <2>1. j \in Nat
    OBVIOUS
  <2>2. SectionOf(f, j) \in 0..j /\ (SectionOf(f, j) # 0 => Begins(f, SectionOf(f, j)))
    BY <2>1, SectionBefore
  <2>3. SectionOf(f, j) # 0 => SectionOf(f, j) \in 1..n
    BY <2>2
  <2> QED BY <1>2, <2>2, <2>3
<1> QED BY <1>1, <1>3 DEF SetsTimer

\* The lines that may have set the timer remain.
LEMMA GuessesRemain ==
    ASSUME NEW e, NEW f, NEW l, NEW k, Longer(e, f, l, k), NEW j \in GuessesTimer(f)
    PROVE  j \in GuessesTimer(e) /\ e[j] = f[j]
<1>1. /\ k \in Nat \ {0} /\ Len(f) = k - 1 /\ Len(e) = k
      /\ \A i \in 1..(k - 1) : e[i] = f[i]
    BY DEF Longer
<1>2. /\ j \in 1..(k - 1) /\ f[j].field = "timer" /\ SectionOf(f, j) = 0
      /\ \E h \in 1..j : Unknown(f, h)
    BY <1>1 DEF GuessesTimer
<1>3. PICK h \in 1..j : Unknown(f, h)
    BY <1>2
<1>4. h \in 1..(k - 1)
  <2>1. j \in Nat /\ j <= k - 1
    BY <1>1, <1>2
  <2>2. h \in Nat /\ 1 <= h /\ h <= j
    BY <2>1, <1>3
  <2> QED BY <1>1, <2>1, <2>2
<1>5. Unknown(e, h) /\ SectionOf(e, j) = 0
  <2>1. Unknown(e, h) <=> Unknown(f, h)
    BY <1>4, SameBefore
  <2>2. SectionOf(e, j) = SectionOf(f, j)
    BY <1>2, SameBefore
  <2> QED BY <1>2, <1>3, <2>1, <2>2
<1> QED BY <1>1, <1>2, <1>5 DEF GuessesTimer

\* A line that neither sets the timer nor changes it.
LEMMA TimerKept ==
    ASSUME ReadInv, TimerAsWritten, NEW l \in Line, Getline(l), timer' = timer,
           SetsTimer(lines') = SetsTimer(lines)
    PROVE  TimerAsWritten'
<1>1. PICK k \in Nat \ {0} : Longer(lines', lines, l, k)
    BY LineRead DEF ReadInv
<1>2. PICK e : e = lines' /\ Longer(e, lines, l, k)
    BY <1>1
<1>3. before' = before
    BY DEF Getline
<1>4. SetsTimer(e) = SetsTimer(lines) /\ SetsTimer(lines) \subseteq 1..(k - 1)
    BY <1>2, SetsLonger
<1>5. CASE SetsTimer(lines) # {}
  <2>1. k - 1 \in Nat /\ SetsTimer(lines) \in SUBSET (0..(k - 1))
    BY <1>4
  <2>2. Last(SetsTimer(lines)) \in SetsTimer(lines)
    BY <1>5, <2>1, LastMax
  <2>3. e[Last(SetsTimer(lines))] = lines[Last(SetsTimer(lines))]
    BY <1>2, <1>4, <2>2 DEF Longer
  <2>4. timer \in Values(lines[Last(SetsTimer(lines))].val, Timer)
    BY <1>5 DEF TimerAsWritten
  <2> QED BY <1>2, <1>4, <1>5, <2>3, <2>4 DEF TimerAsWritten
<1>6. CASE SetsTimer(lines) = {}
  <2>1. timer = before \/ \E j \in GuessesTimer(lines) : timer \in Values(lines[j].val, Timer)
    BY <1>6 DEF TimerAsWritten
  <2>2. timer = before \/ \E j \in GuessesTimer(e) : timer \in Values(e[j].val, Timer)
    BY <1>2, <2>1, GuessesRemain
  <2> QED BY <1>2, <1>3, <1>4, <1>6, <2>2 DEF TimerAsWritten
<1> QED BY <1>5, <1>6

\* A timer line where the loop takes the section for a setting.
LEMMA TimerSet ==
    ASSUME ReadInv, TimerAsWritten, NEW l \in Line, Getline(l), l.field = "timer", ItemFlag = 3,
           ItemFlag' = ItemFlag, timer' \in Values(l.val, Timer)
    PROVE  TimerAsWritten'
<1>1. PICK k \in Nat \ {0} : Longer(lines', lines, l, k)
    BY LineRead DEF ReadInv
<1>2. PICK e : e = lines' /\ Longer(e, lines, l, k)
    BY <1>1
<1>3. e[k] = l /\ Len(e) = k /\ Len(lines) = k - 1
    BY <1>2 DEF Longer
<1>4. ~Begins(e, k)
    BY <1>3 DEF Begins, Typed
<1>5. SectionInv' /\ SectionOf(e, k) = SectionOf(lines, k - 1)
    BY <1>2, <1>3, <1>4, SectionKept
<1>6. PICK h : h = SectionOf(e, k)
    OBVIOUS
<1>7. CASE h = 0
  <2>1. \E j \in 1..k : Unknown(e, j)
    <3>1. SectionOf(lines', Len(lines')) = 0 /\ ItemFlag' # 0
        BY <1>2, <1>3, <1>6, <1>7
    <3>2. \E j \in 1..Len(lines') : Unknown(lines', j)
        BY <1>5, <3>1 DEF SectionInv
    <3> QED BY <1>2, <1>3, <3>2
  <2>2. k \in GuessesTimer(e)
    <3>1. k \in 1..Len(e)
        BY <1>3
    <3>2. e[k].field = "timer" /\ SectionOf(e, k) = 0
        BY <1>3, <1>6, <1>7
    <3> QED BY <2>1, <3>1, <3>2 DEF GuessesTimer
  <2>3. SetsTimer(e) = {}
    <3>1. e \in Seq(Line)
        BY <1>2 DEF Longer
    <3>2. SectionOf(e, Len(e)) = 0
        BY <1>3, <1>6, <1>7
    <3> QED BY <3>1, <3>2, NoneSets
  <2> QED BY <1>2, <1>3, <2>2, <2>3 DEF TimerAsWritten
<1>8. CASE h # 0
  <2>1. e[h].flag = 3
    BY <1>2, <1>3, <1>5, <1>6, <1>8 DEF SectionInv
  <2>2. SetsTimer(e) = SetsTimer(lines) \cup {k} /\ SetsTimer(lines) \subseteq 1..(k - 1)
    BY <1>2, <1>6, <1>8, <2>1, SetsLonger
  <2>3. PICK S : S = SetsTimer(e)
    OBVIOUS
  <2>4. S \in SUBSET Nat /\ k \in S /\ \A j \in S : j <= k
    BY <2>2, <2>3
  <2>5. Last(S) = k
    BY <2>4, LastIs
  <2> QED BY <1>2, <1>3, <2>3, <2>4, <2>5 DEF TimerAsWritten
<1> QED BY <1>7, <1>8

\* Every line of a file leaves the timer as the lines so far have set it.
LEMMA TimerRead ==
    ASSUME ReadInv, TimerAsWritten, NEW l \in Line, ReadLine(l)
    PROVE  TimerAsWritten'
<1>1. Getline(l)
    BY DEF ReadLine, ReadHeader, ReadProcessConfig, ReadSettingConfig, SkipLine
<1>2. PICK k \in Nat \ {0} : Longer(lines', lines, l, k)
    BY <1>1, LineRead DEF ReadInv
<1>3. PICK e : e = lines' /\ Longer(e, lines, l, k)
    BY <1>2
<1>4. e[k] = l /\ Len(e) = k /\ Len(lines) = k - 1
    BY <1>3 DEF Longer
<1>5. CASE l.field # "timer"
  <2>1. timer' = timer
    BY <1>5 DEF ReadLine, ReadHeader, ReadProcessConfig, ReadSettingConfig, SkipLine
  <2>2. SetsTimer(lines') = SetsTimer(lines)
    BY <1>3, <1>5, SetsLonger
  <2> QED BY <1>1, <2>1, <2>2, TimerKept
<1>6. CASE l.field = "timer" /\ ItemFlag = 3
  <2>1. ItemFlag' = ItemFlag /\ timer' \in Values(l.val, Timer)
    BY <1>6 DEF ReadLine, ReadSettingConfig
  <2> QED BY <1>1, <1>6, <2>1, TimerSet
<1>7. CASE l.field = "timer" /\ ItemFlag # 3
  <2>1. timer' = timer /\ ItemFlag' = ItemFlag
    BY <1>7 DEF ReadLine, ReadProcessConfig, ReadSettingConfig, SkipLine
  <2>2. ~Begins(e, k)
    BY <1>4, <1>7 DEF Begins, Typed
  <2>3. SectionInv'
    BY <1>1, <1>3, <1>4, <2>1, <2>2, SectionKept
  <2>4. ~(SectionOf(e, k) # 0 /\ e[SectionOf(e, k)].flag = 3)
    BY <1>3, <1>4, <1>7, <2>1, <2>3 DEF SectionInv
  <2>5. SetsTimer(lines') = SetsTimer(lines)
    BY <1>3, <2>4, SetsLonger
  <2> QED BY <1>1, <2>1, <2>5, TimerKept
<1> QED BY <1>5, <1>6, <1>7

-----------------------------------------------------------------------------
(* The induction.                                                          *)

LEMMA InitFile == Init => FileInv
<1> SUFFICES ASSUME Init PROVE FileInv
    OBVIOUS
<1>1. TypeOK
    BY InitType
<1>2. /\ procItems = << >> /\ lines = << >> /\ ItemFlag = 0 /\ reading = FALSE /\ before = timer
      /\ Len(lines) = 0 /\ Len(procItems) = 0
    BY DEF Init
<1>3. SectionOf(lines, 0) = 0
    BY DEF SectionOf
<1>4. SectionInv
    BY <1>2, <1>3 DEF SectionInv
<1>5. TypeInv
    BY <1>2 DEF TypeInv
<1>6. ItemsAsWritten
    BY <1>2, NothingListed DEF ItemsAsWritten
<1>7. TimerAsWritten
  <2>1. SetsTimer(lines) = {}
    BY <1>2 DEF SetsTimer
  <2> QED BY <1>2, <2>1 DEF TimerAsWritten
<1> QED BY <1>1, <1>4, <1>5, <1>6, <1>7 DEF FileInv, ReadInv

\* A file that has just been opened says nothing yet.
LEMMA OpenFile == TypeOK /\ Open => SectionInv' /\ TypeInv' /\ ItemsAsWritten' /\ TimerAsWritten'
<1> SUFFICES ASSUME TypeOK, Open
             PROVE  SectionInv' /\ TypeInv' /\ ItemsAsWritten' /\ TimerAsWritten'
    OBVIOUS
<1>1. PICK e, f : e = lines' /\ f = procItems' /\ e = << >> /\ f = << >>
    BY DEF Open
<1>2. Len(e) = 0 /\ Len(f) = 0 /\ ItemFlag' = 0 /\ before' = timer /\ timer' = timer
    BY <1>1 DEF Open
<1>3. SectionOf(e, 0) = 0
    BY DEF SectionOf
<1>4. SectionInv'
    BY <1>1, <1>2, <1>3 DEF SectionInv
<1>5. TypeInv'
    BY <1>1, <1>2 DEF TypeInv
<1>6. ItemsAsWritten'
    BY <1>1, <1>2, NothingListed DEF ItemsAsWritten
<1>7. TimerAsWritten'
  <2>1. SetsTimer(e) = {}
    BY <1>1, <1>2 DEF SetsTimer
  <2> QED BY <1>1, <1>2, <2>1 DEF TimerAsWritten
<1> QED BY <1>4, <1>5, <1>6, <1>7

LEMMA NextFile == FileInv /\ [Next]_vars => FileInv'
<1> SUFFICES ASSUME FileInv, [Next]_vars PROVE FileInv'
    OBVIOUS
<1>1. TypeOK'
    BY NextType DEF FileInv, ReadInv
<1>2. CASE Open
    BY <1>1, <1>2, OpenFile DEF FileInv, ReadInv
<1>3. CASE \E l \in Line : ReadLine(l)
  <2>1. PICK l \in Line : ReadLine(l)
    BY <1>3
  <2>2. Getline(l)
    BY <2>1 DEF ReadLine, ReadHeader, ReadProcessConfig, ReadSettingConfig, SkipLine
  <2>3. SectionInv' /\ TypeInv'
    <3>1. CASE l.field = "header"
        BY <2>1, <3>1, HeaderSection DEF FileInv, ReadLine
    <3>2. CASE l.field # "header"
      <4>1. UNCHANGED <<ItemFlag, type>>
        BY <2>1, <3>2 DEF ReadLine, ReadProcessConfig, ReadSettingConfig, SkipLine
      <4>2. PICK k \in Nat \ {0} : Longer(lines', lines, l, k)
        BY <2>2, LineRead DEF FileInv, ReadInv
      <4>3. ~Begins(lines', Len(lines')) /\ ~Typed(lines', Len(lines'))
        BY <3>2, <4>2 DEF Longer, Begins, Typed
      <4> QED BY <2>2, <4>1, <4>3, SectionKept, TypeKept DEF FileInv
    <3> QED BY <3>1, <3>2
  <2>4. ItemsAsWritten'
    BY <2>1, ItemsRead DEF FileInv
  <2>5. TimerAsWritten'
    BY <2>1, TimerRead DEF FileInv
  <2> QED BY <1>1, <2>3, <2>4, <2>5 DEF FileInv, ReadInv
<1>4. CASE OpenFails \/ EndOfFile \/ UNCHANGED vars
  <2>1. /\ UNCHANGED <<procItems, ItemFlag, timer, lines, before>>
        /\ reading' => reading /\ type' = type
    BY <1>4 DEF OpenFails, EndOfFile, vars
  <2>2. SectionInv'
    BY <2>1 DEF FileInv, ReadInv, SectionInv
  <2>3. TypeInv'
    BY <2>1 DEF FileInv, ReadInv, TypeInv
  <2>4. ItemsAsWritten'
    BY <2>1 DEF FileInv, ItemsAsWritten
  <2>5. TimerAsWritten'
    BY <2>1 DEF FileInv, TimerAsWritten
  <2> QED BY <1>1, <2>2, <2>3, <2>4, <2>5 DEF FileInv, ReadInv
<1> QED BY <1>2, <1>3, <1>4 DEF Next

\* For every file of any length, at every line and whatever the reads before
\* did: the items are the process sections read, in order, each with the fields
\* of its own section, and nothing of an earlier file.
THEOREM FileToItems == Spec => []ItemsAsWritten
<1>1. FileInv => ItemsAsWritten
    BY DEF FileInv
<1> QED BY <1>1, InitFile, NextFile, PTL DEF Spec

\* For every file of any length: the timer is that of the last timer line in a
\* setting section, or that of the files before; a header without a type changes
\* it only before any other header.
THEOREM FileToTimer == Spec => []TimerAsWritten
<1>1. FileInv => TimerAsWritten
    BY DEF FileInv
<1> QED BY <1>1, InitFile, NextFile, PTL DEF Spec
=============================================================================
