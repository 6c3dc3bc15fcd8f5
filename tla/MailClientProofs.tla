-------------------------- MODULE MailClientProofs --------------------------
(***************************************************************************)
(* TypeOK, AuthBeforeMail, NoMutualWait and RefusedAlone of MailClient,    *)
(* for every list of receivers, any number of mails and any length of the  *)
(* EHLO answer, and OneCopyEach for every list without repetitions.        *)
(***************************************************************************)
EXTENDS MailClient, TLAPS, SequenceTheorems, WellFoundedInduction
-----------------------------------------------------------------------------
(* The inductive invariant. *)

\* The commands of a mail, those of the login, and those that a server that
\* has accepted DATA takes for the text of the mail.
Mailing   == Header \cup {"BODY", "END"}
LoggingIn == {"GREET"} \cup Logon
Text      == {"HEADER", "BODY", "END"}

\* The order in which SendMail sends its commands.
Follows(v, w) ==
    \/ v = "GREET" /\ w = "EHLO"
    \/ v = "EHLO" /\ w = "AUTH"
    \/ v = "AUTH" /\ w = "USER"
    \/ v = "USER" /\ w = "PASS"
    \/ v \in {"PASS", "END"} /\ w \in {"MAIL", "QUIT"}
    \/ v = "MAIL" /\ w = "RCPT"
    \/ v = "RCPT" /\ w = "DATA"
    \/ v = "DATA" /\ w = "HEADER"
    \/ v = "HEADER" /\ w = "BODY"
    \/ v = "BODY" /\ w = "END"

InSession == at \in {"send", "recv"}

Command == {c \in [verb : Verbs, to : Receiver \cup {Short}] :
               c.verb = "RCPT" => c.to \in Receiver}

Session == [auth : {"no", "user", "pass", "yes"}, mail : BOOLEAN,
            rcpts : SUBSET Receiver, data : BOOLEAN, hdr : Receiver \cup {Short}]

\* In a session there is a socket, and what the server has not taken yet are
\* commands in their order, the last of which is the one the client is about.
QueueInv ==
    /\ inq \in Seq(Command)
    /\ conn = "closed" => inq = << >>
    /\ at = "recv" => stage \in Answered
    /\ InSession =>
           /\ sockets > 0 /\ conn \in {"open", "closed"}
           /\ \A i \in 1..(Len(inq) - 1) : Follows(inq[i].verb, inq[i + 1].verb)
           /\ inq # << >> => IF at = "recv" THEN inq[Len(inq)].verb = stage
                                            ELSE Follows(inq[Len(inq)].verb, stage)

\* A server that has accepted DATA sees the text of the mail next.
DataInv ==
    InSession /\ conn = "open" /\ sess.data =>
        IF inq # << >> THEN inq[1].verb \in Text
        ELSE IF at = "send" THEN stage \in Text ELSE stage = "DATA"

\* Past the password the server has accepted it, and takes no command that
\* would make it forget; before, there is no 235 that could be taken for one.
AuthInv ==
    InSession =>
        /\ stage \in Mailing \cup {"QUIT"} => sess.auth = "yes"
        /\ stage \in LoggingIn => buf # "235"
        /\ stage \in LoggingIn => \A i \in 1..Len(inq) : inq[i].verb \in LoggingIn
        /\ sess.auth = "yes" => \A i \in 1..Len(inq) : inq[i].verb \in Mailing \cup {"QUIT"}
        /\ sess.auth = "yes" /\ stage \in LoggingIn => at = "recv" /\ stage = "PASS"
        /\ \A i \in 1..Len(outq) : outq[i] = "235" => sess.auth = "yes"

MailInv == TypeOK /\ QueueInv /\ DataInv /\ AuthInv /\ NoMutualWait
-----------------------------------------------------------------------------
(* What the steps of the client and of the server do. *)

\* A set of natural numbers that has a member has a least one.
LEMMA LeastNatural ==
    ASSUME NEW T, T \subseteq Nat, T # {}
    PROVE  \E m \in T : \A k \in T : m <= k
<1>1. PICK m \in T : \A k \in T : ~(<<k, m>> \in OpToRel(<, Nat))
  BY NatLessThanWellFounded, WFMin, Zenon
<1>2. ASSUME NEW k \in T PROVE m <= k
  <2>1. k \in Nat /\ m \in Nat
    OBVIOUS
  <2>2. <<k, m>> \notin {ss \in Nat \X Nat : ss[1] < ss[2]}
    BY <1>1, Zenon DEF OpToRel
  <2> QED BY <2>1, <2>2
<1> QED BY <1>2

\* The sequence of one element.
LEMMA Singleton ==
    ASSUME NEW S, NEW e \in S
    PROVE  /\ <<e>> \in Seq(S) /\ Len(<<e>>) = 1 /\ <<e>>[1] = e
           /\ <<e>> # << >>
  OBVIOUS

\* NextReceiver returns 0 or the index of an address.
LEMMA NextReceiverIsAddress ==
    ASSUME NEW i \in 0..Len(Receivers)
    PROVE  /\ NextReceiver(i) \in 0..Len(Receivers)
           /\ NextReceiver(i) # 0 => To(NextReceiver(i)) \in Receiver
<1> DEFINE Rest == {j \in (i + 1)..Len(Receivers) : Receivers[j] # Short}
<1>0. Len(Receivers) \in Nat /\ DOMAIN Receivers = 1..Len(Receivers)
  BY ReceiversAssumption, LenProperties
<1>1. CASE Rest = {}
  BY <1>0, <1>1 DEF NextReceiver
<1>2. CASE Rest # {}
  <2>1. Rest \subseteq Nat
    BY <1>0
  <2>2. \E m \in Rest : \A k \in Rest : m <= k
    <3> HIDE DEF Rest
    <3> QED BY <1>2, <2>1, LeastNatural
  <2>3. NextReceiver(i) = CHOOSE m \in Rest : \A k \in Rest : m <= k
    BY <1>2 DEF NextReceiver
  <2>4. NextReceiver(i) \in Rest
    BY <2>2, <2>3
  <2>5. NextReceiver(i) \in 1..Len(Receivers) /\ Receivers[NextReceiver(i)] # Short
    BY <1>0, <2>4
  <2>6. Receivers[NextReceiver(i)] \in Receiver \cup {Short}
    BY <2>5, ElementOfSeq, ReceiversAssumption
  <2> QED BY <1>0, <2>5, <2>6 DEF To
<1> QED BY <1>1, <1>2

\* To returns an address or an entry too short to be one.
LEMMA ToIsEntry ==
    ASSUME NEW i
    PROVE  To(i) \in Receiver \cup {Short}
<1>1. Len(Receivers) \in Nat /\ DOMAIN Receivers = 1..Len(Receivers)
  BY ReceiversAssumption, LenProperties
<1>2. ASSUME i \in DOMAIN Receivers PROVE Receivers[i] \in Receiver \cup {Short}
  BY <1>1, <1>2, ElementOfSeq, ReceiversAssumption
<1> QED BY <1>2 DEF To

\* Follow goes on to the next command, of a receiver that is an address.
LEMMA FollowEffect ==
    ASSUME stage \in Verbs, stage # "QUIT", ri \in 0..Len(Receivers),
           stage \in Mailing => To(ri) \in Receiver, Follow(stage)
    PROVE  /\ at' = "send" /\ stage' \in Verbs /\ ri' \in 0..Len(Receivers)
           /\ Follows(stage, stage')
           /\ stage' \in Mailing => To(ri') \in Receiver
<1>1. at' = "send" /\ stage' \in Verbs /\ Follows(stage, stage')
  BY DEF Follow, Follows, Mailing, Header, Verbs, Logon
<1>2. ri' \in 0..Len(Receivers)
  BY NextReceiverIsAddress DEF Follow
<1>3. ASSUME stage' \in Mailing PROVE To(ri') \in Receiver
  <2>1. CASE stage \in {"PASS", "END"}
    BY <1>3, <2>1, NextReceiverIsAddress DEF Follow, Mailing, Header, To
  <2>2. CASE stage \notin {"PASS", "END"}
    BY <1>1, <1>3, <2>2 DEF Follow, Follows, Mailing, Header, Verbs, Logon, To
  <2> QED BY <2>1, <2>2
<1> QED BY <1>1, <1>2, <1>3

\* One command taken by the server: the session it leaves, and the lines of
\* the answer.  235 is said of an accepted password only; only the lines of a
\* mail go without an answer while the connection stands.
LEMMA ServeEffect ==
    ASSUME TypeOK, inq \in Seq(Command), Serve
    PROVE  LET c == Head(inq)
           IN  /\ c \in Command /\ inq # << >> /\ inq' = Tail(inq)
               /\ UNCHANGED <<client, conn>>
               /\ sess' \in Session
               /\ delivered' \in [Receiver \X Receiver -> Nat]
               /\ refused' \in SUBSET Receiver /\ badData' \in SUBSET Receiver
               /\ sess'.auth = sess.auth \/ c.verb \in {"AUTH", "USER", "PASS"}
               /\ sess'.auth = "yes" => sess.auth = "yes" \/ c.verb = "PASS"
               /\ sess'.data => (sess.data /\ c.verb # "END") \/ (~sess.data /\ c.verb = "DATA")
               /\ \E lines \in Seq(Codes) :
                     /\ outq' = outq \o lines
                     /\ \A i \in 1..Len(lines) : lines[i] = "235" => sess'.auth = "yes"
                     /\ c.verb \in Answered /\ ~sess.data /\ conn = "open" => lines # << >>
<1> DEFINE c == Head(inq)
<1>0. c \in Command /\ inq # << >> /\ inq' = Tail(inq)
      /\ UNCHANGED <<client, conn>>
  BY HeadTailProperties DEF Serve
<1>a. /\ sess \in Session /\ outq \in Seq(Codes)
      /\ delivered \in [Receiver \X Receiver -> Nat]
      /\ refused \in SUBSET Receiver /\ badData \in SUBSET Receiver
  BY DEF TypeOK, Session
<1>b. c.verb \in Verbs /\ c.to \in Receiver \cup {Short}
      /\ (c.verb = "RCPT" => c.to \in Receiver)
  BY <1>0 DEF Command
<1> DEFINE Types == /\ sess' \in Session
                    /\ delivered' \in [Receiver \X Receiver -> Nat]
                    /\ refused' \in SUBSET Receiver /\ badData' \in SUBSET Receiver
           Moves == /\ sess'.auth = sess.auth \/ c.verb \in {"AUTH", "USER", "PASS"}
                    /\ sess'.auth = "yes" => sess.auth = "yes" \/ c.verb = "PASS"
                    /\ sess'.data => (sess.data /\ c.verb # "END") \/ (~sess.data /\ c.verb = "DATA")
           Says  == \E lines \in Seq(Codes) :
                     /\ outq' = outq \o lines
                     /\ \A i \in 1..Len(lines) : lines[i] = "235" => sess'.auth = "yes"
                     /\ c.verb \in Answered /\ ~sess.data /\ conn = "open" => lines # << >>
<1>1. ASSUME NEW lines \in Seq(Codes), Reply(lines), lines # << >>,
             \A i \in 1..Len(lines) : lines[i] = "235" => sess'.auth = "yes"
      PROVE  Says
  <2>1. CASE conn = "open"
    BY <1>1, <2>1 DEF Reply
  <2>2. CASE conn # "open"
    <3>1. << >> \in Seq(Codes) /\ Len(<< >>) = 0 /\ outq \o << >> = outq
      BY <1>a, ConcatEmptySeq, EmptySeq
    <3>2. outq' = outq \o << >>
      BY <1>1, <2>2, <3>1 DEF Reply
    <3>3. \A i \in 1..Len(<< >>) : << >>[i] = "235" => sess'.auth = "yes"
      BY <3>1
    <3> QED BY <2>2, <3>1, <3>2, <3>3
  <2> QED BY <2>1, <2>2
<1>2. ASSUME NEW code \in Codes, Reply(<<code>>), code = "235" => sess'.auth = "yes"
      PROVE  Says
  <2>1. <<code>> \in Seq(Codes) /\ Len(<<code>>) = 1 /\ <<code>>[1] = code /\ <<code>> # << >>
    OBVIOUS
  <2>2. \A i \in 1..Len(<<code>>) : <<code>>[i] = "235" => sess'.auth = "yes"
    BY <1>2, <2>1
  <2> HIDE DEF Says
  <2> QED BY <1>1, <1>2, <2>1, <2>2
<1>3. CASE sess.data
  <2>1. Content(c)
    BY <1>3 DEF Serve
  <2>2. CASE c.verb = "END"
    <3>1. Types /\ Moves
      <4>1. sess' = [NewSession EXCEPT !.auth = sess.auth]
        BY <2>1, <2>2 DEF Content
      <4>2. sess' \in Session /\ sess'.auth = sess.auth /\ ~sess'.data
        BY <4>1, <1>a DEF NewSession, Session
      <4>3. sess.rcpts \in SUBSET Receiver
        BY <1>a DEF Session
      <4>4. /\ delivered' \in [Receiver \X Receiver -> Nat]
            /\ refused' \in SUBSET Receiver /\ badData' \in SUBSET Receiver
        BY <2>1, <2>2, <4>3, <1>a DEF Content
      <4> QED BY <4>2, <4>4
    <3>2. PICK code \in {"250", "500"} : Reply(<<code>>)
      BY <2>1, <2>2 DEF Content
    <3>3. Says
      <4>1. code \in Codes /\ code # "235"
        BY DEF Codes
      <4> HIDE DEF Says
      <4> QED BY <1>2, <3>2, <4>1
    <3> QED BY <1>0, <3>1, <3>3
  <2>3. CASE c.verb # "END"
    <3>1. Types /\ Moves
      <4>1. sess' = IF c.verb = "HEADER" THEN [sess EXCEPT !.hdr = c.to] ELSE sess
        BY <2>1, <2>3 DEF Content
      <4>2. sess' \in Session /\ sess'.auth = sess.auth /\ sess'.data = sess.data
        BY <4>1, <1>a, <1>b DEF Session
      <4>3. UNCHANGED <<delivered, refused, badData>>
        BY <2>1, <2>3 DEF Content, NoRecord
      <4> QED BY <1>3, <2>3, <4>2, <4>3, <1>a
    <3>2. Says
      <4>1. << >> \in Seq(Codes) /\ Len(<< >>) = 0 /\ outq \o << >> = outq
        BY <1>a, ConcatEmptySeq, EmptySeq
      <4>2. outq' = outq \o << >>
        BY <2>1, <2>3, <4>1 DEF Content
      <4>3. \A i \in 1..Len(<< >>) : << >>[i] = "235" => sess'.auth = "yes"
        BY <4>1
      <4> QED BY <1>3, <4>1, <4>2, <4>3
    <3> QED BY <1>0, <3>1, <3>2
  <2> QED BY <2>2, <2>3
<1>4. CASE ~sess.data
  <2>1. Greet(c) \/ Ehlo(c) \/ Authenticate(c) \/ Envelope(c) \/ Data(c) \/ Refuse(c)
        \/ (c.verb = "QUIT" /\ Respond("221", sess) /\ NoRecord)
    BY <1>4 DEF Serve
  <2>2. Types /\ Moves
    <3>1. CASE Greet(c) \/ (c.verb = "QUIT" /\ Respond("221", sess) /\ NoRecord)
      BY <1>4, <1>a, <3>1 DEF Greet, Respond, NoRecord
    <3>2. CASE Ehlo(c)
      BY <1>4, <1>a, <3>2 DEF Ehlo, NoRecord
    <3>3. CASE Authenticate(c)
      BY <1>4, <1>a, <3>3 DEF Authenticate, Respond, NoRecord, Session
    <3>4. CASE Envelope(c)
      <4>1. CASE c.verb = "MAIL"
        BY <1>4, <1>a, <3>4, <4>1 DEF Envelope, Respond, NoRecord, Session
      <4>2. CASE c.verb = "RCPT"
        <5>1. c.to \in Receiver
          BY <1>b, <4>2
        <5>2. /\ sess' \in Session /\ sess'.auth = sess.auth /\ sess'.data = sess.data
              /\ refused' \in SUBSET Receiver /\ UNCHANGED <<delivered, badData>>
          <6>1. sess' = [sess EXCEPT !.rcpts = @ \cup {c.to}] \/ sess' = sess
            BY <3>4, <4>2 DEF Envelope, Respond
          <6>2. UNCHANGED <<delivered, badData>> /\ (UNCHANGED refused \/ refused' = refused \cup {c.to})
            BY <3>4, <4>2 DEF Envelope
          <6>3. refused' \in SUBSET Receiver
            BY <1>a, <5>1, <6>2
          <6>4. sess.rcpts \cup {c.to} \in SUBSET Receiver
            BY <1>a, <5>1 DEF Session
          <6>5. sess' \in Session /\ sess'.auth = sess.auth /\ sess'.data = sess.data
            BY <1>a, <6>1, <6>4 DEF Session
          <6> QED BY <6>2, <6>3, <6>5
        <5> QED BY <1>4, <1>a, <5>2
      <4> QED BY <3>4, <4>1, <4>2 DEF Envelope
    <3>5. CASE Data(c)
      BY <1>4, <1>a, <3>5 DEF Data, Respond, NoRecord, Session, NewSession
    <3>6. CASE Refuse(c)
      BY <1>4, <1>a, <1>b, <3>6 DEF Refuse, Respond
    <3> QED BY <2>1, <3>1, <3>2, <3>3, <3>4, <3>5, <3>6
  <2>3. Says
    <3>1. CASE Ehlo(c)
      <4>1. CASE Reply(<<"500">>)
        <5>1. "500" \in Codes /\ "500" # "235"
          BY DEF Codes
        <5> HIDE DEF Says
        <5> QED BY <1>2, <4>1, <5>1
      <4>2. ASSUME NEW n \in 1..EhloLines, Reply([k \in 1..n |-> "250"]) PROVE Says
        <5>1. n \in Nat /\ n > 0
          BY ReceiversAssumption
        <5>2. [k \in 1..n |-> "250"] \in Seq(Codes) /\ Len([k \in 1..n |-> "250"]) = n
          BY <5>1, IsASeq DEF Codes
        <5>3. [k \in 1..n |-> "250"] # << >>
          BY <5>1, <5>2, EmptySeq
        <5>4. \A i \in 1..n : [k \in 1..n |-> "250"][i] # "235"
          OBVIOUS
        <5> HIDE DEF Says
        <5> QED BY <1>1, <4>2, <5>2, <5>3, <5>4
      <4> HIDE DEF Says
      <4> QED BY <3>1, <4>1, <4>2 DEF Ehlo
    <3>2. CASE ~Ehlo(c)
      <4>1. \E code \in Codes : Reply(<<code>>) /\ (code = "235" => sess'.auth = "yes")
        <5>1. CASE Greet(c) \/ (c.verb = "QUIT" /\ Respond("221", sess) /\ NoRecord)
          BY <5>1 DEF Greet, Codes, Respond
        <5>2. CASE Authenticate(c)
          <6>1. CASE c.verb \in {"AUTH", "USER"}
            BY <5>2, <6>1 DEF Authenticate, Codes, Respond
          <6>2. CASE c.verb = "PASS"
            <7>1. Respond("235", [sess EXCEPT !.auth = "yes"]) \/ Respond("500", [sess EXCEPT !.auth = "no"])
              BY <5>2, <6>2 DEF Authenticate
            <7>2. [sess EXCEPT !.auth = "yes"].auth = "yes"
              BY <1>a DEF Session
            <7> QED BY <7>1, <7>2 DEF Respond, Codes
          <6> QED BY <5>2, <6>1, <6>2 DEF Authenticate
        <5>3. CASE Envelope(c)
          BY <5>3 DEF Envelope, Codes, Respond
        <5>4. CASE Data(c)
          BY <5>4 DEF Data, Codes, Respond
        <5>5. CASE Refuse(c)
          BY <5>5 DEF Refuse, Codes, Respond
        <5> QED BY <2>1, <3>2, <5>1, <5>2, <5>3, <5>4, <5>5
      <4> HIDE DEF Says
      <4> QED BY <1>2, <4>1
    <3> QED BY <3>1, <3>2
  <2> QED BY <1>0, <2>2, <2>3
<1> QED BY <1>3, <1>4

-----------------------------------------------------------------------------
(* The invariant holds at the start, and every step keeps it. *)

\* Before the first mail there is no session.
LEMMA MailStarts == Init => MailInv
<1> SUFFICES ASSUME Init PROVE MailInv
  OBVIOUS
<1>1. TypeOK
  <2>1. << >> \in Seq([verb : Verbs, to : Receiver \cup {Short}]) /\ << >> \in Seq(Codes)
    OBVIOUS
  <2>2. Len(Receivers) \in Nat /\ MaxMails \in Nat
    BY ReceiversAssumption, LenProperties
  <2>3. /\ at = "idle" /\ stage = "QUIT" /\ ri = 0 /\ buf = "" /\ result = "none"
        /\ mails = 0 /\ wsa = 0 /\ sockets = 0 /\ conn = "none"
        /\ inq = << >> /\ outq = << >> /\ refused = {} /\ badData = {}
    BY DEF Init
  <2>4. delivered \in [Receiver \X Receiver -> Nat]
    BY DEF Init
  <2>5. sess \in [auth : {"no", "user", "pass", "yes"}, mail : BOOLEAN,
                  rcpts : SUBSET Receiver, data : BOOLEAN, hdr : Receiver \cup {Short}]
    BY DEF Init, NewSession
  <2>6. mails \in 0..MaxMails /\ wsa \in 0..mails /\ sockets \in 0..wsa
        /\ ri \in 0..Len(Receivers)
    <3>1. 0 \in 0..MaxMails /\ 0 \in 0..0 /\ 0 \in 0..Len(Receivers)
      BY <2>2
    <3> QED BY <2>3, <3>1
  <2>7. stage \in Verbs /\ stage \notin Header \cup {"BODY", "END"} /\ buf \in Codes
    BY <2>3 DEF Verbs, Header, Codes
  <2> QED BY <2>1, <2>3, <2>4, <2>5, <2>6, <2>7 DEF TypeOK
<1>2. QueueInv
  <2>1. << >> \in Seq(Command)
    OBVIOUS
  <2> QED BY <2>1 DEF Init, QueueInv, InSession
<1>3. DataInv /\ AuthInv /\ NoMutualWait
  BY DEF Init, DataInv, AuthInv, NoMutualWait, InSession
<1> QED BY <1>1, <1>2, <1>3 DEF MailInv

\* The connection: the new session starts with the greeting.
LEMMA ConnectKeeps == MailInv /\ CReateSocket => MailInv'
<1> SUFFICES ASSUME MailInv, CReateSocket PROVE MailInv'
  OBVIOUS
<1> DEFINE g == Cmd("GREET", Short)
<1>1. g.verb = "GREET" /\ g \in Command /\ g \in [verb : Verbs, to : Receiver \cup {Short}]
  BY DEF Cmd, Command, Verbs
<1>2. inq' = <<g>> /\ <<g>> \in Seq(Command) /\ Len(<<g>>) = 1 /\ <<g>>[1] = g /\ <<g>> # << >>
      /\ <<g>> \in Seq([verb : Verbs, to : Receiver \cup {Short}])
  <2>1. inq' = <<g>>
    BY DEF CReateSocket
  <2> HIDE DEF g
  <2> QED BY <1>1, <2>1, Singleton
<1>3. outq' = << >> /\ << >> \in Seq(Codes) /\ Len(<< >>) = 0
  <2>1. outq' = << >>
    BY DEF CReateSocket
  <2> QED BY <2>1
<1>4. sess' = NewSession /\ NewSession \in Session /\ NewSession.auth = "no" /\ ~NewSession.data
  BY DEF CReateSocket, NewSession, Session
<1>5. TypeOK'
  <2>1. /\ at' = "recv" /\ stage' = "GREET" /\ ri' = 0 /\ buf' = "" /\ result' = "none"
        /\ conn' = "open" /\ refused' = {} /\ badData' = {}
    BY DEF CReateSocket
  <2>2. mails' \in 0..MaxMails /\ wsa' \in 0..mails' /\ sockets' \in 0..wsa'
    <3>1. mails < MaxMails /\ mails' = mails + 1 /\ wsa' = wsa + 1 /\ sockets' = sockets + 1
      BY DEF CReateSocket
    <3> QED BY <3>1, ReceiversAssumption DEF MailInv, TypeOK
  <2>3. delivered' \in [Receiver \X Receiver -> Nat]
    BY DEF CReateSocket
  <2>4. 0 \in 0..Len(Receivers)
    BY ReceiversAssumption, LenProperties
  <2> QED BY <1>2, <1>3, <1>4, <2>1, <2>2, <2>3, <2>4
          DEF TypeOK, Verbs, Header, Logon, Codes, Session
<1>6. QueueInv'
  <2>1. /\ at' = "recv" /\ stage' = "GREET" /\ conn' = "open" /\ sockets' = sockets + 1
    BY DEF CReateSocket
  <2>2. sockets' > 0
    BY <2>1 DEF MailInv, TypeOK
  <2> HIDE DEF g
  <2> QED BY <1>1, <1>2, <2>1, <2>2 DEF QueueInv, InSession, Answered
<1>7. DataInv' /\ AuthInv' /\ NoMutualWait'
  <2>1. at' = "recv" /\ stage' = "GREET" /\ buf' = ""
    BY DEF CReateSocket
  <2> HIDE DEF g
  <2>2. \A i \in 1..Len(inq') : inq'[i].verb = "GREET"
    BY <1>1, <1>2
  <2>3. \A i \in 1..Len(outq') : FALSE
    BY <1>3
  <2>4. inq' # << >> /\ sess'.auth = "no" /\ ~sess'.data
    BY <1>2, <1>4
  <2> QED BY <2>1, <2>2, <2>3, <2>4
          DEF DataInv, AuthInv, NoMutualWait, InSession, Mailing, LoggingIn, Header, Logon
<1> QED BY <1>5, <1>6, <1>7 DEF MailInv

\* A call that fails in CReateSocket, or dies in it, starts no session.
LEMMA FailedConnectKeeps == MailInv /\ (CReateSocketFails \/ ResolveFails) => MailInv'
<1> SUFFICES ASSUME MailInv, CReateSocketFails \/ ResolveFails PROVE MailInv'
  OBVIOUS
<1>1. /\ at' \in {"idle", "crashed"} /\ result' \in {"none", "false"} /\ conn' = "none"
      /\ outq' = << >> /\ mails < MaxMails /\ mails' = mails + 1
      /\ wsa' \in {wsa, wsa + 1} /\ sockets' \in {sockets, sockets + 1}
      /\ sockets' = sockets + 1 => wsa' = wsa + 1
      /\ UNCHANGED <<stage, ri, buf, inq, server>>
  <2>1. CASE ResolveFails
    BY <2>1 DEF ResolveFails
  <2>2. CASE CReateSocketFails
    BY <2>2 DEF CReateSocketFails, Return, MailInv, TypeOK
  <2> QED BY <2>1, <2>2
<1>2. << >> \in Seq(Codes)
  OBVIOUS
<1>3. mails' \in 0..MaxMails /\ wsa' \in 0..mails' /\ sockets' \in 0..wsa'
  BY <1>1, ReceiversAssumption DEF MailInv, TypeOK
<1>4. TypeOK'
  BY <1>1, <1>2, <1>3 DEF MailInv, TypeOK, To, server
<1>5. QueueInv' /\ DataInv' /\ AuthInv' /\ NoMutualWait'
  BY <1>1 DEF MailInv, QueueInv, DataInv, AuthInv, NoMutualWait, InSession
<1> QED BY <1>4, <1>5 DEF MailInv

\* What the steps of a session start from.
LEMMA SessionFacts ==
    ASSUME MailInv, InSession
    PROVE  /\ stage \in Verbs /\ ri \in 0..Len(Receivers) /\ buf \in Codes
           /\ stage \in Mailing => To(ri) \in Receiver
           /\ inq \in Seq(Command) /\ Len(inq) \in Nat
           /\ outq \in Seq(Codes) /\ Len(outq) \in Nat
           /\ sess \in Session /\ conn \in {"open", "closed"}
           /\ sockets > 0 /\ sockets \in Nat /\ wsa \in Nat /\ mails \in Nat
  BY LenProperties DEF MailInv, TypeOK, QueueInv, Mailing, Session, InSession

\* The command that Send gives to the connection is one, and so is the queue
\* it leaves.
LEMMA TransmitEffect ==
    ASSUME inq \in Seq(Command), NEW c \in Command, Transmit(c)
    PROVE  /\ inq' \in Seq(Command)
           /\ conn = "open" =>
                 /\ Len(inq') = Len(inq) + 1 /\ inq'[Len(inq) + 1] = c
                 /\ \A i \in 1..Len(inq) : inq'[i] = inq[i]
           /\ conn # "open" => inq' = inq
<1>1. CASE conn = "open"
  BY <1>1, AppendProperties DEF Transmit
<1>2. CASE conn # "open"
  BY <1>2 DEF Transmit
<1> QED BY <1>1, <1>2

\* A command of the client is in the queue's alphabet.
LEMMA CommandIsTyped ==
    ASSUME NEW v \in Verbs, NEW x \in Receiver \cup {Short}, v = "RCPT" => x \in Receiver
    PROVE  Cmd(v, x) \in Command /\ Cmd(v, x).verb = v
  BY DEF Cmd, Command

\* The queue is typed as TypeOK says.
LEMMA QueueTyped ==
    ASSUME NEW q \in Seq(Command)
    PROVE  q \in Seq([verb : Verbs, to : Receiver \cup {Short}])
<1>1. Command \subseteq [verb : Verbs, to : Receiver \cup {Short}]
  BY DEF Command
<1> QED BY <1>1, SeqMonotonic

\* A command sent in its turn joins the queue; the client waits for the answer
\* or goes on.
LEMMA SendKeeps == MailInv /\ Send => MailInv'
<1> SUFFICES ASSUME MailInv, Send PROVE MailInv'
  OBVIOUS
<1> DEFINE c == Cmd(stage, To(ri))
<1>1. /\ at = "send" /\ stage # "QUIT" /\ Transmit(c)
      /\ IF stage \in Answered THEN at' = "recv" /\ UNCHANGED <<stage, ri>> ELSE Follow(stage)
      /\ UNCHANGED <<buf, result, mails, wsa, sockets, conn, outq, server>>
  BY DEF Send
<1>2. InSession
  BY <1>1 DEF InSession
<1>3. c \in Command /\ c.verb = stage
  <2>1. stage = "RCPT" => To(ri) \in Receiver
    BY <1>2, SessionFacts DEF Mailing, Header
  <2> QED BY <1>2, <2>1, SessionFacts, ToIsEntry, CommandIsTyped
<1> HIDE DEF c
<1>4. /\ inq' \in Seq(Command)
      /\ conn = "open" => /\ Len(inq') = Len(inq) + 1 /\ inq'[Len(inq) + 1] = c
                          /\ \A i \in 1..Len(inq) : inq'[i] = inq[i]
      /\ conn # "open" => inq' = inq
  BY <1>1, <1>2, <1>3, SessionFacts, TransmitEffect
<1>5. /\ at' \in {"send", "recv"} /\ stage' \in Verbs /\ ri' \in 0..Len(Receivers)
      /\ at' = "recv" => stage' = stage /\ stage \in Answered
      /\ at' = "send" => Follows(stage, stage') /\ stage \notin Answered
      /\ stage' \in Mailing => To(ri') \in Receiver
  <2>1. CASE stage \in Answered
    BY <1>1, <1>2, <2>1, SessionFacts DEF To
  <2>2. CASE stage \notin Answered
    BY <1>1, <1>2, <2>2, SessionFacts, FollowEffect
  <2> QED BY <2>1, <2>2
<1>6. InSession' /\ conn' = conn /\ conn \in {"open", "closed"} /\ sess' = sess /\ outq' = outq
      /\ buf' = buf
  BY <1>1, <1>2, <1>5, SessionFacts DEF InSession, server
<1>7. TypeOK'
  <2>1. inq' \in Seq([verb : Verbs, to : Receiver \cup {Short}])
    BY <1>4, QueueTyped
  <2> QED BY <1>1, <1>5, <2>1 DEF MailInv, TypeOK, Mailing, server
<1>8. QueueInv'
  <2>1. ASSUME NEW i \in 1..(Len(inq') - 1) PROVE Follows(inq'[i].verb, inq'[i + 1].verb)
    <3>1. CASE conn # "open"
      BY <1>2, <1>4, <1>6, <2>1, <3>1 DEF MailInv, QueueInv
    <3>2. CASE conn = "open" /\ i < Len(inq)
      <4>1. i \in 1..(Len(inq) - 1) /\ i \in 1..Len(inq) /\ i + 1 \in 1..Len(inq)
        BY <1>2, <3>2, SessionFacts
      <4>2. Follows(inq[i].verb, inq[i + 1].verb)
        BY <1>2, <4>1 DEF MailInv, QueueInv
      <4> QED BY <1>4, <3>2, <4>1, <4>2
    <3>3. CASE conn = "open" /\ i >= Len(inq)
      <4>1. i = Len(inq) /\ i \in 1..Len(inq) /\ inq # << >>
        BY <1>2, <1>4, <2>1, <3>3, SessionFacts, EmptySeq
      <4>2. Follows(inq[i].verb, stage)
        BY <1>1, <1>2, <4>1 DEF MailInv, QueueInv
      <4> QED BY <1>3, <1>4, <3>3, <4>1, <4>2
    <3> QED BY <1>2, <3>1, <3>2, <3>3, SessionFacts
  <2>2. ASSUME inq' # << >> PROVE conn = "open" /\ inq'[Len(inq')].verb = stage
    BY <1>3, <1>4, <1>6, <2>2 DEF MailInv, QueueInv
  <2>3. conn' = "closed" => inq' = << >>
    BY <1>4, <1>6 DEF MailInv, QueueInv
  <2>4. sockets' > 0
    BY <1>1, <1>2, SessionFacts
  <2> QED BY <1>4, <1>5, <1>6, <2>1, <2>2, <2>3, <2>4 DEF QueueInv, InSession
<1>9. DataInv'
  <2> SUFFICES ASSUME conn = "open", sess.data PROVE inq' # << >> /\ inq'[1].verb \in Text
    BY <1>6 DEF DataInv
  <2>1. inq' # << >>
    BY <1>2, <1>4, SessionFacts, EmptySeq
  <2>2. CASE inq = << >>
    <3>1. Len(inq) = 0
      BY <2>2, EmptySeq
    <3>2. inq'[1] = c
      BY <1>4, <3>1
    <3>3. stage \in Text
      BY <1>1, <1>2, <2>2 DEF MailInv, DataInv
    <3> QED BY <1>3, <2>1, <3>2, <3>3
  <2>3. CASE inq # << >>
    <3>1. 1 \in 1..Len(inq)
      BY <1>2, <2>3, SessionFacts, EmptySeq
    <3> QED BY <1>2, <1>4, <2>3, <3>1 DEF MailInv, DataInv
  <2> QED BY <2>1, <2>2, <2>3
<1>10. AuthInv'
  <2>1. /\ stage \in Mailing \cup {"QUIT"} => sess.auth = "yes"
        /\ stage \in LoggingIn => buf # "235"
        /\ stage \in LoggingIn => \A i \in 1..Len(inq) : inq[i].verb \in LoggingIn
        /\ sess.auth = "yes" => \A i \in 1..Len(inq) : inq[i].verb \in Mailing \cup {"QUIT"}
        /\ sess.auth = "yes" => stage \notin LoggingIn
        /\ \A i \in 1..Len(outq) : outq[i] = "235" => sess.auth = "yes"
    BY <1>1, <1>2 DEF MailInv, AuthInv
  <2>2. stage \in Mailing \/ stage \in LoggingIn
    BY <1>1, <1>2, SessionFacts DEF Verbs, Mailing, LoggingIn
  <2>3. /\ stage' \in Mailing \cup {"QUIT"} => stage \in Mailing
        /\ stage' \in LoggingIn => stage \in LoggingIn
        /\ ~(sess.auth = "yes" /\ stage' \in LoggingIn)
    BY <1>1, <1>5, <2>1, <2>2 DEF Follows, Answered, Mailing, LoggingIn, Header, Logon
  <2>4. \A i \in 1..Len(inq') : inq'[i].verb = stage \/ \E j \in 1..Len(inq) : inq'[i] = inq[j]
    <3>1. CASE conn = "open"
      <4> SUFFICES ASSUME NEW i \in 1..Len(inq'), inq'[i].verb # stage
                   PROVE  \E j \in 1..Len(inq) : inq'[i] = inq[j]
        OBVIOUS
      <4>1. i # Len(inq) + 1
        BY <1>3, <1>4, <3>1
      <4>2. i \in 1..Len(inq)
        BY <1>2, <1>4, <3>1, <4>1, SessionFacts
      <4> QED BY <1>4, <3>1, <4>2
    <3>2. CASE conn # "open"
      BY <1>4, <3>2
    <3> QED BY <3>1, <3>2
  <2>5. stage' \in LoggingIn => \A i \in 1..Len(inq') : inq'[i].verb \in LoggingIn
    BY <2>1, <2>3, <2>4
  <2>6. sess.auth = "yes" => \A i \in 1..Len(inq') : inq'[i].verb \in Mailing \cup {"QUIT"}
    BY <2>1, <2>2, <2>4
  <2> QED BY <1>6, <2>1, <2>3, <2>5, <2>6 DEF AuthInv
<1>11. NoMutualWait'
  <2>1. ASSUME conn = "open" PROVE inq' # << >>
    BY <1>2, <1>4, <2>1, SessionFacts, EmptySeq
  <2> QED BY <1>6, <2>1 DEF NoMutualWait
<1> QED BY <1>7, <1>8, <1>9, <1>10, <1>11 DEF MailInv

\* Whatever SendMail returns, no session is left.
LEMMA ReturnKeeps ==
    ASSUME MailInv, NEW r \in {"true", "false"}, Return(r),
           wsa' \in 0..mails', sockets' \in 0..wsa', conn' \in {"open", "closed", "shut"},
           buf' \in Codes, inq' \in Seq(Command), outq' \in Seq(Codes),
           conn' = "closed" => inq' = << >>,
           UNCHANGED <<stage, ri, mails, server>>
    PROVE  MailInv'
<1>1. at' = "idle" /\ result' = r
  BY DEF Return
<1>2. TypeOK'
  <2>1. inq' \in Seq([verb : Verbs, to : Receiver \cup {Short}])
    BY QueueTyped
  <2> QED BY <1>1, <2>1 DEF MailInv, TypeOK, To, server
<1>3. QueueInv' /\ DataInv' /\ AuthInv' /\ NoMutualWait'
  BY <1>1 DEF QueueInv, DataInv, AuthInv, NoMutualWait, InSession
<1> QED BY <1>2, <1>3 DEF MailInv

\* send fails on a connection the server has closed: SendMail returns, or
\* goes on as if it had succeeded.
LEMMA SendFailsKeeps == MailInv /\ SendFails => MailInv'
<1> SUFFICES ASSUME MailInv, SendFails PROVE MailInv'
  OBVIOUS
<1>1. InSession /\ inq' = inq /\ outq' = outq /\ conn' = conn /\ conn = "closed"
  BY DEF SendFails, InSession
<1>2. CASE stage \in SendChecked
  <2>1. Return("false") /\ UNCHANGED <<stage, ri, buf, mails, wsa, sockets, server>>
    BY <1>2 DEF SendFails
  <2>2. /\ wsa' \in 0..mails' /\ sockets' \in 0..wsa' /\ buf' \in Codes
        /\ inq' \in Seq(Command) /\ outq' \in Seq(Codes) /\ (conn' = "closed" => inq' = << >>)
    BY <1>1, <2>1 DEF MailInv, TypeOK, QueueInv
  <2> QED BY <1>1, <2>1, <2>2, ReturnKeeps
<1>3. CASE stage \notin SendChecked
  <2>1. Send
    BY <1>1, <1>3 DEF SendFails, Send, Transmit
  <2> QED BY <2>1, SendKeeps
<1> QED BY <1>2, <1>3

\* The end of SendMail: the socket is there to be closed.
LEMMA CloseKeeps == MailInv /\ CloseSocket => MailInv'
<1> SUFFICES ASSUME MailInv, CloseSocket PROVE MailInv'
  OBVIOUS
<1> DEFINE c == Cmd("QUIT", Short)
<1>1. /\ Transmit(c) /\ Return("true") /\ outq' = << >>
      /\ sockets' = sockets - 1 /\ wsa' = wsa - 1
      /\ conn' = IF conn = "open" THEN "shut" ELSE conn
      /\ UNCHANGED <<stage, ri, buf, mails, server>>
  BY DEF CloseSocket
<1>2. InSession
  BY DEF CloseSocket, InSession
<1>3. c \in Command
  BY CommandIsTyped DEF Verbs
<1> HIDE DEF c
<1>4. inq' \in Seq(Command) /\ (conn # "open" => inq' = inq)
  BY <1>1, <1>2, <1>3, SessionFacts, TransmitEffect
<1>5. conn' \in {"open", "closed", "shut"} /\ (conn' = "closed" => inq' = << >>)
  BY <1>1, <1>2, <1>4, SessionFacts DEF MailInv, QueueInv
<1>6. wsa' \in 0..mails' /\ sockets' \in 0..wsa'
  BY <1>1, <1>2, SessionFacts DEF MailInv, TypeOK
<1>7. outq' \in Seq(Codes) /\ buf' \in Codes
  BY <1>1, <1>2, SessionFacts
<1> QED BY <1>1, <1>4, <1>5, <1>6, <1>7, ReturnKeeps

\* The answer is looked at, or the one before it: SendMail returns or goes on.
LEMMA ExamineKeeps ==
    ASSUME MailInv, at = "recv", NEW code \in Codes, Examine(code), buf' = code,
           stage \in LoggingIn /\ code = "235" => sess.auth = "yes",
           outq' \in Seq(Codes),
           \A i \in 1..Len(outq') : \E j \in 1..Len(outq) : outq'[i] = outq[j],
           UNCHANGED <<mails, wsa, sockets, conn, inq, server>>
    PROVE  MailInv'
<1>1. InSession /\ stage \in Answered /\ stage # "QUIT"
  BY DEF InSession, MailInv, QueueInv, Answered, Logon
<1>2. CASE Return("false") /\ UNCHANGED <<stage, ri>>
  <2>1. /\ wsa' \in 0..mails' /\ sockets' \in 0..wsa' /\ buf' \in Codes
        /\ inq' \in Seq(Command) /\ (conn' = "closed" => inq' = << >>)
    BY DEF MailInv, TypeOK, QueueInv
  <2>2. conn' \in {"open", "closed", "shut"}
    BY <1>1, SessionFacts
  <2> QED BY <1>2, <2>1, <2>2, ReturnKeeps
<1>3. CASE Follow(stage) /\ UNCHANGED result /\ ~(stage \in Logon /\ code # Expected[stage])
  <2>1. /\ at' = "send" /\ stage' \in Verbs /\ ri' \in 0..Len(Receivers)
        /\ Follows(stage, stage')
        /\ stage' \in Mailing => To(ri') \in Receiver
    BY <1>1, <1>3, SessionFacts, FollowEffect
  <2>2. InSession' /\ sess' = sess
    BY <2>1 DEF InSession, server
  <2>3. TypeOK'
    BY <1>3, <2>1 DEF MailInv, TypeOK, Mailing, server
  <2>4. QueueInv'
    BY <1>1, <2>1, <2>2 DEF MailInv, QueueInv, InSession
  <2>5. DataInv'
    <3>1. stage = "DATA" => stage' \in Text
      BY <2>1 DEF Follows, Text
    <3> QED BY <1>1, <2>1, <2>2, <3>1 DEF MailInv, DataInv
  <2>6. AuthInv'
    <3>1. /\ stage \in Mailing \cup {"QUIT"} => sess.auth = "yes"
          /\ stage \in LoggingIn => \A i \in 1..Len(inq) : inq[i].verb \in LoggingIn
          /\ sess.auth = "yes" => \A i \in 1..Len(inq) : inq[i].verb \in Mailing \cup {"QUIT"}
          /\ sess.auth = "yes" /\ stage \in LoggingIn => stage = "PASS"
          /\ \A i \in 1..Len(outq) : outq[i] = "235" => sess.auth = "yes"
      BY <1>1 DEF MailInv, AuthInv
    <3>2. stage = "PASS" => code = "235"
      BY <1>3 DEF Expected, Logon
    <3>3. stage' \in Mailing \cup {"QUIT"} => stage \in Mailing \/ stage = "PASS"
      BY <1>1, <2>1 DEF Follows, Answered, Mailing, Header, Logon
    <3>4. stage' \in LoggingIn => stage \in LoggingIn /\ stage # "PASS"
      BY <1>1, <2>1 DEF Follows, Answered, LoggingIn, Header, Logon
    <3>5. "PASS" \in LoggingIn
      BY DEF LoggingIn, Logon
    <3>6. \A i \in 1..Len(outq') : outq'[i] = "235" => sess.auth = "yes"
      BY <3>1
    <3>7. stage' \in Mailing \cup {"QUIT"} => sess.auth = "yes"
      BY <3>1, <3>2, <3>3, <3>5
    <3>8. stage' \in LoggingIn => code # "235" /\ sess.auth # "yes"
      BY <3>1, <3>4
    <3> QED BY <2>2, <3>1, <3>4, <3>6, <3>7, <3>8 DEF AuthInv
  <2>7. NoMutualWait'
    BY <2>1 DEF NoMutualWait
  <2> QED BY <2>3, <2>4, <2>5, <2>6, <2>7 DEF MailInv
<1> QED BY <1>2, <1>3 DEF Examine

\* A recv: any number of lines, of which the first is looked at, or nothing.
LEMMA RecvKeeps == MailInv /\ (Recv \/ RecvGone) => MailInv'
<1> SUFFICES ASSUME MailInv, Recv \/ RecvGone PROVE MailInv'
  OBVIOUS
<1>1. InSession /\ at = "recv"
  BY DEF Recv, RecvGone, InSession
<1>2. outq \in Seq(Codes) /\ Len(outq) \in Nat /\ buf \in Codes
  BY <1>1, SessionFacts
<1>3. CASE Recv
  <2>1. PICK n \in 1..Len(outq) : buf' = outq[1] /\ outq' = SubSeq(outq, n + 1, Len(outq))
    BY <1>3 DEF Recv
  <2>2. /\ Examine(buf') /\ UNCHANGED <<mails, wsa, sockets, conn, inq, server>>
    BY <1>3 DEF Recv
  <2>3. 1 \in 1..Len(outq) /\ buf' \in Codes
    BY <1>2, <2>1, ElementOfSeq
  <2>4. buf' = "235" => sess.auth = "yes"
    BY <1>1, <2>1, <2>3 DEF MailInv, AuthInv
  <2>5. /\ outq' \in Seq(Codes)
        /\ \A i \in 1..Len(outq') : \E j \in 1..Len(outq) : outq'[i] = outq[j]
    <3>1. \A i \in (n + 1)..Len(outq) : outq[i] \in Codes
      BY <1>2, ElementOfSeq
    <3>2. outq' \in Seq(Codes)
      BY <1>2, <2>1, <3>1, SubSeqProperties
    <3>3. Len(outq') = Len(outq) - n
      BY <1>2, <2>1, SubSeqProperties
    <3>4. \A i \in 1..(Len(outq) - n) : outq'[i] = outq[n + i] /\ n + i \in 1..Len(outq)
      BY <1>2, <2>1, SubSeqProperties
    <3> QED BY <3>2, <3>3, <3>4
  <2> QED BY <1>1, <2>2, <2>3, <2>4, <2>5, ExamineKeeps
<1>4. CASE RecvGone
  <2>1. Examine(buf) /\ UNCHANGED <<buf, mails, wsa, sockets, conn, inq, outq, server>>
    BY <1>4 DEF RecvGone
  <2>2. stage \in LoggingIn => buf # "235"
    BY <1>1 DEF MailInv, AuthInv
  <2> QED BY <1>1, <1>2, <2>1, <2>2, ExamineKeeps
<1> QED BY <1>3, <1>4

\* The server takes a command, during the session or after it.
LEMMA ServeKeeps == MailInv /\ Serve => MailInv'
<1> SUFFICES ASSUME MailInv, Serve PROVE MailInv'
  OBVIOUS
<1> DEFINE c == Head(inq)
<1>1. /\ c \in Command /\ inq # << >> /\ inq' = Tail(inq) /\ UNCHANGED <<client, conn>>
      /\ sess' \in Session /\ delivered' \in [Receiver \X Receiver -> Nat]
      /\ refused' \in SUBSET Receiver /\ badData' \in SUBSET Receiver
      /\ sess'.auth = sess.auth \/ c.verb \in {"AUTH", "USER", "PASS"}
      /\ sess'.auth = "yes" => sess.auth = "yes" \/ c.verb = "PASS"
      /\ sess'.data => (sess.data /\ c.verb # "END") \/ (~sess.data /\ c.verb = "DATA")
  BY ServeEffect DEF MailInv, QueueInv
<1>2. PICK lines \in Seq(Codes) :
         /\ outq' = outq \o lines
         /\ \A i \in 1..Len(lines) : lines[i] = "235" => sess'.auth = "yes"
         /\ c.verb \in Answered /\ ~sess.data /\ conn = "open" => lines # << >>
  BY ServeEffect DEF MailInv, QueueInv
<1>3. /\ inq \in Seq(Command) /\ outq \in Seq(Codes) /\ conn # "closed"
      /\ at = "recv" => stage \in Answered
  BY <1>1 DEF MailInv, TypeOK, QueueInv
<1>4. /\ Len(inq) \in Nat /\ Len(inq) >= 1 /\ c = inq[1]
      /\ inq' \in Seq(Command) /\ Len(inq') = Len(inq) - 1
      /\ \A i \in 1..Len(inq') : inq'[i] = inq[i + 1]
  BY <1>1, <1>3, HeadTailProperties, LenProperties, EmptySeq
<1>5. /\ outq' \in Seq(Codes) /\ Len(outq') = Len(outq) + Len(lines)
      /\ Len(outq) \in Nat /\ Len(lines) \in Nat
      /\ \A i \in 1..Len(outq') : outq'[i] = IF i <= Len(outq) THEN outq[i] ELSE lines[i - Len(outq)]
  BY <1>2, <1>3, ConcatProperties, LenProperties
<1> HIDE DEF c
<1>6. /\ at' = at /\ stage' = stage /\ ri' = ri /\ buf' = buf /\ result' = result
      /\ mails' = mails /\ wsa' = wsa /\ sockets' = sockets /\ conn' = conn
  BY <1>1 DEF client
<1>7. TypeOK'
  <2>1. inq' \in Seq([verb : Verbs, to : Receiver \cup {Short}])
    BY <1>4, QueueTyped
  <2> QED BY <1>1, <1>5, <1>6, <2>1 DEF MailInv, TypeOK, To, Session
<1>8. CASE ~InSession
  <2>1. QueueInv' /\ DataInv' /\ AuthInv' /\ NoMutualWait'
    BY <1>3, <1>4, <1>6, <1>8 DEF QueueInv, DataInv, AuthInv, NoMutualWait, InSession
  <2> QED BY <1>7, <2>1 DEF MailInv
<1>9. CASE InSession
  <2>1. /\ InSession' /\ conn = "open" /\ sockets > 0
        /\ \A i \in 1..(Len(inq) - 1) : Follows(inq[i].verb, inq[i + 1].verb)
        /\ at = "recv" => inq[Len(inq)].verb = stage
        /\ at = "send" => Follows(inq[Len(inq)].verb, stage)
    BY <1>1, <1>3, <1>6, <1>9 DEF MailInv, QueueInv, InSession
  \* What comes after c, in the queue or at the client.
  <2>2. /\ Len(inq) > 1 => 1 \in 1..Len(inq') /\ inq'[1] = inq[2] /\ Follows(c.verb, inq'[1].verb)
        /\ Len(inq) = 1 => inq' = << >>
        /\ inq' = << >> => Len(inq) = 1
    <3>1. ASSUME Len(inq) > 1 PROVE 1 \in 1..Len(inq') /\ 1 \in 1..(Len(inq) - 1)
      BY <1>4, <3>1
    <3>2. (inq' = << >>) <=> Len(inq) = 1
      BY <1>4, EmptySeq
    <3> QED BY <1>4, <2>1, <3>1, <3>2
  <2>3. Len(inq) = 1 => /\ at = "recv" => c.verb = stage
                        /\ at = "send" => Follows(c.verb, stage)
    BY <1>4, <2>1
  <2>4. QueueInv'
    <3>1. ASSUME NEW i \in 1..(Len(inq') - 1) PROVE Follows(inq'[i].verb, inq'[i + 1].verb)
      <4>1. i \in 1..Len(inq') /\ i + 1 \in 1..Len(inq') /\ i + 1 \in 1..(Len(inq) - 1)
        BY <1>4
      <4> QED BY <1>4, <2>1, <4>1
    <3>2. ASSUME inq' # << >> PROVE inq'[Len(inq')] = inq[Len(inq)]
      <4>1. Len(inq') \in 1..Len(inq') /\ Len(inq') + 1 = Len(inq)
        BY <1>4, <3>2, EmptySeq
      <4> QED BY <1>4, <4>1
    <3> QED BY <1>3, <1>4, <1>6, <1>9, <2>1, <3>1, <3>2 DEF QueueInv, InSession
  <2>5. sess.data => c.verb \in Text
    BY <1>1, <1>4, <1>9, <2>1 DEF MailInv, DataInv
  <2>6. DataInv'
    <3> SUFFICES ASSUME sess'.data
                 PROVE  IF inq' # << >> THEN inq'[1].verb \in Text
                        ELSE IF at = "send" THEN stage \in Text ELSE stage = "DATA"
      BY <1>6 DEF DataInv
    <3>1. c.verb \in {"HEADER", "BODY", "DATA"} /\ (c.verb # "DATA" => sess.data)
      BY <1>1, <2>5 DEF Text
    <3>2. CASE inq' # << >>
      <4>1. Follows(c.verb, inq'[1].verb)
        BY <1>4, <2>2, <3>2
      <4> QED BY <3>1, <3>2, <4>1 DEF Follows, Text
    <3>3. CASE inq' = << >> /\ at = "send"
      BY <2>2, <2>3, <3>1, <3>3 DEF Follows, Text
    <3>4. CASE inq' = << >> /\ at = "recv"
      <4>1. c.verb = stage /\ stage \in Answered
        BY <1>3, <2>2, <2>3, <3>4
      <4> QED BY <3>1, <3>4, <4>1 DEF Answered, Logon
    <3> QED BY <1>9, <3>2, <3>3, <3>4 DEF InSession
  <2>7. AuthInv'
    <3>1. /\ stage \in Mailing \cup {"QUIT"} => sess.auth = "yes"
          /\ stage \in LoggingIn => buf # "235"
          /\ stage \in LoggingIn => \A i \in 1..Len(inq) : inq[i].verb \in LoggingIn
          /\ sess.auth = "yes" => \A i \in 1..Len(inq) : inq[i].verb \in Mailing \cup {"QUIT"}
          /\ sess.auth = "yes" /\ stage \in LoggingIn => at = "recv" /\ stage = "PASS"
          /\ \A i \in 1..Len(outq) : outq[i] = "235" => sess.auth = "yes"
      BY <1>9 DEF MailInv, AuthInv
    <3>2. 1 \in 1..Len(inq)
      BY <1>4
    <3>3. sess.auth = "yes" => sess'.auth = "yes"
      <4>1. sess.auth = "yes" => c.verb \in Mailing \cup {"QUIT"}
        BY <1>4, <3>1, <3>2
      <4> QED BY <1>1, <4>1 DEF Mailing, Header
    <3>4. \A i \in 1..Len(inq') : i + 1 \in 1..Len(inq) /\ inq'[i] = inq[i + 1]
      BY <1>4
    <3>5. stage \in LoggingIn => \A i \in 1..Len(inq') : inq'[i].verb \in LoggingIn
      BY <3>1, <3>4
    \* The password is the last command of the login.
    <3>6. ASSUME sess.auth # "yes", sess'.auth = "yes"
          PROVE  inq' = << >> /\ (stage \in LoggingIn => at = "recv" /\ stage = "PASS")
      <4>1. c.verb = "PASS" /\ stage \notin Mailing \cup {"QUIT"}
        BY <1>1, <3>1, <3>6
      <4>2. stage \in LoggingIn
        BY <4>1, <1>9, SessionFacts DEF Verbs, Mailing, LoggingIn
      <4>3. Len(inq) = 1
        <5>1. ASSUME Len(inq) > 1 PROVE FALSE
          <6>1. inq'[1].verb \in {"MAIL", "QUIT"} /\ inq'[1].verb \in LoggingIn
            BY <2>2, <3>5, <4>1, <4>2, <5>1 DEF Follows
          <6> QED BY <6>1 DEF LoggingIn, Logon
        <5> QED BY <1>4, <5>1
      <4>4. at = "send" => stage \in {"MAIL", "QUIT"}
        BY <2>3, <4>1, <4>3 DEF Follows
      <4>5. at = "recv"
        BY <1>9, <4>1, <4>4 DEF InSession, Mailing, Header
      <4> QED BY <2>2, <2>3, <4>1, <4>3, <4>5
    <3>7. sess'.auth = "yes" => \A i \in 1..Len(inq') : inq'[i].verb \in Mailing \cup {"QUIT"}
      <4>1. CASE sess.auth = "yes"
        BY <3>1, <3>4, <4>1
      <4>2. CASE sess.auth # "yes"
        BY <3>6, <4>2, EmptySeq
      <4> QED BY <4>1, <4>2
    <3>8. sess'.auth = "yes" /\ stage \in LoggingIn => at = "recv" /\ stage = "PASS"
      BY <3>1, <3>6
    <3>9. \A i \in 1..Len(outq') : outq'[i] = "235" => sess'.auth = "yes"
      <4> SUFFICES ASSUME NEW i \in 1..Len(outq'), outq'[i] = "235" PROVE sess'.auth = "yes"
        OBVIOUS
      <4>1. CASE i <= Len(outq)
        <5>1. i \in 1..Len(outq) /\ outq[i] = "235"
          BY <1>5, <4>1
        <5> QED BY <3>1, <3>3, <5>1
      <4>2. CASE i > Len(outq)
        <5>1. i - Len(outq) \in 1..Len(lines) /\ lines[i - Len(outq)] = "235"
          BY <1>5, <4>2
        <5> QED BY <1>2, <5>1
      <4> QED BY <1>5, <4>1, <4>2
    <3> QED BY <1>6, <3>1, <3>3, <3>5, <3>7, <3>8, <3>9 DEF AuthInv
  <2>8. NoMutualWait'
    <3> SUFFICES ASSUME at = "recv", inq' = << >> PROVE outq' # << >>
      BY <1>6 DEF NoMutualWait
    <3>1. c.verb = stage /\ stage \in Answered
      BY <1>3, <2>2, <2>3
    <3>2. ~sess.data
      BY <2>5, <3>1 DEF Answered, Text, Logon
    <3>3. lines # << >>
      BY <1>2, <2>1, <3>1, <3>2
    <3>4. Len(lines) > 0
      BY <3>3, EmptySeq
    <3> QED BY <1>5, <3>4, EmptySeq
  <2> QED BY <1>7, <2>4, <2>6, <2>7, <2>8 DEF MailInv
<1> QED BY <1>8, <1>9

\* The connection ends: what the server has not read is lost.
LEMMA ConnectionEndsKeeps == MailInv /\ (ServerCloses \/ ConnectionReset) => MailInv'
<1> SUFFICES ASSUME MailInv, ServerCloses \/ ConnectionReset PROVE MailInv'
  OBVIOUS
<1>1. /\ inq' = << >> /\ UNCHANGED <<client, outq, server>>
      /\ (conn = "open" /\ conn' = "closed") \/ (conn = "shut" /\ conn' = "reset")
  BY DEF ServerCloses, ConnectionReset
<1>2. InSession => conn' = "closed"
  BY <1>1, SessionFacts
<1>3. << >> \in Seq(Command) /\ Len(<< >>) = 0
  BY EmptySeq
<1>4. TypeOK'
  <2>1. inq' \in Seq([verb : Verbs, to : Receiver \cup {Short}])
    BY <1>1, <1>3, QueueTyped
  <2> QED BY <1>1, <2>1 DEF MailInv, TypeOK, To, client, server
<1>5. QueueInv'
  BY <1>1, <1>2, <1>3 DEF MailInv, QueueInv, InSession, client
<1>6. DataInv' /\ NoMutualWait'
  BY <1>1, <1>2 DEF DataInv, NoMutualWait, InSession, client
<1>7. AuthInv'
  BY <1>1, <1>3 DEF MailInv, AuthInv, InSession, client, server
<1> QED BY <1>4, <1>5, <1>6, <1>7 DEF MailInv

\* A step that changes nothing.
LEMMA StutterKeeps == MailInv /\ UNCHANGED vars => MailInv'
<1> SUFFICES ASSUME MailInv, UNCHANGED vars PROVE MailInv'
  OBVIOUS
<1>1. UNCHANGED <<at, stage, ri, buf, result, mails, wsa, sockets, conn, inq, outq,
                  sess, delivered, refused, badData>>
  BY DEF vars, client, server
<1>2. TypeOK'
  BY <1>1 DEF MailInv, TypeOK, To
<1>3. QueueInv' /\ DataInv' /\ AuthInv' /\ NoMutualWait'
  BY <1>1 DEF MailInv, QueueInv, DataInv, AuthInv, NoMutualWait, InSession
<1> QED BY <1>2, <1>3 DEF MailInv
-----------------------------------------------------------------------------
(* The theorems. *)

\* Every reachable state satisfies the inductive invariant.
THEOREM MailInvariant == Spec => []MailInv
<1>1. Init => MailInv
  BY MailStarts
<1>2. MailInv /\ [Next]_vars => MailInv'
  BY ConnectKeeps, FailedConnectKeeps, SendKeeps, SendFailsKeeps, RecvKeeps, CloseKeeps,
     ServeKeeps, ConnectionEndsKeeps, StutterKeeps DEF Next, SendMail, Done
<1> QED BY <1>1, <1>2, PTL DEF Spec

\* SendMail and the server keep their state within its bounds, whatever the
\* list of receivers: no call closes a socket that is not there, and each mail
\* leaves at most one socket and one WSAStartup behind.
THEOREM MailTyped == Spec => []TypeOK
<1>1. MailInv => TypeOK
  BY DEF MailInv
<1> QED BY <1>1, MailInvariant, PTL

\* No command of a mail is sent before the server has accepted the password,
\* though Logon reads the code of an answer from a buffer that may hold an
\* earlier one, and however the answers are split over the calls of recv.
THEOREM PasswordFirst == Spec => []AuthBeforeMail
<1>1. MailInv => AuthBeforeMail
  BY DEF MailInv, AuthInv, AuthBeforeMail, InSession, Mailing
<1> QED BY <1>1, MailInvariant, PTL

\* The client that waits in recv on a connection that stands is never left by
\* a server that itself waits for a command.
THEOREM NeverBothWait == Spec => []NoMutualWait
<1>1. MailInv => NoMutualWait
  BY DEF MailInv
<1> QED BY <1>1, MailInvariant, PTL
-----------------------------------------------------------------------------
(* The records of the server: who is in the transaction, who was refused    *)
(* and who has a copy.                                                      *)

\* A connection on which the server still takes the commands of a mail.
Live == conn = "shut" \/ (InSession /\ conn = "open")

\* The commands of a mail that are followed by one for the same receiver.
Unfinished == Header \cup {"BODY"}

\* The next command that the server takes is one of V, for r: it waits in the
\* queue, or the client is about to send it.
Due(V, r) ==
    IF inq # << >>
    THEN inq[1].verb \in V /\ inq[1].to = r
    ELSE /\ InSession /\ To(ri) = r
         /\ IF at = "send" THEN stage \in V ELSE \E v \in V : Follows(stage, v)

\* The queue holds the commands of one receiver after those of another, up to
\* the one that the client is about; what is left in it by a login that failed
\* is of no mail.
OrderInv ==
    /\ badData \subseteq refused
    /\ ~Live => \A i \in 1..Len(inq) : inq[i].verb \in LoggingIn
    /\ InSession /\ stage \in LoggingIn => ri = 0
    /\ \A i \in 1..Len(inq) : inq[i].verb \in Mailing => inq[i].to \in Receiver
    /\ \A i \in 1..(Len(inq) - 1) :
          inq[i].verb \in Unfinished => inq[i + 1].to = inq[i].to
    /\ InSession /\ inq # << >> =>
          (inq[Len(inq)].verb \in Unfinished => inq[Len(inq)].to = To(ri))
    /\ conn = "shut" =>
          /\ at = "idle" /\ stage = "QUIT"
          /\ \A i \in 1..(Len(inq) - 1) : Follows(inq[i].verb, inq[i + 1].verb)
          /\ inq # << >> => inq[Len(inq)].verb = "QUIT"

\* A recipient in the envelope whose DATA was not refused is the one whose
\* DATA or text comes next, and the text comes with his name.
DueInv ==
    Live =>
        /\ \A r \in sess.rcpts \ badData : Due(IF sess.data THEN Text ELSE {"DATA"}, r)
        /\ sess.data => \E r \in Receiver :
              Due({"HEADER"}, r) \/ (sess.hdr = r /\ Due({"BODY", "END"}, r))

\* RCPT was sent for entry j of the list.
Sent(j) ==
    \/ stage = "QUIT"
    \/ /\ stage \in Mailing
       /\ \/ j < ri
          \/ j = ri /\ stage # "MAIL" /\ (stage = "RCPT" => at = "recv")

InQueue(r) == \E k \in 1..Len(inq) : inq[k].verb = "RCPT" /\ inq[k].to = r

Settled(r) == Copies(r) # {} \/ r \in refused

\* A receiver whose RCPT was sent is on the way, in the envelope, or settled.
SentInv ==
    Live => \A j \in 1..Len(Receivers) :
        Receivers[j] # Short /\ Sent(j) =>
            Settled(Receivers[j]) \/ InQueue(Receivers[j]) \/ Receivers[j] \in sess.rcpts

RecordInv == OrderInv /\ DueInv /\ SentInv

\* No entry of the list is there twice.
Distinct ==
    \A i, j \in 1..Len(Receivers) :
        Receivers[i] = Receivers[j] /\ Receivers[i] # Short => i = j

\* A receiver is asked for once: he is not asked for yet, on the way, in the
\* envelope, or has his copy, and no two of these.
CopyInv ==
    /\ OneCopyEach
    /\ \A k, l \in 1..Len(inq) :
          inq[k].verb = "RCPT" /\ inq[l].verb = "RCPT" /\ inq[k].to = inq[l].to => k = l
    /\ \A r \in Receiver : InQueue(r) => r \notin sess.rcpts /\ Copies(r) = {}
    /\ \A r \in sess.rcpts : Copies(r) = {}
    /\ \A j \in 1..Len(Receivers) :
          Receivers[j] # Short /\ ~Sent(j) =>
              /\ ~InQueue(Receivers[j]) /\ Receivers[j] \notin sess.rcpts
              /\ Copies(Receivers[j]) = {}
-----------------------------------------------------------------------------
(* What the steps do to the queue and to the records. *)

\* NextReceiver passes over no address.
LEMMA NextReceiverSkips ==
    ASSUME NEW i \in 0..Len(Receivers)
    PROVE  /\ NextReceiver(i) = 0 => \A j \in (i + 1)..Len(Receivers) : Receivers[j] = Short
           /\ NextReceiver(i) # 0 =>
                 /\ i < NextReceiver(i)
                 /\ \A j \in (i + 1)..(NextReceiver(i) - 1) : Receivers[j] = Short
<1> DEFINE Rest == {j \in (i + 1)..Len(Receivers) : Receivers[j] # Short}
<1>0. Len(Receivers) \in Nat
  BY ReceiversAssumption, LenProperties
<1>1. CASE Rest = {}
  BY <1>0, <1>1 DEF NextReceiver
<1>2. CASE Rest # {}
  <2>1. Rest \subseteq Nat
    BY <1>0
  <2>2. \E m \in Rest : \A k \in Rest : m <= k
    <3> HIDE DEF Rest
    <3> QED BY <1>2, <2>1, LeastNatural
  <2>3. NextReceiver(i) = CHOOSE m \in Rest : \A k \in Rest : m <= k
    BY <1>2 DEF NextReceiver
  <2>4. NextReceiver(i) \in Rest /\ \A k \in Rest : NextReceiver(i) <= k
    BY <2>2, <2>3
  <2>5. NextReceiver(i) \in (i + 1)..Len(Receivers)
    BY <2>4
  <2>6. ASSUME NEW j \in (i + 1)..(NextReceiver(i) - 1) PROVE Receivers[j] = Short
    BY <1>0, <2>4, <2>5
  <2> QED BY <1>0, <2>5, <2>6
<1> QED BY <1>1, <1>2

\* What Follow does to the receiver in turn.
LEMMA FollowTurn ==
    ASSUME stage \in Verbs, stage # "QUIT", Follow(stage)
    PROVE  /\ stage \notin {"PASS", "END"} => ri' = ri
           /\ stage \in {"PASS", "END"} =>
                 /\ ri' = NextReceiver(ri)
                 /\ stage' = IF NextReceiver(ri) = 0 THEN "QUIT" ELSE "MAIL"
  BY DEF Follow

\* The server's records after one command.
LEMMA ServeRecords ==
    ASSUME TypeOK, inq \in Seq(Command), Serve
    PROVE  LET c == Head(inq)
           IN  \* RCPT is accepted, or refused.
               \/ /\ c.verb = "RCPT" /\ ~sess.data /\ ~sess'.data
                  /\ sess'.rcpts = sess.rcpts \cup {c.to}
                  /\ UNCHANGED <<delivered, refused, badData>>
               \/ /\ c.verb = "RCPT" /\ ~sess.data /\ sess' = sess
                  /\ refused' = refused \cup {c.to} /\ UNCHANGED <<delivered, badData>>
               \* DATA is accepted, or refused.
               \/ /\ c.verb = "DATA" /\ ~sess.data /\ sess'.data /\ sess'.rcpts = sess.rcpts
                  /\ UNCHANGED <<delivered, refused, badData>>
               \/ /\ c.verb = "DATA" /\ ~sess.data /\ ~sess'.data
                  /\ sess'.rcpts \subseteq sess.rcpts
                  /\ refused' = refused \cup sess.rcpts /\ badData' = badData \cup sess.rcpts
                  /\ UNCHANGED delivered
               \* A line of the text, and its end.
               \/ /\ c.verb = "HEADER" /\ sess.data /\ sess'.data
                  /\ sess'.rcpts = sess.rcpts /\ sess'.hdr = c.to
                  /\ UNCHANGED <<delivered, refused, badData>>
               \/ /\ c.verb \notin {"HEADER", "END"} /\ sess.data /\ sess' = sess
                  /\ UNCHANGED <<delivered, refused, badData>>
               \/ /\ c.verb = "END" /\ sess.data /\ ~sess'.data /\ sess'.rcpts = {}
                  /\ UNCHANGED badData
                  /\ \/ /\ delivered' = [x \in Receiver \X Receiver |-> delivered[x]
                              + IF x[1] \in sess.rcpts /\ x[2] = sess.hdr THEN 1 ELSE 0]
                        /\ UNCHANGED refused
                     \/ refused' = refused \cup sess.rcpts /\ UNCHANGED delivered
               \* Every other command.
               \/ /\ c.verb # "RCPT" /\ ~sess.data /\ ~sess'.data
                  /\ c.verb = "DATA" => sess.rcpts = {}
                  /\ sess'.rcpts \subseteq sess.rcpts
                  /\ UNCHANGED <<delivered, refused, badData>>
<1> DEFINE c == Head(inq)
<1>1. sess \in Session /\ c \in Command
  BY HeadTailProperties DEF TypeOK, Session, Serve
<1>2. CASE sess.data
  <2>1. Content(c)
    BY <1>2 DEF Serve
  <2>2. CASE c.verb = "END"
    <3>1. sess' = [NewSession EXCEPT !.auth = sess.auth]
      BY <2>1, <2>2 DEF Content
    <3>2. ~sess'.data /\ sess'.rcpts = {}
      BY <3>1 DEF NewSession
    <3> QED BY <1>2, <2>1, <2>2, <3>2 DEF Content
  <2>3. CASE c.verb = "HEADER"
    <3>1. sess' = [sess EXCEPT !.hdr = c.to]
      BY <2>1, <2>3 DEF Content
    <3>2. sess'.data /\ sess'.rcpts = sess.rcpts /\ sess'.hdr = c.to
      BY <1>1, <1>2, <3>1 DEF Session
    <3> QED BY <1>2, <2>1, <2>3, <3>2 DEF Content, NoRecord
  <2>4. CASE c.verb \notin {"HEADER", "END"}
    BY <1>2, <2>1, <2>4 DEF Content, NoRecord
  <2> QED BY <2>2, <2>3, <2>4
<1>3. CASE ~sess.data
  <2>1. Greet(c) \/ Ehlo(c) \/ Authenticate(c) \/ Envelope(c) \/ Data(c) \/ Refuse(c)
        \/ (c.verb = "QUIT" /\ Respond("221", sess) /\ NoRecord)
    BY <1>3 DEF Serve
  <2>2. CASE Greet(c) \/ Ehlo(c) \/ (c.verb = "QUIT" /\ Respond("221", sess) /\ NoRecord)
    BY <1>3, <2>2 DEF Greet, Ehlo, Respond, NoRecord
  <2>3. CASE Authenticate(c)
    <3>1. /\ c.verb \in {"AUTH", "USER", "PASS"} /\ NoRecord
          /\ \E a \in {"user", "pass", "yes", "no"} : sess' = [sess EXCEPT !.auth = a]
      BY <2>3 DEF Authenticate, Respond
    <3>2. sess'.data = sess.data /\ sess'.rcpts = sess.rcpts
      BY <1>1, <3>1 DEF Session
    <3> QED BY <1>3, <3>1, <3>2 DEF NoRecord
  <2>4. CASE Envelope(c) /\ c.verb = "MAIL"
    <3>1. sess' = [sess EXCEPT !.mail = TRUE, !.rcpts = {}] /\ NoRecord
      BY <2>4 DEF Envelope, Respond
    <3>2. sess'.data = sess.data /\ sess'.rcpts = {}
      BY <1>1, <3>1 DEF Session
    <3> QED BY <1>3, <2>4, <3>1, <3>2 DEF NoRecord
  <2>5. CASE Envelope(c) /\ c.verb = "RCPT"
    <3>1. \/ sess' = [sess EXCEPT !.rcpts = @ \cup {c.to}] /\ UNCHANGED refused
          \/ sess' = sess /\ refused' = refused \cup {c.to}
      BY <2>5 DEF Envelope, Respond
    <3>2. UNCHANGED <<delivered, badData>>
      BY <2>5 DEF Envelope
    <3>3. sess' = [sess EXCEPT !.rcpts = @ \cup {c.to}] =>
             sess'.data = sess.data /\ sess'.rcpts = sess.rcpts \cup {c.to}
      BY <1>1 DEF Session
    <3> QED BY <1>3, <2>5, <3>1, <3>2, <3>3
  <2>6. CASE Data(c)
    <3>1. \/ sess' = [sess EXCEPT !.data = TRUE] /\ NoRecord
          \/ /\ sess' = sess \/ sess' = [NewSession EXCEPT !.auth = sess.auth]
             /\ refused' = refused \cup sess.rcpts /\ badData' = badData \cup sess.rcpts
             /\ UNCHANGED delivered
      BY <2>6 DEF Data, Respond
    <3>2. sess' = [sess EXCEPT !.data = TRUE] => sess'.data /\ sess'.rcpts = sess.rcpts
      BY <1>1 DEF Session
    <3>3. sess' = [NewSession EXCEPT !.auth = sess.auth] => ~sess'.data /\ sess'.rcpts = {}
      BY DEF NewSession
    <3> QED BY <1>3, <2>6, <3>1, <3>2, <3>3 DEF Data, NoRecord
  <2>7. CASE Refuse(c) /\ c.verb = "RCPT"
    BY <1>3, <2>7 DEF Refuse, Respond
  <2>8. CASE Refuse(c) /\ c.verb # "RCPT"
    BY <1>3, <2>8 DEF Refuse, Respond
  <2> QED BY <2>1, <2>2, <2>3, <2>4, <2>5, <2>6, <2>7, <2>8 DEF Envelope
<1> QED BY <1>2, <1>3

\* What a command that the server takes leaves in the queue.
LEMMA ServeQueue ==
    ASSUME MailInv, OrderInv, Serve
    PROVE  /\ inq # << >> /\ Head(inq) = inq[1] /\ inq[1] \in Command
           /\ inq \in Seq(Command) /\ inq' \in Seq(Command)
           /\ Len(inq) \in Nat /\ Len(inq') = Len(inq) - 1
           /\ \A i \in 1..Len(inq') : i + 1 \in 1..Len(inq) /\ inq'[i] = inq[i + 1]
           /\ UNCHANGED <<at, stage, ri, conn>>
           /\ Live \/ inq[1].verb \in LoggingIn
           /\ inq[1].verb \in Mailing => inq[1].to \in Receiver
<1>1. /\ inq # << >> /\ inq' = Tail(inq) /\ UNCHANGED <<at, stage, ri, conn>>
      /\ inq \in Seq(Command)
  BY DEF Serve, client, MailInv, QueueInv
<1>2. /\ Len(inq) \in Nat /\ Len(inq) >= 1 /\ Head(inq) = inq[1] /\ inq[1] \in Command
      /\ inq' \in Seq(Command) /\ Len(inq') = Len(inq) - 1
      /\ \A i \in 1..Len(inq') : inq'[i] = inq[i + 1]
  BY <1>1, HeadTailProperties, LenProperties, EmptySeq
<1>3. 1 \in 1..Len(inq) /\ \A i \in 1..Len(inq') : i + 1 \in 1..Len(inq)
  BY <1>2
<1>4. /\ Live \/ inq[1].verb \in LoggingIn
      /\ inq[1].verb \in Mailing => inq[1].to \in Receiver
  BY <1>3 DEF OrderInv
<1> QED BY <1>1, <1>2, <1>3, <1>4

\* In a session, and on a connection that the client has shut, the commands
\* follow each other.
LEMMA LiveChain ==
    ASSUME MailInv, OrderInv, Live
    PROVE  /\ \A i \in 1..(Len(inq) - 1) : Follows(inq[i].verb, inq[i + 1].verb)
           /\ conn = "shut" => ~InSession
           /\ ~InSession => conn = "shut"
           /\ conn = "shut" /\ inq # << >> => inq[Len(inq)].verb = "QUIT"
  BY DEF MailInv, QueueInv, OrderInv, Live, InSession

\* Behind a command of a mail comes the next one, for the same receiver.
LEMMA ServeDue ==
    ASSUME MailInv, OrderInv, Serve, Live, NEW w, NEW r,
           inq[1].verb \in Unfinished, inq[1].to = r, Follows(inq[1].verb, w)
    PROVE  Due({w}, r)'
<1>1. /\ inq # << >> /\ Len(inq) \in Nat /\ Len(inq') = Len(inq) - 1
      /\ inq' \in Seq(Command)
      /\ \A i \in 1..Len(inq') : i + 1 \in 1..Len(inq) /\ inq'[i] = inq[i + 1]
      /\ UNCHANGED <<at, stage, ri, conn>>
  BY ServeQueue
<1>2. ASSUME NEW v, Follows(inq[1].verb, v) PROVE v = w
  BY <1>2 DEF Unfinished, Header, Follows
<1>3. CASE inq' # << >>
  <2>1. 1 \in 1..Len(inq') /\ 1 \in 1..(Len(inq) - 1)
    BY <1>1, <1>3, EmptySeq, LenProperties
  <2>2. inq'[1] = inq[2] /\ Follows(inq[1].verb, inq[2].verb) /\ inq[2].to = inq[1].to
    BY <1>1, <2>1, LiveChain DEF OrderInv
  <2> QED BY <1>2, <1>3, <2>2 DEF Due
<1>4. CASE inq' = << >>
  <2>1. Len(inq) = 1
    BY <1>1, <1>4, EmptySeq
  <2>2. InSession /\ conn # "shut"
    <3>1. inq[1].verb # "QUIT"
      BY DEF Unfinished, Header
    <3> QED BY <1>1, <2>1, <3>1, LiveChain DEF Live
  <2>3. To(ri) = r
    BY <1>1, <2>1, <2>2 DEF OrderInv
  <2>4. IF at = "recv" THEN inq[1].verb = stage ELSE Follows(inq[1].verb, stage)
    BY <1>1, <2>1, <2>2 DEF MailInv, QueueInv
  <2> QED BY <1>1, <1>2, <1>4, <2>2, <2>3, <2>4 DEF Due, InSession, To
<1> QED BY <1>3, <1>4

\* A command that the server takes leaves what is in the queue behind it.
LEMMA ServeInQueue ==
    ASSUME MailInv, OrderInv, Serve, NEW r
    PROVE  /\ InQueue(r)' => InQueue(r)
           /\ InQueue(r) => InQueue(r)' \/ (inq[1].verb = "RCPT" /\ inq[1].to = r)
<1>1. /\ Len(inq) \in Nat /\ Len(inq') = Len(inq) - 1
      /\ \A i \in 1..Len(inq') : i + 1 \in 1..Len(inq) /\ inq'[i] = inq[i + 1]
  BY ServeQueue
<1>2. ASSUME NEW k \in 1..Len(inq), k # 1 PROVE k - 1 \in 1..Len(inq') /\ inq'[k - 1] = inq[k]
  BY <1>1, <1>2
<1> QED BY <1>1, <1>2 DEF InQueue

\* The server keeps the order of the queue.
LEMMA ServeOrder == MailInv /\ OrderInv /\ DueInv /\ Serve => OrderInv'
<1> SUFFICES ASSUME MailInv, OrderInv, DueInv, Serve PROVE OrderInv'
  OBVIOUS
<1>1. /\ inq # << >> /\ Len(inq) \in Nat /\ Len(inq') = Len(inq) - 1
      /\ inq' \in Seq(Command) /\ Head(inq) = inq[1]
      /\ \A i \in 1..Len(inq') : i + 1 \in 1..Len(inq) /\ inq'[i] = inq[i + 1]
      /\ UNCHANGED <<at, stage, ri, conn>>
  BY ServeQueue
<1>2. TypeOK /\ inq \in Seq(Command)
  BY DEF MailInv, QueueInv
<1>3. badData' \subseteq refused'
  BY <1>2, ServeRecords DEF OrderInv
<1>4. ASSUME NEW i \in 1..(Len(inq') - 1)
      PROVE  /\ i + 1 \in 1..(Len(inq) - 1)
             /\ inq'[i] = inq[i + 1] /\ inq'[i + 1] = inq[(i + 1) + 1]
  <2>1. i \in 1..Len(inq') /\ i + 1 \in 1..Len(inq') /\ i + 1 \in 1..(Len(inq) - 1)
    BY <1>1
  <2> QED BY <1>1, <2>1
<1>5. inq' # << >> => inq'[Len(inq')] = inq[Len(inq)]
  <2> SUFFICES ASSUME inq' # << >> PROVE inq'[Len(inq')] = inq[Len(inq)]
    OBVIOUS
  <2>1. Len(inq') \in 1..Len(inq') /\ Len(inq') + 1 = Len(inq)
    BY <1>1, EmptySeq, LenProperties
  <2> QED BY <1>1, <2>1
<1>6. /\ ~Live' => \A i \in 1..Len(inq') : inq'[i].verb \in LoggingIn
      /\ \A i \in 1..Len(inq') : inq'[i].verb \in Mailing => inq'[i].to \in Receiver
  BY <1>1 DEF OrderInv, Live, InSession
<1>7. \A i \in 1..(Len(inq') - 1) : inq'[i].verb \in Unfinished => inq'[i + 1].to = inq'[i].to
  BY <1>4 DEF OrderInv
<1>8. conn' = "shut" =>
          /\ at' = "idle" /\ stage' = "QUIT"
          /\ \A i \in 1..(Len(inq') - 1) : Follows(inq'[i].verb, inq'[i + 1].verb)
          /\ inq' # << >> => inq'[Len(inq')].verb = "QUIT"
  BY <1>1, <1>4, <1>5 DEF OrderInv
<1>9. /\ InSession' /\ stage' \in LoggingIn => ri' = 0
      /\ InSession' /\ inq' # << >> =>
            (inq'[Len(inq')].verb \in Unfinished => inq'[Len(inq')].to = To(ri)')
  BY <1>1, <1>5 DEF OrderInv, InSession, To
<1> QED BY <1>3, <1>6, <1>7, <1>8, <1>9 DEF OrderInv

\* After a command of the envelope or of the text, the next one of the same
\* receiver is due.
LEMMA ServeKeepsDue == MailInv /\ OrderInv /\ DueInv /\ Serve => DueInv'
<1> SUFFICES ASSUME MailInv, OrderInv, DueInv, Serve, Live'
             PROVE  /\ \A r \in sess'.rcpts \ badData' :
                          Due(IF sess.data THEN Text ELSE {"DATA"}, r)'
                    /\ sess'.data => \E r \in Receiver :
                          Due({"HEADER"}, r)' \/ (sess'.hdr = r /\ Due({"BODY", "END"}, r)')
  BY DEF DueInv
<1>1. /\ inq # << >> /\ Head(inq) = inq[1] /\ UNCHANGED <<at, stage, ri, conn>>
      /\ inq[1].verb \in Mailing => inq[1].to \in Receiver
  BY ServeQueue
<1>2. Live
  BY <1>1 DEF Live, InSession
<1>3. /\ \A r \in sess.rcpts \ badData :
            inq[1].to = r /\ inq[1].verb \in (IF sess.data THEN Text ELSE {"DATA"})
      /\ sess.data =>
            inq[1].verb = "HEADER" \/ (inq[1].to = sess.hdr /\ inq[1].verb \in {"BODY", "END"})
  BY <1>1, <1>2 DEF DueInv, Due
<1>4. ASSUME NEW w, inq[1].verb \in Unfinished, Follows(inq[1].verb, w)
      PROVE  \E r : r = inq[1].to /\ Due({w}, r)'
  BY <1>2, <1>4, ServeDue
<1>5. ASSUME NEW r, NEW w, NEW V, w \in V, Due({w}, r)' PROVE Due(V, r)'
  BY <1>5 DEF Due
<1> DEFINE c == inq[1]
<1>6. CASE c.verb = "RCPT" /\ ~sess.data /\ ~sess'.data
           /\ sess'.rcpts = sess.rcpts \cup {c.to} /\ UNCHANGED badData
  <2>1. c.verb \in Unfinished /\ Follows(c.verb, "DATA")
    BY <1>6 DEF Unfinished, Header, Follows
  <2>2. PICK r : r = c.to /\ Due({"DATA"}, r)'
    BY <1>4, <2>1
  <2>3. \A s \in sess'.rcpts \ badData' : s = r
    BY <1>3, <1>6, <2>2
  <2> QED BY <1>6, <2>2, <2>3
<1>7. CASE c.verb = "RCPT" /\ ~sess.data /\ sess' = sess /\ UNCHANGED badData
  BY <1>3, <1>7
<1>8. CASE c.verb = "DATA" /\ ~sess.data /\ sess'.data /\ sess'.rcpts = sess.rcpts
           /\ UNCHANGED badData
  <2>1. c.verb \in Unfinished /\ Follows(c.verb, "HEADER") /\ c.verb \in Mailing
    BY <1>8 DEF Unfinished, Header, Follows, Mailing
  <2>2. PICK r : r = c.to /\ Due({"HEADER"}, r)'
    BY <1>4, <2>1
  <2>3. r \in Receiver /\ \A s \in sess'.rcpts \ badData' : s = r
    BY <1>1, <1>3, <1>8, <2>1, <2>2
  <2>4. Due(Text, r)'
    BY <1>5, <2>2 DEF Text
  <2> QED BY <1>8, <2>2, <2>3, <2>4
<1>9. CASE ~sess'.data /\ sess'.rcpts \subseteq badData'
  BY <1>9
<1>10. CASE c.verb = "HEADER" /\ sess.data /\ sess'.data
            /\ sess'.rcpts = sess.rcpts /\ sess'.hdr = c.to /\ UNCHANGED badData
  <2>1. c.verb \in Unfinished /\ Follows(c.verb, "BODY") /\ c.verb \in Mailing
    BY <1>10 DEF Unfinished, Header, Follows, Mailing
  <2>2. PICK r : r = c.to /\ Due({"BODY"}, r)'
    BY <1>4, <2>1
  <2>3. r \in Receiver /\ \A s \in sess'.rcpts \ badData' : s = r
    BY <1>1, <1>3, <1>10, <2>1, <2>2
  <2>4. Due(Text, r)' /\ Due({"BODY", "END"}, r)'
    BY <1>5, <2>2 DEF Text
  <2> QED BY <1>10, <2>2, <2>3, <2>4
<1>11. CASE c.verb \notin {"HEADER", "END"} /\ sess.data /\ sess' = sess /\ UNCHANGED badData
  <2>1. c.verb = "BODY" /\ c.to = sess.hdr
    BY <1>3, <1>11
  <2>2. c.verb \in Unfinished /\ Follows(c.verb, "END") /\ c.verb \in Mailing
    BY <2>1 DEF Unfinished, Header, Follows, Mailing
  <2>3. PICK r : r = c.to /\ Due({"END"}, r)'
    BY <1>4, <2>2
  <2>4. r \in Receiver /\ \A s \in sess'.rcpts \ badData' : s = r
    BY <1>1, <1>3, <1>11, <2>2, <2>3
  <2>5. Due(Text, r)' /\ Due({"BODY", "END"}, r)'
    BY <1>5, <2>3 DEF Text
  <2> QED BY <1>11, <2>1, <2>3, <2>4, <2>5
<1>12. CASE c.verb # "RCPT" /\ ~sess.data /\ ~sess'.data /\ (c.verb = "DATA" => sess.rcpts = {})
            /\ sess'.rcpts \subseteq sess.rcpts /\ UNCHANGED badData
  BY <1>3, <1>12
<1>13. TypeOK /\ inq \in Seq(Command)
  BY DEF MailInv, QueueInv
<1> QED BY <1>1, <1>6, <1>7, <1>8, <1>9, <1>10, <1>11, <1>12, <1>13, ServeRecords

\* A copy, once there, stays, and so does a refusal.
LEMMA ServeSettles ==
    ASSUME TypeOK, inq \in Seq(Command), Serve, NEW r \in Receiver, Settled(r)
    PROVE  Settled(r)'
<1>1. \A x \in Receiver \X Receiver :
         delivered[x] \in Nat /\ delivered'[x] \in Nat /\ delivered'[x] >= delivered[x]
  <2>1. delivered \in [Receiver \X Receiver -> Nat]
    BY DEF TypeOK
  <2>2. \/ UNCHANGED delivered
        \/ delivered' = [x \in Receiver \X Receiver |-> delivered[x]
              + IF x[1] \in sess.rcpts /\ x[2] = sess.hdr THEN 1 ELSE 0]
    BY ServeRecords
  <2> QED BY <2>1, <2>2
<1>2. refused \subseteq refused'
  BY ServeRecords
<1>3. ASSUME NEW x \in Copies(r) PROVE x \in Copies(r)'
  BY <1>1, <1>3 DEF Copies
<1> QED BY <1>2, <1>3 DEF Settled

\* The end of a text that the server accepts is one more copy, with the name
\* in the header, for each recipient in the envelope.
LEMMA AcceptedText ==
    ASSUME TypeOK, sess.hdr \in Receiver,
           delivered' = [x \in Receiver \X Receiver |-> delivered[x]
                            + IF x[1] \in sess.rcpts /\ x[2] = sess.hdr THEN 1 ELSE 0],
           NEW r \in Receiver
    PROVE  /\ r \in sess.rcpts => Copies(r)' = Copies(r) \cup {<<r, sess.hdr>>}
           /\ r \notin sess.rcpts => Copies(r)' = Copies(r)
<1>1. \A x \in Receiver \X Receiver :
         /\ delivered[x] \in Nat
         /\ delivered'[x] = delivered[x] + IF x[1] \in sess.rcpts /\ x[2] = sess.hdr THEN 1 ELSE 0
  BY DEF TypeOK
<1>2. \A y \in Receiver : <<r, y>> \in Receiver \X Receiver /\ <<r, y>>[1] = r /\ <<r, y>>[2] = y
  OBVIOUS
<1>3. ASSUME NEW x \in Receiver \X Receiver, x[1] = r
      PROVE  (delivered'[x] > 0) <=> (delivered[x] > 0 \/ (r \in sess.rcpts /\ x = <<r, sess.hdr>>))
  <2>1. (x = <<r, sess.hdr>>) <=> x[2] = sess.hdr
    BY <1>3
  <2> QED BY <1>1, <1>3, <2>1
<1>4. <<r, sess.hdr>> \in Receiver \X Receiver /\ <<r, sess.hdr>>[1] = r
  BY <1>2
<1> QED BY <1>3, <1>4 DEF Copies

\* A receiver on the way or in the envelope is settled before he leaves it.
LEMMA ServeKeepsSent == MailInv /\ RecordInv /\ Serve => SentInv'
<1> SUFFICES ASSUME MailInv, OrderInv, DueInv, SentInv, Serve, Live',
                    NEW j \in 1..Len(Receivers), Receivers[j] # Short, Sent(j)'
             PROVE  Settled(Receivers[j])' \/ InQueue(Receivers[j])' \/ Receivers[j] \in sess'.rcpts
  BY DEF SentInv, RecordInv
<1> DEFINE c == inq[1]
           r == Receivers[j]
<1>1. /\ inq # << >> /\ Head(inq) = c /\ UNCHANGED <<at, stage, ri, conn>>
      /\ c.verb \in Mailing => c.to \in Receiver
  BY ServeQueue
<1>2. Live /\ Sent(j)
  BY <1>1 DEF Live, InSession, Sent
<1>3. r \in Receiver
  BY ElementOfSeq, ReceiversAssumption
<1>4. /\ \A s \in sess.rcpts \ badData :
            c.to = s /\ c.verb \in (IF sess.data THEN Text ELSE {"DATA"})
      /\ sess.data =>
            c.verb = "HEADER" \/ (c.to = sess.hdr /\ c.verb \in {"BODY", "END"})
  BY <1>1, <1>2 DEF DueInv, Due
<1>5. TypeOK /\ inq \in Seq(Command)
  BY DEF MailInv, QueueInv
<1> HIDE DEF r, c
<1>6. Settled(r) \/ InQueue(r) \/ r \in sess.rcpts
  BY <1>2 DEF SentInv, r
<1>7. CASE Settled(r)
  BY <1>3, <1>5, <1>7, ServeSettles DEF r
<1>8. CASE c.verb = "RCPT" /\ c.to = r
  <2>1. ~sess.data
    BY <1>4, <1>8
  <2>2. r \in sess'.rcpts \/ r \in refused'
    BY <1>1, <1>5, <1>8, <2>1, ServeRecords
  <2> QED BY <2>2 DEF Settled, r
<1>9. CASE r \in sess.rcpts /\ ~Settled(r)
  <2>1. r \notin badData
    BY <1>9 DEF Settled, OrderInv
  <2>2. c.to = r /\ c.verb \in (IF sess.data THEN Text ELSE {"DATA"})
    BY <1>4, <1>9, <2>1
  <2>3. CASE r \in sess'.rcpts \/ r \in refused'
    BY <2>3 DEF Settled, r
  <2>4. CASE c.verb = "END" /\ sess.data /\
             delivered' = [x \in Receiver \X Receiver |-> delivered[x]
                              + IF x[1] \in sess.rcpts /\ x[2] = sess.hdr THEN 1 ELSE 0]
    <3>1. sess.hdr \in Receiver
      BY <1>3, <1>4, <2>2, <2>4
    <3>2. Copies(r)' # {}
      BY <1>3, <1>5, <1>9, <2>4, <3>1, AcceptedText DEF r
    <3> QED BY <3>2 DEF Settled, r
  <2> QED BY <1>1, <1>5, <1>9, <2>2, <2>3, <2>4, ServeRecords
<1>10. CASE InQueue(r) /\ ~(c.verb = "RCPT" /\ c.to = r)
  BY <1>10, ServeInQueue DEF r, c
<1> QED BY <1>6, <1>7, <1>8, <1>9, <1>10 DEF r

\* A receiver who has his copy has left the envelope, and is not asked for
\* again.
LEMMA ServeKeepsCopies == MailInv /\ RecordInv /\ CopyInv /\ Serve => CopyInv'
<1> SUFFICES ASSUME MailInv, OrderInv, DueInv, CopyInv, Serve PROVE CopyInv'
  BY DEF RecordInv
<1> DEFINE c == inq[1]
<1>1. /\ inq # << >> /\ Head(inq) = c /\ UNCHANGED <<at, stage, ri, conn>>
      /\ c.verb \in Mailing => c.to \in Receiver
      /\ Live \/ c.verb \in LoggingIn
      /\ Len(inq) \in Nat /\ Len(inq') = Len(inq) - 1
      /\ \A i \in 1..Len(inq') : i + 1 \in 1..Len(inq) /\ inq'[i] = inq[i + 1]
  BY ServeQueue
<1>2. TypeOK /\ inq \in Seq(Command) /\ sess \in Session
  BY DEF MailInv, QueueInv, TypeOK, Session
<1>3. ASSUME Live
      PROVE  /\ \A s \in sess.rcpts \ badData :
                   c.to = s /\ c.verb \in (IF sess.data THEN Text ELSE {"DATA"})
             /\ sess.data =>
                   c.verb = "HEADER" \/ (c.to = sess.hdr /\ c.verb \in {"BODY", "END"})
  BY <1>1, <1>3 DEF DueInv, Due
<1> HIDE DEF c
<1>4. \A k, l \in 1..Len(inq') :
         inq'[k].verb = "RCPT" /\ inq'[l].verb = "RCPT" /\ inq'[k].to = inq'[l].to => k = l
  <2> SUFFICES ASSUME NEW k \in 1..Len(inq'), NEW l \in 1..Len(inq'),
                      inq'[k].verb = "RCPT", inq'[l].verb = "RCPT", inq'[k].to = inq'[l].to
               PROVE  k = l
    OBVIOUS
  <2>1. k + 1 \in 1..Len(inq) /\ l + 1 \in 1..Len(inq) /\ inq'[k] = inq[k + 1] /\ inq'[l] = inq[l + 1]
    BY <1>1
  <2>2. k + 1 = l + 1
    BY <2>1 DEF CopyInv
  <2> QED BY <2>2
\* The receiver of the command that is taken is not on the way a second time.
<1>5. ASSUME NEW r, c.verb = "RCPT", c.to = r PROVE InQueue(r) /\ ~InQueue(r)'
  <2>1. InQueue(r)
    <3>1. 1 \in 1..Len(inq)
      BY <1>1, EmptySeq, LenProperties, <1>2
    <3> QED BY <1>5, <3>1 DEF InQueue, c
  <2>2. ASSUME NEW k \in 1..Len(inq'), inq'[k].verb = "RCPT", inq'[k].to = r PROVE FALSE
    <3>1. k + 1 \in 1..Len(inq) /\ inq'[k] = inq[k + 1] /\ 1 \in 1..Len(inq)
      BY <1>1
    <3>2. k + 1 = 1
      BY <1>5, <2>2, <3>1 DEF CopyInv, c
    <3> QED BY <3>2
  <2> QED BY <2>1, <2>2 DEF InQueue
<1>6. \A r : InQueue(r)' => InQueue(r)
  BY ServeInQueue
<1>7. ASSUME NEW j \in 1..Len(Receivers) PROVE Sent(j)' <=> Sent(j)
  BY <1>1 DEF Sent
<1>8. CASE c.verb = "END" /\ sess.data /\ sess'.rcpts = {} /\ UNCHANGED badData /\
           delivered' = [x \in Receiver \X Receiver |-> delivered[x]
                            + IF x[1] \in sess.rcpts /\ x[2] = sess.hdr THEN 1 ELSE 0]
  <2>1. Live
    BY <1>1, <1>8 DEF LoggingIn, Logon
  <2>2. c.to = sess.hdr /\ sess.hdr \in Receiver
    BY <1>1, <1>3, <1>8, <2>1 DEF Mailing
  <2>3. /\ \A r \in sess.rcpts : r \in Receiver /\ Copies(r) = {} /\ Copies(r)' = {<<r, sess.hdr>>}
        /\ \A r \in Receiver \ sess.rcpts : Copies(r)' = Copies(r)
    <3>1. \A r \in sess.rcpts : r \in Receiver
      BY <1>2 DEF Session
    <3>2. \A r \in sess.rcpts : Copies(r) = {}
      BY DEF CopyInv
    <3>3. ASSUME NEW r \in Receiver
          PROVE  /\ r \in sess.rcpts => Copies(r)' = Copies(r) \cup {<<r, sess.hdr>>}
                 /\ r \notin sess.rcpts => Copies(r)' = Copies(r)
      BY <1>2, <1>8, <2>2, AcceptedText
    <3> QED BY <3>1, <3>2, <3>3
  <2>4. \A x \in Receiver \X Receiver :
           /\ delivered[x] \in Nat
           /\ delivered'[x] = delivered[x] + IF x[1] \in sess.rcpts /\ x[2] = sess.hdr THEN 1 ELSE 0
    BY <1>2, <1>8 DEF TypeOK
  <2>5. OneCopyEach'
    <3> SUFFICES ASSUME NEW r \in Receiver
                 PROVE  /\ \A x \in Copies(r)' : delivered'[x] = 1
                        /\ \A x, y \in Copies(r)' : x = y
                        /\ \A x \in Copies(r)' : x[2] # r => r \in badData'
      BY DEF OneCopyEach
    <3>1. CASE r \in sess.rcpts
      <4>1. <<r, sess.hdr>> \in Receiver \X Receiver /\ <<r, sess.hdr>>[1] = r
            /\ <<r, sess.hdr>>[2] = sess.hdr
        BY <2>2
      <4>2. delivered[<<r, sess.hdr>>] = 0
        BY <2>3, <2>4, <3>1, <4>1 DEF Copies
      <4>3. delivered'[<<r, sess.hdr>>] = 1
        BY <2>4, <3>1, <4>1, <4>2
      <4>4. sess.hdr # r => r \in badData
        BY <1>3, <2>1, <2>2, <3>1
      <4> QED BY <1>8, <2>3, <3>1, <4>1, <4>3, <4>4
    <3>2. CASE r \notin sess.rcpts
      <4>1. \A x \in Copies(r) : x \in Receiver \X Receiver /\ x[1] = r
        BY DEF Copies
      <4>2. \A x \in Copies(r) : delivered'[x] = delivered[x]
        BY <2>4, <3>2, <4>1
      <4>3. /\ \A x \in Copies(r) : delivered[x] = 1
            /\ \A x, y \in Copies(r) : x = y
            /\ \A x \in Copies(r) : x[2] # r => r \in badData
        BY DEF CopyInv, OneCopyEach
      <4>4. Copies(r)' = Copies(r) /\ badData' = badData
        BY <1>8, <2>3, <3>2
      <4> QED BY <4>2, <4>3, <4>4, Zenon
    <3> QED BY <3>1, <3>2
  <2>6. \A r \in Receiver : InQueue(r) => Copies(r)' = {}
    BY <2>3 DEF CopyInv
  <2>7. ASSUME NEW j \in 1..Len(Receivers), Receivers[j] # Short, ~Sent(j)
        PROVE  Copies(Receivers[j])' = {} /\ ~InQueue(Receivers[j])
    <3>1. Receivers[j] \in Receiver
      BY <2>7, ElementOfSeq, ReceiversAssumption
    <3> QED BY <2>3, <2>7, <3>1 DEF CopyInv
  <2> QED BY <1>4, <1>6, <1>7, <1>8, <2>5, <2>6, <2>7 DEF CopyInv
<1>9. ASSUME UNCHANGED delivered, badData \subseteq badData',
             \A r \in sess'.rcpts : r \in sess.rcpts \/ (c.verb = "RCPT" /\ c.to = r)
      PROVE  CopyInv'
  <2>1. \A r \in Receiver : Copies(r)' = Copies(r)
    BY <1>9 DEF Copies
  <2>2. OneCopyEach'
    BY <1>9, <2>1 DEF CopyInv, OneCopyEach
  <2>3. \A r \in sess'.rcpts : r \in Receiver /\ Copies(r)' = {}
    <3>1. \A r \in sess.rcpts : r \in Receiver /\ Copies(r) = {}
      BY <1>2 DEF CopyInv, Session
    <3>2. c.verb = "RCPT" => c.to \in Receiver /\ Copies(c.to) = {}
      BY <1>1, <1>5 DEF CopyInv, Mailing, Header
    <3> QED BY <1>9, <2>1, <3>1, <3>2
  <2>4. \A r \in Receiver : InQueue(r)' => r \notin sess'.rcpts /\ Copies(r)' = {}
    BY <1>5, <1>6, <1>9, <2>1 DEF CopyInv
  <2>5. ASSUME NEW j \in 1..Len(Receivers), Receivers[j] # Short, ~Sent(j)
        PROVE  /\ ~InQueue(Receivers[j])' /\ Receivers[j] \notin sess'.rcpts
               /\ Copies(Receivers[j])' = {}
    <3>1. Receivers[j] \in Receiver
      BY <2>5, ElementOfSeq, ReceiversAssumption
    <3> QED BY <1>5, <1>6, <1>9, <2>1, <2>5, <3>1 DEF CopyInv
  <2> QED BY <1>4, <1>7, <2>2, <2>3, <2>4, <2>5 DEF CopyInv
<1> QED BY <1>1, <1>2, <1>8, <1>9, ServeRecords

\* Going on to the next command of the client asks for nobody: the entries
\* between two receivers are too short to be addresses.
LEMMA FollowSends ==
    ASSUME MailInv, OrderInv, InSession, stage # "QUIT", Follow(stage),
           at = "recv" \/ stage \notin Answered
    PROVE  /\ at' = "send" /\ Follows(stage, stage')
           /\ stage' \in LoggingIn => ri' = 0
           /\ stage \in Unfinished => ri' = ri
           /\ \A j \in 1..Len(Receivers) : Receivers[j] # Short => (Sent(j)' <=> Sent(j))
<1>1. /\ stage \in Verbs /\ ri \in 0..Len(Receivers) /\ Len(Receivers) \in Nat
      /\ stage \in Mailing => To(ri) \in Receiver
      /\ stage \in LoggingIn => ri = 0
  BY SessionFacts, ReceiversAssumption, LenProperties DEF OrderInv
<1>2. at' = "send" /\ Follows(stage, stage') /\ stage' \in Verbs
  BY <1>1, FollowEffect
<1>3. CASE stage \notin {"PASS", "END"}
  <2>1. ri' = ri
    BY <1>1, <1>3, FollowTurn
  <2>2. stage' \in LoggingIn => stage \in LoggingIn
    BY <1>2, <1>3 DEF Follows, LoggingIn, Logon
  <2>3. ASSUME NEW j \in 1..Len(Receivers) PROVE Sent(j)' <=> Sent(j)
    BY <1>2, <1>3, <2>1 DEF Sent, Follows, Mailing, Header, Answered, Logon
  <2> QED BY <1>1, <1>2, <2>1, <2>2, <2>3
<1>4. CASE stage \in {"PASS", "END"}
  <2>1. /\ ri' = NextReceiver(ri)
        /\ stage' = IF NextReceiver(ri) = 0 THEN "QUIT" ELSE "MAIL"
    BY <1>1, <1>4, FollowTurn
  <2>2. stage' \notin LoggingIn /\ stage \notin Unfinished
    BY <1>4, <2>1 DEF LoggingIn, Logon, Unfinished, Header
  <2>3. ASSUME NEW j \in 1..Len(Receivers), Receivers[j] # Short PROVE Sent(j)' <=> Sent(j)
    <3>1. Sent(j) <=> (j <= ri)
      BY <1>1, <1>4 DEF Sent, Mailing, LoggingIn, Logon, Header
    <3>2. CASE NextReceiver(ri) = 0
      <4>1. j <= ri
        BY <1>1, <2>3, <3>2, NextReceiverSkips
      <4> QED BY <2>1, <3>1, <3>2, <4>1 DEF Sent
    <3>3. CASE NextReceiver(ri) # 0
      <4>1. ri < NextReceiver(ri) /\ NextReceiver(ri) \in Nat
            /\ \A k \in (ri + 1)..(NextReceiver(ri) - 1) : Receivers[k] = Short
        BY <1>1, <3>3, NextReceiverSkips, NextReceiverIsAddress
      <4>2. (j < NextReceiver(ri)) <=> (j <= ri)
        BY <1>1, <2>3, <4>1
      <4>3. Sent(j)' <=> (j < NextReceiver(ri))
        BY <2>1, <3>3 DEF Sent, Mailing, Header
      <4> QED BY <3>1, <4>2, <4>3
    <3> QED BY <3>2, <3>3
  <2> QED BY <1>2, <2>2, <2>3
<1> QED BY <1>3, <1>4

\* What Send does to the queue, to the receiver in turn and to who was asked
\* for.
LEMMA SendEffect ==
    ASSUME MailInv, OrderInv, Send
    PROVE  /\ InSession /\ InSession' /\ at = "send" /\ stage # "QUIT"
           /\ UNCHANGED <<conn, server>>
           /\ inq' \in Seq(Command) /\ Len(inq) \in Nat
           /\ conn = "open" =>
                 /\ Len(inq') = Len(inq) + 1
                 /\ inq'[Len(inq) + 1].verb = stage /\ inq'[Len(inq) + 1].to = To(ri)
                 /\ \A i \in 1..Len(inq) : inq'[i] = inq[i]
           /\ conn # "open" => conn = "closed" /\ inq' = << >> /\ inq = << >>
           /\ at' = "recv" => stage' = stage /\ ri' = ri
           /\ at' = "send" => Follows(stage, stage')
           /\ stage' \in LoggingIn => ri' = 0
           /\ stage \in Unfinished => ri' = ri
           /\ \A j \in 1..Len(Receivers) : Receivers[j] # Short =>
                 (Sent(j)' <=> (Sent(j) \/ (stage = "RCPT" /\ j = ri)))
<1> DEFINE c == Cmd(stage, To(ri))
<1>1. /\ at = "send" /\ stage # "QUIT" /\ Transmit(c)
      /\ IF stage \in Answered THEN at' = "recv" /\ UNCHANGED <<stage, ri>> ELSE Follow(stage)
      /\ UNCHANGED <<conn, server>>
  BY DEF Send
<1>2. InSession
  BY <1>1 DEF InSession
<1>3. c \in Command /\ c.verb = stage /\ c.to = To(ri)
  <2>1. stage = "RCPT" => To(ri) \in Receiver
    BY <1>2, SessionFacts DEF Mailing, Header
  <2> QED BY <1>2, <2>1, SessionFacts, ToIsEntry, CommandIsTyped DEF Cmd
<1> HIDE DEF c
<1>4. /\ inq' \in Seq(Command) /\ Len(inq) \in Nat
      /\ conn = "open" => /\ Len(inq') = Len(inq) + 1 /\ inq'[Len(inq) + 1] = c
                          /\ \A i \in 1..Len(inq) : inq'[i] = inq[i]
      /\ conn # "open" => inq' = inq
  BY <1>1, <1>2, <1>3, SessionFacts, TransmitEffect
<1>5. conn # "open" => conn = "closed" /\ inq = << >>
  BY <1>2, SessionFacts DEF MailInv, QueueInv
<1>6. CASE stage \in Answered
  <2>1. \A j \in 1..Len(Receivers) : Receivers[j] # Short =>
                 (Sent(j)' <=> (Sent(j) \/ (stage = "RCPT" /\ j = ri)))
    BY <1>1, <1>6 DEF Sent, Mailing, Header
  <2>2. stage \in LoggingIn => ri = 0
    BY <1>2 DEF OrderInv
  <2> QED BY <1>1, <1>2, <1>3, <1>4, <1>5, <1>6, <2>1, <2>2 DEF InSession
<1>7. CASE stage \notin Answered
  <2>1. /\ at' = "send" /\ Follows(stage, stage')
        /\ stage' \in LoggingIn => ri' = 0
        /\ stage \in Unfinished => ri' = ri
        /\ \A j \in 1..Len(Receivers) : Receivers[j] # Short => (Sent(j)' <=> Sent(j))
    BY <1>1, <1>2, <1>7, FollowSends
  <2>2. stage # "RCPT"
    BY <1>7 DEF Answered
  <2> QED BY <1>1, <1>2, <1>3, <1>4, <1>5, <2>1, <2>2 DEF InSession
<1> QED BY <1>6, <1>7

\* A command that is sent joins the queue behind those of its receiver.
LEMMA SendKeepsOrder == MailInv /\ OrderInv /\ Send => OrderInv'
<1> SUFFICES ASSUME MailInv, OrderInv, Send PROVE OrderInv'
  OBVIOUS
<1>1. /\ InSession /\ InSession' /\ UNCHANGED <<conn, server>> /\ Len(inq) \in Nat
      /\ stage' \in LoggingIn => ri' = 0
      /\ stage \in Unfinished => ri' = ri
  BY SendEffect
<1>2. stage \in Mailing => To(ri) \in Receiver
  BY <1>1, SessionFacts
<1>3. /\ badData' \subseteq refused' /\ conn' # "shut"
      /\ InSession' /\ stage' \in LoggingIn => ri' = 0
  BY <1>1, SessionFacts DEF OrderInv, server
<1>4. CASE conn = "open"
  <2>1. /\ Len(inq') = Len(inq) + 1
        /\ inq'[Len(inq) + 1].verb = stage /\ inq'[Len(inq) + 1].to = To(ri)
        /\ \A i \in 1..Len(inq) : inq'[i] = inq[i]
    BY <1>4, SendEffect
  <2>2. Live'
    BY <1>1, <1>4 DEF Live
  <2>3. \A i \in 1..Len(inq') : inq'[i].verb \in Mailing => inq'[i].to \in Receiver
    <3>1. \A i \in 1..Len(inq') : i \in 1..Len(inq) \/ i = Len(inq) + 1
      BY <1>1, <2>1
    <3> QED BY <1>2, <2>1, <3>1 DEF OrderInv
  <2>4. \A i \in 1..(Len(inq') - 1) : inq'[i].verb \in Unfinished => inq'[i + 1].to = inq'[i].to
    <3> SUFFICES ASSUME NEW i \in 1..(Len(inq') - 1), inq'[i].verb \in Unfinished
                 PROVE  inq'[i + 1].to = inq'[i].to
      OBVIOUS
    <3>1. i \in 1..Len(inq) /\ inq'[i] = inq[i]
      BY <1>1, <2>1
    <3>2. CASE i < Len(inq)
      <4>1. i \in 1..(Len(inq) - 1) /\ i + 1 \in 1..Len(inq)
        BY <1>1, <3>1, <3>2
      <4> QED BY <2>1, <3>1, <4>1 DEF OrderInv
    <3>3. CASE i = Len(inq)
      <4>1. inq # << >>
        BY <3>1, <3>3, EmptySeq
      <4> QED BY <1>1, <2>1, <3>1, <3>3, <4>1 DEF OrderInv
    <3> QED BY <1>1, <3>1, <3>2, <3>3
  <2>5. inq'[Len(inq')].verb \in Unfinished => inq'[Len(inq')].to = To(ri)'
    BY <1>1, <2>1 DEF To
  <2> QED BY <1>3, <2>2, <2>3, <2>4, <2>5 DEF OrderInv
<1>5. CASE conn # "open"
  <2>1. inq' = << >> /\ Len(inq') = 0
    BY <1>5, SendEffect, EmptySeq
  <2> QED BY <1>3, <2>1 DEF OrderInv
<1> QED BY <1>4, <1>5

\* What is due of the client is due in the queue once it is sent.
LEMMA SendKeepsDue == MailInv /\ OrderInv /\ DueInv /\ Send => DueInv'
<1> SUFFICES ASSUME MailInv, OrderInv, DueInv, Send, Live' PROVE DueInv'
  BY DEF DueInv
<1>1. /\ InSession /\ at = "send" /\ UNCHANGED <<conn, server>> /\ Len(inq) \in Nat
      /\ inq \in Seq(Command) /\ inq' \in Seq(Command)
  BY SendEffect, SessionFacts
<1>2. conn = "open" /\ Live
  BY <1>1, SessionFacts DEF Live
<1>3. /\ Len(inq') = Len(inq) + 1
      /\ inq'[Len(inq) + 1].verb = stage /\ inq'[Len(inq) + 1].to = To(ri)
      /\ \A i \in 1..Len(inq) : inq'[i] = inq[i]
  BY <1>2, SendEffect
<1>4. ASSUME NEW V, NEW r, Due(V, r) PROVE Due(V, r)'
  <2>1. inq' # << >>
    BY <1>1, <1>3, EmptySeq
  <2>2. CASE inq = << >>
    <3>1. Len(inq) = 0 /\ stage \in V /\ To(ri) = r
      BY <1>1, <1>4, <2>2, EmptySeq DEF Due
    <3> QED BY <1>3, <2>1, <3>1 DEF Due
  <2>3. CASE inq # << >>
    <3>1. 1 \in 1..Len(inq)
      BY <1>1, <2>3, EmptySeq
    <3> QED BY <1>3, <1>4, <2>1, <2>3, <3>1 DEF Due
  <2> QED BY <2>2, <2>3
<1>5. sess' = sess /\ badData' = badData
  BY <1>1 DEF server
<1>6. PICK V : V = IF sess.data THEN Text ELSE {"DATA"}
  OBVIOUS
<1>7. \A r \in sess.rcpts \ badData : Due(V, r)'
  BY <1>2, <1>4, <1>6 DEF DueInv
<1>8. ASSUME sess.data
      PROVE  \E r \in Receiver : Due({"HEADER"}, r)' \/ (sess.hdr = r /\ Due({"BODY", "END"}, r)')
  BY <1>2, <1>4, <1>8 DEF DueInv
<1> QED BY <1>5, <1>6, <1>7, <1>8 DEF DueInv

\* The receiver of the RCPT that is sent is on the way.
LEMMA SendKeepsSent == MailInv /\ RecordInv /\ Send => SentInv'
<1> SUFFICES ASSUME MailInv, OrderInv, SentInv, Send, Live',
                    NEW j \in 1..Len(Receivers), Receivers[j] # Short, Sent(j)'
             PROVE  Settled(Receivers[j])' \/ InQueue(Receivers[j])' \/ Receivers[j] \in sess'.rcpts
  BY DEF SentInv, RecordInv
<1>1. /\ InSession /\ UNCHANGED <<conn, server>> /\ Len(inq) \in Nat
      /\ Sent(j) \/ (stage = "RCPT" /\ j = ri)
  BY SendEffect
<1>2. conn = "open" /\ Live
  BY <1>1, SessionFacts DEF Live
<1>3. /\ Len(inq') = Len(inq) + 1
      /\ inq'[Len(inq) + 1].verb = stage /\ inq'[Len(inq) + 1].to = To(ri)
      /\ \A i \in 1..Len(inq) : inq'[i] = inq[i]
  BY <1>2, SendEffect
<1>4. \A i \in 1..Len(inq) : i \in 1..Len(inq')
  BY <1>1, <1>3
<1>5. CASE stage = "RCPT" /\ j = ri
  <2>1. Len(inq) + 1 \in 1..Len(inq') /\ To(ri) = Receivers[j]
    BY <1>1, <1>3, <1>5, ReceiversAssumption, LenProperties DEF To
  <2> QED BY <1>3, <1>5, <2>1 DEF InQueue
<1>6. CASE Sent(j)
  <2>1. Settled(Receivers[j]) \/ InQueue(Receivers[j]) \/ Receivers[j] \in sess.rcpts
    BY <1>2, <1>6 DEF SentInv
  <2>2. InQueue(Receivers[j]) => InQueue(Receivers[j])'
    BY <1>3, <1>4 DEF InQueue
  <2> QED BY <1>1, <2>1, <2>2 DEF Settled, Copies, server
<1> QED BY <1>1, <1>5, <1>6

\* RCPT is sent once for each receiver.
LEMMA SendKeepsCopies == Distinct /\ MailInv /\ OrderInv /\ CopyInv /\ Send => CopyInv'
<1> SUFFICES ASSUME Distinct, MailInv, OrderInv, CopyInv, Send PROVE CopyInv'
  OBVIOUS
<1>1. /\ InSession /\ at = "send" /\ UNCHANGED server /\ Len(inq) \in Nat
      /\ \A j \in 1..Len(Receivers) : Receivers[j] # Short =>
            (Sent(j)' <=> (Sent(j) \/ (stage = "RCPT" /\ j = ri)))
  BY SendEffect
<1>2. CASE conn # "open"
  <2>1. inq' = inq
    BY <1>2, SendEffect
  <2> QED BY <1>1, <2>1 DEF CopyInv, OneCopyEach, Copies, InQueue, server
<1>3. CASE conn = "open"
  <2>1. /\ Len(inq') = Len(inq) + 1
        /\ inq'[Len(inq) + 1].verb = stage /\ inq'[Len(inq) + 1].to = To(ri)
        /\ \A i \in 1..Len(inq) : inq'[i] = inq[i]
        /\ \A i \in 1..Len(inq') : i \in 1..Len(inq) \/ i = Len(inq) + 1
    BY <1>1, <1>3, SendEffect
  <2>2. \A r : InQueue(r)' => InQueue(r) \/ (stage = "RCPT" /\ r = To(ri))
    BY <2>1 DEF InQueue
  <2>3. ASSUME stage = "RCPT"
        PROVE  /\ ri \in 1..Len(Receivers) /\ To(ri) = Receivers[ri] /\ Receivers[ri] # Short
               /\ ~InQueue(To(ri)) /\ To(ri) \notin sess.rcpts /\ Copies(To(ri)) = {}
    <3>1. To(ri) \in Receiver
      BY <1>1, <2>3, SessionFacts DEF Mailing, Header
    <3>2. ri \in 1..Len(Receivers) /\ To(ri) = Receivers[ri] /\ Receivers[ri] # Short
      BY <3>1, ReceiversAssumption, LenProperties DEF To
    <3>3. ~Sent(ri)
      BY <1>1, <2>3, <3>2, ReceiversAssumption, LenProperties DEF Sent
    <3> QED BY <3>2, <3>3 DEF CopyInv
  <2>4. \A k, l \in 1..Len(inq') :
           inq'[k].verb = "RCPT" /\ inq'[l].verb = "RCPT" /\ inq'[k].to = inq'[l].to => k = l
    BY <2>1, <2>3 DEF CopyInv, InQueue
  <2>5. \A r \in Receiver : InQueue(r)' => r \notin sess.rcpts /\ Copies(r) = {}
    BY <2>2, <2>3 DEF CopyInv
  <2>6. ASSUME NEW j \in 1..Len(Receivers), Receivers[j] # Short, ~Sent(j)'
        PROVE  /\ ~InQueue(Receivers[j])' /\ Receivers[j] \notin sess.rcpts
               /\ Copies(Receivers[j]) = {}
    <3>1. ~Sent(j) /\ ~(stage = "RCPT" /\ j = ri)
      BY <1>1, <2>6
    <3>2. ~(stage = "RCPT" /\ Receivers[j] = To(ri))
      BY <2>3, <2>6, <3>1 DEF Distinct
    <3> QED BY <2>2, <2>6, <3>1, <3>2 DEF CopyInv
  <2>7. UNCHANGED <<sess, delivered, badData>>
    BY <1>1 DEF server
  <2> QED BY <2>4, <2>5, <2>6, <2>7 DEF CopyInv, OneCopyEach, Copies
<1> QED BY <1>2, <1>3

\* SendMail returns: what a failed login left in the queue is of no mail.
LEMMA ReturnKeepsRecords ==
    ASSUME MailInv, OrderInv, InSession, at' = "idle",
           UNCHANGED <<stage, ri, conn, inq, server>>,
           stage \in LoggingIn \/ inq = << >>, stage = "RCPT" => at # "recv"
    PROVE  /\ OrderInv' /\ DueInv' /\ SentInv'
           /\ CopyInv => CopyInv'
<1>1. ~Live' /\ ~InSession' /\ conn' # "shut"
  BY SessionFacts DEF Live, InSession
<1>2. \A i \in 1..Len(inq) : inq[i].verb \in LoggingIn
  BY EmptySeq DEF MailInv, AuthInv
<1>3. OrderInv'
  BY <1>1, <1>2 DEF OrderInv, server
<1>4. DueInv' /\ SentInv'
  BY <1>1 DEF DueInv, SentInv
<1>5. \A j : Sent(j)' <=> Sent(j)
  BY DEF Sent, LoggingIn, Logon, Mailing, Header
<1>6. CopyInv => CopyInv'
  BY <1>5 DEF CopyInv, OneCopyEach, Copies, InQueue, server
<1> QED BY <1>3, <1>4, <1>6

\* An answer is received and the client goes on.
LEMMA FollowKeepsRecords ==
    ASSUME MailInv, OrderInv, at = "recv", Follow(stage), UNCHANGED <<conn, inq, server>>
    PROVE  /\ OrderInv'
           /\ DueInv => DueInv'
           /\ SentInv => SentInv'
           /\ CopyInv => CopyInv'
<1>1. InSession /\ stage \in Answered /\ stage # "QUIT"
  BY DEF InSession, MailInv, QueueInv, Answered, Logon
<1>2. /\ at' = "send" /\ Follows(stage, stage')
      /\ stage' \in LoggingIn => ri' = 0
      /\ stage \in Unfinished => ri' = ri
      /\ \A j \in 1..Len(Receivers) : Receivers[j] # Short => (Sent(j)' <=> Sent(j))
  BY <1>1, FollowSends
<1>3. InSession' /\ conn' # "shut" /\ (Live' <=> Live)
  BY <1>1, <1>2, SessionFacts DEF InSession, Live
<1>4. inq # << >> => inq[Len(inq)].verb = stage
  BY <1>1 DEF MailInv, QueueInv
<1>5. OrderInv'
  <2>1. inq # << >> => (inq[Len(inq)].verb \in Unfinished => inq[Len(inq)].to = To(ri)')
    BY <1>1, <1>2, <1>4 DEF OrderInv, To
  <2> QED BY <1>2, <1>3, <2>1 DEF OrderInv, server
<1>6. ASSUME NEW V, NEW r, V \subseteq Text \cup {"DATA"}, Due(V, r) PROVE Due(V, r)'
  <2>1. CASE inq # << >>
    BY <1>6, <2>1 DEF Due
  <2>2. CASE inq = << >>
    <3>1. PICK v \in V : Follows(stage, v)
      BY <1>6, <2>2 DEF Due
    <3>2. stage \in {"RCPT", "DATA"} /\ stage \in Unfinished
      BY <1>1, <1>6, <3>1 DEF Follows, Answered, Logon, Text, Unfinished, Header
    <3>3. stage' = v
      BY <1>2, <3>1, <3>2 DEF Follows
    <3> QED BY <1>2, <1>3, <1>6, <2>2, <3>1, <3>2, <3>3 DEF Due, To
  <2> QED BY <2>1, <2>2
<1>7. ASSUME DueInv PROVE DueInv'
  <2> SUFFICES ASSUME Live' PROVE DueInv'
    BY DEF DueInv
  <2>1. PICK V : V = IF sess.data THEN Text ELSE {"DATA"}
    OBVIOUS
  <2>2. \A r \in sess.rcpts \ badData : Due(V, r)'
    BY <1>3, <1>6, <1>7, <2>1 DEF DueInv
  <2>3. ASSUME sess.data
        PROVE  \E r \in Receiver : Due({"HEADER"}, r)' \/ (sess.hdr = r /\ Due({"BODY", "END"}, r)')
    <3>1. {"HEADER"} \subseteq Text \cup {"DATA"} /\ {"BODY", "END"} \subseteq Text \cup {"DATA"}
      BY DEF Text
    <3>2. PICK r \in Receiver : Due({"HEADER"}, r) \/ (sess.hdr = r /\ Due({"BODY", "END"}, r))
      BY <1>3, <1>7, <2>3 DEF DueInv
    <3> QED BY <1>6, <3>1, <3>2
  <2>4. sess' = sess /\ badData' = badData
    BY DEF server
  <2> QED BY <2>1, <2>2, <2>3, <2>4 DEF DueInv
<1>8. SentInv => SentInv'
  BY <1>2, <1>3 DEF SentInv, Settled, Copies, InQueue, server
<1>9. CopyInv => CopyInv'
  BY <1>2 DEF CopyInv, OneCopyEach, Copies, InQueue, server
<1> QED BY <1>5, <1>7, <1>8, <1>9

\* One answer, or none on a connection that is gone.
LEMMA RecvKeepsRecords ==
    ASSUME MailInv, OrderInv, Recv \/ RecvGone
    PROVE  /\ OrderInv'
           /\ DueInv => DueInv'
           /\ SentInv => SentInv'
           /\ CopyInv => CopyInv'
<1>1. /\ at = "recv" /\ UNCHANGED <<conn, inq, server>>
      /\ \/ at' = "idle" /\ UNCHANGED <<stage, ri>> /\ stage \in Logon
         \/ Follow(stage)
  BY DEF Recv, RecvGone, Examine, Return
<1>2. CASE Follow(stage)
  BY <1>1, <1>2, FollowKeepsRecords
<1>3. CASE at' = "idle" /\ UNCHANGED <<stage, ri>> /\ stage \in Logon
  <2>1. InSession /\ stage \in LoggingIn /\ stage # "RCPT"
    BY <1>1, <1>3 DEF InSession, LoggingIn, Logon
  <2> QED BY <1>1, <1>3, <2>1, ReturnKeepsRecords
<1> QED BY <1>1, <1>2, <1>3

\* send fails: SendMail returns, or goes on as if the command had been sent.
LEMMA SendFailsOrSends ==
    ASSUME MailInv, SendFails
    PROVE  \/ Send
           \/ /\ InSession /\ at' = "idle" /\ UNCHANGED <<stage, ri, conn, inq, server>>
              /\ inq = << >> /\ at # "recv"
<1>1. conn = "closed" /\ inq = << >> /\ at = "send" /\ stage # "QUIT"
  BY DEF SendFails, MailInv, QueueInv
<1>2. CASE stage \in SendChecked
  BY <1>1, <1>2 DEF SendFails, Return, InSession
<1>3. CASE stage \notin SendChecked
  BY <1>1, <1>3 DEF SendFails, Send, Transmit
<1> QED BY <1>2, <1>3

\* QUIT closes the queue.
LEMMA CloseKeepsRecords ==
    ASSUME MailInv, OrderInv, CloseSocket
    PROVE  /\ OrderInv'
           /\ DueInv => DueInv'
           /\ SentInv => SentInv'
           /\ CopyInv => CopyInv'
<1> DEFINE c == Cmd("QUIT", Short)
<1>1. /\ at = "send" /\ stage = "QUIT" /\ Transmit(c) /\ at' = "idle"
      /\ conn' = (IF conn = "open" THEN "shut" ELSE conn)
      /\ UNCHANGED <<stage, ri, server>>
  BY DEF CloseSocket, Return
<1>2. InSession /\ inq \in Seq(Command) /\ Len(inq) \in Nat /\ conn \in {"open", "closed"}
      /\ c \in Command /\ c.verb = "QUIT"
  <2>1. InSession
    BY <1>1 DEF InSession
  <2> QED BY <2>1, SessionFacts, CommandIsTyped DEF Verbs
<1>3. \A j : Sent(j)' /\ Sent(j)
  BY <1>1 DEF Sent
<1> HIDE DEF c
<1>4. CASE conn = "closed"
  <2>1. inq' = << >> /\ inq = << >> /\ Len(inq') = 0 /\ conn' = "closed" /\ ~Live' /\ ~InSession'
    BY <1>1, <1>4, EmptySeq DEF Transmit, MailInv, QueueInv, Live, InSession
  <2>2. OrderInv'
    BY <1>1, <2>1 DEF OrderInv, server
  <2>3. DueInv' /\ SentInv'
    BY <2>1 DEF DueInv, SentInv
  <2>4. CopyInv => CopyInv'
    BY <1>1, <1>3, <2>1 DEF CopyInv, OneCopyEach, Copies, InQueue, server
  <2> QED BY <2>2, <2>3, <2>4
<1>5. CASE conn = "open"
  <2>1. /\ inq' \in Seq(Command)
        /\ Len(inq') = Len(inq) + 1 /\ inq'[Len(inq) + 1] = c
        /\ \A i \in 1..Len(inq) : inq'[i] = inq[i]
    BY <1>1, <1>2, <1>5, TransmitEffect
  <2>2. conn' = "shut" /\ Live' /\ ~InSession' /\ Live
    BY <1>1, <1>2, <1>5 DEF Live, InSession
  <2>3. \A i \in 1..Len(inq') : i \in 1..Len(inq) \/ (i = Len(inq) + 1 /\ inq'[i].verb = "QUIT")
    BY <1>2, <2>1
  <2>4. ASSUME NEW i \in 1..(Len(inq') - 1)
        PROVE  /\ Follows(inq'[i].verb, inq'[i + 1].verb)
               /\ inq'[i].verb \in Unfinished => inq'[i + 1].to = inq'[i].to
    <3>1. i \in 1..Len(inq) /\ inq'[i] = inq[i]
      BY <1>2, <2>1
    <3>2. CASE i < Len(inq)
      <4>1. i \in 1..(Len(inq) - 1) /\ i + 1 \in 1..Len(inq)
        BY <1>2, <3>1, <3>2
      <4>2. Follows(inq[i].verb, inq[i + 1].verb)
        BY <1>2, <4>1 DEF MailInv, QueueInv
      <4> QED BY <2>1, <3>1, <4>1, <4>2 DEF OrderInv
    <3>3. CASE i = Len(inq)
      <4>1. inq # << >>
        BY <3>1, <3>3, EmptySeq
      <4>2. Follows(inq[i].verb, "QUIT")
        BY <1>1, <1>2, <3>3, <4>1 DEF MailInv, QueueInv
      <4>3. inq[i].verb \notin Unfinished
        BY <4>2 DEF Follows, Unfinished, Header
      <4> QED BY <1>2, <2>1, <3>1, <3>3, <4>2, <4>3
    <3> QED BY <1>2, <3>1, <3>2, <3>3
  <2>5. \A i \in 1..Len(inq') : inq'[i].verb \in Mailing => inq'[i].to \in Receiver
    BY <2>1, <2>3 DEF OrderInv, Mailing, Header
  <2>6. OrderInv'
    BY <1>1, <1>2, <2>1, <2>2, <2>4, <2>5 DEF OrderInv, server
  <2>7. ASSUME NEW V, NEW r, V \subseteq Text \cup {"DATA"}, Due(V, r) PROVE Due(V, r)'
    <3>1. inq # << >>
      BY <1>1, <2>7 DEF Due, Text
    <3>2. 1 \in 1..Len(inq) /\ inq' # << >>
      BY <1>2, <2>1, <3>1, EmptySeq
    <3> QED BY <2>1, <2>7, <3>1, <3>2 DEF Due
  <2>8. ASSUME DueInv PROVE DueInv'
    <3>1. PICK V : V = IF sess.data THEN Text ELSE {"DATA"}
      OBVIOUS
    <3>2. \A r \in sess.rcpts \ badData : Due(V, r)'
      BY <2>2, <2>7, <2>8, <3>1 DEF DueInv
    <3>3. ASSUME sess.data
          PROVE  \E r \in Receiver : Due({"HEADER"}, r)' \/ (sess.hdr = r /\ Due({"BODY", "END"}, r)')
      <4>1. {"HEADER"} \subseteq Text \cup {"DATA"} /\ {"BODY", "END"} \subseteq Text \cup {"DATA"}
        BY DEF Text
      <4>2. PICK r \in Receiver : Due({"HEADER"}, r) \/ (sess.hdr = r /\ Due({"BODY", "END"}, r))
        BY <2>2, <2>8, <3>3 DEF DueInv
      <4> QED BY <2>7, <4>1, <4>2
    <3>4. sess' = sess /\ badData' = badData
      BY <1>1 DEF server
    <3> QED BY <3>1, <3>2, <3>3, <3>4 DEF DueInv
  <2>9. \A r : InQueue(r)' <=> InQueue(r)
    <3>1. \A i \in 1..Len(inq) : i \in 1..Len(inq')
      BY <1>2, <2>1
    <3> QED BY <2>1, <2>3, <3>1 DEF InQueue
  <2>10. SentInv => SentInv'
    BY <1>1, <1>3, <2>2, <2>9 DEF SentInv, Settled, Copies, server
  <2>11. ASSUME CopyInv PROVE CopyInv'
    <3>1. \A k, l \in 1..Len(inq') :
             inq'[k].verb = "RCPT" /\ inq'[l].verb = "RCPT" /\ inq'[k].to = inq'[l].to => k = l
      BY <2>1, <2>3, <2>11 DEF CopyInv
    <3> QED BY <1>1, <1>3, <2>9, <2>11, <3>1 DEF CopyInv, OneCopyEach, Copies, server
  <2> QED BY <2>6, <2>8, <2>10, <2>11
<1> QED BY <1>2, <1>4, <1>5

\* A mail starts with nobody asked for.
LEMMA ConnectStartsRecords ==
    ASSUME MailInv, CReateSocket
    PROVE  OrderInv' /\ DueInv' /\ SentInv' /\ CopyInv'
<1>1. /\ at' = "recv" /\ stage' = "GREET" /\ ri' = 0 /\ conn' = "open"
      /\ inq' = <<Cmd("GREET", Short)>> /\ sess' = NewSession
      /\ delivered' = [x \in Receiver \X Receiver |-> 0] /\ refused' = {} /\ badData' = {}
  BY DEF CReateSocket
<1>2. Len(inq') = 1 /\ inq'[1].verb = "GREET" /\ inq' # << >>
  BY <1>1 DEF Cmd
<1>3. sess'.rcpts = {} /\ ~sess'.data /\ Live'
  BY <1>1 DEF NewSession, Live, InSession
<1>4. \A j : ~Sent(j)'
  BY <1>1 DEF Sent, Mailing, Header
<1>5. \A r : ~InQueue(r)' /\ Copies(r)' = {}
  BY <1>1, <1>2 DEF InQueue, Copies
<1>6. OrderInv'
  BY <1>1, <1>2, <1>3 DEF OrderInv, Mailing, Header, Unfinished
<1>7. DueInv' /\ SentInv'
  BY <1>1, <1>3, <1>4 DEF DueInv, SentInv
<1>8. CopyInv'
  BY <1>2, <1>3, <1>5 DEF CopyInv, OneCopyEach
<1> QED BY <1>6, <1>7, <1>8

\* The connection is not made, or ends: the server takes nothing more.
LEMMA DeadKeepsRecords ==
    ASSUME MailInv, OrderInv, UNCHANGED <<stage, ri, server>>, (at = "recv" <=> at' = "recv"),
           inq' = << >>, ~Live', conn' # "shut", InSession' => InSession
    PROVE  /\ OrderInv' /\ DueInv' /\ SentInv'
           /\ CopyInv => CopyInv'
<1>1. Len(inq') = 0
  BY EmptySeq
<1>2. OrderInv' /\ DueInv' /\ SentInv'
  BY <1>1 DEF OrderInv, DueInv, SentInv, server
<1>3. /\ \A j : Sent(j)' <=> Sent(j)
      /\ \A r : ~InQueue(r)'
  BY <1>1 DEF Sent, InQueue
<1>4. CopyInv => CopyInv'
  BY <1>1, <1>3 DEF CopyInv, OneCopyEach, Copies, server
<1> QED BY <1>2, <1>4

\* The steps that are not the server's, and leave no session or none behind.
LEMMA EndsKeepRecords ==
    ASSUME MailInv, OrderInv,
           CReateSocketFails \/ ResolveFails \/ ServerCloses \/ ConnectionReset
    PROVE  /\ OrderInv' /\ DueInv' /\ SentInv'
           /\ CopyInv => CopyInv'
<1>1. CASE CReateSocketFails \/ ResolveFails
  <2>1. /\ at = "idle" /\ at' \in {"idle", "crashed"} /\ conn' = "none" /\ inq' = << >>
        /\ UNCHANGED <<stage, ri, server>>
    BY <1>1 DEF CReateSocketFails, ResolveFails, Return
  <2>2. ~Live' /\ ~InSession' /\ (at = "recv" <=> at' = "recv") /\ conn' # "shut"
    BY <2>1 DEF Live, InSession
  <2> QED BY <2>1, <2>2, DeadKeepsRecords
<1>2. CASE ServerCloses \/ ConnectionReset
  <2>1. /\ conn' \in {"closed", "reset"} /\ inq' = << >> /\ at' = at
        /\ UNCHANGED <<stage, ri, server>>
    BY <1>2 DEF ServerCloses, ConnectionReset, client
  <2>2. ~Live' /\ (InSession' => InSession) /\ (at = "recv" <=> at' = "recv") /\ conn' # "shut"
    BY <2>1 DEF Live, InSession
  <2> QED BY <2>1, <2>2, DeadKeepsRecords
<1> QED BY <1>1, <1>2

\* send fails.
LEMMA SendFailsKeepsRecords ==
    ASSUME MailInv, RecordInv, SendFails
    PROVE  /\ RecordInv'
           /\ Distinct /\ CopyInv => CopyInv'
<1>1. CASE Send
  BY <1>1, SendKeepsOrder, SendKeepsDue, SendKeepsSent, SendKeepsCopies DEF RecordInv
<1>2. CASE /\ InSession /\ at' = "idle" /\ UNCHANGED <<stage, ri, conn, inq, server>>
           /\ inq = << >> /\ at # "recv"
  BY <1>2, ReturnKeepsRecords DEF RecordInv
<1> QED BY <1>1, <1>2, SendFailsOrSends

\* Every step keeps the records, and the copies when no receiver is in the
\* list twice.
LEMMA StepKeepsRecords ==
    ASSUME MailInv, RecordInv, [Next]_vars
    PROVE  /\ RecordInv'
           /\ Distinct /\ CopyInv => CopyInv'
<1>1. CASE CReateSocket
  BY <1>1, ConnectStartsRecords DEF RecordInv
<1>2. CASE CReateSocketFails \/ ResolveFails \/ ServerCloses \/ ConnectionReset
  BY <1>2, EndsKeepRecords DEF RecordInv
<1>3. CASE Send
  BY <1>3, SendKeepsOrder, SendKeepsDue, SendKeepsSent, SendKeepsCopies DEF RecordInv
<1>4. CASE SendFails
  BY <1>4, SendFailsKeepsRecords
<1>5. CASE Recv \/ RecvGone
  BY <1>5, RecvKeepsRecords DEF RecordInv
<1>6. CASE CloseSocket
  BY <1>6, CloseKeepsRecords DEF RecordInv
<1>7. CASE Serve
  BY <1>7, ServeOrder, ServeKeepsDue, ServeKeepsSent, ServeKeepsCopies DEF RecordInv
<1>8. CASE Done \/ UNCHANGED vars
  <2>1. UNCHANGED <<at, stage, ri, conn, inq, sess, delivered, refused, badData>>
    BY <1>8 DEF Done, vars, client, server
  <2>2. OrderInv' /\ SentInv'
    BY <2>1 DEF RecordInv, OrderInv, SentInv, Live, InSession, Sent, InQueue, Settled, Copies, To
  <2>3. DueInv'
    BY <2>1 DEF RecordInv, DueInv, Due, Live, InSession, To
  <2>4. CopyInv => CopyInv'
    BY <2>1 DEF CopyInv, OneCopyEach, Sent, InQueue, Copies
  <2> QED BY <2>2, <2>3, <2>4 DEF RecordInv
<1> QED BY <1>1, <1>2, <1>3, <1>4, <1>5, <1>6, <1>7, <1>8 DEF Next, SendMail

\* Before the first mail nobody is asked for.
LEMMA RecordsStart == Init => RecordInv /\ CopyInv
<1> SUFFICES ASSUME Init PROVE RecordInv /\ CopyInv
  OBVIOUS
<1>1. /\ at = "idle" /\ stage = "QUIT" /\ conn = "none" /\ inq = << >> /\ Len(inq) = 0
      /\ sess.rcpts = {} /\ ~sess.data
      /\ delivered = [x \in Receiver \X Receiver |-> 0] /\ refused = {} /\ badData = {}
  BY EmptySeq DEF Init, NewSession
<1>2. ~Live /\ ~InSession /\ \A j : Sent(j)
  BY <1>1 DEF Live, InSession, Sent
<1>3. \A r : ~InQueue(r) /\ Copies(r) = {}
  BY <1>1 DEF InQueue, Copies
<1>4. RecordInv
  BY <1>1, <1>2 DEF RecordInv, OrderInv, DueInv, SentInv
<1>5. CopyInv
  BY <1>1, <1>2, <1>3 DEF CopyInv, OneCopyEach
<1> QED BY <1>4, <1>5
-----------------------------------------------------------------------------
(* The theorems on what the receivers get. *)

\* The records hold in every reachable state.
THEOREM MailRecords == Spec => []RecordInv
<1>1. Init => RecordInv
  BY RecordsStart
<1>2. MailInv /\ RecordInv /\ [Next]_vars => RecordInv'
  BY StepKeepsRecords
<1> QED BY <1>1, <1>2, MailInvariant, PTL DEF Spec

\* After a SendMail that returned true on a connection that stood to the end,
\* every receiver of the list has a copy or was refused himself, whatever the
\* list and whichever commands the server refuses: one that is refused does
\* not keep the mail from the others.
THEOREM OthersGetTheirs == Spec => []RefusedAlone
<1>1. MailInv /\ RecordInv => RefusedAlone
  <2> SUFFICES ASSUME MailInv, RecordInv, conn = "shut", inq = << >>,
                      NEW i \in 1..Len(Receivers), Receivers[i] # Short
               PROVE  Copies(Receivers[i]) # {} \/ Receivers[i] \in refused
    BY DEF RefusedAlone
  <2>1. Live /\ ~InSession /\ stage = "QUIT"
    BY DEF RecordInv, OrderInv, Live, InSession
  <2>2. Sent(i) /\ ~InQueue(Receivers[i])
    BY <2>1, EmptySeq DEF Sent, InQueue
  <2>3. \A V, r : ~Due(V, r)
    BY <2>1 DEF Due
  <2>4. sess.rcpts \subseteq badData /\ badData \subseteq refused
    BY <2>1, <2>3 DEF RecordInv, DueInv, OrderInv
  <2> QED BY <2>1, <2>2, <2>4 DEF RecordInv, SentInv, Settled
<1> QED BY <1>1, MailInvariant, MailRecords, PTL

\* When no receiver is in the list twice, none gets the mail twice, and one
\* that gets a copy with another's name in the header is one of whom the
\* server refused DATA: the client sends no RSET after that.
THEOREM NoSecondCopy == Distinct /\ Spec => []OneCopyEach
<1>1. Init => CopyInv
  BY RecordsStart
<1>2. Distinct /\ MailInv /\ RecordInv /\ CopyInv /\ [Next]_vars => CopyInv'
  BY StepKeepsRecords
<1>3. CopyInv => OneCopyEach
  BY DEF CopyInv
<1>4. Distinct => Distinct'
  BY DEF Distinct
<1> QED BY <1>1, <1>2, <1>3, <1>4, MailInvariant, MailRecords, PTL DEF Spec
=============================================================================
