----------------------------- MODULE MailClient -----------------------------
(***************************************************************************)
(* CSendMail (src/MonitorZSoftWare/sendmail.cpp), called once for every    *)
(* message of the monitor (SendMail and CallbackFunc of                    *)
(* MonitorZSoftWare.cpp), and the SMTP server it talks to.                 *)
(*                                                                         *)
(* The client sends a command and calls recv once; the code at the start   *)
(* of m_cReceiveBuff decides in Logon and is not looked at afterwards.     *)
(* The server is external: it takes the commands in order, may refuse any, *)
(* answers EHLO with several lines, and may drop the connection.  A recv   *)
(* takes any number of whole lines; when the server is gone it leaves the  *)
(* buffer as it was.                                                       *)
(***************************************************************************)
EXTENDS Naturals, Sequences

CONSTANTS
    Receiver,   \* mail addresses
    Short,      \* an entry of at most two characters, which is skipped
    Receivers,  \* the entries of the receiver list, in order
    MaxMails,   \* bound: calls of SendMail
    EhloLines   \* bound: lines of the answer to EHLO

ASSUME ReceiversAssumption ==
    /\ Short \notin Receiver
    /\ Receivers \in Seq(Receiver \cup {Short})
    /\ MaxMails \in Nat /\ EhloLines \in Nat \ {0}

VARIABLES
    at,         \* what the client does next: "idle", "send", "recv" or "crashed"
    stage,      \* the command it is about
    ri,         \* index of the receiver in turn
    buf,        \* the code at the start of m_cReceiveBuff
    result,     \* what the last SendMail returned
    mails,      \* calls of SendMail so far
    wsa,        \* WSAStartup calls not undone by WSACleanup
    sockets,    \* sockets not closed
    conn,       \* the connection: "none", "open", "closed" by the server or
                \* "shut" by the client
    inq,        \* commands the server has not taken yet
    outq,       \* lines the client has not received yet
    sess,       \* the server's side of the session
    delivered,  \* copies accepted, by recipient and by the receiver they name
    refused,    \* receivers of whom RCPT, DATA or the mail was refused
    badData     \* receivers in a transaction whose DATA was refused

client == <<at, stage, ri, buf, result, mails, wsa, sockets>>
server == <<sess, delivered, refused, badData>>
vars   == <<client, conn, inq, outq, server>>
-----------------------------------------------------------------------------
Cmd(verb, to) == [verb |-> verb, to |-> to]

Logon == {"EHLO", "AUTH", "USER", "PASS"}
Header == {"MAIL", "RCPT", "DATA", "HEADER"}
Verbs == {"GREET", "QUIT", "BODY", "END"} \cup Logon \cup Header
Codes == {"", "220", "221", "235", "250", "334", "354", "500"}

\* Mutant: the answer to the password is compared with that to the user name.
ExpectedCopied == [EHLO |-> "250", AUTH |-> "334", USER |-> "334", PASS |-> "334"]

\* Logon compares these codes; every other answer is received and ignored.
Expected == [EHLO |-> "250", AUTH |-> "334", USER |-> "334", PASS |-> "235"]

\* SendHead and SendTextBody test what send returned.
SendChecked == Header \cup {"BODY"}

\* Mutant: the client also waits for an answer to the text of the mail.
AnsweredBody == {"GREET", "MAIL", "RCPT", "DATA", "BODY"} \cup Logon

\* The commands after which the client calls recv.
Answered == {"GREET", "MAIL", "RCPT", "DATA"} \cup Logon

\* Mutants: short entries are not skipped; the pointer is not moved past the
\* entry just used; the last entry is left out.
NextReceiverShort(i) == IF i < Len(Receivers) THEN i + 1 ELSE 0

NextReceiverAgain(i) ==
    IF \E j \in 1..Len(Receivers) : j >= i /\ Receivers[j] # Short
    THEN CHOOSE j \in 1..Len(Receivers) : j >= i /\ Receivers[j] # Short ELSE 0

NextReceiverButLast(i) ==
    LET Rest == {j \in (i + 1)..(Len(Receivers) - 1) : Receivers[j] # Short}
    IN  IF Rest = {} THEN 0 ELSE CHOOSE j \in Rest : \A k \in Rest : j <= k

\* The next entry of the list that is long enough to be an address, if any.
NextReceiver(i) ==
    LET Rest == {j \in (i + 1)..Len(Receivers) : Receivers[j] # Short}
    IN  IF Rest = {} THEN 0 ELSE CHOOSE j \in Rest : \A k \in Rest : j <= k

To(i) == IF i \in DOMAIN Receivers THEN Receivers[i] ELSE Short

NewSession == [auth |-> "no", mail |-> FALSE, rcpts |-> {}, data |-> FALSE, hdr |-> Short]

Init ==
    /\ at = "idle" /\ stage = "QUIT" /\ ri = 0 /\ buf = ""
    /\ result = "none" /\ mails = 0 /\ wsa = 0 /\ sockets = 0
    /\ conn = "none" /\ inq = << >> /\ outq = << >>
    /\ sess = NewSession
    /\ delivered = [x \in Receiver \X Receiver |-> 0]
    /\ refused = {} /\ badData = {}
-----------------------------------------------------------------------------
(* The client. *)

Return(r) == at' = "idle" /\ result' = r

\* SendMail is called, and CReateSocket connects.
CReateSocket ==
    /\ at = "idle" /\ mails < MaxMails
    /\ inq = << >>
    /\ mails' = mails + 1
    /\ wsa' = wsa + 1 /\ sockets' = sockets + 1
    /\ conn' = "open"
    /\ at' = "recv" /\ stage' = "GREET" /\ ri' = 0 /\ buf' = ""
    /\ inq' = <<Cmd("GREET", Short)>> /\ outq' = << >>
    /\ sess' = NewSession
    /\ delivered' = [x \in Receiver \X Receiver |-> 0]
    /\ refused' = {} /\ badData' = {}
    /\ result' = "none"

\* CReateSocket fails: in WSAStartup, in socket, or in connect.  What was
\* acquired before is not given back.
CReateSocketFails ==
    /\ at = "idle" /\ mails < MaxMails
    /\ inq = << >>
    /\ mails' = mails + 1
    /\ \/ UNCHANGED <<wsa, sockets>>
       \/ wsa' = wsa + 1 /\ UNCHANGED sockets
       \/ wsa' = wsa + 1 /\ sockets' = sockets + 1
    /\ Return("false")
    /\ conn' = "none" /\ outq' = << >>
    /\ UNCHANGED <<stage, ri, buf, inq, server>>

\* gethostbyname returns NULL and CReateSocket reads through it.
ResolveFails ==
    /\ at = "idle" /\ mails < MaxMails
    /\ inq = << >>
    /\ mails' = mails + 1
    /\ wsa' = wsa + 1 /\ sockets' = sockets + 1
    /\ at' = "crashed" /\ result' = "none"
    /\ conn' = "none" /\ outq' = << >>
    /\ UNCHANGED <<stage, ri, buf, inq, server>>

\* What follows stage s once it is done with: the next command, the first
\* command of the next receiver, or CloseSocket.
Follow(s) ==
    LET next == [GREET |-> "EHLO", EHLO |-> "AUTH", AUTH |-> "USER", USER |-> "PASS",
                 MAIL |-> "RCPT", RCPT |-> "DATA", DATA |-> "HEADER",
                 HEADER |-> "BODY", BODY |-> "END"]
    IN  /\ at' = "send"
        /\ IF s \in {"PASS", "END"}
           THEN /\ stage' = IF NextReceiver(ri) = 0 THEN "QUIT" ELSE "MAIL"
                /\ ri' = NextReceiver(ri)
           ELSE stage' = next[s] /\ UNCHANGED ri

\* Once the server has closed, a command goes nowhere.
Transmit(c) == inq' = IF conn = "open" THEN Append(inq, c) ELSE inq

\* send succeeds (also, for a while, after the server has closed).
Send ==
    /\ at = "send" /\ stage # "QUIT"
    /\ Transmit(Cmd(stage, To(ri)))
    /\ IF stage \in Answered
       THEN at' = "recv" /\ UNCHANGED <<stage, ri>>
       ELSE Follow(stage)
    /\ UNCHANGED <<buf, result, mails, wsa, sockets, conn, outq, server>>

\* send fails: SendHead and SendTextBody make SendMail return, the others go on.
SendFails ==
    /\ at = "send" /\ stage # "QUIT"
    /\ conn = "closed"
    /\ IF stage \in SendChecked
       THEN Return("false") /\ UNCHANGED <<stage, ri>>
       ELSE /\ IF stage \in Answered
               THEN at' = "recv" /\ UNCHANGED <<stage, ri>>
               ELSE Follow(stage)
            /\ UNCHANGED result
    /\ UNCHANGED <<buf, mails, wsa, sockets, conn, inq, outq, server>>

\* The answer in the buffer is looked at in Logon only; a wrong one makes
\* SendMail return, with the socket open.
Examine(code) ==
    IF stage \in Logon /\ code # Expected[stage]
    THEN Return("false") /\ UNCHANGED <<stage, ri>>
    ELSE Follow(stage) /\ UNCHANGED result

Recv ==
    /\ at = "recv"
    /\ \E n \in 1..Len(outq) :
          /\ buf' = outq[1]
          /\ outq' = SubSeq(outq, n + 1, Len(outq))
    /\ Examine(buf')
    /\ UNCHANGED <<mails, wsa, sockets, conn, inq, server>>

\* Mutant: recv is called again until it returns something.
RecvGoneRetry ==
    /\ at = "recv"
    /\ conn = "closed" /\ outq = << >>
    /\ UNCHANGED vars

\* recv returns 0 or an error: the buffer keeps the answer before this one.
RecvGone ==
    /\ at = "recv"
    /\ conn = "closed" /\ outq = << >>
    /\ Examine(buf)
    /\ UNCHANGED <<buf, mails, wsa, sockets, conn, inq, outq, server>>

\* QUIT is sent, the socket is closed and what was received and not read is
\* discarded with it.
CloseSocket ==
    /\ at = "send" /\ stage = "QUIT"
    /\ Transmit(Cmd("QUIT", Short))
    /\ sockets' = sockets - 1 /\ wsa' = wsa - 1
    /\ conn' = IF conn = "open" THEN "shut" ELSE conn
    /\ outq' = << >>
    /\ Return("true")
    /\ UNCHANGED <<stage, ri, buf, mails, server>>
-----------------------------------------------------------------------------
(* The server. *)

\* The lines of an answer travel to the client unless it has closed.
Reply(lines) == outq' = IF conn = "open" THEN outq \o lines ELSE outq

NoRecord == UNCHANGED <<delivered, refused, badData>>

Respond(code, s) == Reply(<<code>>) /\ sess' = s

Greet(c) == c.verb = "GREET" /\ Respond("220", sess) /\ NoRecord

\* EHLO is answered in several lines.
Ehlo(c) ==
    /\ c.verb = "EHLO"
    /\ UNCHANGED sess /\ NoRecord
    /\ \/ \E n \in 1..EhloLines : Reply([k \in 1..n |-> "250"])
       \/ Reply(<<"500">>)

Authenticate(c) ==
    /\ NoRecord
    /\ \/ /\ c.verb = "AUTH"
          /\ Respond("334", [sess EXCEPT !.auth = "user"])
       \/ /\ c.verb = "USER" /\ sess.auth = "user"
          /\ Respond("334", [sess EXCEPT !.auth = "pass"])
       \/ /\ c.verb = "PASS" /\ sess.auth = "pass"
          /\ \/ Respond("235", [sess EXCEPT !.auth = "yes"])
             \/ Respond("500", [sess EXCEPT !.auth = "no"])

\* MAIL opens a transaction, RCPT adds a recipient to it.
Envelope(c) ==
    \/ /\ c.verb = "MAIL" /\ sess.auth = "yes" /\ ~sess.mail
       /\ Respond("250", [sess EXCEPT !.mail = TRUE, !.rcpts = {}])
       /\ NoRecord
    \/ /\ c.verb = "RCPT" /\ sess.mail
       /\ \/ Respond("250", [sess EXCEPT !.rcpts = @ \cup {c.to}]) /\ UNCHANGED refused
          \/ Respond("500", sess) /\ refused' = refused \cup {c.to}
       /\ UNCHANGED <<delivered, badData>>

\* DATA is accepted, or refused; a server that refuses it may or may not
\* forget the transaction.
Data(c) ==
    /\ c.verb = "DATA" /\ sess.rcpts # {}
    /\ \/ Respond("354", [sess EXCEPT !.data = TRUE]) /\ NoRecord
       \/ /\ \/ Respond("500", sess)
             \/ Respond("500", [NewSession EXCEPT !.auth = sess.auth])
          /\ refused' = refused \cup sess.rcpts
          /\ badData' = badData \cup sess.rcpts
          /\ UNCHANGED delivered

\* The lines of the mail, and the "." that ends it.
Content(c) ==
    /\ sess.data
    /\ sess' = CASE c.verb = "HEADER" -> [sess EXCEPT !.hdr = c.to]
                 [] c.verb = "END"    -> [NewSession EXCEPT !.auth = sess.auth]
                 [] OTHER             -> sess
    /\ IF c.verb # "END"
       THEN UNCHANGED outq /\ NoRecord
       ELSE /\ UNCHANGED badData
            /\ \/ /\ Reply(<<"250">>)
                  /\ delivered' = [x \in Receiver \X Receiver |->
                        delivered[x] + IF x[1] \in sess.rcpts /\ x[2] = sess.hdr THEN 1 ELSE 0]
                  /\ UNCHANGED refused
               \/ /\ Reply(<<"500">>)
                  /\ refused' = refused \cup sess.rcpts
                  /\ UNCHANGED delivered

\* Whatever is not due is refused; a mail whose MAIL or RCPT is not due is not
\* for this server.
Refuse(c) ==
    /\ \/ c.verb = "USER" /\ sess.auth # "user"
       \/ c.verb = "PASS" /\ sess.auth # "pass"
       \/ c.verb = "MAIL" /\ (sess.auth # "yes" \/ sess.mail)
       \/ c.verb = "RCPT" /\ ~sess.mail
       \/ c.verb = "DATA" /\ sess.rcpts = {}
       \/ c.verb \in {"HEADER", "BODY", "END"}
    /\ Respond("500", sess)
    /\ refused' = IF c.verb = "RCPT" THEN refused \cup {c.to} ELSE refused
    /\ UNCHANGED <<delivered, badData>>

Serve ==
    /\ inq # << >>
    /\ inq' = Tail(inq)
    /\ LET c == Head(inq)
       IN  IF sess.data THEN Content(c)
           ELSE \/ Greet(c) \/ Ehlo(c) \/ Authenticate(c)
                \/ Envelope(c) \/ Data(c) \/ Refuse(c)
                \/ c.verb = "QUIT" /\ Respond("221", sess) /\ NoRecord
    /\ UNCHANGED <<client, conn>>

\* The server drops the connection: a restart, or an idle timeout.
ServerCloses ==
    /\ conn = "open"
    /\ conn' = "closed"
    /\ inq' = << >>
    /\ UNCHANGED <<client, outq, server>>

\* The client closed with answers unread, or the server answers a closed
\* socket: the connection is reset and what the server had not read is lost.
ConnectionReset ==
    /\ conn = "shut" /\ inq # << >>
    /\ conn' = "reset"
    /\ inq' = << >>
    /\ UNCHANGED <<client, outq, server>>
-----------------------------------------------------------------------------
SendMail ==
    \/ CReateSocket \/ CReateSocketFails \/ ResolveFails
    \/ Send \/ SendFails \/ Recv \/ RecvGone \/ CloseSocket

\* Nothing is left to be done once all mails are sent or the program crashed.
Done ==
    /\ at = "crashed" \/ (at = "idle" /\ mails = MaxMails)
    /\ inq = << >>
    /\ UNCHANGED vars

Next == SendMail \/ Serve \/ ServerCloses \/ ConnectionReset \/ Done

Spec == Init /\ [][Next]_vars

\* The client runs, and a server that keeps the connection takes its commands.
FairSpec == Spec /\ WF_vars(SendMail) /\ WF_vars(Serve)
-----------------------------------------------------------------------------
TypeOK ==
    /\ at \in {"idle", "send", "recv", "crashed"}
    /\ stage \in Verbs
    /\ ri \in 0..Len(Receivers)
    /\ stage \in Header \cup {"BODY", "END"} => To(ri) \in Receiver
    /\ buf \in Codes
    /\ result \in {"none", "true", "false"}
    /\ mails \in 0..MaxMails
    /\ wsa \in 0..mails /\ sockets \in 0..wsa
    /\ conn \in {"none", "open", "closed", "shut", "reset"}
    /\ inq \in Seq([verb : Verbs, to : Receiver \cup {Short}])
    /\ outq \in Seq(Codes)
    /\ sess \in [auth : {"no", "user", "pass", "yes"}, mail : BOOLEAN,
                 rcpts : SUBSET Receiver, data : BOOLEAN, hdr : Receiver \cup {Short}]
    /\ delivered \in [Receiver \X Receiver -> Nat]
    /\ refused \in SUBSET Receiver /\ badData \in SUBSET Receiver

\* No command of a mail is sent before the server has accepted the password,
\* although the answers are read from a buffer that a failed recv leaves as
\* it was and that may hold the answer to an earlier command.
AuthBeforeMail ==
    at = "send" /\ stage \in Header \cup {"BODY", "END"} => sess.auth = "yes"

\* The client never waits for a server that waits for the client: in recv on a
\* connection that stands, an answer is there or a command is on its way.
NoMutualWait ==
    at = "recv" /\ conn = "open" => outq # << >> \/ inq # << >>

Copies(r) == {x \in Receiver \X Receiver : x[1] = r /\ delivered[x] > 0}

\* A receiver gets at most one copy, and one that names another receiver only
\* if the server once refused DATA for a mail to this one (the client never
\* sends RSET, so such a server may keep the recipient in the envelope).
OneCopyEach ==
    \A r \in Receiver :
        /\ \A x \in Copies(r) : delivered[x] = 1
        /\ \A x, y \in Copies(r) : x = y
        /\ \A x \in Copies(r) : x[2] # r => r \in badData

\* One receiver that is refused does not keep the mail from the others: after
\* a SendMail that returned true on a connection that stood to the end, each
\* receiver has a copy or was refused himself.
RefusedAlone ==
    result = "true" /\ conn = "shut" /\ inq = << >> =>
        \A i \in 1..Len(Receivers) :
            Receivers[i] # Short =>
                \/ Copies(Receivers[i]) # {}
                \/ Receivers[i] \in refused

\* SendMail returns, or the program dies in it: recv has no timeout, and still
\* a server that takes its commands never leaves the client waiting.
MailReturns == (at \in {"send", "recv"}) ~> (at = "idle")

\* "E-mail test success" (MonitorZSoftWare.cpp:128-129): once SendMail has
\* returned true and the server has taken all commands, every receiver has
\* the mail.
SuccessMeansDelivered ==
    result = "true" /\ conn = "shut" /\ inq = << >> =>
        \A i \in 1..Len(Receivers) :
            Receivers[i] # Short => Copies(Receivers[i]) # {}
=============================================================================
