---------------------------- MODULE SessionProofs ----------------------------
(***************************************************************************)
(* Proofs about the session that Exchange carries from a client to a       *)
(* server: the situations a session goes through, and what follows of      *)
(* them for every bound, every number of commands and every server.        *)
(*                                                                         *)
(* They are about orderly sessions.  The others are where the code fails:  *)
(* see the violations found by the runs of Exchange and of ResponseFlow.   *)
(***************************************************************************)
EXTENDS ExchangeProofs

\* Commands of prepared statements.
PreparedComs == {"StmtPrepare", "StmtExecute", "StmtSendLongData", "StmtClose"}

\* The replies are of the shapes that the accumulator follows to their end, and every
\* command is answered.
Orderly ==
    /\ DeprecateEof /\ ~OptionalMetadata
    /\ RowsLookLikeRows
    /\ \A c \in Commands : c.com \notin PreparedComs

-----------------------------------------------------------------------------
(* Queues.                                                                 *)

Just(s, role)  == Len(s) = 1 /\ s[1].pkt.role = role
Only(s, roles) == \A i \in 1..Len(s) : s[i].pkt.role \in roles
IfAny(s, role) == s = <<>> \/ Just(s, role)

SslThenHello(s) == Len(s) = 2 /\ s[1].pkt.role = "sslRequest" /\ s[2].pkt.role = "hello"
SslThenLogin(s) == Len(s) = 2 /\ s[1].pkt.role = "sslRequest" /\ s[2].pkt.role = "response"
MoreThenOk(s)   == Len(s) = 2 /\ s[1].pkt.role = "authMore" /\ s[2].pkt.role = "ok"

\* Data of the authentication, then its OK.
Accepted(s) ==
    s # <<>> /\ \A i \in 1..Len(s) : s[i].pkt.role = IF i = Len(s) THEN "ok" ELSE "authMore"

Current   == Len(asked)
Asks(s)   == Len(s) = 1 /\ s[1].pkt.role = "command" /\ s[1].cmd = Current
ForCurrent(s) == \A i \in 1..Len(s) : s[i].cmd \in {0, Current}
NoneLast(s)   == \A i \in 1..Len(s) : ~s[i].last
LastEnds(s)   == s # <<>> /\ \A i \in 1..Len(s) : s[i].last <=> i = Len(s)

\* The rest of a reply, from the state of the accumulator on.
RowsThenEnd(s, n) ==
    /\ n <= Len(s)
    /\ \A i \in n..(Len(s) - 1) : s[i].pkt.role = "row"
    /\ s[Len(s)].pkt.role \in {"eof", "err"}

Expects(a, com, s) ==
    \/ Just(s, "ok") \/ Just(s, "err")
    \/ /\ com = "Query" /\ a.state = "Initiated" /\ a.columns = 0
       /\ s[1].pkt.role = "count" /\ s[2].pkt.role = "col" /\ RowsThenEnd(s, 3)
    \/ /\ com = "Query" /\ a.state = "HydrateColumns" /\ a.columns = 0 /\ a.columnCount = 1
       /\ s[1].pkt.role = "col" /\ RowsThenEnd(s, 2)
    \/ /\ com = "Query" /\ a.state \in {"ColumnsHydrated", "HydrateRows"} /\ a.columns = 1
       /\ RowsThenEnd(s, 1)
    \/ /\ com = "FieldList" /\ a.state = "Initiated" /\ a.columns = 0 /\ a.columnCount = 0
       /\ Len(s) = 2 /\ s[1].pkt.role = "col" /\ s[2].pkt.role = "eof"
    \/ com = "FieldList" /\ a.state = "HydrateColumns" /\ Just(s, "eof")

Remaining(s) ==
    LastEnds(s) /\ InOrder(s) /\ ForCurrent(s) /\ Expects(acc, lastCommand.com, s)

-----------------------------------------------------------------------------
(* The situations of a session.                                            *)

Fresh == asked = <<>> /\ executed = <<>> /\ answered = 0

\* A notice from a server that dropped the session.
Notice(s) == Just(s, "err") /\ s[1].last /\ s[1].cmd = 0

\* The server says nothing but that it drops the session.
Quiet == \/ server = "ready" /\ s2p = <<>>
         \/ server = "closed" /\ (s2p = <<>> \/ Notice(s2p))

LastExecuted == IF executed = <<>> THEN 0 ELSE executed[Len(executed)]

\* A server that is there has executed the commands up to n, or the proxy kept them.
PassedTo(n) ==
    server = "ready" =>
        LastExecuted <= n /\ \A j \in (LastExecuted + 1)..n : KeptLocal(asked[j])

\* The command waited for was executed or kept, or there is no server any more.
Answerable ==
    \/ \E k \in 1..Len(executed) : executed[k] = Current
    \/ KeptLocal(asked[Current])
    \/ server = "closed"

AwaitsGreeting ==
    /\ pc = "read" /\ side = "server" /\ phase = "Handshake" /\ ~tls /\ Fresh
    /\ client \in {"greet", "closed"} /\ server = "greet"
    /\ c2p = <<>> /\ p2c = <<>> /\ p2s = <<>> /\ s2p = <<>>

GreetingSent ==
    /\ pc = "read" /\ side = "server" /\ phase = "Handshake" /\ ~tls /\ Fresh
    /\ client \in {"greet", "closed"} /\ server = "login"
    /\ c2p = <<>> /\ p2c = <<>> /\ p2s = <<>> /\ Just(s2p, "greeting")

GreetingRead ==
    /\ pc = "process" /\ side = "server" /\ phase = "Handshake" /\ ~tls /\ Fresh
    /\ client \in {"greet", "closed"} /\ server = "login"
    /\ c2p = <<>> /\ p2c = <<>> /\ p2s = <<>> /\ s2p = <<>>
    /\ Just(frame, "greeting") /\ outgoing = <<>>

GreetingTaken ==
    /\ pc \in {"process", "write"} /\ side = "server" /\ phase = "HandshakeResponse"
    /\ ~tls /\ Fresh
    /\ client \in {"greet", "closed"} /\ server = "login"
    /\ c2p = <<>> /\ p2c = <<>> /\ p2s = <<>> /\ s2p = <<>>
    /\ frame = <<>> /\ Just(outgoing, "greeting")

AwaitsLogin ==
    /\ pc = "read" /\ side = "client" /\ phase = "HandshakeResponse" /\ ~tls /\ Fresh
    /\ server = "login" /\ p2s = <<>> /\ s2p = <<>>
    /\ \/ client = "greet" /\ Just(p2c, "greeting") /\ c2p = <<>>
       \/ client = "tls" /\ p2c = <<>> /\ SslThenHello(c2p)
       \/ client = "auth" /\ p2c = <<>> /\ Just(c2p, "response")
       \/ client = "closed" /\ p2c = <<>>
            /\ (SslThenHello(c2p) \/ IfAny(c2p, "response"))

AwaitsSecureLogin ==
    /\ pc = "read" /\ side = "client" /\ phase = "HandshakeResponse" /\ tls /\ Fresh
    /\ server = "login" /\ p2c = <<>> /\ IfAny(p2s, "sslRequest") /\ s2p = <<>>
    /\ \/ client = "tls" /\ IfAny(c2p, "hello")
       \/ client = "secured" /\ c2p = <<>>
       \/ client = "auth" /\ Just(c2p, "response")
       \/ client = "closed" /\ (IfAny(c2p, "hello") \/ Just(c2p, "response"))

SslRead ==
    /\ pc = "process" /\ side = "client" /\ phase = "HandshakeResponse" /\ ~tls /\ Fresh
    /\ client \in {"tls", "closed"} /\ server = "login"
    /\ IfAny(c2p, "hello") /\ p2c = <<>> /\ p2s = <<>> /\ s2p = <<>>
    /\ Just(frame, "sslRequest") /\ outgoing = <<>>

LoginRead ==
    /\ pc = "process" /\ side = "client" /\ phase = "HandshakeResponse" /\ Fresh
    /\ client \in {"auth", "closed"} /\ server = "login"
    /\ c2p = <<>> /\ p2c = <<>> /\ IfAny(p2s, "sslRequest") /\ s2p = <<>>
    /\ Just(frame, "response") /\ outgoing = <<>>

TlsAwaited ==
    /\ pc \in {"read", "process", "write"} /\ side = "client" /\ phase = "TlsExchange"
    /\ ~tls /\ Fresh
    /\ client \in {"tls", "closed"} /\ server = "login"
    /\ IfAny(c2p, "hello") /\ p2c = <<>> /\ IfAny(p2s, "sslRequest") /\ s2p = <<>>
    /\ frame = <<>>
    /\ pc = "read" \/ outgoing = <<>> \/ (p2s = <<>> /\ Just(outgoing, "sslRequest"))

LoginTaken ==
    /\ pc \in {"process", "write"} /\ side = "client" /\ phase = "AuthInit" /\ Fresh
    /\ client \in {"auth", "closed"} /\ server = "login"
    /\ c2p = <<>> /\ p2c = <<>> /\ IfAny(p2s, "sslRequest") /\ s2p = <<>>
    /\ frame = <<>> /\ Just(outgoing, "response")

LoginSent ==
    /\ pc = "read" /\ side = "server" /\ phase = "AuthInit" /\ Fresh
    /\ client \in {"auth", "closed"} /\ server = "login"
    /\ c2p = <<>> /\ p2c = <<>> /\ (Just(p2s, "response") \/ SslThenLogin(p2s)) /\ s2p = <<>>

\* What the server says to a login.
VerdictSent ==
    /\ pc = "read" /\ side = "server" /\ phase = "AuthInit" /\ Fresh
    /\ client \in {"auth", "closed"}
    /\ c2p = <<>> /\ p2c = <<>> /\ p2s = <<>>
    /\ \/ server = "ready" /\ Just(s2p, "ok")
       \/ server = "ready" /\ MoreThenOk(s2p) /\ InOrder(s2p)
       \/ server = "closed" /\ Just(s2p, "err")
       \/ server = "authData" /\ Just(s2p, "authAsk")

VerdictRead ==
    /\ pc = "process" /\ side = "server" /\ phase = "AuthInit" /\ Fresh
    /\ client \in {"auth", "closed"}
    /\ c2p = <<>> /\ p2c = <<>> /\ p2s = <<>> /\ outgoing = <<>>
    /\ \/ Just(frame, "ok") /\ Quiet
       \/ MoreThenOk(frame) /\ Quiet
       \/ Just(frame, "authMore") /\ server = "ready" /\ Just(s2p, "ok")
       \/ Just(frame, "err") /\ server = "closed" /\ s2p = <<>>
       \/ Just(frame, "authAsk") /\ server = "authData" /\ s2p = <<>>

DataAsked ==
    /\ pc \in {"process", "write"} /\ side = "server" /\ phase = "AuthSwitchResponse" /\ Fresh
    /\ client \in {"auth", "closed"} /\ server = "authData"
    /\ c2p = <<>> /\ p2c = <<>> /\ p2s = <<>> /\ s2p = <<>>
    /\ frame = <<>> /\ Just(outgoing, "authAsk")

AwaitsData ==
    /\ pc = "read" /\ side = "client" /\ phase = "AuthSwitchResponse" /\ Fresh
    /\ client \in {"auth", "closed"} /\ server = "authData"
    /\ p2s = <<>> /\ s2p = <<>>
    /\ \/ c2p = <<>> /\ Just(p2c, "authAsk")
       \/ c2p = <<>> /\ p2c = <<>> /\ client = "closed"
       \/ Just(c2p, "authData") /\ p2c = <<>>

DataRead ==
    /\ pc = "process" /\ side = "client" /\ phase = "AuthSwitchResponse" /\ Fresh
    /\ client \in {"auth", "closed"} /\ server = "authData"
    /\ c2p = <<>> /\ p2c = <<>> /\ p2s = <<>> /\ s2p = <<>>
    /\ Just(frame, "authData") /\ outgoing = <<>>

DataTaken ==
    /\ pc \in {"process", "write"} /\ side = "client" /\ phase = "AuthComplete" /\ Fresh
    /\ client \in {"auth", "closed"} /\ server = "authData"
    /\ c2p = <<>> /\ p2c = <<>> /\ p2s = <<>> /\ s2p = <<>>
    /\ frame = <<>> /\ Just(outgoing, "authData")

DataSent ==
    /\ pc = "read" /\ side = "server" /\ phase = "AuthComplete" /\ Fresh
    /\ client \in {"auth", "closed"} /\ server = "authData"
    /\ c2p = <<>> /\ p2c = <<>> /\ Just(p2s, "authData") /\ s2p = <<>>

\* The OK or the error that ends the authentication.
OutcomeSent ==
    /\ pc \in {"read", "process", "write"} /\ side = "server" /\ phase = "AuthComplete" /\ Fresh
    /\ client \in {"auth", "closed"}
    /\ c2p = <<>> /\ Only(p2c, {"authMore"}) /\ p2s = <<>>
    /\ frame = <<>> /\ (pc = "read" \/ Only(outgoing, {"authMore"}))
    /\ \/ server = "ready" /\ Just(s2p, "ok")
       \/ server = "closed" /\ Just(s2p, "err")

OutcomeRead ==
    /\ pc = "process" /\ side = "server" /\ phase = "AuthComplete" /\ Fresh
    /\ client \in {"auth", "closed"}
    /\ c2p = <<>> /\ Only(p2c, {"authMore"}) /\ p2s = <<>> /\ Only(outgoing, {"authMore"})
    /\ \/ Just(frame, "ok") /\ Quiet
       \/ Just(frame, "err") /\ server = "closed" /\ s2p = <<>>

\* An error was passed on: after it the server is gone.
Refused ==
    /\ pc \in {"read", "process", "write"} /\ side = "server"
    /\ phase \in {"AuthInit", "AuthFailed"} /\ Fresh
    /\ client \in {"auth", "closed"} /\ server = "closed"
    /\ c2p = <<>> /\ p2s = <<>> /\ s2p = <<>> /\ frame = <<>>
    /\ Only(p2c, {"authMore", "err"})
    /\ pc = "read" \/ Only(outgoing, {"authMore", "err"})

\* A reply, or the outcome of the authentication, was consumed to its end.
Settled ==
    /\ pc \in {"process", "write"} /\ side = "server" /\ phase = "Command"
    /\ c2p = <<>> /\ p2s = <<>> /\ Quiet /\ frame = <<>>
    /\ ForCurrent(outgoing) /\ PassedTo(Current)
    /\ \/ client = "auth" /\ Fresh /\ Accepted(outgoing) /\ Only(p2c, {"authMore"})
       \/ client = "waiting" /\ LastEnds(outgoing) /\ NoneLast(p2c) /\ Answerable
       \/ client = "closed"

AwaitsCommand ==
    /\ pc = "read" /\ side = "client" /\ phase = "Command"
    /\ p2s = <<>> /\ Quiet
    /\ \/ client = "auth" /\ Fresh /\ c2p = <<>> /\ Accepted(p2c)
       \/ client = "ready" /\ c2p = <<>> /\ p2c = <<>> /\ PassedTo(Current)
       \/ client = "waiting" /\ c2p = <<>> /\ LastEnds(p2c) /\ Answerable /\ PassedTo(Current)
       \/ client = "waiting" /\ Asks(c2p) /\ p2c = <<>> /\ PassedTo(Current - 1)
       \/ client = "closed" /\ c2p = <<>> /\ PassedTo(Current)
       \/ client = "closed" /\ Asks(c2p) /\ p2c = <<>> /\ PassedTo(Current - 1)

CommandRead ==
    /\ pc = "process" /\ side = "client" /\ phase = "Command"
    /\ client \in {"waiting", "closed"}
    /\ c2p = <<>> /\ p2c = <<>> /\ p2s = <<>> /\ Quiet
    /\ Asks(frame) /\ frame[1].pkt.type = "Command" /\ outgoing = <<>>
    /\ PassedTo(Current - 1)

CommandTaken ==
    /\ pc \in {"process", "write"} /\ side = "client" /\ phase = "PendingResponse"
    /\ client \in {"waiting", "closed"} /\ Current > 0 /\ lastCommand = asked[Current]
    /\ c2p = <<>> /\ p2c = <<>> /\ p2s = <<>> /\ Quiet
    /\ frame = <<>> /\ Asks(outgoing) /\ outgoing[1].pkt.type = "Command"
    /\ acc = NewAccumulator /\ PassedTo(Current - 1)

\* The server loop waits for the reply to a command that is not kept.
Forwarded ==
    /\ side = "server" /\ phase = "PendingResponse"
    /\ client \in {"waiting", "closed"} /\ Current > 0 /\ lastCommand = asked[Current]
    /\ ~KeptLocal(asked[Current])
    /\ c2p = <<>> /\ NoneLast(p2c)
    /\ pc = "read" \/ (ForCurrent(outgoing) /\ NoneLast(outgoing))

CommandSent ==
    /\ Forwarded /\ pc = "read"
    /\ server = "ready" /\ Asks(p2s) /\ s2p = <<>>
    /\ acc = NewAccumulator /\ PassedTo(Current - 1)

Replying ==
    /\ Forwarded /\ pc \in {"read", "process", "write"}
    /\ server = "ready" /\ p2s = <<>> /\ Remaining(frame \o s2p)
    /\ Answerable /\ PassedTo(Current)

\* The server is gone, the end of its last reply or its notice has been read.
Dropped ==
    /\ Forwarded /\ pc = "process"
    /\ server = "closed" /\ p2s = <<>> /\ Remaining(frame) /\ Quiet

\* The server is gone before it could be asked.
Abandoned ==
    /\ Forwarded /\ pc = "read"
    /\ server = "closed" /\ p2s = <<>> /\ Quiet /\ acc = NewAccumulator

Returned ==
    /\ pc = "returned"
    /\ Only(p2s, {"sslRequest"})
    /\ \/ client = "closed"
       \/ /\ client = "auth" /\ server = "closed" /\ Fresh
          /\ \A i \in 1..Len(p2c) : p2c[i].pkt.role = "ok" => i = Len(p2c)
       \/ client = "ready" /\ server = "closed" /\ p2c = <<>>
       \/ /\ client = "waiting" /\ server = "closed"
          /\ \A i \in 1..Len(p2c) : p2c[i].last => i = Len(p2c)

\* make_packets has given the packets of the frame their types.
Typed(s) ==
    \A i \in 1..Len(s) : /\ s[i].pkt.role = "ok"  => s[i].pkt.type = "Ok"
                         /\ s[i].pkt.role = "err" => s[i].pkt.type = "Error"

FrameOK == Typed(frame) /\ (pc \in {"read", "write"} => frame = <<>>)
FlagsOK == (tls => hasFlags) /\ (phase \notin {"Handshake", "HandshakeResponse"} => hasFlags)
GoneOK  == server = "closed" => p2s = <<>>

\* Only a client that waits is owed anything: packets for the command it waits for.
Owed ==
    IF client = "waiting"
    THEN answered < Current /\ ForCurrent(p2c)
    ELSE \A i \in 1..Len(p2c) : p2c[i].cmd = 0

\* No command that is kept has got to the server.
NoneKept == \A k \in 1..Len(executed) : ~KeptLocal(asked[executed[k]])

Books == FrameOK /\ FlagsOK /\ GoneOK /\ Owed /\ NoneKept

Connecting ==
    \/ AwaitsGreeting \/ GreetingSent \/ GreetingRead \/ GreetingTaken
    \/ AwaitsLogin \/ AwaitsSecureLogin \/ SslRead \/ LoginRead \/ TlsAwaited
    \/ LoginTaken \/ LoginSent \/ VerdictSent \/ VerdictRead
    \/ DataAsked \/ AwaitsData \/ DataRead \/ DataTaken \/ DataSent
    \/ OutcomeSent \/ OutcomeRead \/ Refused

Conversing ==
    \/ Settled \/ AwaitsCommand \/ CommandRead \/ CommandTaken
    \/ CommandSent \/ Replying \/ Dropped \/ Abandoned

SessionInv == Books /\ (Connecting \/ Conversing \/ Returned)

-----------------------------------------------------------------------------
(* Queues and their messages.                                              *)

LEMMA TailOf ==
    ASSUME NEW S, NEW s \in Seq(S), s # <<>>
    PROVE  /\ Head(s) = s[1] /\ Tail(s) \in Seq(S) /\ Len(s) \in Nat \ {0}
           /\ Len(Tail(s)) = Len(s) - 1
           /\ \A i \in 1..(Len(s) - 1) : Tail(s)[i] = s[i + 1]
           /\ Len(s) = 1 => Tail(s) = <<>>
OBVIOUS

LEMMA EmptyIs ==
    ASSUME NEW S, NEW s \in Seq(S)
    PROVE  Len(s) \in Nat /\ (s = <<>> <=> Len(s) = 0) /\ <<>> \o s = s /\ s \o <<>> = s
OBVIOUS

LEMMA Concat ==
    ASSUME NEW S, NEW s \in Seq(S), NEW t \in Seq(S), NEW u, u = s \o t
    PROVE  /\ u \in Seq(S) /\ Len(u) = Len(s) + Len(t) /\ Len(s) \in Nat /\ Len(t) \in Nat
           /\ \A i \in 1..Len(s) : u[i] = s[i]
           /\ \A i \in 1..Len(t) : u[Len(s) + i] = t[i]
OBVIOUS

\* A packet of its own is sent on an empty queue.
LEMMA AloneIs ==
    ASSUME NEW pkt
    PROVE  /\ <<>> \o Alone(pkt) = Alone(pkt) /\ Len(Alone(pkt)) = 1
           /\ Alone(pkt)[1].pkt = pkt /\ Alone(pkt)[1].cmd = 0 /\ Alone(pkt)[1].last = TRUE
BY DEF Alone, Message

LEMMA NextNumber ==
    ASSUME NEW n \in Int
    PROVE  ((n % SeqMod) + 1) % SeqMod = (n + 1) % SeqMod
<1>1. SeqMod \in Nat \ {0}
  BY WireAssumption
<1>2. n % SeqMod \in Int
  BY <1>1, Remainder
<1>3. PICK d \in Int : d = 0 - 1
  OBVIOUS
<1>4. ((n % SeqMod) - d) % SeqMod = (n - d) % SeqMod
  BY <1>1, WrapsAlike
<1>5. (n % SeqMod) - d = (n % SeqMod) + 1 /\ n - d = n + 1
  BY <1>2, <1>3
<1> QED BY <1>4, <1>5

\* What the queues and the situations are made of.
LEMMA Queues ==
    ASSUME TypeInv
    PROVE  /\ frame \in Seq(Letters(asked)) /\ outgoing \in Seq(Letters(asked))
           /\ c2p \in Seq(Letters(asked)) /\ p2c \in Seq(Letters(asked))
           /\ p2s \in Seq(Letters(asked)) /\ s2p \in Seq(Letters(asked))
           /\ asked \in Seq(Commands) /\ Len(asked) \in Nat
           /\ executed \in Seq(1..Len(asked)) /\ Len(executed) \in Nat
<1>1. {frame, outgoing, c2p, p2c, p2s, s2p} \subseteq Seq(Letters(asked))
  BY DEF TypeInv, MailOK
<1> QED BY <1>1 DEF TypeInv, TypeOK

\* The situations by what tells them apart.
LEMMA Situations ==
    ASSUME SessionInv
    PROVE  \/ AwaitsGreeting /\ pc = "read" /\ side = "server" /\ phase = "Handshake"
               /\ server = "greet" /\ client \in {"greet", "closed"} /\ p2c = <<>>
           \/ GreetingSent /\ pc = "read" /\ side = "server" /\ phase = "Handshake"
               /\ server = "login" /\ client \in {"greet", "closed"} /\ p2c = <<>> /\ p2s = <<>>
           \/ GreetingRead /\ pc = "process" /\ side = "server" /\ phase = "Handshake"
               /\ server = "login" /\ client \in {"greet", "closed"} /\ p2c = <<>> /\ p2s = <<>>
           \/ GreetingTaken /\ pc \in {"process", "write"} /\ side = "server"
               /\ phase = "HandshakeResponse" /\ frame = <<>>
               /\ server = "login" /\ client \in {"greet", "closed"} /\ p2c = <<>> /\ p2s = <<>>
           \/ AwaitsLogin /\ pc = "read" /\ side = "client" /\ phase = "HandshakeResponse" /\ ~tls
               /\ server = "login" /\ client \in {"greet", "tls", "auth", "closed"} /\ p2s = <<>>
               /\ (p2c # <<>> => client = "greet")
           \/ AwaitsSecureLogin /\ pc = "read" /\ side = "client" /\ phase = "HandshakeResponse"
               /\ tls /\ server = "login" /\ client \in {"tls", "secured", "auth", "closed"}
               /\ p2c = <<>>
           \/ SslRead /\ pc = "process" /\ side = "client" /\ phase = "HandshakeResponse"
               /\ frame # <<>> /\ server = "login" /\ client \in {"tls", "closed"} /\ p2c = <<>>
               /\ p2s = <<>>
           \/ LoginRead /\ pc = "process" /\ side = "client" /\ phase = "HandshakeResponse"
               /\ frame # <<>> /\ server = "login" /\ client \in {"auth", "closed"} /\ p2c = <<>>
           \/ TlsAwaited /\ pc \in {"read", "process", "write"} /\ side = "client"
               /\ phase = "TlsExchange" /\ frame = <<>>
               /\ server = "login" /\ client \in {"tls", "closed"} /\ p2c = <<>>
           \/ LoginTaken /\ pc \in {"process", "write"} /\ side = "client" /\ phase = "AuthInit"
               /\ frame = <<>> /\ server = "login" /\ client \in {"auth", "closed"} /\ p2c = <<>>
           \/ LoginSent /\ pc = "read" /\ side = "server" /\ phase = "AuthInit"
               /\ server = "login" /\ client \in {"auth", "closed"} /\ p2c = <<>> /\ s2p = <<>>
               /\ p2s # <<>>
           \/ VerdictSent /\ pc = "read" /\ side = "server" /\ phase = "AuthInit"
               /\ server \in {"ready", "closed", "authData"} /\ client \in {"auth", "closed"}
               /\ p2c = <<>> /\ p2s = <<>> /\ s2p # <<>>
           \/ VerdictRead /\ pc = "process" /\ side = "server" /\ phase = "AuthInit"
               /\ frame # <<>> /\ server \in {"ready", "closed", "authData"}
               /\ client \in {"auth", "closed"} /\ p2c = <<>> /\ p2s = <<>>
           \/ DataAsked /\ pc \in {"process", "write"} /\ side = "server"
               /\ phase = "AuthSwitchResponse" /\ frame = <<>>
               /\ server = "authData" /\ client \in {"auth", "closed"} /\ p2c = <<>> /\ p2s = <<>>
           \/ AwaitsData /\ pc = "read" /\ side = "client" /\ phase = "AuthSwitchResponse"
               /\ server = "authData" /\ client \in {"auth", "closed"} /\ p2s = <<>>
           \/ DataRead /\ pc = "process" /\ side = "client" /\ phase = "AuthSwitchResponse"
               /\ frame # <<>> /\ server = "authData" /\ client \in {"auth", "closed"}
               /\ p2c = <<>> /\ p2s = <<>>
           \/ DataTaken /\ pc \in {"process", "write"} /\ side = "client" /\ phase = "AuthComplete"
               /\ frame = <<>> /\ server = "authData" /\ client \in {"auth", "closed"}
               /\ p2c = <<>> /\ p2s = <<>>
           \/ DataSent /\ pc = "read" /\ side = "server" /\ phase = "AuthComplete"
               /\ server = "authData" /\ client \in {"auth", "closed"} /\ p2c = <<>> /\ s2p = <<>>
               /\ p2s # <<>>
           \/ OutcomeSent /\ pc \in {"read", "process", "write"} /\ side = "server"
               /\ phase = "AuthComplete" /\ frame = <<>> /\ server \in {"ready", "closed"}
               /\ client \in {"auth", "closed"} /\ p2s = <<>> /\ s2p # <<>>
           \/ OutcomeRead /\ pc = "process" /\ side = "server" /\ phase = "AuthComplete"
               /\ frame # <<>> /\ server \in {"ready", "closed"} /\ client \in {"auth", "closed"}
               /\ p2s = <<>>
           \/ Refused /\ pc \in {"read", "process", "write"} /\ side = "server"
               /\ phase \in {"AuthInit", "AuthFailed"} /\ frame = <<>> /\ server = "closed"
               /\ client \in {"auth", "closed"} /\ p2s = <<>> /\ s2p = <<>>
           \/ Settled /\ pc \in {"process", "write"} /\ side = "server" /\ phase = "Command"
               /\ frame = <<>> /\ server \in {"ready", "closed"}
               /\ client \in {"auth", "waiting", "closed"} /\ p2s = <<>>
           \/ AwaitsCommand /\ pc = "read" /\ side = "client" /\ phase = "Command"
               /\ server \in {"ready", "closed"}
               /\ client \in {"auth", "ready", "waiting", "closed"} /\ p2s = <<>>
           \/ CommandRead /\ pc = "process" /\ side = "client" /\ phase = "Command"
               /\ frame # <<>> /\ server \in {"ready", "closed"}
               /\ client \in {"waiting", "closed"} /\ p2c = <<>> /\ p2s = <<>>
           \/ CommandTaken /\ pc \in {"process", "write"} /\ side = "client"
               /\ phase = "PendingResponse" /\ frame = <<>> /\ server \in {"ready", "closed"}
               /\ client \in {"waiting", "closed"} /\ p2c = <<>> /\ p2s = <<>>
           \/ CommandSent /\ pc = "read" /\ side = "server" /\ phase = "PendingResponse"
               /\ server = "ready" /\ client \in {"waiting", "closed"} /\ p2s # <<>> /\ s2p = <<>>
           \/ Replying /\ pc \in {"read", "process", "write"} /\ side = "server"
               /\ phase = "PendingResponse" /\ server = "ready" /\ client \in {"waiting", "closed"}
               /\ p2s = <<>>
           \/ Dropped /\ pc = "process" /\ side = "server" /\ phase = "PendingResponse"
               /\ frame # <<>> /\ server = "closed" /\ client \in {"waiting", "closed"}
               /\ p2s = <<>>
           \/ Abandoned /\ pc = "read" /\ side = "server" /\ phase = "PendingResponse"
               /\ server = "closed" /\ client \in {"waiting", "closed"} /\ p2s = <<>>
           \/ Returned /\ pc = "returned" /\ (client = "closed" \/ server = "closed")
<1>1. CASE AwaitsGreeting \/ GreetingSent \/ GreetingRead \/ GreetingTaken
  BY <1>1 DEF AwaitsGreeting, GreetingSent, GreetingRead, GreetingTaken
<1>7. CASE AwaitsLogin
  BY <1>7 DEF AwaitsLogin
<1>8. CASE AwaitsSecureLogin \/ SslRead \/ LoginRead \/ TlsAwaited
  BY <1>8 DEF AwaitsSecureLogin, SslRead, LoginRead, TlsAwaited, Just
<1>2. CASE LoginTaken \/ LoginSent \/ VerdictSent \/ VerdictRead
  BY <1>2 DEF LoginTaken, LoginSent, VerdictSent, VerdictRead, Just, SslThenLogin, MoreThenOk,
              Quiet
<1>3. CASE DataAsked \/ AwaitsData \/ DataRead \/ DataTaken \/ DataSent \/ OutcomeSent
             \/ OutcomeRead \/ Refused
  BY <1>3 DEF DataAsked, AwaitsData, DataRead, DataTaken, DataSent, OutcomeSent, OutcomeRead,
              Refused, Just, Quiet
<1>4. CASE Settled \/ AwaitsCommand \/ CommandRead \/ CommandTaken \/ CommandSent
  BY <1>4 DEF Settled, AwaitsCommand, CommandRead, CommandTaken, CommandSent, Forwarded, Quiet,
              Asks
<1>5. CASE Replying \/ Dropped \/ Abandoned
  BY <1>5 DEF Replying, Dropped, Abandoned, Forwarded, Remaining, LastEnds
<1>6. CASE Returned
  BY <1>6 DEF Returned
<1> QED BY <1>1, <1>2, <1>3, <1>4, <1>5, <1>6, <1>7, <1>8
       DEF SessionInv, Connecting, Conversing

-----------------------------------------------------------------------------
(* The server's steps.                                                     *)

LEMMA ServerBooks ==
    ASSUME SessionInv,
           UNCHANGED <<side, pc, frame, outgoing, connection, c2p, p2c, client, asked, answered,
                       executed>>,
           server' = "closed" => p2s' = <<>>
    PROVE  Books'
<1>1. Books
  BY DEF SessionInv
<1>2. FrameOK'
  BY <1>1 DEF Books, FrameOK, Typed
<1>3. FlagsOK'
  BY <1>1 DEF Books, FlagsOK, connection
<1>4. Owed'
  BY <1>1 DEF Books, Owed, ForCurrent, Current
<1>5. NoneKept'
  BY <1>1 DEF Books, NoneKept
<1> QED BY <1>2, <1>3, <1>4, <1>5 DEF Books, GoneOK

LEMMA ServerGreetsSession == ASSUME TypeInv, SessionInv, ServerGreets PROVE SessionInv'
<1>1. /\ server = "greet" /\ server' = "login"
      /\ s2p' = s2p \o Alone(Packet("greeting", 10, "long"))
      /\ UNCHANGED <<side, pc, frame, outgoing, connection, c2p, p2c, p2s, client, asked,
                     answered, executed>>
  BY DEF ServerGreets, ServerOnly, ServerSends
<1>2. AwaitsGreeting \/ (Returned /\ client = "closed")
  BY <1>1, Situations
<1>3. Books'
  BY <1>1, ServerBooks
<1>4. CASE AwaitsGreeting
  <2> DEFINE pkt == Packet("greeting", 10, "long")
  <2>1. pkt.role = "greeting"
    BY DEF Packet
  <2> HIDE DEF pkt
  <2>2. Just(s2p', "greeting")
    <3>1. s2p' = Alone(pkt)
      BY <1>1, <1>4, AloneIs DEF AwaitsGreeting, pkt
    <3> QED BY <2>1, <3>1, AloneIs DEF Just
  <2>3. GreetingSent'
    BY <1>1, <1>4, <2>2 DEF AwaitsGreeting, GreetingSent, Fresh, connection
  <2> QED BY <1>3, <2>3 DEF SessionInv, Connecting
<1>5. CASE Returned /\ client = "closed"
  BY <1>1, <1>3, <1>5 DEF SessionInv, Returned
<1> QED BY <1>2, <1>4, <1>5

LEMMA SslTakenSession == ASSUME TypeInv, SessionInv, ServerTakesSslRequest PROVE SessionInv'
<1>1. /\ server = "login" /\ p2s # <<>> /\ Head(p2s).pkt.role = "sslRequest" /\ p2s' = Tail(p2s)
      /\ UNCHANGED <<side, pc, frame, outgoing, connection, c2p, p2c, s2p, client, server, asked,
                     answered, executed>>
  BY DEF ServerTakesSslRequest, ServerOnly, Received
<1>2. \/ AwaitsSecureLogin \/ LoginRead \/ TlsAwaited \/ LoginTaken \/ LoginSent
      \/ Returned /\ client = "closed"
  BY <1>1, Situations
<1>3. Books'
  BY <1>1, ServerBooks
<1>4. /\ p2s[1].pkt.role = "sslRequest" /\ Len(p2s') = Len(p2s) - 1
      /\ \A i \in 1..(Len(p2s) - 1) : p2s'[i] = p2s[i + 1]
      /\ Len(p2s) = 1 => p2s' = <<>>
      /\ Len(p2s) \in Nat
  BY <1>1, Queues, TailOf
<1>5. IfAny(p2s, "sslRequest") => p2s' = <<>>
  BY <1>1, <1>4 DEF IfAny, Just
<1>6. CASE AwaitsSecureLogin
  BY <1>1, <1>3, <1>5, <1>6 DEF SessionInv, Connecting, AwaitsSecureLogin, IfAny, Fresh, connection
<1>7. CASE LoginRead
  BY <1>1, <1>3, <1>5, <1>7 DEF SessionInv, Connecting, LoginRead, IfAny, Fresh, connection
<1>8. CASE TlsAwaited
  BY <1>1, <1>3, <1>5, <1>8 DEF SessionInv, Connecting, TlsAwaited, IfAny, Fresh, connection
<1>9. CASE LoginTaken
  BY <1>1, <1>3, <1>5, <1>9 DEF SessionInv, Connecting, LoginTaken, IfAny, Fresh, connection
<1>10. CASE LoginSent
  <2>1. Just(p2s', "response")
    <3>1. ~Just(p2s, "response")
      BY <1>4 DEF Just
    <3>2. SslThenLogin(p2s)
      BY <1>10, <3>1 DEF LoginSent
    <3> QED BY <1>4, <3>2 DEF Just, SslThenLogin
  <2> QED BY <1>1, <1>3, <1>10, <2>1 DEF SessionInv, Connecting, LoginSent, Fresh, connection
<1>11. CASE Returned /\ client = "closed"
  BY <1>1, <1>3, <1>4, <1>11 DEF SessionInv, Returned, Only
<1> QED BY <1>2, <1>6, <1>7, <1>8, <1>9, <1>10, <1>11

\* What the server says to a login or to data of the authentication.
LEMMA FlowSent ==
    ASSUME TypeInv, Fresh, NEW flow \in {"ok", "fail", "fast", "full", "switch"},
           NEW s, s = <<>> \o Batch(Numbered(FlowStart(flow).reply), 0)
    PROVE  LET now == FlowStart(flow).server IN
           \/ now = "ready" /\ Just(s, "ok") /\ flow = "ok"
           \/ now = "ready" /\ MoreThenOk(s) /\ InOrder(s) /\ flow = "fast"
           \/ now = "closed" /\ Just(s, "err") /\ flow = "fail"
           \/ now = "authData" /\ Just(s, "authAsk") /\ flow \in {"full", "switch"}
<1> DEFINE f == FlowStart(flow)
           r == f.reply
           b == Batch(Numbered(r), 0)
<1>1. Len(asked) \in Nat /\ 0 \in 0..Len(asked)
  BY Queues
<1>2. /\ r \in Seq(Wire) /\ \A i \in 1..Len(r) : r[i].role # "command"
      /\ \/ Len(r) = 1 /\ r[1].role = "ok" /\ f.server = "ready" /\ flow = "ok"
         \/ Len(r) = 1 /\ r[1].role = "err" /\ f.server = "closed" /\ flow = "fail"
         \/ Len(r) = 2 /\ r[1].role = "authMore" /\ r[2].role = "ok" /\ f.server = "ready"
              /\ flow = "fast"
         \/ Len(r) = 1 /\ r[1].role = "authAsk" /\ f.server = "authData"
              /\ flow \in {"full", "switch"}
  BY Flows
<1> HIDE DEF f, r
<1>3. /\ b \in Seq(Letters(asked)) /\ Len(b) = Len(r)
      /\ \A i \in 1..Len(r) : b[i].pkt.role = r[i].role /\ b[i].pkt.seq = i % SeqMod
  <2>1. /\ Batch(Numbered(r), 0) \in Seq(Letters(asked))
        /\ Len(Batch(Numbered(r), 0)) = Len(r)
        /\ \A i \in 1..Len(r) :
             /\ Batch(Numbered(r), 0)[i].pkt.role = r[i].role
             /\ Batch(Numbered(r), 0)[i].pkt.seq = i % SeqMod
             /\ Batch(Numbered(r), 0)[i].cmd = 0
             /\ Batch(Numbered(r), 0)[i].last <=> i = Len(r)
    BY <1>1, <1>2, Batched
  <2> QED BY <2>1
<1> HIDE DEF b
<1>4. s = b
  BY <1>3, EmptyIs DEF b, r, f
<1>5. 2 % SeqMod = ((1 % SeqMod) + 1) % SeqMod
  <2>1. ((1 % SeqMod) + 1) % SeqMod = (1 + 1) % SeqMod
    BY NextNumber
  <2> QED BY <2>1
<1>6. Len(r) = 2 => InOrder(b)
  BY <1>3, <1>5 DEF InOrder
<1> DEFINE now == f.server
<1>7. /\ Len(s) = Len(r)
      /\ 1 \in 1..Len(r) => s[1].pkt.role = r[1].role
      /\ 2 \in 1..Len(r) => s[2].pkt.role = r[2].role
      /\ Len(r) = 2 => InOrder(s)
  BY <1>3, <1>4, <1>6
<1>8. \/ now = "ready" /\ Just(s, "ok") /\ flow = "ok"
      \/ now = "ready" /\ MoreThenOk(s) /\ InOrder(s) /\ flow = "fast"
      \/ now = "closed" /\ Just(s, "err") /\ flow = "fail"
      \/ now = "authData" /\ Just(s, "authAsk") /\ flow \in {"full", "switch"}
  <2>1. Len(r) = 1 => Len(s) = 1 /\ s[1].pkt.role = r[1].role
    BY <1>7
  <2>2. Len(r) = 2 => Len(s) = 2 /\ s[1].pkt.role = r[1].role /\ s[2].pkt.role = r[2].role
    BY <1>7
  <2> QED BY <1>2, <1>7, <2>1, <2>2, Zenon DEF Just, MoreThenOk
<1> QED BY <1>8 DEF f

LEMMA LoginAnsweredSession ==
    ASSUME TypeInv, SessionInv, ServerTakesLogin
    PROVE  SessionInv'
<1>1. /\ server = "login" /\ p2s # <<>> /\ Head(p2s).pkt.role = "response" /\ p2s' = Tail(p2s)
      /\ UNCHANGED <<side, pc, frame, outgoing, connection, c2p, p2c, client, asked,
                     answered, executed>>
  BY DEF ServerTakesLogin, ServerOnly, Received
<1>2. PICK flow \in AuthFlows :
        /\ server' = FlowStart(flow).server
        /\ s2p' = s2p \o Batch(Numbered(FlowStart(flow).reply), 0)
  BY DEF ServerTakesLogin, ServerSends
<1>3. p2s[1].pkt.role = "response" /\ (Len(p2s) = 1 => p2s' = <<>>)
  BY <1>1, Queues, TailOf
<1>4. LoginSent
  <2>1. \/ AwaitsSecureLogin \/ LoginRead \/ TlsAwaited \/ LoginTaken \/ LoginSent
        \/ Returned
    BY <1>1, Situations
  <2>2. ~IfAny(p2s, "sslRequest")
    BY <1>1, <1>3 DEF IfAny, Just
  <2>3. ~Only(p2s, {"sslRequest"})
    <3>1. 1 \in 1..Len(p2s)
      BY <1>1, Queues, TailOf
    <3> QED BY <1>3, <3>1 DEF Only
  <2> QED BY <2>1, <2>2, <2>3 DEF AwaitsSecureLogin, LoginRead, TlsAwaited, LoginTaken, Returned
<1>5. p2s' = <<>> /\ Fresh /\ s2p = <<>>
  BY <1>3, <1>4 DEF LoginSent, Just, SslThenLogin
<1>6. Books'
  BY <1>1, <1>5, ServerBooks
<1>7. \/ server' = "ready" /\ Just(s2p', "ok")
      \/ server' = "ready" /\ MoreThenOk(s2p') /\ InOrder(s2p')
      \/ server' = "closed" /\ Just(s2p', "err")
      \/ server' = "authData" /\ Just(s2p', "authAsk")
  BY <1>2, <1>5, FlowSent, ExchangeAssumption
<1>8. VerdictSent'
  BY <1>1, <1>4, <1>5, <1>7 DEF LoginSent, VerdictSent, Fresh, connection
<1> QED BY <1>6, <1>8 DEF SessionInv, Connecting

LEMMA DataAnsweredSession ==
    ASSUME TypeInv, SessionInv, ServerTakesAuthData
    PROVE  SessionInv'
<1>1. /\ server = "authData" /\ p2s # <<>> /\ p2s' = Tail(p2s)
      /\ UNCHANGED <<side, pc, frame, outgoing, connection, c2p, p2c, client, asked,
                     answered, executed>>
  BY DEF ServerTakesAuthData, ServerOnly, Received
<1>2. PICK flow \in {"ok", "fail"} :
        /\ server' = FlowStart(flow).server
        /\ s2p' = s2p \o Batch(Numbered(FlowStart(flow).reply), 0)
  BY DEF ServerTakesAuthData, ServerSends
<1>3. Len(p2s) = 1 => p2s' = <<>>
  BY <1>1, Queues, TailOf
<1>4. DataSent
  <2>1. Head(p2s).pkt.role = "authData"
    BY DEF ServerTakesAuthData, Received
  <2>2. ~Only(p2s, {"sslRequest"})
    <3>1. 1 \in 1..Len(p2s) /\ p2s[1].pkt.role = "authData"
      BY <1>1, <2>1, Queues, TailOf
    <3> QED BY <3>1 DEF Only
  <2> QED BY <1>1, <2>2, Situations DEF Returned
<1>5. p2s' = <<>> /\ Fresh /\ s2p = <<>>
  BY <1>3, <1>4 DEF DataSent, Just
<1>6. Books'
  BY <1>1, <1>5, ServerBooks
<1>7. \/ server' = "ready" /\ Just(s2p', "ok")
      \/ server' = "closed" /\ Just(s2p', "err")
  BY <1>2, <1>5, FlowSent
<1>8. frame = <<>>
  BY <1>4 DEF DataSent, SessionInv, Books, FrameOK
<1>9. OutcomeSent'
  BY <1>1, <1>4, <1>5, <1>7, <1>8 DEF DataSent, OutcomeSent, Fresh, connection, Only
<1> QED BY <1>6, <1>9 DEF SessionInv, Connecting

-----------------------------------------------------------------------------
(* Replies.                                                                *)

\* The form of a reply, from its kinds of packets.
ReplyForm(com, r) ==
    \/ Len(r) = 1 /\ r[1].role \in {"ok", "err"}
    \/ /\ com = "Query" /\ 3 <= Len(r) /\ r[1].role = "count" /\ r[2].role = "col"
       /\ \A i \in 3..(Len(r) - 1) : r[i].role = "row"
       /\ r[Len(r)].role \in {"eof", "err"}
    \/ com = "FieldList" /\ Len(r) = 2 /\ r[1].role = "col" /\ r[2].role = "eof"

LEMMA ReplySetShape ==
    ASSUME Orderly, NEW r \in ResultSets(1, TextRows, MaxRows)
    PROVE  /\ 3 <= Len(r) /\ r[1].role = "count" /\ r[2].role = "col"
           /\ \A i \in 3..(Len(r) - 1) : r[i].role = "row"
           /\ r[Len(r)].role \in {"eof", "err"}
<1>18. \E rows \in Rows(TextRows, MaxRows) : \E end \in {Terminator, ErrPacket} :
        r = <<CountPacket(1)>> \o Columns(1) \o EofIfKept \o rows \o <<end>>
  BY DEF ResultSets
<1>0. PICK rows \in Rows(TextRows, MaxRows) : \E end \in {Terminator, ErrPacket} :
        r = <<CountPacket(1)>> \o Columns(1) \o EofIfKept \o rows \o <<end>>
  BY <1>18
<1>1. PICK end \in {Terminator, ErrPacket} :
        r = <<CountPacket(1)>> \o Columns(1) \o EofIfKept \o rows \o <<end>>
  BY <1>0
<1>2. PICK k \in 0..MaxRows : rows \in [1..k -> TextRows]
  BY DEF Rows
<1>3. k \in Nat /\ \A i \in 1..k : rows[i].role = "row"
  BY <1>2, ExchangeAssumption
<1>4. rows \in Seq(Wire) /\ Len(rows) = k
  BY <1>2, <1>3, RowsOnWire
<1> DEFINE first == <<CountPacket(1)>>
           cols  == Columns(1)
           last  == <<end>>
<1>5. first \in Seq(Wire) /\ Len(first) = 1 /\ first[1].role = "count"
  <2>1. CountPacket(1) \in Wire
    BY WirePackets
  <2>2. CountPacket(1).role = "count"
    BY DEF CountPacket, Packet
  <2> QED BY <2>1, <2>2
<1>6. cols \in Seq(Wire) /\ Len(cols) = 1 /\ cols[1].role = "col"
  <2>1. ColumnPacket \in Wire
    BY WirePackets
  <2>2. ColumnPacket.role = "col"
    BY DEF ColumnPacket, Packet
  <2> QED BY <2>1, <2>2 DEF Columns
<1>7. last \in Seq(Wire) /\ Len(last) = 1 /\ last[1].role \in {"eof", "err"}
  <2>1. Terminator \in Wire /\ ErrPacket \in Wire
    BY WirePackets
  <2>2. Terminator.role = "eof" /\ ErrPacket.role = "err"
    BY DEF Terminator, EofPacket, ErrPacket, Packet
  <2> QED BY <1>1, <2>1, <2>2
<1>8. EofIfKept = <<>>
  BY DEF EofIfKept, Orderly
<1>9. r = first \o cols \o <<>> \o rows \o last
  BY <1>1, <1>8
<1> HIDE DEF first, cols, last
<1> DEFINE a == first \o cols
           b == a \o rows
<1>20. a = first \o cols /\ b = a \o rows
  OBVIOUS
<1> HIDE DEF a, b
<1>10. a \in Seq(Wire) /\ Len(a) = 2 /\ a[1].role = "count" /\ a[2].role = "col"
  <2>1. 1 \in 1..Len(first) /\ 1 \in 1..Len(cols) /\ Len(first) + 1 = 2
    BY <1>5, <1>6
  <2>0. first \in Seq(Wire) /\ cols \in Seq(Wire)
    BY <1>5, <1>6
  <2>2. /\ a \in Seq(Wire) /\ Len(a) = Len(first) + Len(cols)
        /\ \A i \in 1..Len(first) : a[i] = first[i]
        /\ \A i \in 1..Len(cols) : a[Len(first) + i] = cols[i]
    BY <1>20, <2>0, Concat
  <2>3. a[1] = first[1] /\ a[Len(first) + 1] = cols[1]
    BY <2>1, <2>2
  <2> QED BY <1>5, <1>6, <2>1, <2>2, <2>3
<1>11. a \o <<>> = a
  BY <1>10, EmptyIs
<1>12. /\ b \in Seq(Wire) /\ Len(b) = k + 2 /\ b[1].role = "count" /\ b[2].role = "col"
       /\ \A i \in 3..(k + 2) : b[i].role = "row"
  <2>0. a \in Seq(Wire) /\ rows \in Seq(Wire)
    BY <1>4, <1>10
  <2>1. /\ b \in Seq(Wire) /\ Len(b) = Len(a) + Len(rows)
        /\ (\A i \in 1..Len(a) : b[i] = a[i])
        /\ \A i \in 1..Len(rows) : b[Len(a) + i] = rows[i]
    BY <1>20, <2>0, Concat
  <2>2. ASSUME NEW i \in 3..(k + 2) PROVE b[i].role = "row"
    <3>1. i - 2 \in 1..k /\ Len(a) + (i - 2) = i
      BY <1>3, <1>10
    <3>2. b[Len(a) + (i - 2)] = rows[i - 2]
      BY <1>4, <2>1, <3>1
    <3> QED BY <1>3, <3>1, <3>2
  <2>3. 1 \in 1..Len(a) /\ 2 \in 1..Len(a) /\ 2 + k = k + 2
    BY <1>3, <1>10
  <2> QED BY <1>4, <1>10, <2>1, <2>2, <2>3
<1>13. r = b \o last
  BY <1>9, <1>11 DEF a, b
<1>14. Len(r) = k + 3 /\ (\A i \in 1..(k + 2) : r[i] = b[i]) /\ r[k + 3] = last[1]
  <2>0. b \in Seq(Wire) /\ last \in Seq(Wire)
    BY <1>7, <1>12
  <2>1. /\ Len(r) = Len(b) + Len(last) /\ (\A i \in 1..Len(b) : r[i] = b[i])
        /\ \A i \in 1..Len(last) : r[Len(b) + i] = last[i]
    BY <1>13, <2>0, Concat
  <2>2. 1 \in 1..Len(last) /\ Len(b) + 1 = k + 3
    BY <1>3, <1>7, <1>12
  <2> QED BY <1>3, <1>7, <1>12, <2>1, <2>2
<1>15. 3 <= Len(r) /\ r[1].role = "count" /\ r[2].role = "col"
  <2>1. 1 \in 1..(k + 2) /\ 2 \in 1..(k + 2)
    BY <1>3
  <2> QED BY <1>3, <1>12, <1>14, <2>1
<1>16. ASSUME NEW i \in 3..(Len(r) - 1) PROVE r[i].role = "row"
  <2>1. i \in 1..(k + 2) /\ i \in 3..(k + 2)
    BY <1>3, <1>14
  <2> QED BY <1>12, <1>14, <2>1
<1>17. r[Len(r)].role \in {"eof", "err"}
  BY <1>7, <1>14
<1> QED BY <1>15, <1>16, <1>17

LEMMA ReplyShape ==
    ASSUME Orderly, NEW com, com \notin {"StmtPrepare", "StmtExecute"},
           NEW r \in Replies(com, 1, TextRows, {}, MaxRows)
    PROVE  ReplyForm(com, r)
<1> DEFINE single == {<<OkPacket>>, <<ErrPacket>>}
           sets   == ResultSets(1, TextRows, MaxRows)
           fields == Columns(1) \o <<Terminator>>
<1>1. /\ com = "Query" => r \in single \cup sets
      /\ com = "FieldList" => r \in {<<ErrPacket>>, fields}
      /\ com \notin {"Query", "FieldList"} => r \in single
  <2> DEFINE bins == ResultSets(1, {}, MaxRows)
             preps == {<<ErrPacket>>} \cup
                UNION { { <<PrepareOk(p, c)>>
                        \o (IF p > 0 THEN Columns(p) \o EofIfKept ELSE <<>>)
                        \o (IF c > 0 THEN Columns(c) \o EofIfKept ELSE <<>>) :
                        p \in 0..1 } : c \in 0..1 }
  <2>1. Replies(com, 1, TextRows, {}, MaxRows) =
          CASE com = "Query"       -> single \cup sets
            [] com = "StmtExecute" -> single \cup bins
            [] com = "StmtPrepare" -> preps
            [] com = "FieldList"   -> {<<ErrPacket>>, fields}
            [] OTHER               -> single
    BY DEF Replies
  <2> HIDE DEF single, sets, bins, preps, fields
  <2>2. com = "Query" => Replies(com, 1, TextRows, {}, MaxRows) = single \cup sets
    BY <2>1, Zenon
  <2>3. com = "FieldList" => Replies(com, 1, TextRows, {}, MaxRows) = {<<ErrPacket>>, fields}
    BY <2>1, Zenon
  <2>4. com \notin {"Query", "FieldList"} => Replies(com, 1, TextRows, {}, MaxRows) = single
    BY <2>1, Zenon
  <2> QED BY <2>2, <2>3, <2>4, Zenon
<1>2. OkPacket.role = "ok" /\ ErrPacket.role = "err" /\ ColumnPacket.role = "col"
      /\ Terminator.role = "eof"
  BY DEF OkPacket, ErrPacket, ColumnPacket, Terminator, EofPacket, Packet
<1>3. r \in single \cup {<<ErrPacket>>} => Len(r) = 1 /\ r[1].role \in {"ok", "err"}
  BY <1>2
<1>4. ASSUME r = fields PROVE Len(r) = 2 /\ r[1].role = "col" /\ r[2].role = "eof"
  <2>1. Columns(1) \in Seq(Wire) /\ Len(Columns(1)) = 1 /\ Columns(1)[1] = ColumnPacket
    BY WirePackets DEF Columns
  <2>2. <<Terminator>> \in Seq(Wire)
    BY WirePackets
  <2> QED BY <1>2, <1>4, <2>1, <2>2
<1>5. ASSUME r \in sets
      PROVE  /\ 3 <= Len(r) /\ r[1].role = "count" /\ r[2].role = "col"
             /\ \A i \in 3..(Len(r) - 1) : r[i].role = "row"
             /\ r[Len(r)].role \in {"eof", "err"}
  <2>1. r \in ResultSets(1, TextRows, MaxRows)
    BY <1>5
  <2> QED BY <2>1, ReplySetShape
<1> HIDE DEF sets, fields
<1>6. CASE com = "Query"
  BY <1>1, <1>3, <1>5, <1>6 DEF ReplyForm
<1>7. CASE com = "FieldList"
  BY <1>1, <1>3, <1>4, <1>7 DEF ReplyForm
<1>8. CASE com \notin {"Query", "FieldList"}
  BY <1>1, <1>3, <1>8 DEF ReplyForm
<1> QED BY <1>6, <1>7, <1>8

\* A new reply is one that a new accumulator expects.
LEMMA NewReply ==
    ASSUME Orderly, TypeInv, NEW com, com \notin {"StmtPrepare", "StmtExecute"},
           NEW r \in Replies(com, 1, TextRows, {}, MaxRows), NEW n \in 0..Current
    PROVE  LET s == Batch(Numbered(r), n) IN
           /\ s \in Seq(Letters(asked)) /\ LastEnds(s) /\ InOrder(s)
           /\ \A i \in 1..Len(s) : s[i].cmd = n
           /\ Expects(NewAccumulator, com, s)
<1> DEFINE s == Batch(Numbered(r), n)
<1>1. Len(asked) \in Nat /\ n \in 0..Len(asked)
  BY Queues DEF Current
<1>2. r \in Seq(Wire) /\ \A i \in 1..Len(r) : r[i].role \in Roles
  BY RepliesOnWire
<1>3. \A i \in 1..Len(r) : r[i].role # "command"
  BY <1>2 DEF Roles
<1>4. /\ s \in Seq(Letters(asked)) /\ Len(s) = Len(r)
      /\ \A i \in 1..Len(r) : /\ s[i].pkt.role = r[i].role /\ s[i].pkt.seq = i % SeqMod
                              /\ s[i].cmd = n /\ (s[i].last <=> i = Len(r))
  <2>1. /\ Batch(Numbered(r), n) \in Seq(Letters(asked))
        /\ Len(Batch(Numbered(r), n)) = Len(r)
        /\ \A i \in 1..Len(r) :
             /\ Batch(Numbered(r), n)[i].pkt.role = r[i].role
             /\ Batch(Numbered(r), n)[i].pkt.seq = i % SeqMod
             /\ Batch(Numbered(r), n)[i].cmd = n
             /\ Batch(Numbered(r), n)[i].last <=> i = Len(r)
    BY <1>1, <1>2, <1>3, Batched
  <2> QED BY <2>1
<1>5. ReplyForm(com, r)
  BY ReplyShape
<1> HIDE DEF s
<1>6. Len(r) \in Nat /\ Len(r) >= 1
  BY <1>2, <1>5 DEF ReplyForm
<1>7. InOrder(s)
  <2> SUFFICES ASSUME NEW i \in 2..Len(s)
               PROVE  s[i].pkt.seq = (s[i - 1].pkt.seq + 1) % SeqMod
    BY DEF InOrder
  <2>1. i - 1 \in Int /\ i \in 1..Len(r) /\ i - 1 \in 1..Len(r)
    BY <1>4, <1>6
  <2>2. (((i - 1) % SeqMod) + 1) % SeqMod = (i - 1 + 1) % SeqMod
    BY <2>1, NextNumber
  <2>3. i - 1 + 1 = i
    BY <2>1
  <2> QED BY <1>4, <2>1, <2>2, <2>3
<1>8. s # <<>> /\ LastEnds(s)
  BY <1>4, <1>6 DEF LastEnds
<1>9. NewAccumulator.state = "Initiated" /\ NewAccumulator.columns = 0
      /\ NewAccumulator.columnCount = 0
  BY DEF NewAccumulator
<1> DEFINE k == Len(r)
<1>11. Len(s) = k /\ \A i \in 1..k : s[i].pkt.role = r[i].role
  BY <1>4
<1>10. Expects(NewAccumulator, com, s)
  <2>1. CASE k = 1 /\ r[1].role \in {"ok", "err"}
    <3>1. 1 \in 1..k
      BY <2>1
    <3> QED BY <1>11, <2>1, <3>1 DEF Expects, Just
  <2>2. CASE /\ com = "Query" /\ 3 <= k /\ r[1].role = "count" /\ r[2].role = "col"
             /\ \A i \in 3..(k - 1) : r[i].role = "row"
             /\ r[k].role \in {"eof", "err"}
    <3>1. /\ 1 \in 1..k /\ 2 \in 1..k /\ k \in 1..k
          /\ \A i \in 3..(k - 1) : i \in 1..k
      BY <1>6, <2>2
    <3>2. RowsThenEnd(s, 3)
      BY <1>11, <2>2, <3>1 DEF RowsThenEnd
    <3> QED BY <1>9, <1>11, <2>2, <3>1, <3>2 DEF Expects
  <2>3. CASE com = "FieldList" /\ k = 2 /\ r[1].role = "col" /\ r[2].role = "eof"
    <3>1. 1 \in 1..k /\ 2 \in 1..k
      BY <2>3
    <3> QED BY <1>9, <1>11, <2>3, <3>1 DEF Expects
  <2> QED BY <1>5, <2>1, <2>2, <2>3 DEF ReplyForm
<1> QED BY <1>4, <1>7, <1>8, <1>10 DEF s

LEMMA RemainingNext ==
    ASSUME NEW s, LastEnds(s), InOrder(s), \A i \in 1..Len(s) : s[i].cmd \in {0, Current'},
           Expects(acc', lastCommand'.com, s)
    PROVE  /\ frame' \o s2p' = s => Remaining(frame \o s2p)'
           /\ frame' = s => Remaining(frame)'
BY DEF Remaining, ForCurrent

\* The command is the one the client waits for; its reply is one the accumulator expects.
LEMMA ExecutedSession ==
    ASSUME Orderly, TypeInv, SessionInv, ServerExecutes
    PROVE  SessionInv'
<1> DEFINE i == Head(p2s).cmd
           c == asked[i]
<1>1. /\ server = "ready" /\ p2s # <<>> /\ Head(p2s).pkt.role = "command" /\ p2s' = Tail(p2s)
      /\ executed' = Append(executed, i)
      /\ server' = IF c.com = "Quit" THEN "closed" ELSE "ready"
      /\ IF Unanswered(c)
         THEN s2p' = s2p
         ELSE \E reply \in Replies(c.com, 1, TextRows, {}, MaxRows) :
                s2p' = s2p \o Batch(Numbered(reply), i)
      /\ UNCHANGED <<side, pc, frame, outgoing, connection, c2p, p2c, client, asked, answered>>
  BY DEF ServerExecutes, ServerOnly, ServerSends, Received
<1>2. p2s[1] = Head(p2s) /\ Len(p2s) \in Nat \ {0} /\ (Len(p2s) = 1 => p2s' = <<>>)
  BY <1>1, Queues, TailOf
<1>3. CommandSent
  <2>1. CommandSent \/ Returned
    BY <1>1, Situations
  <2>2. ~Only(p2s, {"sslRequest"})
    BY <1>1, <1>2 DEF Only
  <2> QED BY <2>1, <2>2 DEF Returned
<1>4. i = Current /\ p2s' = <<>> /\ s2p = <<>> /\ Current > 0 /\ c = lastCommand /\ pc = "read"
      /\ ~KeptLocal(c) /\ acc = NewAccumulator /\ PassedTo(Current - 1)
  BY <1>2, <1>3 DEF CommandSent, Forwarded, Asks
<1>5. Current \in Nat /\ c \in Commands
  BY <1>4, Queues DEF Current
<1>6. c.com \notin {"StmtPrepare", "StmtExecute", "StmtSendLongData", "StmtClose"}
  BY <1>5 DEF Orderly, PreparedComs
<1> HIDE DEF i, c
<1>7. /\ Len(executed') = Len(executed) + 1 /\ Len(executed) \in Nat
      /\ executed'[Len(executed) + 1] = Current
      /\ \A k \in 1..Len(executed) : executed'[k] = executed[k]
      /\ executed' # <<>>
  <2>1. executed \in Seq(1..Current)
    BY Queues DEF Current
  <2> DEFINE n == Current
  <2>2. executed' = Append(executed, n) /\ n \in 1..n /\ executed \in Seq(1..n)
    BY <1>1, <1>4, <1>5, <2>1
  <2> HIDE DEF n
  <2>3. /\ Len(executed') = Len(executed) + 1 /\ Len(executed) \in Nat
        /\ executed'[Len(executed) + 1] = n
        /\ \A k \in 1..Len(executed) : executed'[k] = executed[k]
        /\ executed' # <<>>
    BY <2>2
  <2> QED BY <2>3 DEF n
<1>8. Books'
  <2>1. Books
    BY DEF SessionInv
  <2>2. FrameOK'
    BY <1>1, <2>1 DEF Books, FrameOK, Typed
  <2>3. FlagsOK'
    BY <1>1, <2>1 DEF Books, FlagsOK, connection
  <2>4. Owed'
    BY <1>1, <2>1 DEF Books, Owed, ForCurrent, Current
  <2>5. NoneKept'
    <3> SUFFICES ASSUME NEW k \in 1..Len(executed') PROVE ~KeptLocal(asked[executed'[k]])
      BY <1>1 DEF NoneKept
    <3>1. CASE k \in 1..Len(executed)
      BY <1>7, <2>1, <3>1 DEF Books, NoneKept
    <3>2. CASE k = Len(executed) + 1
      BY <1>4, <1>7, <3>2 DEF c
    <3> QED BY <1>7, <3>1, <3>2
  <2> QED BY <1>4, <2>2, <2>3, <2>4, <2>5 DEF Books, GoneOK
<1>9. CASE Unanswered(c)
  <2>1. server' = "closed" /\ s2p' = s2p
    BY <1>1, <1>6, <1>9 DEF Unanswered
  <2>2. Abandoned'
    BY <1>1, <1>3, <1>4, <2>1
       DEF CommandSent, Forwarded, Abandoned, Quiet, connection, NoneLast, Current
  <2> QED BY <1>8, <2>2 DEF SessionInv, Conversing
<1>10. CASE ~Unanswered(c)
  <2>1. PICK reply \in Replies(c.com, 1, TextRows, {}, MaxRows) :
          s2p' = s2p \o Batch(Numbered(reply), Current)
    BY <1>1, <1>4, <1>10
  <2> DEFINE com == c.com
  <2>2. PICK s : /\ s = Batch(Numbered(reply), Current)
                 /\ s \in Seq(Letters(asked)) /\ LastEnds(s) /\ InOrder(s)
                 /\ \A j \in 1..Len(s) : s[j].cmd = Current
                 /\ Expects(NewAccumulator, com, s)
    <3>1. com \notin {"StmtPrepare", "StmtExecute"} /\ Current \in 0..Current
      BY <1>5, <1>6
    <3>2. reply \in Replies(com, 1, TextRows, {}, MaxRows)
      BY <2>1
    <3> HIDE DEF com
    <3>3. LET t == Batch(Numbered(reply), Current) IN
          /\ t \in Seq(Letters(asked)) /\ LastEnds(t) /\ InOrder(t)
          /\ \A j \in 1..Len(t) : t[j].cmd = Current
          /\ Expects(NewAccumulator, com, t)
      BY <3>1, <3>2, NewReply
    <3> QED BY <3>3
  <2>3. server' = "ready"
    BY <1>1, <1>10 DEF Unanswered
  <2>4. frame = <<>>
    BY <1>4 DEF SessionInv, Books, FrameOK
  <2>5. s2p' = s /\ frame' \o s2p' = s
    BY <1>1, <1>4, <2>1, <2>2, <2>4, EmptyIs
  <2>6. Remaining(frame \o s2p)'
    <3>1. Expects(acc', lastCommand'.com, s)
      BY <1>1, <1>4, <2>2 DEF connection
    <3>2. \A j \in 1..Len(s) : s[j].cmd \in {0, Current'}
      BY <1>1, <2>2 DEF Current
    <3> QED BY <2>2, <2>5, <3>1, <3>2, RemainingNext
  <2>7. Answerable' /\ PassedTo(Current)'
    <3>1. LastExecuted' = Current /\ Current' = Current
      BY <1>1, <1>7 DEF LastExecuted, Current
    <3>2. Len(executed) + 1 \in 1..Len(executed')
      BY <1>7
    <3>3. Answerable'
      BY <1>1, <1>7, <3>2 DEF Answerable, Current
    <3>4. PassedTo(Current)'
      BY <1>5, <3>1 DEF PassedTo
    <3> QED BY <3>3, <3>4
  <2>8. Forwarded'
    BY <1>1, <1>3, <1>4 DEF CommandSent, Forwarded, NoneLast, ForCurrent, Current, connection
  <2>9. Replying'
    BY <1>1, <1>4, <2>3, <2>6, <2>7, <2>8 DEF Replying
  <2> QED BY <1>8, <2>9 DEF SessionInv, Conversing
<1> QED BY <1>9, <1>10

\* A server that drops an idle session has said all it had to say but for that.
LEMMA DroppedSession ==
    ASSUME TypeInv, SessionInv, ServerDropsSession
    PROVE  SessionInv'
<1>1. /\ server = "ready" /\ p2s = <<>> /\ s2p = <<>> /\ server' = "closed" /\ p2s' = <<>>
      /\ s2p' = <<>> \o <<>> \/ s2p' = <<>> \o Alone(ErrPacket)
      /\ UNCHANGED <<side, pc, frame, outgoing, connection, c2p, p2c, client, asked,
                     answered, executed>>
  BY DEF ServerDropsSession, ServerOnly, ServerSends
<1>2. Books'
  BY <1>1, ServerBooks
<1>3. Quiet'
  <2> DEFINE pkt == ErrPacket
  <2>1. pkt.role = "err"
    BY DEF ErrPacket, Packet
  <2> HIDE DEF pkt
  <2>2. CASE s2p' = <<>> \o Alone(ErrPacket)
    <3>1. s2p' = Alone(pkt)
      BY <2>2, AloneIs DEF pkt
    <3> QED BY <1>1, <2>1, <3>1, AloneIs DEF Quiet, Notice, Just
  <2>3. CASE s2p' = <<>> \o <<>>
    BY <1>1, <2>3 DEF Quiet
  <2> QED BY <1>1, <2>2, <2>3
<1>4. UNCHANGED <<Fresh, Current, LastExecuted>> /\ PassedTo(Current)' /\ PassedTo(Current - 1)'
  BY <1>1 DEF Fresh, Current, LastExecuted, PassedTo
<1>5. \/ VerdictRead \/ OutcomeRead \/ Settled \/ AwaitsCommand \/ CommandRead \/ CommandTaken
      \/ Replying \/ (Returned /\ client = "closed")
  <2>1. ~VerdictSent /\ ~OutcomeSent
    BY <1>1 DEF VerdictSent, OutcomeSent, Just, MoreThenOk
  <2> QED BY <1>1, <2>1, Situations
<1> USE DEF connection
<1>6. CASE VerdictRead
  <2>1. VerdictRead'
    BY <1>1, <1>3, <1>4, <1>6 DEF VerdictRead, Just
  <2> QED BY <1>2, <2>1 DEF SessionInv, Connecting
<1>7. CASE OutcomeRead
  <2>1. OutcomeRead'
    BY <1>1, <1>3, <1>4, <1>7 DEF OutcomeRead, Just
  <2> QED BY <1>2, <2>1 DEF SessionInv, Connecting
<1>8. CASE Settled
  <2>1. Settled'
    BY <1>1, <1>3, <1>4, <1>8 DEF Settled, Answerable, ForCurrent, LastEnds, NoneLast
  <2> QED BY <1>2, <2>1 DEF SessionInv, Conversing
<1>9. CASE AwaitsCommand
  <2>1. AwaitsCommand'
    BY <1>1, <1>3, <1>4, <1>9 DEF AwaitsCommand, Answerable, LastEnds, Asks
  <2> QED BY <1>2, <2>1 DEF SessionInv, Conversing
<1>10. CASE CommandRead
  <2>1. CommandRead'
    BY <1>1, <1>3, <1>4, <1>10 DEF CommandRead, Asks
  <2> QED BY <1>2, <2>1 DEF SessionInv, Conversing
<1>11. CASE CommandTaken
  <2>1. CommandTaken'
    BY <1>1, <1>3, <1>4, <1>11 DEF CommandTaken, Asks
  <2> QED BY <1>2, <2>1 DEF SessionInv, Conversing
<1>12. CASE Replying
  <2>1. frame \o s2p = frame
    BY <1>1, Queues, EmptyIs
  <2>2. Remaining(frame) /\ frame # <<>>
    BY <1>12, <2>1 DEF Replying, Remaining, LastEnds
  <2>3. pc = "process"
    BY <1>12, <2>2 DEF Replying, SessionInv, Books, FrameOK
  <2>4. Remaining(frame)'
    BY <1>1, <1>4, <2>2 DEF Remaining, LastEnds, InOrder, ForCurrent
  <2>5. Dropped'
    BY <1>1, <1>3, <1>4, <1>12, <2>3, <2>4
       DEF Replying, Dropped, Forwarded, NoneLast, ForCurrent
  <2> QED BY <1>2, <2>5 DEF SessionInv, Conversing
<1>13. CASE Returned /\ client = "closed"
  BY <1>1, <1>2, <1>13 DEF SessionInv, Returned, Only
<1> QED BY <1>5, <1>6, <1>7, <1>8, <1>9, <1>10, <1>11, <1>12, <1>13

LEMMA CutOffSession ==
    ASSUME TypeInv, SessionInv, ServerCutOff
    PROVE  SessionInv'
<1>1. /\ Done /\ server # "closed" /\ server' = "closed" /\ p2s = <<>> /\ p2s' = <<>>
      /\ UNCHANGED <<side, pc, frame, outgoing, connection, c2p, p2c, s2p, client, asked,
                     answered, executed>>
  BY DEF ServerCutOff, ServerOnly
<1>2. Returned /\ client = "closed"
  BY <1>1, Situations DEF Done
<1>3. Books'
  BY <1>1, ServerBooks
<1> QED BY <1>1, <1>2, <1>3 DEF SessionInv, Returned, Only

-----------------------------------------------------------------------------
(* The client's steps.                                                     *)

\* A client that asks nothing changes what it is owed only by taking some of it.
LEMMA ClientBooks ==
    ASSUME SessionInv,
           UNCHANGED <<side, pc, frame, outgoing, connection, p2s, s2p, server, executed, asked>>,
           Owed'
    PROVE  Books'
<1>1. Books
  BY DEF SessionInv
<1>2. FrameOK'
  BY <1>1 DEF Books, FrameOK, Typed
<1>3. FlagsOK'
  BY <1>1 DEF Books, FlagsOK, connection
<1>4. GoneOK'
  BY <1>1 DEF Books, GoneOK
<1>5. NoneKept'
  BY <1>1 DEF Books, NoneKept
<1> QED BY <1>2, <1>3, <1>4, <1>5 DEF Books

LEMMA ClosedSession ==
    ASSUME TypeInv, SessionInv, ClientCloses
    PROVE  SessionInv'
<1>1. /\ client # "closed" /\ client' = "closed" /\ p2c' = <<>>
      /\ UNCHANGED <<side, pc, frame, outgoing, connection, c2p, p2s, s2p, server, executed,
                     asked, answered>>
  BY DEF ClientCloses, ClientOnly
<1>2. Books'
  <2>1. Owed'
    BY <1>1 DEF Owed
  <2> QED BY <1>1, <2>1, ClientBooks
<1>3. /\ UNCHANGED <<Fresh, Current, LastExecuted, Quiet>>
      /\ (PassedTo(Current) => PassedTo(Current)')
      /\ (PassedTo(Current - 1) => PassedTo(Current - 1)')
      /\ (Fresh => PassedTo(Current))
  BY <1>1 DEF Fresh, Current, LastExecuted, Quiet, PassedTo
<1> USE DEF connection
<1>4. CASE AwaitsGreeting \/ GreetingSent \/ GreetingRead \/ GreetingTaken
  BY <1>1, <1>2, <1>3, <1>4
     DEF AwaitsGreeting, GreetingSent, GreetingRead, GreetingTaken, SessionInv, Connecting
<1>5. CASE AwaitsLogin \/ AwaitsSecureLogin
  BY <1>1, <1>2, <1>3, <1>5
     DEF AwaitsLogin, AwaitsSecureLogin, IfAny, SessionInv, Connecting
<1>6. CASE SslRead \/ LoginRead \/ TlsAwaited \/ LoginTaken \/ LoginSent
  BY <1>1, <1>2, <1>3, <1>6
     DEF SslRead, LoginRead, TlsAwaited, LoginTaken, LoginSent, SessionInv, Connecting
<1>7. CASE VerdictSent \/ VerdictRead \/ DataAsked \/ AwaitsData \/ DataRead \/ DataTaken
           \/ DataSent
  BY <1>1, <1>2, <1>3, <1>7
     DEF VerdictSent, VerdictRead, DataAsked, AwaitsData, DataRead, DataTaken, DataSent,
         SessionInv, Connecting
<1>8. CASE OutcomeSent \/ OutcomeRead \/ Refused
  <2>1. Only(p2c', {"authMore"}) /\ Only(p2c', {"authMore", "err"})
    BY <1>1 DEF Only
  <2> QED BY <1>1, <1>2, <1>3, <1>8, <2>1
          DEF OutcomeSent, OutcomeRead, Refused, SessionInv, Connecting
<1>9. CASE Settled \/ AwaitsCommand
  <2>1. ForCurrent(outgoing) => ForCurrent(outgoing)'
    BY <1>1 DEF ForCurrent, Current
  <2>2. Asks(c2p) => Asks(c2p)'
    BY <1>1 DEF Asks, Current
  <2> QED BY <1>1, <1>2, <1>3, <1>9, <2>1, <2>2
          DEF Settled, AwaitsCommand, SessionInv, Conversing
<1>10. CASE CommandRead \/ CommandTaken
  BY <1>1, <1>2, <1>3, <1>10
     DEF CommandRead, CommandTaken, Asks, SessionInv, Conversing
<1>11. CASE CommandSent \/ Replying \/ Dropped \/ Abandoned
  <2>1. Forwarded'
    <3>1. Forwarded
      BY <1>11 DEF CommandSent, Replying, Dropped, Abandoned
    <3>2. NoneLast(p2c')
      BY <1>1 DEF NoneLast
    <3> QED BY <1>1, <1>3, <3>1, <3>2 DEF Forwarded, ForCurrent
  <2>2. /\ Remaining(frame \o s2p) => Remaining(frame \o s2p)'
        /\ Remaining(frame) => Remaining(frame)'
        /\ Asks(p2s) => Asks(p2s)'
        /\ Answerable => Answerable'
    BY <1>1, <1>3 DEF Remaining, ForCurrent, Asks, Answerable
  <2> QED BY <1>1, <1>2, <1>3, <1>11, <2>1, <2>2
          DEF CommandSent, Replying, Dropped, Abandoned, SessionInv, Conversing
<1>12. CASE Returned
  BY <1>1, <1>2, <1>12 DEF Returned, SessionInv, Only
<1> QED BY <1>4, <1>5, <1>6, <1>7, <1>8, <1>9, <1>10, <1>11, <1>12
        DEF SessionInv, Connecting, Conversing

LEMMA GreetedSession ==
    ASSUME TypeInv, SessionInv, ClientGreeted
    PROVE  SessionInv'
<1>1. /\ client = "greet" /\ p2c # <<>> /\ p2c' = Tail(p2c)
      /\ \/ client' = "tls" /\ c2p' = c2p \o (Alone(SslRequest) \o Alone(Hello))
         \/ client' = "auth" /\ c2p' = c2p \o Alone(LoginData)
      /\ UNCHANGED <<side, pc, frame, outgoing, connection, p2s, s2p, server, executed,
                     asked, answered>>
  BY DEF ClientGreeted, ClientOnly, ClientSends
<1>2. AwaitsLogin /\ c2p = <<>> /\ p2c' = <<>>
  <2>1. AwaitsLogin \/ Returned
    BY <1>1, Situations
  <2>2. AwaitsLogin
    BY <1>1, <2>1 DEF Returned
  <2>3. c2p = <<>> /\ Len(p2c) = 1
    BY <1>1, <2>2 DEF AwaitsLogin, Just
  <2> QED BY <1>1, <2>2, <2>3, Queues, TailOf
<1>3. \/ client' = "tls" /\ SslThenHello(c2p')
      \/ client' = "auth" /\ Just(c2p', "response")
  <2> DEFINE ask   == SslRequest
             hello == Hello
             login == LoginData
  <2>1. ask.role = "sslRequest" /\ hello.role = "hello" /\ login.role = "response"
    BY DEF SslRequest, Hello, LoginData, Packet
  <2> HIDE DEF ask, hello, login
  <2>2. Len(Alone(ask) \o Alone(hello)) = 2 /\ (Alone(ask) \o Alone(hello))[1].pkt = ask
        /\ (Alone(ask) \o Alone(hello))[2].pkt = hello
        /\ <<>> \o (Alone(ask) \o Alone(hello)) = Alone(ask) \o Alone(hello)
    BY DEF Alone, Message
  <2>3. CASE client' = "tls" /\ c2p' = c2p \o (Alone(SslRequest) \o Alone(Hello))
    <3>1. c2p' = Alone(ask) \o Alone(hello)
      BY <1>2, <2>2, <2>3 DEF ask, hello
    <3> QED BY <2>1, <2>2, <2>3, <3>1 DEF SslThenHello
  <2>4. CASE client' = "auth" /\ c2p' = c2p \o Alone(LoginData)
    <3>1. c2p' = Alone(login)
      BY <1>2, <2>4, AloneIs DEF login
    <3>2. Len(Alone(login)) = 1 /\ Alone(login)[1].pkt = login
      BY AloneIs
    <3>3. Just(c2p', "response")
      BY <2>1, <3>1, <3>2 DEF Just
    <3> QED BY <2>4, <3>3
  <2> QED BY <1>1, <2>3, <2>4
<1>4. Owed'
  BY <1>1, <1>2, <1>3 DEF Owed
<1>5. Books'
  BY <1>1, <1>4, ClientBooks
<1>6. AwaitsLogin'
  BY <1>1, <1>2, <1>3 DEF AwaitsLogin, Fresh, connection
<1> QED BY <1>5, <1>6 DEF SessionInv, Connecting

LEMMA LoggedInSession ==
    ASSUME TypeInv, SessionInv, ClientLogsIn
    PROVE  SessionInv'
<1>1. /\ client = "secured" /\ client' = "auth" /\ c2p' = c2p \o Alone(LoginData)
      /\ UNCHANGED <<side, pc, frame, outgoing, connection, p2c, p2s, s2p, server, executed,
                     asked, answered>>
  BY DEF ClientLogsIn, ClientOnly, ClientSends
<1>2. AwaitsSecureLogin /\ c2p = <<>> /\ p2c = <<>>
  <2>1. AwaitsSecureLogin
    BY <1>1, Situations DEF Returned
  <2> QED BY <1>1, <2>1 DEF AwaitsSecureLogin
<1>3. Just(c2p', "response")
  <2> DEFINE login == LoginData
  <2>1. login.role = "response"
    BY DEF LoginData, Packet
  <2> HIDE DEF login
  <2>2. c2p' = Alone(login)
    BY <1>1, <1>2, AloneIs DEF login
  <2> QED BY <2>1, <2>2, AloneIs DEF Just
<1>4. Owed'
  BY <1>1, <1>2 DEF Owed
<1>5. Books'
  BY <1>1, <1>4, ClientBooks
<1>6. AwaitsSecureLogin'
  BY <1>1, <1>2, <1>3 DEF AwaitsSecureLogin, Fresh, connection
<1> QED BY <1>5, <1>6 DEF SessionInv, Connecting

LEMMA AuthenticatedSession ==
    ASSUME TypeInv, SessionInv, ClientAuthenticates
    PROVE  SessionInv'
<1> DEFINE role == Head(p2c).pkt.role
<1>1. /\ client = "auth" /\ p2c # <<>> /\ p2c' = Tail(p2c)
      /\ c2p' = c2p \o (IF role = "authAsk" THEN Alone(AuthData) ELSE <<>>)
      /\ client' = CASE role = "ok" -> "ready" [] role = "err" -> "closed" [] OTHER -> "auth"
      /\ UNCHANGED <<side, pc, frame, outgoing, connection, p2s, s2p, server, executed,
                     asked, answered>>
  BY DEF ClientAuthenticates, ClientOnly, ClientSends
<1>2. /\ role = p2c[1].pkt.role /\ Len(p2c) \in Nat \ {0} /\ Len(p2c') = Len(p2c) - 1
      /\ \A i \in 1..(Len(p2c) - 1) : p2c'[i] = p2c[i + 1]
      /\ Len(p2c) = 1 => p2c' = <<>>
      /\ 1 \in 1..Len(p2c)
  BY <1>1, Queues, TailOf
<1>3. /\ role = "ok"  => client' = "ready"
      /\ role = "err" => client' = "closed"
      /\ role \notin {"ok", "err"} => client' = "auth"
  <2> HIDE DEF role
  <2> QED BY <1>1, Zenon
<1>4. role # "authAsk" => c2p' = c2p
  BY <1>1, Queues, EmptyIs
<1> DEFINE asks == role = "authAsk"
<1>5. asks => c2p' = c2p \o Alone(AuthData)
  BY <1>1
<1> HIDE DEF role, asks
<1>6. Owed'
  <2>1. \A i \in 1..Len(p2c) : p2c[i].cmd = 0
    BY <1>1 DEF SessionInv, Books, Owed
  <2>2. client' # "waiting"
    BY <1>3
  <2>3. \A i \in 1..Len(p2c') : p2c'[i].cmd = 0
    BY <1>2, <2>1
  <2> QED BY <2>2, <2>3 DEF Owed
<1>7. Books'
  BY <1>1, <1>6, ClientBooks
<1>8. /\ UNCHANGED <<Fresh, Current, Quiet, LastExecuted>>
      /\ (PassedTo(Current) => PassedTo(Current)')
      /\ (Fresh => PassedTo(Current))
  BY <1>1 DEF Fresh, Current, Quiet, LastExecuted, PassedTo
<1>9. \A roles : Only(p2c, roles) => Only(p2c', roles) /\ role \in roles
  <2> SUFFICES ASSUME NEW roles, Only(p2c, roles)
               PROVE  Only(p2c', roles) /\ role \in roles
    OBVIOUS
  <2>1. role \in roles
    BY <1>2 DEF Only
  <2>2. ASSUME NEW i \in 1..Len(p2c') PROVE p2c'[i].pkt.role \in roles
    <3>1. i \in 1..(Len(p2c) - 1) /\ i + 1 \in 1..Len(p2c)
      BY <1>2
    <3> QED BY <1>2, <3>1 DEF Only
  <2> QED BY <2>1, <2>2 DEF Only
<1> USE DEF connection
<1>10. \/ AwaitsData \/ OutcomeSent \/ OutcomeRead \/ Refused \/ Settled \/ AwaitsCommand
       \/ Returned
  BY <1>1, Situations
<1>11. CASE AwaitsData
  <2>1. Just(p2c, "authAsk") /\ c2p = <<>> /\ asks /\ role = "authAsk"
    BY <1>1, <1>2, <1>11 DEF AwaitsData, Just, asks
  <2>2. Just(c2p', "authData") /\ p2c' = <<>>
    <3> DEFINE data == AuthData
    <3>1. data.role = "authData"
      BY DEF AuthData, Packet
    <3> HIDE DEF data
    <3>2. c2p' = Alone(data)
      BY <1>5, <2>1, AloneIs DEF data
    <3> QED BY <1>2, <2>1, <3>1, <3>2, AloneIs DEF Just
  <2>3. AwaitsData'
    BY <1>1, <1>3, <1>8, <1>11, <2>1, <2>2 DEF AwaitsData
  <2> QED BY <1>7, <2>3 DEF SessionInv, Connecting
<1>12. CASE OutcomeSent \/ OutcomeRead
  <2>1. Only(p2c, {"authMore"})
    BY <1>12 DEF OutcomeSent, OutcomeRead
  <2>2. role = "authMore" /\ Only(p2c', {"authMore"})
    BY <1>9, <2>1
  <2>3. client' = "auth" /\ c2p' = c2p
    BY <1>3, <1>4, <2>2
  <2>4. OutcomeSent' \/ OutcomeRead'
    BY <1>1, <1>8, <1>12, <2>2, <2>3 DEF OutcomeSent, OutcomeRead
  <2> QED BY <1>7, <2>4 DEF SessionInv, Connecting
<1>13. CASE Refused
  <2>1. Only(p2c, {"authMore", "err"})
    BY <1>13 DEF Refused
  <2>2. role \in {"authMore", "err"} /\ Only(p2c', {"authMore", "err"})
    BY <1>9, <2>1
  <2>3. client' \in {"auth", "closed"} /\ c2p' = c2p
    BY <1>3, <1>4, <2>2
  <2>4. Refused'
    BY <1>1, <1>8, <1>13, <2>2, <2>3 DEF Refused
  <2> QED BY <1>7, <2>4 DEF SessionInv, Connecting
<1>14. CASE Settled
  <2>1. Only(p2c, {"authMore"})
    BY <1>1, <1>14 DEF Settled
  <2>2. role = "authMore" /\ Only(p2c', {"authMore"})
    BY <1>9, <2>1
  <2>3. client' = "auth" /\ c2p' = c2p
    BY <1>3, <1>4, <2>2
  <2>4. Settled'
    BY <1>1, <1>8, <1>14, <2>2, <2>3 DEF Settled, ForCurrent
  <2> QED BY <1>7, <2>4 DEF SessionInv, Conversing
<1>15. CASE AwaitsCommand
  <2>1. Accepted(p2c) /\ Fresh /\ c2p = <<>>
    BY <1>1, <1>15 DEF AwaitsCommand
  <2>2. role = IF 1 = Len(p2c) THEN "ok" ELSE "authMore"
    BY <1>2, <2>1 DEF Accepted
  <2>3. c2p' = <<>>
    BY <1>4, <2>1, <2>2
  <2>4. CASE Len(p2c) = 1
    <3>1. client' = "ready" /\ p2c' = <<>>
      BY <1>2, <1>3, <2>2, <2>4
    <3>2. AwaitsCommand'
      BY <1>1, <1>8, <1>15, <2>1, <2>3, <3>1 DEF AwaitsCommand
    <3> QED BY <1>7, <3>2 DEF SessionInv, Conversing
  <2>5. CASE Len(p2c) # 1
    <3>1. client' = "auth"
      BY <1>3, <2>2, <2>5
    <3>2. Accepted(p2c')
      <4>1. Len(p2c') \in Nat /\ Len(p2c') # 0
        BY <1>2, <2>5
      <4>2. p2c' # <<>>
        BY <4>1
      <4>3. ASSUME NEW i \in 1..Len(p2c')
            PROVE  p2c'[i].pkt.role = IF i = Len(p2c') THEN "ok" ELSE "authMore"
        <5>1. i \in 1..(Len(p2c) - 1) /\ i + 1 \in 1..Len(p2c)
              /\ (i = Len(p2c') <=> i + 1 = Len(p2c))
          BY <1>2
        <5> QED BY <1>2, <2>1, <5>1 DEF Accepted
      <4> QED BY <4>2, <4>3 DEF Accepted
    <3>3. AwaitsCommand'
      BY <1>1, <1>8, <1>15, <2>1, <2>3, <3>1, <3>2 DEF AwaitsCommand
    <3> QED BY <1>7, <3>3 DEF SessionInv, Conversing
  <2> QED BY <2>4, <2>5
<1>16. CASE Returned
  <2>1. /\ server = "closed" /\ Fresh
        /\ \A i \in 1..Len(p2c) : p2c[i].pkt.role = "ok" => i = Len(p2c)
    BY <1>1, <1>16 DEF Returned
  <2>2. role = "ok" => p2c' = <<>>
    BY <1>2, <2>1
  <2>3. ASSUME NEW i \in 1..Len(p2c'), p2c'[i].pkt.role = "ok" PROVE i = Len(p2c')
    <3>1. i \in 1..(Len(p2c) - 1) /\ i + 1 \in 1..Len(p2c)
      BY <1>2
    <3>2. i + 1 = Len(p2c)
      BY <1>2, <2>1, <2>3, <3>1
    <3> QED BY <1>2, <3>1, <3>2
  <2>4. Returned'
    BY <1>1, <1>3, <1>8, <1>16, <2>1, <2>2, <2>3 DEF Returned, Only
  <2> QED BY <1>7, <2>4 DEF SessionInv
<1> QED BY <1>10, <1>11, <1>12, <1>13, <1>14, <1>15, <1>16

\* A client asks when all it asked before is settled.
LEMMA AskedSession ==
    ASSUME Orderly, TypeInv, SessionInv, ClientAsks
    PROVE  SessionInv'
<1>1. PICK c \in Commands :
        /\ asked' = Append(asked, c)
        /\ c2p' = c2p \o <<Message(CommandPacket(c), Len(asked) + 1, TRUE)>>
        /\ client' = IF c.com = "Quit" THEN "closed"
                     ELSE IF Unanswered(c) THEN "ready" ELSE "waiting"
  BY DEF ClientAsks, ClientSends
<1>2. /\ client = "ready"
      /\ UNCHANGED <<side, pc, frame, outgoing, connection, p2c, p2s, s2p, server, executed,
                     answered>>
  BY DEF ClientAsks, ClientOnly
<1>3. client' \in {"closed", "waiting"}
  <2>1. Unanswered(c) => c.com = "Quit"
    BY DEF Orderly, PreparedComs, Unanswered
  <2> QED BY <1>1, <2>1, Zenon
<1>4. /\ Current \in Nat /\ Current' = Current + 1
      /\ \A j \in 1..Current : asked'[j] = asked[j]
  BY <1>1, Queues DEF Current
<1>5. /\ p2c = <<>>
      /\ \/ AwaitsCommand /\ c2p = <<>> /\ PassedTo(Current)
         \/ Returned /\ server = "closed"
  <2>1. AwaitsCommand \/ Returned
    BY <1>2, Situations
  <2> QED BY <1>2, <2>1 DEF AwaitsCommand, Returned
<1>6. /\ executed \in Seq(1..Current) /\ LastExecuted \in 0..Current
      /\ \A k \in 1..Len(executed) : executed[k] \in 1..Current
  <2>1. executed \in Seq(1..Current)
    BY Queues DEF Current
  <2> DEFINE n == Current
  <2> HIDE DEF n
  <2>2. executed \in Seq(1..n) /\ n \in Nat
    BY <1>4, <2>1 DEF n
  <2>3. /\ \A k \in 1..Len(executed) : executed[k] \in 1..n
        /\ executed # <<>> => executed[Len(executed)] \in 1..n
    BY <2>2
  <2>4. 0 \in 0..n /\ 1..n \subseteq 0..n
    BY <2>2
  <2> QED BY <2>1, <2>3, <2>4 DEF n, LastExecuted
<1>7. Books'
  <2>1. Books
    BY DEF SessionInv
  <2>2. FrameOK'
    BY <1>2, <2>1 DEF Books, FrameOK, Typed
  <2>3. FlagsOK'
    BY <1>2, <2>1 DEF Books, FlagsOK, connection
  <2>4. GoneOK'
    BY <1>2, <2>1 DEF Books, GoneOK
  <2>5. Owed'
    <3>1. answered < Current + 1
      BY <1>4 DEF TypeInv, TypeOK, Current
    <3> QED BY <1>2, <1>4, <1>5, <3>1 DEF Owed, ForCurrent
  <2>6. NoneKept'
    BY <1>2, <1>4, <1>6, <2>1 DEF Books, NoneKept
  <2> QED BY <2>2, <2>3, <2>4, <2>5, <2>6 DEF Books
<1>8. CASE AwaitsCommand /\ c2p = <<>> /\ PassedTo(Current)
  <2>1. Asks(c2p)'
    <3> DEFINE m == Message(CommandPacket(c), Len(asked) + 1, TRUE)
    <3>1. m.pkt.role = "command" /\ m.cmd = Current'
      BY <1>4 DEF Message, CommandPacket, Packet, Current
    <3>2. c2p' = c2p \o <<m>>
      BY <1>1
    <3> HIDE DEF m
    <3>3. c2p' = <<m>>
      BY <1>8, <3>2
    <3> QED BY <3>1, <3>3 DEF Asks
  <2>2. PassedTo(Current - 1)'
    <3>1. Current' - 1 = Current /\ LastExecuted' = LastExecuted
      BY <1>2, <1>4 DEF LastExecuted
    <3>2. \A j \in (LastExecuted + 1)..Current : j \in 1..Current
      BY <1>4, <1>6
    <3>3. \A j \in (LastExecuted + 1)..Current : KeptLocal(asked[j]) = KeptLocal(asked'[j])
      BY <1>4, <3>2
    <3> QED BY <1>2, <1>8, <3>1, <3>3 DEF PassedTo
  <2>3. Quiet'
    BY <1>2, <1>8 DEF AwaitsCommand, Quiet
  <2>4. AwaitsCommand'
    BY <1>2, <1>3, <1>5, <1>8, <2>1, <2>2, <2>3 DEF AwaitsCommand, connection
  <2> QED BY <1>7, <2>4 DEF SessionInv, Conversing
<1>9. CASE Returned /\ server = "closed"
  <2>1. Returned'
    BY <1>2, <1>3, <1>5, <1>9 DEF Returned, Only
  <2> QED BY <1>7, <2>1 DEF SessionInv
<1> QED BY <1>5, <1>8, <1>9

LEMMA ReceivedSession ==
    ASSUME TypeInv, SessionInv, ClientReceives
    PROVE  SessionInv'
<1>1. /\ client = "waiting" /\ p2c # <<>> /\ p2c' = Tail(p2c)
      /\ \/ Head(p2c).last /\ client' = "ready" /\ answered' = Len(asked)
         \/ ~Head(p2c).last /\ client' = client /\ answered' = answered
      /\ UNCHANGED <<side, pc, frame, outgoing, connection, c2p, p2s, s2p, server, executed,
                     asked>>
  BY DEF ClientReceives, ClientOnly
<1>2. /\ Head(p2c) = p2c[1] /\ Len(p2c) \in Nat \ {0} /\ Len(p2c') = Len(p2c) - 1
      /\ \A i \in 1..(Len(p2c) - 1) : p2c'[i] = p2c[i + 1]
      /\ Len(p2c) = 1 => p2c' = <<>>
      /\ 1 \in 1..Len(p2c)
  BY <1>1, Queues, TailOf
<1>3. /\ \A i \in 1..Len(p2c') : i + 1 \in 1..Len(p2c) /\ p2c'[i] = p2c[i + 1]
      /\ Len(p2c') \in Nat
  BY <1>2
<1>4. /\ UNCHANGED <<Current, Quiet, LastExecuted>>
      /\ (PassedTo(Current) => PassedTo(Current)')
      /\ (PassedTo(Current - 1) => PassedTo(Current - 1)')
      /\ (Answerable => Answerable')
      /\ (ForCurrent(outgoing) => ForCurrent(outgoing)')
  BY <1>1 DEF Current, Quiet, LastExecuted, PassedTo, Answerable, ForCurrent
<1> USE DEF connection
<1>5. /\ answered < Current /\ ForCurrent(p2c)
  BY <1>1 DEF SessionInv, Books, Owed
<1>6. ForCurrent(p2c)'
  BY <1>3, <1>4, <1>5 DEF ForCurrent
<1>7. NoneLast(p2c) => client' = "waiting" /\ answered' = answered /\ NoneLast(p2c')
  BY <1>1, <1>2, <1>3 DEF NoneLast
<1>8. \/ Settled \/ AwaitsCommand \/ CommandSent \/ Replying \/ Dropped \/ Abandoned \/ Returned
  BY <1>1, <1>2, Situations DEF CommandRead, CommandTaken
<1>9. ASSUME NoneLast(p2c)
      PROVE  Books' /\ client' = client /\ NoneLast(p2c')
  <2>1. Owed'
    BY <1>1, <1>4, <1>5, <1>6, <1>7, <1>9 DEF Owed
  <2> QED BY <1>1, <1>7, <1>9, <2>1, ClientBooks
<1>10. CASE Settled
  <2>1. NoneLast(p2c)
    BY <1>1, <1>10 DEF Settled
  <2>2. Settled'
    BY <1>1, <1>4, <1>9, <1>10, <2>1 DEF Settled
  <2> QED BY <1>9, <2>1, <2>2 DEF SessionInv, Conversing
<1>11. CASE CommandSent \/ Replying \/ Dropped \/ Abandoned
  <2>1. Forwarded /\ NoneLast(p2c)
    BY <1>11 DEF CommandSent, Replying, Dropped, Abandoned, Forwarded
  <2>2. Forwarded'
    BY <1>1, <1>4, <1>9, <2>1 DEF Forwarded
  <2>3. /\ Remaining(frame \o s2p) => Remaining(frame \o s2p)'
        /\ Remaining(frame) => Remaining(frame)'
        /\ Asks(p2s) => Asks(p2s)'
    BY <1>1, <1>4 DEF Remaining, ForCurrent, Asks
  <2>4. CommandSent' \/ Replying' \/ Dropped' \/ Abandoned'
    BY <1>1, <1>4, <1>11, <2>2, <2>3 DEF CommandSent, Replying, Dropped, Abandoned
  <2> QED BY <1>9, <2>1, <2>4 DEF SessionInv, Conversing
<1>12. ASSUME \A i \in 1..Len(p2c) : p2c[i].last => i = Len(p2c)
       PROVE  /\ Books'
              /\ \/ client' = "ready" /\ p2c' = <<>>
                 \/ /\ client' = "waiting" /\ p2c[1].last = FALSE
                    /\ \A i \in 1..Len(p2c') : p2c'[i].last => i = Len(p2c')
  <2>1. CASE Head(p2c).last /\ client' = "ready" /\ answered' = Len(asked)
    <3>1. p2c' = <<>>
      BY <1>2, <1>12, <2>1
    <3>2. Owed'
      BY <2>1, <3>1 DEF Owed
    <3> QED BY <1>1, <2>1, <3>1, <3>2, ClientBooks
  <2>2. CASE ~Head(p2c).last /\ client' = client /\ answered' = answered
    <3>1. Owed'
      BY <1>1, <1>4, <1>5, <1>6, <2>2 DEF Owed
    <3>2. ASSUME NEW i \in 1..Len(p2c'), p2c'[i].last PROVE i = Len(p2c')
      <4>1. i + 1 = Len(p2c)
        BY <1>3, <1>12, <3>2
      <4> QED BY <1>2, <1>3, <4>1
    <3>3. p2c[1].last = FALSE
      <4>1. p2c[1].last \in BOOLEAN
        <5>1. p2c \in Seq(Letters(asked))
          BY Queues
        <5>2. p2c[1] \in Letters(asked)
          BY <1>2, <5>1
        <5> QED BY <5>2 DEF Letters
      <4> QED BY <1>2, <2>2, <4>1
    <3> QED BY <1>1, <2>2, <3>1, <3>2, <3>3, ClientBooks
  <2> QED BY <1>1, <2>1, <2>2
<1>13. CASE AwaitsCommand
  <2>1. c2p = <<>> /\ LastEnds(p2c) /\ Answerable /\ PassedTo(Current)
    BY <1>1, <1>13 DEF AwaitsCommand
  <2>2. \A i \in 1..Len(p2c) : p2c[i].last => i = Len(p2c)
    BY <2>1 DEF LastEnds
  <2>3. CASE client' = "ready" /\ p2c' = <<>>
    <3>1. AwaitsCommand'
      BY <1>1, <1>4, <1>13, <2>1, <2>3 DEF AwaitsCommand
    <3> QED BY <1>12, <2>2, <3>1 DEF SessionInv, Conversing
  <2>4. CASE client' = "waiting" /\ p2c[1].last = FALSE
    <3>1. Len(p2c) # 1
      BY <1>2, <2>1, <2>4 DEF LastEnds
    <3>2. p2c' # <<>>
      BY <1>2, <3>1
    <3>3. ASSUME NEW i \in 1..Len(p2c') PROVE p2c'[i].last <=> i = Len(p2c')
      <4>1. p2c[i + 1].last <=> i + 1 = Len(p2c)
        BY <1>3, <2>1 DEF LastEnds
      <4>2. i + 1 = Len(p2c) <=> i = Len(p2c')
        BY <1>2, <1>3
      <4> QED BY <1>3, <4>1, <4>2
    <3>4. AwaitsCommand'
      BY <1>1, <1>4, <1>13, <2>1, <2>4, <3>2, <3>3 DEF AwaitsCommand, LastEnds
    <3> QED BY <1>12, <2>2, <3>4 DEF SessionInv, Conversing
  <2> QED BY <1>12, <2>2, <2>3, <2>4
<1>14. CASE Returned
  <2>1. server = "closed" /\ \A i \in 1..Len(p2c) : p2c[i].last => i = Len(p2c)
    BY <1>1, <1>14 DEF Returned
  <2>2. Returned'
    BY <1>1, <1>12, <1>14, <2>1 DEF Returned, Only
  <2> QED BY <1>12, <2>1, <2>2 DEF SessionInv
<1> QED BY <1>8, <1>10, <1>11, <1>13, <1>14

-----------------------------------------------------------------------------
(* The worker reads.                                                       *)

\* What was read is what came, with its type.
Reads(s, k, f) ==
    /\ Len(f) = k
    /\ \A i \in 1..k : /\ f[i].pkt.role = s[i].pkt.role /\ f[i].pkt.seq = s[i].pkt.seq
                       /\ f[i].cmd = s[i].cmd /\ (f[i].last <=> s[i].last)
                       /\ f[i].pkt.type = PacketType(s[i].pkt, phase)

Left(s, k, t) == Len(t) = Len(s) - k /\ \A i \in 1..(Len(s) - k) : t[i] = s[k + i]

LEMMA ReadIs ==
    ASSUME TypeInv, NEW s \in Seq(Letters(asked)), NEW k \in 0..Len(s),
           NEW f, f = ReadOf(s, k), NEW t, t = SubSeq(s, k + 1, Len(s))
    PROVE  /\ Reads(s, k, f) /\ Left(s, k, t) /\ Typed(f)
           /\ f \in Seq(Letters(asked)) /\ t \in Seq(Letters(asked))
           /\ (InOrder(s) \/ k <= 1 => InOrder(SubSeq(s, 1, k)))
           /\ (k = Len(s) => t = <<>>) /\ (k = 0 => f = <<>>)
<1> DEFINE S == Letters(asked)
           r == SubSeq(s, 1, k)
<1>2. /\ f \in Seq(S) /\ Len(f) = k /\ \A i \in 1..k : f[i] = Parsed(s[i])
      /\ t \in Seq(S) /\ Left(s, k, t)
  BY ReadMessages DEF Left
<1>3. \A i \in 1..Len(s) : s[i] \in S
  <2> HIDE DEF S
  <2>1. s \in Seq(S)
    BY DEF S
  <2> QED BY <2>1
<1>4. Reads(s, k, f)
  <2>1. Len(s) \in Nat
    OBVIOUS
  <2>2. ASSUME NEW i \in 1..k
        PROVE  /\ f[i].pkt.role = s[i].pkt.role /\ f[i].pkt.seq = s[i].pkt.seq
               /\ f[i].cmd = s[i].cmd /\ (f[i].last <=> s[i].last)
               /\ f[i].pkt.type = PacketType(s[i].pkt, phase)
    <3>1. s[i] \in S /\ f[i] = Parsed(s[i])
      BY <1>2, <1>3, <2>1
    <3> QED BY <3>1, ParsedOf
  <2> QED BY <1>2, <2>2 DEF Reads
<1>5. Typed(f)
  <2> SUFFICES ASSUME NEW i \in 1..k
               PROVE  /\ f[i].pkt.role = "ok"  => f[i].pkt.type = "Ok"
                      /\ f[i].pkt.role = "err" => f[i].pkt.type = "Error"
    BY <1>2 DEF Typed
  <2>1. i \in 1..Len(s)
    OBVIOUS
  <2>2. Kind(s[i].pkt)
    BY <1>3, <2>1 DEF Letters, Wire
  <2>3. f[i].pkt.role = s[i].pkt.role /\ f[i].pkt.type = PacketType(s[i].pkt, phase)
    BY <1>4 DEF Reads
  <2> DEFINE p == s[i].pkt
  <2>4. /\ p.role = "ok" => p.first = 0 /\ p.size = "mid"
        /\ p.role = "err" => p.first = 255
    BY <2>2 DEF Kind
  <2> HIDE DEF p
  <2>5. /\ p.first = 0 /\ p.size = "mid" => PacketType(p, phase) = "Ok"
        /\ p.first = 255 => PacketType(p, phase) = "Error"
    BY DEF PacketType
  <2> QED BY <2>3, <2>4, <2>5 DEF p
<1>6. Len(r) = k /\ \A i \in 1..k : r[i] = s[i]
  <2> HIDE DEF S
  <2>1. s \in Seq(S)
    BY DEF S
  <2> QED BY <2>1
<1>7. InOrder(s) => InOrder(r)
  <2>1. k \in Nat /\ Len(s) \in Nat /\ k <= Len(s)
    OBVIOUS
  <2>2. \A i \in 2..k : i \in 2..Len(s) /\ i \in 1..k /\ i - 1 \in 1..k
    BY <2>1
  <2> HIDE DEF r
  <2> QED BY <1>6, <2>2 DEF InOrder
<1>8. k <= 1 => InOrder(r)
  <2> HIDE DEF r
  <2> QED BY <1>6 DEF InOrder
<1>9. (k = Len(s) => t = <<>>) /\ (k = 0 => f = <<>>)
  <2> HIDE DEF S
  <2> QED BY <1>2 DEF Left
<1>10. InOrder(s) \/ k <= 1 => InOrder(SubSeq(s, 1, k))
  BY <1>7, <1>8
<1> QED BY <1>2, <1>4, <1>5, <1>9, <1>10

\* A message on its own is read whole.
LEMMA ReadOne ==
    ASSUME NEW s, Len(s) = 1, NEW f, Reads(s, 1, f)
    PROVE  /\ Len(f) = 1 /\ f[1].pkt.role = s[1].pkt.role /\ f[1].cmd = s[1].cmd
           /\ (f[1].last <=> s[1].last) /\ f[1].pkt.type = PacketType(s[1].pkt, phase)
<1>1. 1 \in 1..1
  OBVIOUS
<1> QED BY <1>1 DEF Reads

\* Two queues of the same messages but for the packets' types.
Alike(s, t) ==
    /\ Len(s) = Len(t)
    /\ \A i \in 1..Len(s) : /\ t[i].pkt.role = s[i].pkt.role /\ t[i].pkt.seq = s[i].pkt.seq
                            /\ t[i].cmd = s[i].cmd /\ (t[i].last <=> s[i].last)

LEMMA ReadAlike ==
    ASSUME NEW S, NEW s \in Seq(S), NEW f \in Seq(S), NEW t \in Seq(S), NEW k \in 0..Len(s),
           Reads(s, k, f), Left(s, k, t), NEW u, u = f \o t
    PROVE  Alike(s, u)
<1>1. /\ u \in Seq(S) /\ Len(u) = Len(f) + Len(t) /\ Len(f) \in Nat /\ Len(t) \in Nat
      /\ \A i \in 1..Len(f) : u[i] = f[i]
      /\ \A i \in 1..Len(t) : u[Len(f) + i] = t[i]
  BY Concat
<1>2. Len(f) = k /\ Len(t) = Len(s) - k /\ Len(s) \in Nat /\ k \in Nat
  BY DEF Reads, Left
<1>3. ASSUME NEW i \in 1..Len(s)
      PROVE  /\ u[i].pkt.role = s[i].pkt.role /\ u[i].pkt.seq = s[i].pkt.seq
             /\ u[i].cmd = s[i].cmd /\ (u[i].last <=> s[i].last)
  <2>1. CASE i \in 1..k
    BY <1>1, <1>2, <2>1 DEF Reads
  <2>2. CASE i \notin 1..k
    <3>1. i - k \in 1..(Len(s) - k) /\ k + (i - k) = i
      BY <1>2, <2>2
    <3>2. u[k + (i - k)] = t[i - k] /\ t[i - k] = s[k + (i - k)]
      BY <1>1, <1>2, <3>1 DEF Left
    <3> QED BY <3>1, <3>2
  <2> QED BY <2>1, <2>2
<1>4. Len(s) = Len(u)
  BY <1>1, <1>2
<1> QED BY <1>3, <1>4 DEF Alike

LEMMA RemainingAlike ==
    ASSUME NEW s, NEW t, Alike(s, t), Len(s) \in Nat, s # <<>>, t # <<>>, NEW a, NEW com
    PROVE  /\ LastEnds(s) => LastEnds(t)
           /\ InOrder(s) => InOrder(t)
           /\ Expects(a, com, s) /\ Len(s) >= 1 => Expects(a, com, t)
<1>1. Len(t) = Len(s) /\ \A i \in 1..Len(s) :
        /\ t[i].pkt.role = s[i].pkt.role /\ t[i].pkt.seq = s[i].pkt.seq
        /\ t[i].cmd = s[i].cmd /\ (t[i].last <=> s[i].last)
  BY DEF Alike
<1>2. LastEnds(s) => LastEnds(t)
  BY <1>1 DEF LastEnds
<1>3. InOrder(s) => InOrder(t)
  <2>1. \A i \in 2..Len(s) : i \in 1..Len(s) /\ i - 1 \in 1..Len(s)
    OBVIOUS
  <2> QED BY <1>1, <2>1 DEF InOrder
<1>4. \A n \in 1..3 : RowsThenEnd(s, n) => RowsThenEnd(t, n)
  <2> SUFFICES ASSUME NEW n \in 1..3, RowsThenEnd(s, n) PROVE RowsThenEnd(t, n)
    OBVIOUS
  <2>1. \A i \in n..(Len(s) - 1) : i \in 1..Len(s)
    OBVIOUS
  <2>2. Len(s) \in 1..Len(s)
    BY DEF RowsThenEnd
  <2> QED BY <1>1, <2>1, <2>2 DEF RowsThenEnd
<1>5. \A role : Just(s, role) => Just(t, role)
  <2>1. Len(s) = 1 => 1 \in 1..Len(s)
    OBVIOUS
  <2> QED BY <1>1, <2>1 DEF Just
<1>6. ASSUME Expects(a, com, s), Len(s) >= 1 PROVE Expects(a, com, t)
  <2>1. /\ 1 \in 1..Len(s)
        /\ Len(s) >= 2 => 2 \in 1..Len(s)
    BY <1>6
  <2>2. (RowsThenEnd(s, 3) => Len(s) >= 2) /\ (RowsThenEnd(s, 2) => Len(s) >= 2)
    BY DEF RowsThenEnd
  <2>3. /\ RowsThenEnd(s, 1) => RowsThenEnd(t, 1)
        /\ RowsThenEnd(s, 2) => RowsThenEnd(t, 2)
        /\ RowsThenEnd(s, 3) => RowsThenEnd(t, 3)
    BY <1>4
  <2>4. /\ t[1].pkt.role = s[1].pkt.role
        /\ Len(s) >= 2 => t[2].pkt.role = s[2].pkt.role
    BY <1>1, <2>1
  <2>5. /\ Just(s, "ok") => Just(t, "ok")
        /\ Just(s, "err") => Just(t, "err")
        /\ Just(s, "eof") => Just(t, "eof")
    BY <1>5
  <2> QED BY <1>1, <1>6, <2>2, <2>3, <2>4, <2>5 DEF Expects
<1> QED BY <1>2, <1>3, <1>6
\* What a step of the worker has to keep of the books.
LEMMA WorkerBooks ==
    ASSUME SessionInv, UNCHANGED <<asked, executed, answered, server>>,
           FrameOK', FlagsOK', GoneOK', Owed'
    PROVE  Books'
BY DEF SessionInv, Books, NoneKept

\* Nothing was sent.
LEMMA SilentBooks ==
    ASSUME SessionInv, UNCHANGED <<asked, executed, answered, server, client, p2c, p2s>>,
           FrameOK', FlagsOK'
    PROVE  Books'
<1>1. Books
  BY DEF SessionInv
<1>2. GoneOK' /\ Owed'
  BY <1>1 DEF Books, GoneOK, Owed, ForCurrent, Current
<1> QED BY <1>2, WorkerBooks

\* Nothing that the situations look at has changed but the queues.
LEMMA SameBooks ==
    ASSUME UNCHANGED <<asked, executed, server>>
    PROVE  /\ Current' = Current /\ LastExecuted' = LastExecuted
           /\ (Answerable <=> Answerable')
           /\ (PassedTo(Current) <=> PassedTo(Current)')
           /\ (PassedTo(Current - 1) <=> PassedTo(Current - 1)')
           /\ (Quiet /\ s2p' = s2p => Quiet')
           /\ (server = "ready" /\ s2p' = <<>> => Quiet')
           /\ (server = "closed" /\ s2p' = <<>> => Quiet')
BY DEF Current, LastExecuted, Answerable, PassedTo, Quiet

LEMMA ServerReadSession ==
    ASSUME TypeInv, SessionInv, ReadServer
    PROVE  SessionInv'
<1>1. /\ pc = "read" /\ side = "server"
      /\ UNCHANGED <<side, phase, acc, lastCommand, hasFlags, tls, partial, c2p, p2c, p2s,
                     client, server, asked, executed, answered>>
      /\ s2p # <<>> => Len(s2p) \in Nat \ {0}
      /\ Len(s2p) \in Nat
  BY Queues, EmptyIs DEF ReadServer, connection, peers
<1>2. PICK k \in 1..Len(s2p) : Parse(SubSeq(s2p, 1, k)) /\ s2p' = SubSeq(s2p, k + 1, Len(s2p))
  BY DEF ReadServer
<1>3. /\ Reads(s2p, k, frame') /\ Left(s2p, k, s2p') /\ Typed(frame')
      /\ frame' \in Seq(Letters(asked)) /\ s2p' \in Seq(Letters(asked))
      /\ outgoing' = <<>>
      /\ (InOrder(s2p) => pc' = "process") /\ (k <= 1 => pc' = "process")
      /\ (k = Len(s2p) => s2p' = <<>>)
  <2>1. s2p \in Seq(Letters(asked)) /\ k \in 0..Len(s2p)
    BY <1>1, Queues
  <2>2. PICK s \in Seq(Letters(asked)) : s = s2p
    BY <2>1
  <2>3. PICK f : f = frame'
    OBVIOUS
  <2>4. PICK t : t = s2p'
    OBVIOUS
  <2>5. /\ k \in 0..Len(s) /\ f = ReadOf(s, k) /\ t = SubSeq(s, k + 1, Len(s))
        /\ outgoing' = <<>>
        /\ InOrder(SubSeq(s, 1, k)) => pc' = "process"
    BY <1>2, <2>1, <2>2, <2>3, <2>4 DEF Parse, ReadOf
  <2>6. Reads(s, k, f) /\ Left(s, k, t) /\ Typed(f) /\ f \in Seq(Letters(asked))
    BY <2>5, ReadIs
  <2>7. t \in Seq(Letters(asked))
    BY <2>5, ReadIs
  <2>8. InOrder(s) \/ k <= 1 => InOrder(SubSeq(s, 1, k))
    BY <2>5, ReadIs
  <2>9. k = Len(s) => t = <<>>
    BY <2>5, ReadIs
  <2> QED BY <2>2, <2>3, <2>4, <2>5, <2>6, <2>7, <2>8, <2>9
<1>4. s2p # <<>>
  BY <1>1, <1>2, Queues
<1>5. ASSUME pc' = "process" PROVE Books'
  <2>1. FrameOK'
    BY <1>3, <1>5 DEF FrameOK, Typed
  <2>2. FlagsOK'
    BY <1>1 DEF SessionInv, Books, FlagsOK
  <2> QED BY <1>1, <2>1, <2>2, SilentBooks
<1>6. frame = <<>>
  BY <1>1 DEF SessionInv, Books, FrameOK
<1>7. GreetingSent \/ VerdictSent \/ OutcomeSent \/ Replying \/ Abandoned
  BY <1>1, <1>4, Situations DEF AwaitsGreeting
<1>8. ASSUME NEW role, Just(s2p, role)
      PROVE  /\ k = 1 /\ pc' = "process" /\ s2p' = <<>>
             /\ Just(frame', role) /\ frame'[1].cmd = s2p[1].cmd
             /\ (frame'[1].last <=> s2p[1].last)
  BY <1>3, <1>8, ReadOne DEF Just
<1> USE DEF Fresh
<1>9. CASE GreetingSent
  <2>1. Just(s2p, "greeting")
    BY <1>9 DEF GreetingSent
  <2>2. pc' = "process" /\ s2p' = <<>> /\ Just(frame', "greeting")
    BY <1>8, <2>1
  <2>3. GreetingRead'
    BY <1>1, <1>3, <1>9, <2>2 DEF GreetingSent, GreetingRead, Just
  <2> QED BY <1>5, <2>2, <2>3 DEF SessionInv, Connecting
<1>10. CASE VerdictSent
  <2>1. CASE MoreThenOk(s2p) /\ InOrder(s2p)
    <3>1. pc' = "process" /\ server = "ready" /\ Len(s2p) = 2
          /\ s2p[1].pkt.role = "authMore" /\ s2p[2].pkt.role = "ok"
      BY <1>3, <1>10, <2>1 DEF VerdictSent, MoreThenOk, Just
    <3>2. CASE k = 1
      <4>1. Just(frame', "authMore")
        BY <1>3, <3>1, <3>2 DEF Reads, Just
      <4>2. Just(s2p', "ok")
        BY <1>3, <3>1, <3>2 DEF Left, Just
      <4>3. VerdictRead'
        BY <1>1, <1>3, <1>10, <3>1, <4>1, <4>2 DEF VerdictSent, VerdictRead, Just
      <4> QED BY <1>5, <3>1, <4>3 DEF SessionInv, Connecting
    <3>3. CASE k = 2
      <4>1. MoreThenOk(frame') /\ s2p' = <<>>
        BY <1>3, <3>1, <3>3 DEF Reads, MoreThenOk
      <4>2. VerdictRead'
        BY <1>1, <1>3, <1>10, <3>1, <4>1 DEF VerdictSent, VerdictRead, MoreThenOk, Quiet
      <4> QED BY <1>5, <3>1, <4>2 DEF SessionInv, Connecting
    <3> QED BY <1>1, <3>1, <3>2, <3>3
  <2>2. ASSUME NEW role, Just(s2p, role),
               \/ server = "ready" /\ role = "ok"
               \/ server = "closed" /\ role = "err"
               \/ server = "authData" /\ role = "authAsk"
        PROVE  SessionInv'
    <3>1. pc' = "process" /\ s2p' = <<>> /\ Just(frame', role)
      BY <1>8, <2>2
    <3>2. VerdictRead'
      BY <1>1, <1>3, <1>10, <2>2, <3>1 DEF VerdictSent, VerdictRead, Just, Quiet
    <3> QED BY <1>5, <3>1, <3>2 DEF SessionInv, Connecting
  <2> QED BY <1>10, <2>1, <2>2 DEF VerdictSent
<1>11. CASE OutcomeSent
  <2>1. ASSUME NEW role, Just(s2p, role),
               \/ server = "ready" /\ role = "ok"
               \/ server = "closed" /\ role = "err"
        PROVE  SessionInv'
    <3>1. pc' = "process" /\ s2p' = <<>> /\ Just(frame', role)
      BY <1>8, <2>1
    <3>2. Only(outgoing', {"authMore"})
      BY <1>3 DEF Only
    <3>3. OutcomeRead'
      BY <1>1, <1>3, <1>11, <2>1, <3>1, <3>2 DEF OutcomeSent, OutcomeRead, Just, Quiet, Only
    <3> QED BY <1>5, <3>1, <3>3 DEF SessionInv, Connecting
  <2> QED BY <1>11, <2>1 DEF OutcomeSent
<1>12. ASSUME Forwarded, pc' = "process" PROVE Forwarded'
  BY <1>1, <1>3, <1>12, SameBooks DEF Forwarded, ForCurrent, NoneLast
<1>13. CASE Replying
  <2>1. s2p \in Seq(Letters(asked)) /\ frame \o s2p = s2p
    BY <1>6, Queues, EmptyIs
  <2>2. LastEnds(s2p) /\ InOrder(s2p) /\ ForCurrent(s2p) /\ Expects(acc, lastCommand.com, s2p)
    BY <1>13, <2>1 DEF Replying, Remaining
  <2>3. pc' = "process" /\ server = "ready"
    BY <1>3, <1>13, <2>2 DEF Replying
  <2>4. PICK u : u = frame' \o s2p'
    OBVIOUS
  <2>5. Alike(s2p, u) /\ Len(u) = Len(s2p) /\ u # <<>>
    <3>1. k \in 0..Len(s2p)
      BY <1>1
    <3>2. Alike(s2p, u)
      BY <1>3, <2>1, <2>4, <3>1, ReadAlike
    <3>3. Len(u) = Len(s2p) /\ Len(s2p) # 0
      BY <1>1, <1>4, <3>2 DEF Alike
    <3> QED BY <3>2, <3>3
  <2>6. LastEnds(u) /\ InOrder(u) /\ Expects(acc, lastCommand.com, u)
    <3>1. Len(s2p) >= 1
      BY <1>1, <1>4
    <3> QED BY <1>1, <1>4, <2>2, <2>5, <3>1, RemainingAlike
  <2>7. \A i \in 1..Len(u) : u[i].cmd \in {0, Current'}
    BY <1>1, <2>2, <2>5, SameBooks DEF Alike, ForCurrent
  <2>8. Remaining(frame \o s2p)'
    BY <1>1, <2>4, <2>6, <2>7, RemainingNext
  <2>9. Replying'
    BY <1>1, <1>12, <1>13, <2>3, <2>8, SameBooks DEF Replying
  <2> QED BY <1>5, <2>3, <2>9 DEF SessionInv, Conversing
<1>14. CASE Abandoned
  <2>1. Notice(s2p) /\ server = "closed"
    BY <1>4, <1>14 DEF Abandoned, Quiet
  <2>2. PICK u : u = frame'
    OBVIOUS
  <2>3. pc' = "process" /\ s2p' = <<>> /\ Just(u, "err") /\ u[1].cmd = 0 /\ u[1].last
    BY <1>8, <2>1, <2>2 DEF Notice
  <2>4. LastEnds(u) /\ InOrder(u) /\ \A i \in 1..Len(u) : u[i].cmd \in {0, Current'}
    BY <2>3 DEF LastEnds, InOrder, Just
  <2>5. Expects(acc', lastCommand'.com, u)
    BY <2>3 DEF Expects
  <2>6. Remaining(frame)'
    BY <2>2, <2>4, <2>5, RemainingNext
  <2>7. Dropped'
    BY <1>1, <1>12, <1>14, <2>1, <2>3, <2>6, SameBooks DEF Abandoned, Dropped
  <2> QED BY <1>5, <2>3, <2>7 DEF SessionInv, Conversing
<1> QED BY <1>7, <1>9, <1>10, <1>11, <1>13, <1>14
LEMMA ClientReadSession ==
    ASSUME TypeInv, SessionInv, ReadClient
    PROVE  SessionInv'
<1>1. /\ pc = "read" /\ side = "client" /\ (tls => c2p # <<>> /\ ~IsHello(Head(c2p)))
      /\ UNCHANGED <<side, phase, acc, lastCommand, hasFlags, tls, p2c, p2s, s2p,
                     client, server, asked, executed, answered>>
  BY DEF ReadClient, peers
<1>2. PICK k \in 1..Len(c2p) : \E n \in 0..k :
        /\ \A i \in 1..n : ~IsHello(c2p[i])
        /\ n < k => IsHello(c2p[n + 1])
        /\ Parse(SubSeq(c2p, 1, n))
        /\ c2p' = SubSeq(c2p, k + 1, Len(c2p))
  BY DEF ReadClient
<1>3. PICK n \in 0..k :
        /\ \A i \in 1..n : ~IsHello(c2p[i])
        /\ n < k => IsHello(c2p[n + 1])
        /\ Parse(SubSeq(c2p, 1, n))
        /\ c2p' = SubSeq(c2p, k + 1, Len(c2p))
  BY <1>2
<1>4. Len(c2p) \in Nat /\ c2p # <<>> /\ k \in Nat /\ k <= Len(c2p) /\ n \in Nat /\ n <= k /\ k > 0
  BY Queues
<1>5. PICK s \in Seq(Letters(asked)) : s = c2p
  BY Queues
<1>6. PICK f : f = frame'
  OBVIOUS
<1>7. PICK t : t = c2p'
  OBVIOUS
<1>8. /\ Reads(s, n, f) /\ Typed(f) /\ outgoing' = <<>> /\ (n <= 1 => pc' = "process")
      /\ (n = 0 => f = <<>>) /\ f \in Seq(Letters(asked))
  <2>1. n \in 0..Len(s) /\ f = ReadOf(s, n) /\ outgoing' = <<>>
        /\ (InOrder(SubSeq(s, 1, n)) => pc' = "process")
    BY <1>3, <1>4, <1>5, <1>6 DEF Parse, ReadOf
  <2>2. PICK u : u = SubSeq(s, n + 1, Len(s))
    OBVIOUS
  <2>3. Reads(s, n, f) /\ Typed(f) /\ f \in Seq(Letters(asked)) /\ (n = 0 => f = <<>>)
    BY <2>1, <2>2, ReadIs
  <2>4. n <= 1 => InOrder(SubSeq(s, 1, n))
    BY <2>1, <2>2, ReadIs
  <2> QED BY <2>1, <2>3, <2>4
<1>9. Left(s, k, t) /\ t \in Seq(Letters(asked)) /\ (k = Len(s) => t = <<>>)
  <2>1. k \in 0..Len(s) /\ t = SubSeq(s, k + 1, Len(s))
    BY <1>3, <1>4, <1>5, <1>7
  <2>2. PICK u : u = ReadOf(s, k)
    OBVIOUS
  <2>3. Left(s, k, t)
    BY <2>1, <2>2, ReadIs
  <2>4. t \in Seq(Letters(asked))
    BY <2>1, <2>2, ReadIs
  <2>5. k = Len(s) => t = <<>>
    BY <2>1, <2>2, ReadIs
  <2> QED BY <2>3, <2>4, <2>5
<1>10. ASSUME pc' = "process" PROVE Books'
  <2>1. FrameOK'
    BY <1>6, <1>8, <1>10 DEF FrameOK, Typed
  <2>2. FlagsOK'
    BY <1>1 DEF SessionInv, Books, FlagsOK
  <2> QED BY <1>1, <2>1, <2>2, SilentBooks
<1>11. \/ AwaitsLogin \/ AwaitsSecureLogin \/ TlsAwaited \/ AwaitsData \/ AwaitsCommand
  BY <1>1, Situations
\* A message that is not TLS is read on its own.
<1>12. ASSUME NEW role, Just(c2p, role), role # "hello"
       PROVE  /\ pc' = "process" /\ c2p' = <<>> /\ Just(frame', role)
              /\ frame'[1].cmd = c2p[1].cmd /\ (frame'[1].last <=> c2p[1].last)
              /\ frame'[1].pkt.type = PacketType(c2p[1].pkt, phase)
  <2>1. Len(c2p) = 1 /\ ~IsHello(c2p[1])
    BY <1>12 DEF Just, IsHello
  <2>2. k = 1 /\ n = 1
    <3>1. k = 1
      BY <1>4, <2>1
    <3>2. n = 0 => n + 1 = 1 /\ n < k
      BY <3>1
    <3> QED BY <1>3, <1>4, <2>1, <3>1, <3>2
  <2>3. Reads(s, 1, f)
    BY <1>8, <2>2
  <2> QED BY <1>5, <1>6, <1>7, <1>8, <1>9, <1>12, <2>1, <2>2, <2>3, ReadOne DEF Just
<1> USE DEF Fresh
<1>13. CASE Just(c2p, "response") /\ (AwaitsLogin \/ AwaitsSecureLogin)
  <2>1. pc' = "process" /\ c2p' = <<>> /\ Just(frame', "response")
    BY <1>12, <1>13
  <2>2. /\ client \in {"auth", "closed"} /\ server = "login" /\ p2c = <<>>
        /\ IfAny(p2s, "sslRequest") /\ s2p = <<>> /\ phase = "HandshakeResponse" /\ Fresh
    BY <1>13 DEF AwaitsLogin, AwaitsSecureLogin, IfAny, Just, SslThenHello
  <2>3. LoginRead'
    BY <1>1, <1>8, <2>1, <2>2 DEF LoginRead, Just, IfAny
  <2> QED BY <1>10, <2>1, <2>3 DEF SessionInv, Connecting
<1>14. CASE AwaitsLogin
  <2>1. CASE SslThenHello(c2p)
    <3>1. ~IsHello(c2p[1]) /\ IsHello(c2p[2]) /\ Len(c2p) = 2
      BY <2>1 DEF SslThenHello, IsHello
    <3>2. n = 1
      <4>1. n = 0 => n < k /\ n + 1 = 1
        BY <1>4
      <4>2. n = 2 => 2 \in 1..n
        OBVIOUS
      <4> QED BY <1>3, <1>4, <3>1, <4>1, <4>2
    <3>3. pc' = "process" /\ Just(frame', "sslRequest")
      <4>1. 1 \in 1..1
        OBVIOUS
      <4>2. Len(f) = 1 /\ f[1].pkt.role = s[1].pkt.role
        BY <1>8, <3>2, <4>1 DEF Reads
      <4> QED BY <1>5, <1>6, <1>8, <2>1, <3>2, <4>2 DEF SslThenHello, Just
    <3>4. IfAny(t, "hello")
      <4>1. CASE k = 1
        <5>1. 1 \in 1..(Len(s) - k) /\ k + 1 = 2
          BY <1>5, <3>1, <4>1
        <5>2. Len(t) = 1 /\ t[1] = s[2]
          BY <1>5, <1>9, <3>1, <4>1, <5>1 DEF Left
        <5> QED BY <1>5, <2>1, <5>2 DEF IfAny, Just, SslThenHello
      <4>2. CASE k = 2
        BY <1>5, <1>9, <3>1, <4>2 DEF IfAny
      <4> QED BY <1>4, <3>1, <4>1, <4>2
    <3>5. IfAny(c2p', "hello")
      BY <1>7, <3>4
    <3>6. client \in {"tls", "closed"} /\ p2c = <<>>
      BY <1>14, <2>1 DEF AwaitsLogin, SslThenHello, Just, IfAny
    <3>7. SslRead'
      BY <1>1, <1>8, <1>14, <3>3, <3>5, <3>6 DEF AwaitsLogin, SslRead, Just, IfAny
    <3> QED BY <1>10, <3>3, <3>7 DEF SessionInv, Connecting
  <2>2. CASE ~SslThenHello(c2p)
    <3>1. Just(c2p, "response")
      BY <1>4, <1>14, <2>2 DEF AwaitsLogin, IfAny
    <3> QED BY <1>13, <1>14, <3>1
  <2> QED BY <2>1, <2>2
<1>15. CASE AwaitsSecureLogin
  <2>1. Head(c2p) = c2p[1]
    BY <1>4, Queues, TailOf
  <2>2. ~Just(c2p, "hello")
    BY <1>1, <1>15, <2>1 DEF AwaitsSecureLogin, IsHello, Just
  <2>3. Just(c2p, "response")
    BY <1>4, <1>15, <2>2 DEF AwaitsSecureLogin, IfAny
  <2> QED BY <1>13, <1>15, <2>3
<1>16. CASE TlsAwaited
  <2>1. Len(c2p) = 1 /\ IsHello(c2p[1])
    BY <1>4, <1>16 DEF TlsAwaited, IfAny, Just, IsHello
  <2>2. n = 0 /\ k = 1
    BY <1>3, <1>4, <2>1
  <2>3. frame' = <<>> /\ c2p' = <<>> /\ pc' = "process"
    BY <1>5, <1>6, <1>7, <1>8, <1>9, <2>1, <2>2
  <2>4. TlsAwaited'
    BY <1>1, <1>8, <1>16, <2>3 DEF TlsAwaited, IfAny
  <2> QED BY <1>10, <2>3, <2>4 DEF SessionInv, Connecting
<1>17. CASE AwaitsData
  <2>1. Just(c2p, "authData")
    BY <1>4, <1>17 DEF AwaitsData
  <2>2. pc' = "process" /\ c2p' = <<>> /\ Just(frame', "authData")
    BY <1>12, <2>1
  <2>3. DataRead'
    BY <1>1, <1>4, <1>8, <1>17, <2>2 DEF AwaitsData, DataRead, Just
  <2> QED BY <1>10, <2>2, <2>3 DEF SessionInv, Connecting
<1>18. CASE AwaitsCommand
  <2>1. /\ Asks(c2p) /\ client \in {"waiting", "closed"} /\ p2c = <<>> /\ PassedTo(Current - 1)
        /\ p2s = <<>> /\ Quiet /\ phase = "Command"
    BY <1>4, <1>18 DEF AwaitsCommand
  <2>2. Just(c2p, "command")
    BY <2>1 DEF Asks, Just
  <2>3. /\ pc' = "process" /\ c2p' = <<>> /\ Just(frame', "command")
        /\ frame'[1].cmd = c2p[1].cmd /\ frame'[1].pkt.type = PacketType(c2p[1].pkt, "Command")
    BY <1>12, <2>1, <2>2
  <2>4. frame'[1].pkt.type = "Command"
    <3>1. c2p[1] \in Letters(asked)
      <4>1. c2p \in Seq(Letters(asked)) /\ Len(c2p) = 1
        BY <2>1, Queues DEF Asks
      <4> QED BY <4>1
    <3>2. c2p[1].pkt.first = 3
      BY <2>1, <3>1 DEF Letters, Wire, Kind, Asks
    <3>3. 3 # 0 /\ 3 # 254 /\ 3 # 255
      OBVIOUS
    <3>4. ASSUME NEW p, p.first = 3 PROVE PacketType(p, "Command") = "Command"
      BY <3>3, <3>4, Zenon DEF PacketType
    <3> QED BY <2>3, <3>2, <3>4
  <2>6. CommandRead'
    BY <1>1, <1>8, <2>1, <2>3, <2>4, SameBooks DEF CommandRead, Asks, Just
  <2> QED BY <1>10, <2>3, <2>6 DEF SessionInv, Conversing
<1> QED BY <1>11, <1>14, <1>15, <1>16, <1>17, <1>18
LEMMA EndReadSession ==
    ASSUME TypeInv, SessionInv, ReadEnd
    PROVE  SessionInv'
<1>1. /\ pc = "read" /\ pc' = "returned"
      /\ UNCHANGED <<side, frame, outgoing, phase, acc, lastCommand, hasFlags, tls, partial,
                     c2p, p2c, p2s, s2p, client, server, asked, executed, answered>>
      /\ \/ side = "server" /\ server = "closed" /\ s2p = <<>>
         \/ side = "client" /\ client = "closed"
  BY DEF ReadEnd, connection, peers
<1>2. Books'
  <2>1. FrameOK' /\ FlagsOK'
    BY <1>1 DEF SessionInv, Books, FrameOK, FlagsOK, Typed
  <2> QED BY <1>1, <2>1, SilentBooks
<1>3. CASE side = "server" /\ server = "closed" /\ s2p = <<>>
  <2>1. Refused \/ Abandoned
    BY <1>1, <1>3, Situations
  <2>2. CASE Refused
    <3>1. /\ client \in {"auth", "closed"} /\ Fresh /\ p2s = <<>>
          /\ \A i \in 1..Len(p2c) : p2c[i].pkt.role # "ok"
      BY <2>2 DEF Refused, Only
    <3> QED BY <1>1, <1>2, <1>3, <3>1 DEF SessionInv, Returned, Only, Fresh
  <2>3. CASE Abandoned
    <3>1. client \in {"waiting", "closed"} /\ NoneLast(p2c) /\ p2s = <<>>
      BY <2>3 DEF Abandoned, Forwarded
    <3> QED BY <1>1, <1>2, <1>3, <3>1 DEF SessionInv, Returned, Only, NoneLast
  <2> QED BY <2>1, <2>2, <2>3
<1>4. CASE side = "client" /\ client = "closed"
  <2>1. AwaitsLogin \/ AwaitsSecureLogin \/ TlsAwaited \/ AwaitsData \/ AwaitsCommand
    BY <1>1, <1>4, Situations
  <2>2. IfAny(p2s, "sslRequest")
    BY <2>1 DEF AwaitsLogin, AwaitsSecureLogin, TlsAwaited, AwaitsData, AwaitsCommand, IfAny
  <2>3. Only(p2s, {"sslRequest"})
    BY <2>2 DEF IfAny, Just, Only
  <2> QED BY <1>1, <1>2, <1>4, <2>3 DEF SessionInv, Returned, Only
<1> QED BY <1>1, <1>3, <1>4

LEMMA SwitchSession ==
    ASSUME TypeInv, SessionInv, SwitchToTls
    PROVE  SessionInv'
<1>1. /\ pc = "read" /\ side = "client" /\ phase = "TlsExchange"
      /\ tls' = TRUE /\ phase' = "HandshakeResponse"
      /\ UNCHANGED <<side, pc, frame, outgoing, acc, lastCommand, hasFlags, partial,
                     c2p, p2c, p2s, s2p, client, server, asked, executed, answered>>
  BY DEF SwitchToTls, peers
<1>2. TlsAwaited
  BY <1>1, Situations
<1>3. Books'
  <2>1. FrameOK' /\ FlagsOK'
    BY <1>1 DEF SessionInv, Books, FrameOK, FlagsOK, Typed
  <2> QED BY <1>1, <2>1, SilentBooks
<1>4. AwaitsSecureLogin'
  BY <1>1, <1>2 DEF TlsAwaited, AwaitsSecureLogin, IfAny, Just, Fresh
<1> QED BY <1>3, <1>4 DEF SessionInv, Connecting

LEMMA AcceptSession ==
    ASSUME TypeInv, SessionInv, AcceptTls
    PROVE  SessionInv'
<1>1. /\ pc = "read" /\ side = "client" /\ tls /\ client = "tls" /\ c2p # <<>>
      /\ c2p' = Tail(c2p) /\ client' = "secured"
      /\ UNCHANGED <<side, pc, frame, outgoing, phase, acc, lastCommand, hasFlags, tls, partial,
                     p2c, p2s, s2p, server, asked, executed, answered>>
  BY DEF AcceptTls, connection
<1>2. AwaitsSecureLogin
  BY <1>1, Situations DEF TlsAwaited
<1>3. c2p' = <<>> /\ p2c = <<>>
  <2>1. Len(c2p) = 1
    BY <1>1, <1>2 DEF AwaitsSecureLogin, IfAny, Just
  <2> QED BY <1>1, <1>2, <2>1, Queues, TailOf DEF AwaitsSecureLogin
<1>4. Books'
  <2>1. FrameOK' /\ FlagsOK' /\ GoneOK'
    BY <1>1 DEF SessionInv, Books, FrameOK, FlagsOK, Typed, GoneOK
  <2>2. Owed'
    BY <1>1, <1>3 DEF Owed
  <2> QED BY <1>1, <2>1, <2>2, WorkerBooks
<1>5. AwaitsSecureLogin'
  BY <1>1, <1>2, <1>3 DEF AwaitsSecureLogin, IfAny, Just, Fresh
<1> QED BY <1>4, <1>5 DEF SessionInv, Connecting

LEMMA ConsumedSession ==
    ASSUME TypeInv, SessionInv, FrameConsumed
    PROVE  SessionInv'
<1>1. /\ pc = "process" /\ frame = <<>> /\ pc' = "write"
      /\ UNCHANGED <<side, frame, outgoing, phase, acc, lastCommand, hasFlags, tls, partial,
                     c2p, p2c, p2s, s2p, client, server, asked, executed, answered>>
  BY DEF FrameConsumed, connection, peers
<1>2. Books'
  <2>1. FrameOK' /\ FlagsOK'
    BY <1>1 DEF SessionInv, Books, FrameOK, FlagsOK, Typed
  <2> QED BY <1>1, <2>1, SilentBooks
<1>3. \/ GreetingTaken \/ TlsAwaited \/ LoginTaken \/ DataAsked \/ DataTaken \/ OutcomeSent
      \/ Refused \/ Settled \/ CommandTaken \/ Replying
  BY <1>1, Situations DEF GreetingRead, Just
<1> USE DEF Fresh
<1>4. CASE GreetingTaken \/ TlsAwaited \/ LoginTaken
  BY <1>1, <1>2, <1>4 DEF SessionInv, Connecting, GreetingTaken, TlsAwaited, LoginTaken, Just, IfAny
<1>5. CASE DataAsked \/ DataTaken \/ OutcomeSent \/ Refused
  BY <1>1, <1>2, <1>5 DEF SessionInv, Connecting, DataAsked, DataTaken, OutcomeSent, Refused,
                          Just, Only
<1>6. CASE Settled
  BY <1>1, <1>2, <1>6, SameBooks
     DEF SessionInv, Conversing, Settled, ForCurrent, Accepted, Only, LastEnds, NoneLast
<1>7. CASE CommandTaken
  <2>1. CommandTaken'
    BY <1>1, <1>7, SameBooks DEF CommandTaken, Asks
  <2> QED BY <1>2, <2>1 DEF SessionInv, Conversing
<1>8. CASE Replying
  <2>1. Remaining(frame \o s2p)'
    BY <1>1, <1>8, SameBooks DEF Replying, Remaining, ForCurrent
  <2>2. Replying'
    BY <1>1, <1>8, <2>1, SameBooks DEF Replying, Forwarded, ForCurrent, NoneLast
  <2> QED BY <1>2, <2>2 DEF SessionInv, Conversing
<1> QED BY <1>3, <1>4, <1>5, <1>6, <1>7, <1>8

-----------------------------------------------------------------------------
(* The worker writes.                                                      *)

LEMMA Joined ==
    ASSUME NEW S, NEW s \in Seq(S), NEW t \in Seq(S), NEW u, u = s \o t
    PROVE  /\ \A roles : Only(s, roles) /\ Only(t, roles) => Only(u, roles)
           /\ NoneLast(s) /\ NoneLast(t) => NoneLast(u)
           /\ NoneLast(s) /\ LastEnds(t) => LastEnds(u)
           /\ ForCurrent(s) /\ ForCurrent(t) => ForCurrent(u)
           /\ Only(s, {"authMore"}) /\ Accepted(t) => Accepted(u)
<1>1. /\ u \in Seq(S) /\ Len(u) = Len(s) + Len(t) /\ Len(s) \in Nat /\ Len(t) \in Nat
      /\ \A i \in 1..Len(s) : u[i] = s[i]
      /\ \A i \in 1..Len(t) : u[Len(s) + i] = t[i]
  BY Concat
<1> DEFINE n == Len(s)
           m == Len(t)
<1> HIDE DEF n, m
<1>2. n \in Nat /\ m \in Nat /\ Len(s) = n /\ Len(t) = m /\ Len(u) = n + m
  BY <1>1 DEF n, m
<1>3. ASSUME NEW i \in 1..(n + m)
      PROVE  \/ i \in 1..n /\ u[i] = s[i] /\ (i # n + m \/ m = 0)
             \/ i - n \in 1..m /\ u[i] = t[i - n] /\ (i - n = m <=> i = n + m)
  <2>1. CASE i \in 1..n
    BY <1>1, <1>2, <2>1
  <2>2. CASE i \notin 1..n
    <3>1. i - n \in 1..m /\ n + (i - n) = i /\ (i - n = m <=> i = n + m)
      BY <1>2, <2>2
    <3>2. u[n + (i - n)] = t[i - n]
      BY <1>1, <1>2, <3>1
    <3> QED BY <3>1, <3>2
  <2> QED BY <2>1, <2>2
<1>4. \A roles : Only(s, roles) /\ Only(t, roles) => Only(u, roles)
  BY <1>2, <1>3 DEF Only
<1>5. NoneLast(s) /\ NoneLast(t) => NoneLast(u)
  BY <1>2, <1>3 DEF NoneLast
<1>6. ForCurrent(s) /\ ForCurrent(t) => ForCurrent(u)
  BY <1>2, <1>3 DEF ForCurrent
<1>7. t # <<>> => m > 0 /\ u # <<>>
  <2>1. t # <<>> => Len(t) # 0
    BY EmptyIs
  <2>2. u = <<>> => Len(u) = 0
    OBVIOUS
  <2> QED BY <1>2, <2>1, <2>2
<1>8. ASSUME NoneLast(s), LastEnds(t) PROVE LastEnds(u)
  <2>1. m > 0 /\ u # <<>>
    BY <1>7, <1>8 DEF LastEnds
  <2>2. ASSUME NEW i \in 1..(n + m) PROVE u[i].last <=> i = n + m
    <3>1. CASE i \in 1..n /\ u[i] = s[i] /\ (i # n + m \/ m = 0)
      BY <1>2, <1>8, <2>1, <3>1 DEF NoneLast
    <3>2. CASE i - n \in 1..m /\ u[i] = t[i - n] /\ (i - n = m <=> i = n + m)
      BY <1>2, <1>8, <3>2 DEF LastEnds
    <3> QED BY <1>3, <3>1, <3>2
  <2> QED BY <1>2, <2>1, <2>2 DEF LastEnds
<1>9. ASSUME Only(s, {"authMore"}), Accepted(t) PROVE Accepted(u)
  <2>1. m > 0 /\ u # <<>>
    BY <1>7, <1>9 DEF Accepted
  <2>2. ASSUME NEW i \in 1..(n + m)
        PROVE  u[i].pkt.role = IF i = n + m THEN "ok" ELSE "authMore"
    <3>1. CASE i \in 1..n /\ u[i] = s[i] /\ (i # n + m \/ m = 0)
      BY <1>2, <1>9, <2>1, <3>1 DEF Only
    <3>2. CASE i - n \in 1..m /\ u[i] = t[i - n] /\ (i - n = m <=> i = n + m)
      BY <1>2, <1>9, <3>2 DEF Accepted
    <3> QED BY <1>3, <3>1, <3>2
  <2> QED BY <1>2, <2>1, <2>2 DEF Accepted
<1> QED BY <1>4, <1>5, <1>6, <1>8, <1>9

\* Before the first command no message belongs to one.
LEMMA FreshMail ==
    ASSUME TypeInv, Fresh, NEW s \in Seq(Letters(asked))
    PROVE  \A i \in 1..Len(s) : s[i].cmd = 0
<1> DEFINE S == Letters(asked)
<1>1. Len(asked) = 0
  BY DEF Fresh
<1>2. \A m \in S : m.cmd = 0
  BY <1>1 DEF Letters
<1> HIDE DEF S
<1>3. \A i \in 1..Len(s) : s[i] \in S
  <2>1. s \in Seq(S)
    BY DEF S
  <2> QED BY <2>1
<1> QED BY <1>2, <1>3

LEMMA ClientWrittenSession ==
    ASSUME TypeInv, SessionInv, WriteClient
    PROVE  SessionInv'
<1>1. /\ pc = "write" /\ pc' = "read" /\ side = "server"
      /\ UNCHANGED <<frame, outgoing, phase, acc, lastCommand, hasFlags, tls, partial,
                     c2p, p2s, s2p, client, server, asked, executed, answered>>
      /\ side' = IF phase \in ServerTransitionPhases THEN "client" ELSE "server"
  BY DEF WriteClient, connection, peers
<1>2. PICK q : q = p2c'
  OBVIOUS
<1>3. q = IF client = "closed" THEN p2c ELSE p2c \o outgoing
  BY <1>2 DEF WriteClient
<1>4. frame = <<>>
  BY <1>1 DEF SessionInv, Books, FrameOK
<1>5. /\ p2c \in Seq(Letters(asked)) /\ outgoing \in Seq(Letters(asked))
      /\ Len(outgoing) \in Nat /\ Len(p2c) \in Nat
  BY Queues
<1>6. q \in Seq(Letters(asked))
  BY <1>3, <1>5, Concat
<1>7. client # "closed" =>
        /\ \A roles : Only(p2c, roles) /\ Only(outgoing, roles) => Only(q, roles)
        /\ NoneLast(p2c) /\ NoneLast(outgoing) => NoneLast(q)
        /\ NoneLast(p2c) /\ LastEnds(outgoing) => LastEnds(q)
        /\ ForCurrent(p2c) /\ ForCurrent(outgoing) => ForCurrent(q)
        /\ Only(p2c, {"authMore"}) /\ Accepted(outgoing) => Accepted(q)
        /\ p2c = <<>> => q = outgoing
  BY <1>3, <1>5, Joined, EmptyIs
<1>8. client = "closed" => q = p2c
  BY <1>3
<1>9. ASSUME Owed' PROVE Books'
  <2>1. FrameOK' /\ FlagsOK' /\ GoneOK'
    BY <1>1, <1>4 DEF SessionInv, Books, FrameOK, FlagsOK, Typed, GoneOK
  <2> QED BY <1>1, <1>9, <2>1, WorkerBooks
<1>10. ASSUME Fresh, client # "waiting" PROVE Books'
  <2>1. \A i \in 1..Len(q) : q[i].cmd = 0
    BY <1>6, <1>10, FreshMail
  <2>2. Owed'
    BY <1>1, <1>2, <1>10, <2>1 DEF Owed
  <2> QED BY <1>9, <2>2
<1>11. ASSUME client = "closed" PROVE Books'
  <2>1. Owed'
    BY <1>1, <1>2, <1>8, <1>11 DEF SessionInv, Books, Owed
  <2> QED BY <1>9, <2>1
<1>12. ASSUME client = "waiting", ForCurrent(outgoing) PROVE Books'
  <2>1. answered < Current /\ ForCurrent(q)
    BY <1>7, <1>12 DEF SessionInv, Books, Owed
  <2>2. Owed'
    BY <1>1, <1>2, <1>12, <2>1 DEF Owed, ForCurrent, Current
  <2> QED BY <1>9, <2>2
<1>13. GreetingTaken \/ DataAsked \/ OutcomeSent \/ Refused \/ Settled \/ Replying
  BY <1>1, Situations
<1>14. CASE GreetingTaken
  <2>1. /\ client \in {"greet", "closed"} /\ Fresh /\ side' = "client" /\ p2c = <<>>
        /\ Just(outgoing, "greeting")
    BY <1>1, <1>14 DEF GreetingTaken, ServerTransitionPhases
  <2>2. \/ client = "greet" /\ Just(p2c', "greeting")
        \/ client = "closed" /\ p2c' = <<>>
    <3>1. client = "greet" => q = outgoing
      BY <1>7, <2>1
    <3>2. client = "greet" => Just(p2c', "greeting")
      BY <1>2, <2>1, <3>1 DEF Just
    <3>3. client = "closed" => p2c' = <<>>
      BY <1>2, <1>8, <2>1
    <3> QED BY <2>1, <3>2, <3>3
  <2>3. AwaitsLogin'
    BY <1>1, <1>14, <2>1, <2>2 DEF GreetingTaken, AwaitsLogin, Fresh, IfAny, Just
  <2> QED BY <1>10, <2>1, <2>3 DEF SessionInv, Connecting
<1>15. CASE DataAsked
  <2>1. /\ client \in {"auth", "closed"} /\ Fresh /\ side' = "client" /\ p2c = <<>>
        /\ Just(outgoing, "authAsk")
    BY <1>1, <1>15 DEF DataAsked, ServerTransitionPhases
  <2>2. \/ client = "auth" /\ Just(p2c', "authAsk")
        \/ client = "closed" /\ p2c' = <<>>
    <3>1. client = "auth" => q = outgoing
      BY <1>7, <2>1
    <3>2. client = "auth" => Just(p2c', "authAsk")
      BY <1>2, <2>1, <3>1 DEF Just
    <3>3. client = "closed" => p2c' = <<>>
      BY <1>2, <1>8, <2>1
    <3> QED BY <2>1, <3>2, <3>3
  <2>3. AwaitsData'
    BY <1>1, <1>15, <2>1, <2>2 DEF DataAsked, AwaitsData, Fresh, Just
  <2> QED BY <1>10, <2>1, <2>3 DEF SessionInv, Connecting
<1>16. CASE OutcomeSent
  <2>1. /\ client \in {"auth", "closed"} /\ Fresh /\ side' = "server"
        /\ Only(p2c, {"authMore"}) /\ Only(outgoing, {"authMore"})
    BY <1>1, <1>16 DEF OutcomeSent, ServerTransitionPhases
  <2>2. Only(q, {"authMore"})
    BY <1>7, <1>8, <2>1
  <2>3. OutcomeSent'
    BY <1>1, <1>2, <1>16, <2>1, <2>2 DEF OutcomeSent, Fresh, Just, Only
  <2> QED BY <1>10, <2>1, <2>3 DEF SessionInv, Connecting
<1>17. CASE Refused
  <2>1. /\ client \in {"auth", "closed"} /\ Fresh /\ side' = "server"
        /\ Only(p2c, {"authMore", "err"}) /\ Only(outgoing, {"authMore", "err"})
    BY <1>1, <1>17 DEF Refused, ServerTransitionPhases
  <2>2. Only(q, {"authMore", "err"})
    BY <1>7, <1>8, <2>1
  <2>3. Refused'
    BY <1>1, <1>2, <1>17, <2>1, <2>2 DEF Refused, Fresh, Only
  <2> QED BY <1>10, <2>1, <2>3 DEF SessionInv, Connecting
<1>18. CASE Settled
  <2>1. side' = "client" /\ ForCurrent(outgoing) /\ PassedTo(Current) /\ Quiet
    BY <1>1, <1>18 DEF Settled, ServerTransitionPhases
  <2>2. CASE client = "auth"
    <3>1. Fresh /\ Accepted(q)
      BY <1>7, <1>18, <2>2 DEF Settled
    <3>2. AwaitsCommand'
      BY <1>1, <1>2, <1>18, <2>1, <2>2, <3>1, SameBooks
         DEF Settled, AwaitsCommand, Fresh, Accepted
    <3> QED BY <1>10, <2>2, <3>1, <3>2 DEF SessionInv, Conversing
  <2>3. CASE client = "waiting"
    <3>1. LastEnds(q) /\ Answerable
      BY <1>7, <1>18, <2>3 DEF Settled
    <3>2. AwaitsCommand'
      BY <1>1, <1>2, <1>18, <2>1, <2>3, <3>1, SameBooks
         DEF Settled, AwaitsCommand, LastEnds
    <3> QED BY <1>12, <2>1, <2>3, <3>2 DEF SessionInv, Conversing
  <2>4. CASE client = "closed"
    <3>1. AwaitsCommand'
      BY <1>1, <1>18, <2>1, <2>4, SameBooks DEF Settled, AwaitsCommand
    <3> QED BY <1>11, <2>4, <3>1 DEF SessionInv, Conversing
  <2> QED BY <1>18, <2>2, <2>3, <2>4 DEF Settled
<1>19. CASE Replying
  <2>1. /\ side' = "server" /\ client \in {"waiting", "closed"}
        /\ NoneLast(p2c) /\ NoneLast(outgoing) /\ ForCurrent(outgoing)
    BY <1>1, <1>19 DEF Replying, Forwarded, ServerTransitionPhases
  <2>2. NoneLast(q)
    BY <1>7, <1>8, <2>1
  <2>3. Remaining(frame \o s2p)'
    BY <1>1, <1>19, SameBooks DEF Replying, Remaining, ForCurrent
  <2>4. Forwarded'
    BY <1>1, <1>2, <1>19, <2>1, <2>2, SameBooks DEF Replying, Forwarded, NoneLast
  <2>5. Replying'
    BY <1>1, <1>19, <2>3, <2>4, SameBooks DEF Replying
  <2> QED BY <1>11, <1>12, <2>1, <2>5 DEF SessionInv, Conversing
<1> QED BY <1>13, <1>14, <1>15, <1>16, <1>17, <1>18, <1>19

\* A command that is kept is passed without the server.
LEMMA KeptPasses ==
    ASSUME TypeInv, Current > 0, PassedTo(Current - 1), KeptLocal(asked[Current])
    PROVE  PassedTo(Current)
<1>1. Current \in Nat
  BY Queues DEF Current
<1>2. ASSUME server = "ready" PROVE LastExecuted <= Current - 1
  BY <1>2 DEF PassedTo
<1>3. LastExecuted \in Nat
  <2>1. executed \in Seq(1..Len(asked))
    BY Queues
  <2>2. executed # <<>> => executed[Len(executed)] \in 1..Len(asked)
    BY <2>1
  <2> QED BY <2>2 DEF LastExecuted
<1>4. ASSUME server = "ready", NEW j \in (LastExecuted + 1)..Current PROVE KeptLocal(asked[j])
  <2>1. j = Current \/ j \in (LastExecuted + 1)..(Current - 1)
    BY <1>1, <1>3
  <2> QED BY <1>4, <2>1 DEF PassedTo
<1>5. server = "ready" => LastExecuted <= Current
  BY <1>1, <1>2, <1>3
<1> QED BY <1>4, <1>5 DEF PassedTo

LEMMA InterceptedSession ==
    ASSUME TypeInv, SessionInv, Intercept
    PROVE  SessionInv'
<1>1. /\ pc = "write" /\ side = "client" /\ Intercepted /\ phase = "PendingResponse"
      /\ UNCHANGED <<side, frame, outgoing, acc, lastCommand, hasFlags, tls, partial, c2p, p2s,
                     s2p, client, server, asked, executed, answered>>
  BY DEF Intercept, Intercepted, peers
<1>2. CommandTaken
  BY <1>1, Situations
<1>3. hasFlags /\ frame = <<>>
  BY <1>1 DEF SessionInv, Books, FlagsOK, FrameOK
<1> DEFINE pkt == [OkPacket EXCEPT !.seq = outgoing[1].pkt.seq + 1]
<1>4. /\ pc' = "read" /\ phase' = "Command"
      /\ p2c' = IF client = "closed" THEN p2c
                ELSE Append(p2c, Message(pkt, outgoing[1].cmd, TRUE))
  BY <1>3 DEF Intercept
<1> HIDE DEF pkt
<1>5. /\ c2p = <<>> /\ p2c = <<>> /\ p2s = <<>> /\ Quiet /\ outgoing[1].cmd = Current
      /\ client \in {"waiting", "closed"} /\ Current > 0 /\ lastCommand = asked[Current]
      /\ PassedTo(Current - 1)
  BY <1>2 DEF CommandTaken, Asks
<1>6. KeptLocal(asked[Current])
  BY <1>1, <1>5 DEF Intercepted, IsWriteQuery, KeptLocal
<1>7. PassedTo(Current)' /\ Answerable' /\ Quiet' /\ Current' = Current
  <2>1. PassedTo(Current)
    BY <1>5, <1>6, KeptPasses
  <2> QED BY <1>1, <1>5, <1>6, <2>1, SameBooks DEF Answerable
<1>8. client = "closed" => p2c' = <<>>
  BY <1>4, <1>5
<1>13. PICK q : q = p2c'
  OBVIOUS
<1>9. ASSUME client = "waiting"
      PROVE  Len(q) = 1 /\ q[1].cmd = Current /\ q[1].last = TRUE /\ q # <<>>
  <2> DEFINE m == Message(pkt, outgoing[1].cmd, TRUE)
  <2>1. m.cmd = Current /\ m.last = TRUE
    BY <1>5 DEF Message
  <2> HIDE DEF m
  <2>2. q = Append(<<>>, m)
    BY <1>4, <1>5, <1>9, <1>13 DEF m
  <2> QED BY <2>1, <2>2
<1>10. Owed'
  <2>1. client = "waiting" => answered < Current
    BY DEF SessionInv, Books, Owed
  <2>2. CASE client = "waiting"
    <3>1. \A i \in 1..Len(q) : q[i].cmd = Current
      BY <1>9, <2>2
    <3> QED BY <1>1, <1>7, <1>13, <2>1, <2>2, <3>1 DEF Owed, ForCurrent
  <2>3. CASE client = "closed"
    BY <1>1, <1>8, <2>3 DEF Owed
  <2> QED BY <1>5, <2>2, <2>3
<1>11. Books'
  <2>1. FrameOK' /\ FlagsOK' /\ GoneOK'
    BY <1>1, <1>3, <1>4 DEF SessionInv, Books, FrameOK, FlagsOK, Typed, GoneOK
  <2> QED BY <1>1, <1>10, <2>1, WorkerBooks
<1>12. AwaitsCommand'
  <2>2. ASSUME client = "waiting" PROVE LastEnds(q)
    <3>1. Len(q) = 1 /\ q[1].last = TRUE
      BY <1>9, <2>2
    <3>2. q # <<>>
      BY <1>9, <2>2
    <3>3. \A i \in 1..Len(q) : i = 1 /\ i = Len(q)
      BY <3>1
    <3> QED BY <3>1, <3>2, <3>3 DEF LastEnds
  <2>1. client = "waiting" => LastEnds(p2c')
    BY <1>13, <2>2
  <2> QED BY <1>1, <1>4, <1>5, <1>7, <1>8, <2>1 DEF AwaitsCommand, LastEnds
<1> QED BY <1>11, <1>12 DEF SessionInv, Conversing

LEMMA ServerWrittenSession ==
    ASSUME TypeInv, SessionInv, WriteServer
    PROVE  SessionInv'
<1>1. /\ pc = "write" /\ pc' = "read" /\ side = "client" /\ ~Intercepted
      /\ UNCHANGED <<frame, outgoing, phase, acc, lastCommand, hasFlags, tls, partial,
                     c2p, p2c, s2p, client, server, asked, executed, answered>>
      /\ side' = IF phase \in ClientTransitionPhases THEN "server" ELSE "client"
      /\ p2s' = IF server = "closed" THEN p2s ELSE p2s \o outgoing
  BY DEF WriteServer, connection, peers
<1>2. frame = <<>>
  BY <1>1 DEF SessionInv, Books, FrameOK
<1>3. Books'
  <2>1. FrameOK' /\ FlagsOK' /\ GoneOK' /\ Owed'
    BY <1>1, <1>2 DEF SessionInv, Books, FrameOK, FlagsOK, Typed, GoneOK, Owed, ForCurrent, Current
  <2> QED BY <1>1, <2>1, WorkerBooks
<1>4. p2s \in Seq(Letters(asked)) /\ outgoing \in Seq(Letters(asked))
  BY Queues
<1>5. PICK q : q = p2s \o outgoing
  OBVIOUS
<1>6. (p2s = <<>> => q = outgoing) /\ (outgoing = <<>> => q = p2s)
  BY <1>4, <1>5, EmptyIs
<1>7. server # "closed" => p2s' = q
  BY <1>1, <1>5
<1>8. TlsAwaited \/ LoginTaken \/ DataTaken \/ CommandTaken
  BY <1>1, Situations
<1> USE DEF Fresh
<1>9. CASE TlsAwaited
  <2>1. side' = "client" /\ p2s' = q /\ IfAny(p2s, "sslRequest")
    BY <1>1, <1>7, <1>9 DEF TlsAwaited, ClientTransitionPhases
  <2>2. IfAny(q, "sslRequest")
    BY <1>1, <1>6, <1>9, <2>1 DEF TlsAwaited, IfAny
  <2>3. IfAny(p2s', "sslRequest")
    BY <2>1, <2>2
  <2>4. TlsAwaited'
    BY <1>1, <1>9, <2>1, <2>3 DEF TlsAwaited, IfAny, Just
  <2> QED BY <1>3, <2>4 DEF SessionInv, Connecting
<1>10. CASE LoginTaken
  <2>1. /\ side' = "server" /\ p2s' = q /\ IfAny(p2s, "sslRequest") /\ Just(outgoing, "response")
    BY <1>1, <1>7, <1>10 DEF LoginTaken, ClientTransitionPhases
  <2>2. Just(q, "response") \/ SslThenLogin(q)
    <3>1. CASE p2s = <<>>
      BY <1>6, <2>1, <3>1
    <3>2. CASE Just(p2s, "sslRequest")
      <4>1. Len(q) = Len(p2s) + Len(outgoing) /\ (\A i \in 1..Len(p2s) : q[i] = p2s[i])
            /\ \A i \in 1..Len(outgoing) : q[Len(p2s) + i] = outgoing[i]
        BY <1>4, <1>5, Concat
      <4>2. Len(p2s) = 1 /\ Len(outgoing) = 1 /\ 1 \in 1..1 /\ 1 + 1 = 2
        BY <2>1, <3>2 DEF Just
      <4>3. Len(q) = 2 /\ q[1] = p2s[1] /\ q[2] = outgoing[1]
        BY <4>1, <4>2
      <4> QED BY <2>1, <3>2, <4>3 DEF Just, SslThenLogin
    <3> QED BY <2>1, <3>1, <3>2 DEF IfAny
  <2>3. Just(p2s', "response") \/ SslThenLogin(p2s')
    BY <2>1, <2>2
  <2>4. LoginSent'
    BY <1>1, <1>10, <2>1, <2>3 DEF LoginTaken, LoginSent, Just, SslThenLogin
  <2> QED BY <1>3, <2>4 DEF SessionInv, Connecting
<1>11. CASE DataTaken
  <2>1. side' = "server" /\ p2s' = outgoing
    BY <1>1, <1>6, <1>7, <1>11 DEF DataTaken, ClientTransitionPhases
  <2>2. DataSent'
    BY <1>1, <1>11, <2>1 DEF DataTaken, DataSent, Just
  <2> QED BY <1>3, <2>2 DEF SessionInv, Connecting
<1>12. CASE CommandTaken
  <2>1. /\ side' = "server" /\ phase = "PendingResponse" /\ client \in {"waiting", "closed"}
        /\ Current > 0 /\ lastCommand = asked[Current]
        /\ c2p = <<>> /\ p2c = <<>> /\ p2s = <<>> /\ Quiet /\ Asks(outgoing)
        /\ outgoing[1].pkt.type = "Command"
        /\ acc = NewAccumulator /\ PassedTo(Current - 1)
    BY <1>1, <1>12 DEF CommandTaken, ClientTransitionPhases
  <2>2. ~KeptLocal(asked[Current])
    BY <1>1, <2>1 DEF Intercepted, IsWriteQuery, KeptLocal, Asks
  <2>3. Forwarded'
    BY <1>1, <2>1, <2>2, SameBooks DEF Forwarded, NoneLast
  <2>4. CASE server = "ready"
    <3>1. p2s' = outgoing /\ s2p = <<>>
      BY <1>6, <1>7, <2>1, <2>4 DEF Quiet
    <3>2. Asks(p2s)'
      BY <1>1, <2>1, <3>1, SameBooks DEF Asks
    <3>3. CommandSent'
      BY <1>1, <2>1, <2>3, <2>4, <3>1, <3>2, SameBooks DEF CommandSent
    <3> QED BY <1>3, <3>3 DEF SessionInv, Conversing
  <2>5. CASE server = "closed"
    <3>1. p2s' = <<>>
      BY <1>1, <2>1, <2>5
    <3>2. Abandoned'
      BY <1>1, <2>1, <2>3, <2>5, <3>1, SameBooks DEF Abandoned
    <3> QED BY <1>3, <3>2 DEF SessionInv, Conversing
  <2> QED BY <2>1, <2>4, <2>5 DEF Quiet
<1> QED BY <1>8, <1>9, <1>10, <1>11, <1>12

-----------------------------------------------------------------------------
(* The worker consumes a packet.                                           *)

LEMMA Taken ==
    ASSUME TypeInv, frame # <<>>, NEW p \in Wire, p.role = Packet1.role, p.val = Packet1.val,
           Forward(p), NEW f, f = frame', NEW o, o = outgoing'
    PROVE  /\ pc' = pc /\ f \in Seq(Letters(asked)) /\ Len(frame) \in Nat \ {0}
           /\ Packet1 = frame[1].pkt
           /\ Len(f) = Len(frame) - 1 /\ \A i \in 1..Len(f) : f[i] = frame[i + 1]
           /\ Len(frame) = 1 => f = <<>>
           /\ frame \in Seq(Letters(asked)) /\ f = Tail(frame)
           /\ o \in Seq(Letters(asked)) /\ Len(o) = Len(outgoing) + 1 /\ Len(outgoing) \in Nat
           /\ \A i \in 1..Len(outgoing) : o[i] = outgoing[i]
           /\ o[Len(o)].pkt = p /\ o[Len(o)].cmd = frame[1].cmd /\ o[Len(o)].last = frame[1].last
<1> DEFINE S == Letters(asked)
           q == [Head(frame) EXCEPT !.pkt = p]
<1>1. frame \in Seq(S) /\ outgoing \in Seq(S)
  BY Queues
<1> HIDE DEF S
<1>2. /\ Head(frame) = frame[1] /\ Len(frame) \in Nat \ {0} /\ Tail(frame) \in Seq(S)
      /\ Len(Tail(frame)) = Len(frame) - 1
      /\ \A i \in 1..(Len(frame) - 1) : Tail(frame)[i] = frame[i + 1]
      /\ Len(frame) = 1 => Tail(frame) = <<>>
  BY <1>1, TailOf
<1>3. p.skip = FALSE
  BY DEF Wire, Frames
<1>4. frame' = Tail(frame) /\ outgoing' = Append(outgoing, q) /\ pc' = pc
  BY <1>3 DEF Forward
<1>5. Head(frame) \in S
  BY <1>1, <1>2
<1>6. q \in S /\ q.pkt = p /\ q.cmd = frame[1].cmd /\ q.last = frame[1].last
  <2>1. Head(frame) \in Letters(asked) /\ p.role = Head(frame).pkt.role
        /\ p.val = Head(frame).pkt.val
    BY <1>5 DEF S, Packet1
  <2>2. q \in Letters(asked) /\ q.pkt = p /\ q.cmd = Head(frame).cmd /\ q.last = Head(frame).last
    BY <2>1, NewPacketOf
  <2> QED BY <1>2, <2>2 DEF S
<1> HIDE DEF q
<1>7. /\ Append(outgoing, q) \in Seq(S) /\ Len(Append(outgoing, q)) = Len(outgoing) + 1
      /\ Len(outgoing) \in Nat
      /\ \A i \in 1..Len(outgoing) : Append(outgoing, q)[i] = outgoing[i]
      /\ Append(outgoing, q)[Len(outgoing) + 1] = q
  BY <1>1, <1>6
<1>8. o = Append(outgoing, q) /\ f = Tail(frame)
  BY <1>4
<1>9. Len(o) = Len(outgoing) + 1 /\ o[Len(o)] = q /\ o \in Seq(S)
      /\ \A i \in 1..Len(outgoing) : o[i] = outgoing[i]
  BY <1>7, <1>8
<1>10. f \in Seq(S) /\ Len(f) = Len(frame) - 1 /\ (\A i \in 1..Len(f) : f[i] = frame[i + 1])
       /\ (Len(frame) = 1 => f = <<>>)
  BY <1>2, <1>8
<1>11. Packet1 = frame[1].pkt
  BY <1>2 DEF Packet1
<1> QED BY <1>1, <1>2, <1>4, <1>6, <1>7, <1>8, <1>9, <1>10, <1>11 DEF S

\* What a packet that is passed on does to the queues, by its role.
LEMMA TakenRole ==
    ASSUME TypeInv, Processing(phase), Forward(Packet1), NEW f, f = frame', NEW o, o = outgoing'
    PROVE  /\ pc' = "process" /\ f \in Seq(Letters(asked)) /\ o \in Seq(Letters(asked))
           /\ o # <<>>
           /\ Typed(frame) => Typed(f)
           /\ Len(frame) = 1 => f = <<>>
           /\ Len(frame) = 2 => Len(f) = 1 /\ f[1] = frame[2]
           /\ outgoing = <<>> =>
                /\ Just(o, Packet1.role) /\ o[1].cmd = frame[1].cmd
                /\ o[1].pkt.type = frame[1].pkt.type
           /\ \A roles : Only(outgoing, roles) /\ Packet1.role \in roles => Only(o, roles)
           /\ Only(outgoing, {"authMore"}) /\ Packet1.role = "ok" => Accepted(o)
           /\ Packet1 = frame[1].pkt
<1> DEFINE n == Len(outgoing)
<1>1. frame # <<>> /\ pc = "process"
  BY DEF Processing
<1>2. Packet1 \in Wire
  BY <1>1, Packet1OnWire
<1>3. /\ pc' = pc /\ f \in Seq(Letters(asked)) /\ Len(frame) \in Nat \ {0}
      /\ Len(f) = Len(frame) - 1 /\ \A i \in 1..Len(f) : f[i] = frame[i + 1]
      /\ Len(frame) = 1 => f = <<>>
      /\ Packet1 = frame[1].pkt
  BY <1>1, <1>2, Taken
<1>4. o \in Seq(Letters(asked)) /\ Len(o) = n + 1 /\ n \in Nat
  BY <1>1, <1>2, Taken
<1>5. \A i \in 1..n : o[i] = outgoing[i]
  BY <1>1, <1>2, Taken
<1>6. o[n + 1].pkt = Packet1 /\ o[n + 1].cmd = frame[1].cmd
  <2>1. o[Len(o)].pkt = Packet1 /\ o[Len(o)].cmd = frame[1].cmd
    BY <1>1, <1>2, Taken
  <2> QED BY <1>4, <2>1
<1>7. Typed(frame) => Typed(f)
  <2>1. \A i \in 1..Len(f) : i + 1 \in 1..Len(frame) /\ f[i] = frame[i + 1]
    BY <1>3
  <2> QED BY <2>1 DEF Typed
<1>8. Len(frame) = 2 => Len(f) = 1 /\ f[1] = frame[2]
  BY <1>3
<1>9. o # <<>>
  BY <1>4
<1>10. outgoing = <<>> => /\ Just(o, Packet1.role) /\ o[1].cmd = frame[1].cmd
                          /\ o[1].pkt.type = frame[1].pkt.type
  <2>1. outgoing = <<>> => n = 0 /\ n + 1 = 1
    OBVIOUS
  <2> HIDE DEF n
  <2> QED BY <1>3, <1>4, <1>6, <2>1 DEF Just
<1> HIDE DEF n
<1>11. \A roles : Only(outgoing, roles) /\ Packet1.role \in roles => Only(o, roles)
  <2>1. \A i \in 1..(n + 1) : i \in 1..n \/ i = n + 1
    BY <1>4
  <2> QED BY <1>4, <1>5, <1>6, <2>1 DEF Only, n
<1>12. Only(outgoing, {"authMore"}) /\ Packet1.role = "ok" => Accepted(o)
  <2>1. \A i \in 1..(n + 1) : (i \in 1..n /\ i # n + 1) \/ i = n + 1
    BY <1>4
  <2> QED BY <1>4, <1>5, <1>6, <1>9, <2>1 DEF Only, Accepted, n
<1> QED BY <1>1, <1>3, <1>4, <1>7, <1>8, <1>9, <1>10, <1>11, <1>12

\* The books of a worker that passes a packet on.
LEMMA TakenBooks ==
    ASSUME TypeInv, SessionInv, Processing(phase), Forward(Packet1), Elsewhere,
           hasFlags', tls' = tls
    PROVE  Books'
<1>1. PICK f : f = frame'
  OBVIOUS
<1>2. PICK o : o = outgoing'
  OBVIOUS
<1>3. pc' = "process" /\ (Typed(frame) => Typed(f))
  BY <1>1, <1>2, TakenRole
<1>4. FrameOK'
  BY <1>1, <1>3 DEF SessionInv, Books, FrameOK, Typed
<1> QED BY <1>4, SilentBooks DEF FlagsOK, Elsewhere, peers

LEMMA HandshakeSession ==
    ASSUME TypeInv, SessionInv, ConsumeHandshake
    PROVE  SessionInv'
<1>1. Processing(phase) /\ phase = "Handshake" /\ pc = "process" /\ frame # <<>>
  BY DEF ConsumeHandshake, Processing
<1>2. UNCHANGED <<side, c2p, p2c, p2s, s2p, client, server, asked, executed, answered>>
  BY DEF ConsumeHandshake, Elsewhere, peers
<1>3. GreetingRead
  BY <1>1, Situations
<1>4. PICK f : f = frame'
  OBVIOUS
<1>5. PICK o : o = outgoing'
  OBVIOUS
<1>6. Packet1.role = "greeting"
  <2>1. Head(frame) = frame[1]
    BY <1>1, Queues, TailOf
  <2> QED BY <1>3, <2>1 DEF GreetingRead, Just, Packet1
<1>7. /\ Forward(Packet1) /\ phase' = "HandshakeResponse"
      /\ UNCHANGED <<acc, lastCommand, hasFlags, tls, partial>>
  BY <1>6 DEF ConsumeHandshake
<1>8. pc' = "process" /\ f = <<>> /\ Just(o, "greeting") /\ (Typed(frame) => Typed(f))
  BY <1>1, <1>3, <1>4, <1>5, <1>6, <1>7, TakenRole DEF GreetingRead, Just
<1>9. Books'
  <2>1. FrameOK' /\ FlagsOK'
    BY <1>4, <1>7, <1>8 DEF SessionInv, Books, FrameOK, Typed, FlagsOK
  <2> QED BY <1>2, <2>1, SilentBooks
<1>10. GreetingTaken'
  BY <1>2, <1>3, <1>4, <1>5, <1>7, <1>8 DEF GreetingRead, GreetingTaken, Just, Fresh
<1> QED BY <1>9, <1>10 DEF SessionInv, Connecting

LEMMA HandshakeResponseSession ==
    ASSUME TypeInv, SessionInv, ConsumeHandshakeResponse
    PROVE  SessionInv'
<1>1. Processing(phase) /\ phase = "HandshakeResponse" /\ pc = "process" /\ frame # <<>>
  BY DEF ConsumeHandshakeResponse, Processing
<1>2. /\ UNCHANGED <<side, c2p, p2c, p2s, s2p, client, server, asked, executed, answered>>
      /\ Elsewhere
  BY DEF ConsumeHandshakeResponse, Elsewhere, peers
<1>3. SslRead \/ LoginRead
  BY <1>1, Situations
<1>4. PICK f : f = frame'
  OBVIOUS
<1>5. PICK o : o = outgoing'
  OBVIOUS
<1>6. Packet1.role \in {"sslRequest", "response"} /\ Packet1.role = frame[1].pkt.role
      /\ Len(frame) = 1 /\ outgoing = <<>>
  <2>1. Head(frame) = frame[1]
    BY <1>1, Queues, TailOf
  <2> QED BY <1>3, <2>1 DEF SslRead, LoginRead, Just, Packet1
<1>7. /\ Forward(Packet1) /\ hasFlags' = TRUE
      /\ phase' = IF Packet1.role = "sslRequest" /\ ~tls THEN "TlsExchange" ELSE "AuthInit"
      /\ UNCHANGED <<acc, lastCommand, tls, partial>>
  BY <1>6 DEF ConsumeHandshakeResponse
<1>8. pc' = "process" /\ f = <<>> /\ Just(o, Packet1.role)
  BY <1>1, <1>4, <1>5, <1>6, <1>7, TakenRole
<1>9. Books'
  BY <1>1, <1>2, <1>7, TakenBooks
<1>10. CASE SslRead
  <2>1. TlsAwaited'
    BY <1>2, <1>4, <1>5, <1>6, <1>7, <1>8, <1>10 DEF SslRead, TlsAwaited, Just, IfAny, Fresh
  <2> QED BY <1>9, <2>1 DEF SessionInv, Connecting
<1>11. CASE LoginRead
  <2>1. LoginTaken'
    BY <1>2, <1>4, <1>5, <1>6, <1>7, <1>8, <1>11 DEF LoginRead, LoginTaken, Just, IfAny, Fresh
  <2> QED BY <1>9, <2>1 DEF SessionInv, Connecting
<1> QED BY <1>3, <1>10, <1>11

\* What the authentication makes of a server's packet.
LEMMA Verdicts ==
    ASSUME NEW p, Kind(p), p.role = "ok" => p.type = "Ok"
    PROVE  /\ p.role = "ok" => AuthStart(p) = "Command" /\ AuthResult(p) = "Command"
           /\ p.role = "authMore" => AuthStart(p) = "AuthComplete"
           /\ p.role = "authAsk" => AuthStart(p) = "AuthSwitchResponse"
           /\ p.role = "err" => AuthStart(p) = "AuthInit"
           /\ p.type = "Error" => AuthResult(p) = "AuthFailed"
<1> DEFINE a == p.first = 254
           b == p.first = 0
           c == p.first = 1 /\ p.val = 3
           d == p.first = 1 /\ p.val = 4
           e == p.first = 1 /\ p.val \notin {3, 4}
           r == AuthResult(p)
<1>1. /\ p.role = "ok" => b /\ ~a /\ ~c /\ ~d /\ ~e
      /\ p.role = "authMore" => ~b /\ ~a /\ c /\ ~d /\ ~e
      /\ p.role = "authAsk" => ~b /\ ~c /\ ~e /\ ((a /\ ~d) \/ (d /\ ~a))
      /\ p.role = "err" => ~b /\ ~a /\ ~c /\ ~d /\ ~e
  BY DEF Kind
<1>2. p.type = "Ok" => r = "Command"
  BY DEF AuthResult
<1>3. p.type = "Error" => r = "AuthFailed"
  <2>1. "Error" # "Ok"
    OBVIOUS
  <2> QED BY <2>1 DEF AuthResult
<1>4. AuthStart(p) = CASE a -> "AuthSwitchResponse"
                       [] b -> r
                       [] c -> "AuthComplete"
                       [] d -> "AuthSwitchResponse"
                       [] e -> "panic"
                       [] OTHER -> "AuthInit"
  BY DEF AuthStart
<1> HIDE DEF a, b, c, d, e, r
<1>5. p.role = "ok" => AuthStart(p) = "Command"
  BY <1>1, <1>2, <1>4, Zenon
<1>6. p.role = "authMore" => AuthStart(p) = "AuthComplete"
  BY <1>1, <1>4, Zenon
<1>7. p.role = "authAsk" => AuthStart(p) = "AuthSwitchResponse"
  BY <1>1, <1>4, Zenon
<1>8. p.role = "err" => AuthStart(p) = "AuthInit"
  BY <1>1, <1>4, Zenon
<1> QED BY <1>2, <1>3, <1>5, <1>6, <1>7, <1>8 DEF r

LEMMA FreshPasses ==
    ASSUME Fresh
    PROVE  Current = 0 /\ PassedTo(Current)
<1>1. Current = 0 /\ LastExecuted = 0
  BY DEF Fresh, Current, LastExecuted
<1> QED BY <1>1 DEF PassedTo

\* The end of the authentication has been consumed.
LEMMA AcceptedSession ==
    ASSUME TypeInv, SessionInv, Fresh, c2p = <<>>, p2s = <<>>, Quiet, side = "server",
           client \in {"auth", "closed"}, Only(p2c, {"authMore"}), pc' = "process",
           phase' = "Command", UNCHANGED <<side, c2p, p2c, p2s, s2p, peers>>,
           NEW f, f = frame', NEW o, o = outgoing', f = <<>>, o \in Seq(Letters(asked)),
           Accepted(o), Books'
    PROVE  SessionInv'
<1>1. ForCurrent(o)
  BY FreshMail DEF ForCurrent
<1>2. PassedTo(Current)
  BY FreshPasses
<1>3. UNCHANGED <<client, server, asked, executed, answered>>
  BY DEF peers
<1>4. ForCurrent(outgoing)'
  BY <1>1, <1>3, SameBooks DEF ForCurrent
<1>5. Settled'
  BY <1>2, <1>3, <1>4, SameBooks DEF Settled, Fresh, Accepted, Only
<1> QED BY <1>5 DEF SessionInv, Conversing

LEMMA AuthInitSession ==
    ASSUME TypeInv, SessionInv, ConsumeAuthInit
    PROVE  SessionInv'
<1>1. Processing(phase) /\ phase = "AuthInit" /\ pc = "process" /\ frame # <<>>
  BY DEF ConsumeAuthInit, Processing
<1>2. /\ UNCHANGED <<side, c2p, p2c, p2s, s2p, client, server, asked, executed, answered>>
      /\ Elsewhere
  BY DEF ConsumeAuthInit, Elsewhere, peers
<1>3. VerdictRead
  BY <1>1, Situations
<1>4. PICK f : f = frame'
  OBVIOUS
<1>5. PICK o : o = outgoing'
  OBVIOUS
<1>6. Kind(Packet1) /\ Packet1 = frame[1].pkt /\ Len(frame) \in Nat \ {0}
  <2>1. Packet1 \in Wire
    BY <1>1, Packet1OnWire
  <2>2. Head(frame) = frame[1] /\ Len(frame) \in Nat \ {0}
    BY <1>1, Queues, TailOf
  <2> QED BY <2>1, <2>2 DEF Wire, Packet1
<1>7. Packet1.role = "ok" => Packet1.type = "Ok"
  BY <1>6 DEF SessionInv, Books, FrameOK, Typed
<1>8. ASSUME NEW p, AuthStart(Packet1) = p, p # "panic"
      PROVE  /\ Forward(Packet1) /\ phase' = p /\ hasFlags' = hasFlags /\ tls' = tls /\ Books'
             /\ UNCHANGED <<acc, lastCommand>>
  <2>1. /\ Forward(Packet1) /\ phase' = p
        /\ UNCHANGED <<acc, lastCommand, hasFlags, tls, partial>>
    BY <1>8 DEF ConsumeAuthInit, MovePhase
  <2>2. hasFlags
    BY <1>1 DEF SessionInv, Books, FlagsOK
  <2> QED BY <1>1, <1>2, <2>1, <2>2, TakenBooks
<1>9. /\ Packet1.role = "ok" => AuthStart(Packet1) = "Command"
      /\ Packet1.role = "authMore" => AuthStart(Packet1) = "AuthComplete"
      /\ Packet1.role = "authAsk" => AuthStart(Packet1) = "AuthSwitchResponse"
      /\ Packet1.role = "err" => AuthStart(Packet1) = "AuthInit"
  BY <1>6, <1>7, Verdicts
<1>10. /\ outgoing = <<>> /\ Fresh /\ c2p = <<>> /\ p2c = <<>> /\ p2s = <<>>
       /\ client \in {"auth", "closed"} /\ side = "server"
  BY <1>3 DEF VerdictRead
<1>11. ASSUME Forward(Packet1)
       PROVE  /\ pc' = "process" /\ f \in Seq(Letters(asked)) /\ o \in Seq(Letters(asked))
              /\ Len(frame) = 1 => f = <<>>
              /\ Len(frame) = 2 => Len(f) = 1 /\ f[1] = frame[2]
              /\ Just(o, Packet1.role)
              /\ \A roles : Packet1.role \in roles => Only(o, roles)
              /\ Packet1.role = "ok" => Accepted(o)
  BY <1>1, <1>4, <1>5, <1>10, <1>11, TakenRole DEF Only
<1>12. CASE Just(frame, "ok") /\ Quiet
  <2>1. Packet1.role = "ok" /\ Len(frame) = 1
    BY <1>6, <1>12 DEF Just
  <2>2. Forward(Packet1) /\ phase' = "Command" /\ Books'
    BY <1>8, <1>9, <2>1
  <2>3. pc' = "process" /\ f = <<>> /\ o \in Seq(Letters(asked)) /\ Accepted(o)
    BY <1>11, <2>1, <2>2
  <2>4. Only(p2c, {"authMore"})
    BY <1>10 DEF Only
  <2> QED BY <1>2, <1>4, <1>5, <1>10, <1>12, <2>2, <2>3, <2>4, AcceptedSession DEF Elsewhere
<1>13. CASE MoreThenOk(frame) /\ Quiet
  <2>1. Packet1.role = "authMore" /\ Len(frame) = 2 /\ frame[2].pkt.role = "ok"
    BY <1>6, <1>13 DEF MoreThenOk
  <2>2. Forward(Packet1) /\ phase' = "AuthComplete" /\ Books'
    BY <1>8, <1>9, <2>1
  <2>3. pc' = "process" /\ Len(f) = 1 /\ f[1] = frame[2] /\ Only(o, {"authMore"})
    BY <1>11, <2>1, <2>2
  <2>4. Just(f, "ok") /\ Only(p2c, {"authMore"}) /\ Quiet'
    BY <1>2, <1>10, <1>13, <2>1, <2>3, SameBooks DEF Just, Only
  <2>5. OutcomeRead'
    BY <1>2, <1>4, <1>5, <1>10, <1>13, <2>2, <2>3, <2>4
       DEF VerdictRead, OutcomeRead, Fresh, Just, Only
  <2> QED BY <2>2, <2>5 DEF SessionInv, Connecting
<1>14. CASE Just(frame, "authMore") /\ server = "ready" /\ Just(s2p, "ok")
  <2>1. Packet1.role = "authMore" /\ Len(frame) = 1
    BY <1>6, <1>14 DEF Just
  <2>2. Forward(Packet1) /\ phase' = "AuthComplete" /\ Books'
    BY <1>8, <1>9, <2>1
  <2>3. pc' = "process" /\ f = <<>> /\ Only(o, {"authMore"})
    BY <1>11, <2>1, <2>2
  <2>4. OutcomeSent'
    BY <1>2, <1>4, <1>5, <1>10, <1>14, <2>2, <2>3 DEF OutcomeSent, Fresh, Just, Only
  <2> QED BY <2>2, <2>4 DEF SessionInv, Connecting
<1>15. CASE Just(frame, "err") /\ server = "closed" /\ s2p = <<>>
  <2>1. Packet1.role = "err" /\ Len(frame) = 1
    BY <1>6, <1>15 DEF Just
  <2>2. Forward(Packet1) /\ phase' = "AuthInit" /\ Books'
    BY <1>8, <1>9, <2>1
  <2>3. pc' = "process" /\ f = <<>> /\ Only(o, {"authMore", "err"})
    BY <1>11, <2>1, <2>2
  <2>4. Refused'
    BY <1>2, <1>4, <1>5, <1>10, <1>15, <2>2, <2>3 DEF Refused, Fresh, Only
  <2> QED BY <2>2, <2>4 DEF SessionInv, Connecting
<1>16. CASE Just(frame, "authAsk") /\ server = "authData" /\ s2p = <<>>
  <2>1. Packet1.role = "authAsk" /\ Len(frame) = 1
    BY <1>6, <1>16 DEF Just
  <2>2. Forward(Packet1) /\ phase' = "AuthSwitchResponse" /\ Books'
    BY <1>8, <1>9, <2>1
  <2>3. pc' = "process" /\ f = <<>> /\ Just(o, "authAsk")
    BY <1>11, <2>1, <2>2
  <2>4. DataAsked'
    BY <1>2, <1>4, <1>5, <1>10, <1>16, <2>2, <2>3 DEF DataAsked, Fresh, Just
  <2> QED BY <2>2, <2>4 DEF SessionInv, Connecting
<1> QED BY <1>3, <1>12, <1>13, <1>14, <1>15, <1>16 DEF VerdictRead

LEMMA AuthDataSession ==
    ASSUME TypeInv, SessionInv, ConsumeAuthSwitchResponse
    PROVE  SessionInv'
<1>1. Processing(phase) /\ phase = "AuthSwitchResponse" /\ pc = "process" /\ frame # <<>>
  BY DEF ConsumeAuthSwitchResponse, Processing
<1>2. /\ UNCHANGED <<side, c2p, p2c, p2s, s2p, client, server, asked, executed, answered>>
      /\ Elsewhere
  BY DEF ConsumeAuthSwitchResponse, Elsewhere, peers
<1>3. DataRead
  BY <1>1, Situations
<1>4. PICK f : f = frame'
  OBVIOUS
<1>5. PICK o : o = outgoing'
  OBVIOUS
<1>6. /\ Forward(Packet1) /\ phase' = "AuthComplete"
      /\ UNCHANGED <<acc, lastCommand, hasFlags, tls, partial>>
  BY DEF ConsumeAuthSwitchResponse, MovePhase
<1>7. hasFlags
  BY <1>1 DEF SessionInv, Books, FlagsOK
<1>8. Books'
  BY <1>1, <1>2, <1>6, <1>7, TakenBooks
<1>9. pc' = "process" /\ f = <<>> /\ Just(o, "authData")
  <2>1. Len(frame) = 1 /\ frame[1].pkt.role = "authData" /\ outgoing = <<>>
    BY <1>3 DEF DataRead, Just
  <2>2. Packet1 = frame[1].pkt /\ pc' = "process" /\ f = <<>> /\ Just(o, Packet1.role)
    BY <1>1, <1>4, <1>5, <1>6, <2>1, TakenRole
  <2> QED BY <2>1, <2>2
<1>10. DataTaken'
  BY <1>2, <1>3, <1>4, <1>5, <1>6, <1>9 DEF DataRead, DataTaken, Just, Fresh
<1> QED BY <1>8, <1>10 DEF SessionInv, Connecting

LEMMA AuthEndSession ==
    ASSUME TypeInv, SessionInv, ConsumeAuthComplete
    PROVE  SessionInv'
<1>1. Processing(phase) /\ phase = "AuthComplete" /\ pc = "process" /\ frame # <<>>
  <2>1. Processing(phase) /\ pc = "process" /\ frame # <<>>
        /\ phase \in {"AuthComplete", "TlsExchange", "AuthFailed"}
    BY DEF ConsumeAuthComplete, Processing, Untracked
  <2> QED BY <2>1, Situations
<1>2. /\ UNCHANGED <<side, c2p, p2c, p2s, s2p, client, server, asked, executed, answered>>
      /\ Elsewhere
  BY DEF ConsumeAuthComplete, Elsewhere, peers
<1>3. OutcomeRead
  BY <1>1, Situations
<1>4. PICK f : f = frame'
  OBVIOUS
<1>5. PICK o : o = outgoing'
  OBVIOUS
<1>6. Kind(Packet1) /\ Packet1 = frame[1].pkt /\ Len(frame) = 1
  <2>1. Packet1 \in Wire
    BY <1>1, Packet1OnWire
  <2>2. Head(frame) = frame[1]
    BY <1>1, Queues, TailOf
  <2> QED BY <1>3, <2>1, <2>2 DEF Wire, Packet1, OutcomeRead, Just
<1>7. /\ Packet1.role = "ok" => Packet1.type = "Ok"
      /\ Packet1.role = "err" => Packet1.type = "Error"
  BY <1>6 DEF SessionInv, Books, FrameOK, Typed
<1>8. ASSUME NEW p, AuthResult(Packet1) = p, p # "panic"
      PROVE  Forward(Packet1) /\ phase' = p /\ Books'
  <2>1. /\ Forward(Packet1) /\ phase' = p
        /\ UNCHANGED <<acc, lastCommand, hasFlags, tls, partial>>
    BY <1>1, <1>8 DEF ConsumeAuthComplete, MovePhase, Untracked
  <2>2. hasFlags
    BY <1>1 DEF SessionInv, Books, FlagsOK
  <2> QED BY <1>1, <1>2, <2>1, <2>2, TakenBooks
<1>9. /\ Packet1.role = "ok" => AuthResult(Packet1) = "Command"
      /\ Packet1.role = "err" => AuthResult(Packet1) = "AuthFailed"
  BY <1>6, <1>7, Verdicts
<1>10. /\ Only(outgoing, {"authMore"}) /\ Only(p2c, {"authMore"}) /\ Fresh /\ c2p = <<>>
       /\ p2s = <<>> /\ client \in {"auth", "closed"} /\ side = "server"
  BY <1>3 DEF OutcomeRead
<1>11. ASSUME Forward(Packet1)
       PROVE  /\ pc' = "process" /\ o \in Seq(Letters(asked)) /\ f = <<>>
              /\ Packet1.role = "err" => Only(o, {"authMore", "err"})
              /\ Packet1.role = "ok" => Accepted(o)
  <2>1. Only(outgoing, {"authMore", "err"})
    BY <1>10 DEF Only
  <2> QED BY <1>1, <1>4, <1>5, <1>6, <1>10, <1>11, <2>1, TakenRole
<1>12. CASE Just(frame, "ok") /\ Quiet
  <2>1. Packet1.role = "ok"
    BY <1>6, <1>12 DEF Just
  <2>2. Forward(Packet1) /\ phase' = "Command" /\ Books'
    BY <1>8, <1>9, <2>1
  <2>3. pc' = "process" /\ f = <<>> /\ o \in Seq(Letters(asked)) /\ Accepted(o)
    BY <1>11, <2>1, <2>2
  <2> QED BY <1>2, <1>4, <1>5, <1>10, <1>12, <2>2, <2>3, AcceptedSession DEF Elsewhere
<1>13. CASE Just(frame, "err") /\ server = "closed" /\ s2p = <<>>
  <2>1. Packet1.role = "err"
    BY <1>6, <1>13 DEF Just
  <2>2. Forward(Packet1) /\ phase' = "AuthFailed" /\ Books'
    BY <1>8, <1>9, <2>1
  <2>3. pc' = "process" /\ f = <<>> /\ Only(o, {"authMore", "err"})
    BY <1>11, <2>1, <2>2
  <2>4. Only(p2c, {"authMore", "err"})
    BY <1>10 DEF Only
  <2>5. Refused'
    BY <1>2, <1>4, <1>5, <1>10, <1>13, <2>2, <2>3, <2>4 DEF Refused, Fresh, Only
  <2> QED BY <2>2, <2>5 DEF SessionInv, Connecting
<1> QED BY <1>3, <1>12, <1>13 DEF OutcomeRead

LEMMA CommandSession ==
    ASSUME Orderly, TypeInv, SessionInv, ConsumeCommand
    PROVE  SessionInv'
<1>1. Processing(phase) /\ phase = "Command" /\ pc = "process" /\ frame # <<>>
  BY DEF ConsumeCommand, Processing
<1>2. /\ UNCHANGED <<side, c2p, p2c, p2s, s2p, client, server, asked, executed, answered>>
      /\ Elsewhere
  BY DEF ConsumeCommand, Elsewhere, peers
<1>3. CommandRead
  BY <1>1, Situations
<1>4. PICK f : f = frame'
  OBVIOUS
<1>5. PICK o : o = outgoing'
  OBVIOUS
<1>6. /\ Len(frame) = 1 /\ frame[1].pkt.role = "command" /\ frame[1].cmd = Current
      /\ frame[1].pkt.type = "Command" /\ outgoing = <<>>
      /\ client \in {"waiting", "closed"} /\ side = "client"
      /\ c2p = <<>> /\ p2c = <<>> /\ p2s = <<>> /\ Quiet /\ PassedTo(Current - 1)
  BY <1>3 DEF CommandRead, Asks
<1>7. Head(frame) = frame[1] /\ Packet1 = frame[1].pkt
  BY <1>1, Queues, TailOf DEF Packet1
<1>8. Current \in 1..Len(asked) /\ Packet1.val = asked[Current] /\ Packet1.val \in Commands
  BY <1>1, <1>6, <1>7, Packet1OnWire
<1>9. hasFlags
  BY <1>1 DEF SessionInv, Books, FlagsOK
<1>10. Packet1.val.com # "StmtClose"
  BY <1>8 DEF Orderly, PreparedComs
<1>11. /\ Forward(Packet1) /\ phase' = "PendingResponse" /\ lastCommand' = asked[Current]
       /\ acc' = NewAccumulator /\ UNCHANGED <<hasFlags, tls, partial>>
  BY <1>6, <1>7, <1>8, <1>9, <1>10 DEF ConsumeCommand, IsCommand
<1>12. Books'
  BY <1>1, <1>2, <1>9, <1>11, TakenBooks
<1>13. /\ pc' = "process" /\ f = <<>> /\ Just(o, "command") /\ o[1].cmd = Current
       /\ o[1].pkt.type = "Command"
  BY <1>1, <1>4, <1>5, <1>6, <1>7, <1>11, TakenRole
<1>14. Current > 0
  BY <1>8, Queues
<1>15. CommandTaken'
  BY <1>2, <1>4, <1>5, <1>6, <1>11, <1>13, <1>14, SameBooks DEF CommandTaken, Asks, Just
<1> QED BY <1>12, <1>15 DEF SessionInv, Conversing

-----------------------------------------------------------------------------
(* The accumulator follows a reply.                                        *)

\* The type of a reply's packet, by its role.
LEMMA TypeByRole ==
    ASSUME Orderly, NEW p \in Wire
    PROVE  /\ p.role = "ok" => TypeOf(p) = "Ok" /\ OkParses(p)
           /\ p.role = "err" => TypeOf(p) = "Error"
           /\ p.role \in {"count", "col", "row"} => TypeOf(p) = "Other"
           /\ p.role = "eof" => TypeOf(p) = "Eof" /\ EofParses(p) /\ ~p.more
           /\ p.role = "count" => p.val = 1
           /\ p.role = "col" => IsColumn(p)
           /\ p.seq \in Nat /\ DOMAIN p = PacketFields
<1>1. Kind(p) /\ p.seq \in Nat /\ DOMAIN p = PacketFields
  BY DEF Wire, Frames, PacketFields
<1> DEFINE ok  == p.first = 0 /\ p.size # "short"
           eof == p.first = 254 /\ p.size # "long"
           err == p.first = 255
<1>2. /\ p.role = "ok" => ok
      /\ p.role = "err" => ~ok /\ ~eof /\ err
      /\ p.role \in {"count", "col"} => ~ok /\ ~eof /\ ~err
      /\ p.role = "eof" => ~ok /\ eof /\ ~err
  BY <1>1 DEF Kind
<1>3. TypeOf(p) = CASE ok -> "Ok" [] eof -> "Eof" [] err -> "Error"
                    [] OTHER -> IF "PendingResponse" = "Command" THEN "Command" ELSE "Other"
  BY DEF TypeOf, PacketType
<1>4. "PendingResponse" # "Command"
  OBVIOUS
<1> HIDE DEF ok, eof, err
<1>5. ok /\ ~eof /\ ~err => TypeOf(p) = "Ok"
  BY <1>3, Zenon
<1>6. ~ok /\ eof /\ ~err => TypeOf(p) = "Eof"
  BY <1>3, Zenon
<1>7. ~ok /\ ~eof /\ err => TypeOf(p) = "Error"
  BY <1>3, Zenon
<1>8. ~ok /\ ~eof /\ ~err => TypeOf(p) = "Other"
  BY <1>3, <1>4, Zenon
<1>9. p.role = "row" => TypeOf(p) = "Other"
  BY <1>1 DEF Kind, Orderly
<1>10. p.role = "ok" => ok /\ ~eof /\ ~err /\ OkParses(p)
  BY <1>1 DEF Kind, ok, eof, err, OkParses
<1>11. p.role = "eof" => EofParses(p) /\ ~p.more
  BY <1>1 DEF Kind, Orderly, EofParses
<1>12. (p.role = "count" => p.val = 1) /\ (p.role = "col" => IsColumn(p))
  BY <1>1 DEF Kind, IsColumn
<1> QED BY <1>1, <1>2, <1>5, <1>6, <1>7, <1>8, <1>9, <1>10, <1>11, <1>12

Ends(step) == step.panic = FALSE /\ step.phase = "Command"

\* An OK packet or an error ends the reply.
LEMMA EndConsumed ==
    ASSUME NEW a, Sane(a), NEW p, NEW com, com \notin {"StmtPrepare", "StmtExecute"},
           TypeOf(p) \in {"Ok", "Error"}, TypeOf(p) = "Ok" => OkParses(p)
    PROVE  Ends(Consume(a, p, com, FALSE))
<1> DEFINE fin  == [a EXCEPT !.state = "Complete"]
           kept == [Finished(a, p) EXCEPT !.acc = a]
           text == TextResultSet(fin, p, com, FALSE)
           step == Consume(a, p, com, FALSE)
<1>1. step = CASE com = "StmtPrepare" -> StmtPrepare(a, p)
               [] com = "StmtReset"   -> kept
               [] OTHER ->
                    (IF TypeOf(p) = "Ok" /\ ~OkParses(p) THEN Panic(a, p)
                     ELSE IF com = "StmtExecute" THEN BinaryResultSet(fin, p)
                     ELSE text)
  BY DEF Consume
<1>2. fin.state = "Complete" /\ DOMAIN fin = Fields
  BY DEF Sane, Fields
<1>3. text = Finished(fin, p)
  <2> HIDE DEF fin
  <2>1. /\ "Complete" # "Initiated" /\ "Complete" # "ColumnCount"
        /\ "Complete" # "HydrateColumns" /\ "Complete" # "ColumnsHydrated"
        /\ "Complete" # "HydrateRows"
    OBVIOUS
  <2> QED BY <1>2, <2>1, ZenonT(30) DEF TextResultSet
<1>4. Ends(text)
  <2> HIDE DEF fin, text
  <2>1. text.panic = FALSE /\ text.phase = "Command"
    BY <1>3 DEF Finished
  <2> QED BY <2>1 DEF Ends
<1>5. Ends(kept)
  BY DEF Ends, Finished
<1>6. step = kept \/ step = text
  <2> HIDE DEF fin, kept, text, step
  <2>1. com # "StmtPrepare" /\ com # "StmtExecute"
    OBVIOUS
  <2> QED BY <1>1, <2>1
<1> HIDE DEF step, kept, text
<1>7. Ends(step)
  BY <1>4, <1>5, <1>6
<1> QED BY <1>7 DEF step

\* Another packet is the text result set's.
LEMMA OtherConsumed ==
    ASSUME NEW a, NEW p, NEW com, com \in {"Query", "FieldList"}, TypeOf(p) \notin {"Ok", "Error"}
    PROVE  Consume(a, p, com, FALSE) = TextResultSet(a, p, com, FALSE)
<1> DEFINE fin  == [a EXCEPT !.state = "Complete"]
           ends == TypeOf(p) \in {"Ok", "Error"}
           kept == [Finished(a, p) EXCEPT !.acc = a]
           bin  == BinaryResultSet(IF ends THEN fin ELSE a, p)
           text(b) == TextResultSet(b, p, com, FALSE)
           step == Consume(a, p, com, FALSE)
<1>1. step = CASE com = "StmtPrepare" -> StmtPrepare(a, p)
               [] com = "StmtReset"   -> kept
               [] OTHER ->
                    (IF TypeOf(p) = "Ok" /\ ~OkParses(p) THEN Panic(a, p)
                     ELSE IF com = "StmtExecute" THEN bin
                     ELSE text(IF ends THEN fin ELSE a))
  BY DEF Consume
<1>2. ~ends /\ ~(TypeOf(p) = "Ok" /\ ~OkParses(p))
  OBVIOUS
<1>3. com # "StmtPrepare" /\ com # "StmtExecute" /\ com # "StmtReset"
  OBVIOUS
<1>4. (IF ends THEN fin ELSE a) = a
  BY <1>2
<1> HIDE DEF ends, fin, kept, bin, step
<1>5. step = TextResultSet(a, p, com, FALSE)
  BY <1>1, <1>2, <1>3, <1>4, Zenon
<1> QED BY <1>5 DEF step

\* The first packet of a result set.
LEMMA CountConsumed ==
    ASSUME Orderly, NEW a, Sane(a), NEW p \in Wire, p.role = "count", a.state = "Initiated"
    PROVE  LET step == Consume(a, p, "Query", FALSE) IN
           /\ step.panic = FALSE /\ step.phase = "PendingResponse"
           /\ step.acc.state = "HydrateColumns" /\ step.acc.columns = a.columns
           /\ step.acc.columnCount = 1
<1> DEFINE acc2 == [a EXCEPT !.columnCount = p.val, !.state = "HydrateColumns"]
           step == Consume(a, p, "Query", FALSE)
<1>1. TypeOf(p) = "Other" /\ p.val = 1
  BY TypeByRole
<1>2. step = TextResultSet(a, p, "Query", FALSE)
  <2>1. "Query" \in {"Query", "FieldList"} /\ TypeOf(p) \notin {"Ok", "Error"}
    BY <1>1
  <2> QED BY <2>1, OtherConsumed
<1> HIDE DEF step
<1>3. step = Initiated(a, p, "Query", FALSE)
  <2>1. /\ "Initiated" # "ColumnCount" /\ "Initiated" # "HydrateColumns"
        /\ "Initiated" # "ColumnsHydrated" /\ "Initiated" # "HydrateRows"
        /\ "Initiated" # "Complete"
    OBVIOUS
  <2> QED BY <1>2, <2>1, ZenonT(30) DEF TextResultSet
<1>4. step = ColumnCount(a, p)
  <2>1. ~OptionalMetadata
    BY DEF Orderly
  <2>2. "Query" # "FieldList"
    OBVIOUS
  <2> QED BY <1>3, <2>1, <2>2, Zenon DEF Initiated
<1>5. step = Pending(acc2, p)
  <2>1. TypeOf(p) # "Eof"
    BY <1>1
  <2> QED BY <1>4, <2>1 DEF ColumnCount
<1>6. acc2.state = "HydrateColumns" /\ acc2.columns = a.columns /\ acc2.columnCount = 1
  BY <1>1 DEF Sane, Fields
<1> HIDE DEF acc2
<1>7. /\ step.panic = FALSE /\ step.phase = "PendingResponse" /\ step.acc = acc2
  BY <1>5 DEF Pending
<1> QED BY <1>6, <1>7 DEF step

\* A column, of a result set or of a list of fields.
LEMMA ColumnConsumed ==
    ASSUME Orderly, NEW a, Sane(a), a.columns = 0, NEW p \in Wire, p.role = "col",
           NEW com, \/ com \in {"Query", "FieldList"} /\ a.state = "HydrateColumns"
                    \/ com = "FieldList" /\ a.state = "Initiated"
    PROVE  LET step == Consume(a, p, com, FALSE) IN
           /\ step.panic = FALSE /\ step.phase = "PendingResponse"
           /\ step.acc.state = IF a.columnCount = 1 THEN "ColumnsHydrated" ELSE "HydrateColumns"
           /\ step.acc.columns = 1
<1> DEFINE columns == a.columns + 1
           acc2 == [a EXCEPT !.columns = columns,
                       !.state = IF columns = a.columnCount
                                 THEN "ColumnsHydrated" ELSE "HydrateColumns"]
           step == Consume(a, p, com, FALSE)
<1>1. TypeOf(p) = "Other" /\ IsColumn(p)
  BY TypeByRole
<1>2. step = TextResultSet(a, p, com, FALSE)
  <2>1. com \in {"Query", "FieldList"} /\ TypeOf(p) \notin {"Ok", "Error"}
    BY <1>1
  <2> QED BY <2>1, OtherConsumed
<1> HIDE DEF step
<1>3. step = HydrateColumns(a, p, com, FALSE)
  <2>1. /\ "Initiated" # "ColumnCount" /\ "Initiated" # "HydrateColumns"
        /\ "Initiated" # "ColumnsHydrated" /\ "Initiated" # "HydrateRows"
        /\ "Initiated" # "Complete" /\ "HydrateColumns" # "ColumnCount"
        /\ "HydrateColumns" # "ColumnsHydrated" /\ "HydrateColumns" # "HydrateRows"
        /\ "HydrateColumns" # "Complete" /\ "Query" # "FieldList"
    OBVIOUS
  <2>2. CASE a.state = "HydrateColumns"
    BY <1>2, <2>1, <2>2, ZenonT(30) DEF TextResultSet
  <2>3. CASE com = "FieldList" /\ a.state = "Initiated"
    <3>1. step = Initiated(a, p, com, FALSE)
      BY <1>2, <2>1, <2>3, ZenonT(30) DEF TextResultSet
    <3> QED BY <2>1, <2>3, <3>1, Zenon DEF Initiated
  <2> QED BY <2>2, <2>3
<1>4. step = Pending(acc2, p)
  <2>1. ~(com = "FieldList" /\ TypeOf(p) = "Eof")
    BY <1>1
  <2> QED BY <1>1, <1>3, <2>1 DEF HydrateColumns
<1>5. /\ acc2.columns = 1
      /\ acc2.state = IF a.columnCount = 1 THEN "ColumnsHydrated" ELSE "HydrateColumns"
  BY DEF Sane, Fields
<1> HIDE DEF acc2
<1>6. step.panic = FALSE /\ step.phase = "PendingResponse" /\ step.acc = acc2
  BY <1>4 DEF Pending
<1> QED BY <1>5, <1>6 DEF step

\* A row, or the packet that ends the rows.
LEMMA RowConsumed ==
    ASSUME Orderly, NEW a, Sane(a), a.skipped = 0, NEW p \in Wire, p.role \in {"row", "eof"},
           NEW com, \/ /\ com = "Query" /\ a.state \in {"ColumnsHydrated", "HydrateRows"}
                       /\ a.columns = 1
                    \/ /\ com = "FieldList" /\ a.state = "HydrateColumns" /\ p.role = "eof"
    PROVE  LET step == Consume(a, p, com, FALSE) IN
           /\ step.panic = FALSE
           /\ p.role = "eof" => step.phase = "Command"
           /\ p.role = "row" => /\ step.phase = "PendingResponse"
                                /\ step.acc.state = "HydrateRows" /\ step.acc.columns = 1
<1> DEFINE no   == FALSE
           step == Consume(a, p, com, no)
<1>1. /\ p.role = "row" => TypeOf(p) = "Other"
      /\ p.role = "eof" => TypeOf(p) = "Eof" /\ EofParses(p) /\ ~p.more
      /\ p.seq \in Nat
  BY TypeByRole
<1>2. step = TextResultSet(a, p, com, no)
  <2>1. com \in {"Query", "FieldList"} /\ TypeOf(p) \notin {"Ok", "Error"}
    BY <1>1
  <2> QED BY <2>1, OtherConsumed
<1> HIDE DEF step
<1>3. step = HydrateRows(a, p, no)
  <2> HIDE DEF no
  <2>0. /\ "HydrateRows" # "ColumnCount" /\ "HydrateRows" # "HydrateColumns"
        /\ "ColumnsHydrated" # "HydrateRows" /\ "HydrateRows" # "Initiated"
        /\ "HydrateRows" # "Complete" /\ "HydrateColumns" # "Initiated"
        /\ "HydrateColumns" # "ColumnCount" /\ "HydrateColumns" # "ColumnsHydrated"
        /\ "HydrateColumns" # "Complete" /\ "ColumnsHydrated" # "Initiated"
        /\ "ColumnsHydrated" # "ColumnCount" /\ "ColumnsHydrated" # "Complete"
    OBVIOUS
  <2>1. DeprecateEof
    BY DEF Orderly
  <2>2. CASE a.state = "HydrateRows"
    BY <1>2, <2>0, <2>2, ZenonT(30) DEF TextResultSet
  <2>3. CASE a.state = "ColumnsHydrated"
    <3>1. step = ColumnsHydrated(a, p, no)
      BY <1>2, <2>0, <2>3, ZenonT(30) DEF TextResultSet
    <3> QED BY <2>1, <3>1 DEF ColumnsHydrated
  <2>4. CASE com = "FieldList" /\ a.state = "HydrateColumns" /\ p.role = "eof"
    <3>1. step = HydrateColumns(a, p, com, no)
      BY <1>2, <2>0, <2>4, ZenonT(30) DEF TextResultSet
    <3>2. step = ColumnsHydrated(a, p, no)
      BY <1>1, <2>4, <3>1 DEF HydrateColumns
    <3> QED BY <2>1, <3>2 DEF ColumnsHydrated
  <2> QED BY <2>2, <2>3, <2>4
<1> DEFINE isRow   == TypeOf(p) = "Other"
           b       == isRow /\ no
           skipped == a.skipped + (IF b THEN 1 ELSE 0)
           acc2    == [a EXCEPT !.state = "HydrateRows", !.skipped = skipped]
           pkt2    == [Renumber(p, skipped) EXCEPT !.skip = b]
           panics  == \/ isRow /\ a.columns = 0
                      \/ TypeOf(p) = "Eof" /\ ~EofParses(p)
                      \/ Underflows(p, skipped)
                      \/ TypeOf(p) = "Eof" /\ p.more
<1>4. step = IF panics THEN Panic(a, p)
             ELSE IF isRow THEN Pending(acc2, pkt2) ELSE Finished(acc2, pkt2)
  BY <1>3 DEF HydrateRows
<1>5. skipped = 0
  OBVIOUS
<1>6. ~Underflows(p, skipped)
  <2>1. 0 % SeqMod = 0
    <3>1. SeqMod \in Nat \ {0}
      BY WireAssumption
    <3> QED BY <3>1
  <2> QED BY <1>1, <1>5, <2>1 DEF Underflows
<1>7. ~panics
  <2> HIDE DEF skipped
  <2>1. p.role = "row" => a.columns = 1
    OBVIOUS
  <2> QED BY <1>1, <1>6, <2>1
<1>8. acc2.state = "HydrateRows" /\ acc2.columns = a.columns /\ DOMAIN acc2 = Fields
  <2> HIDE DEF skipped
  <2> QED BY DEF Sane, Fields
<1> HIDE DEF acc2, pkt2, panics, isRow
<1>9. CASE p.role = "row"
  <2>1. isRow
    BY <1>1, <1>9 DEF isRow
  <2>2. step = Pending(acc2, pkt2)
    BY <1>4, <1>7, <2>1
  <2>3. step.panic = FALSE /\ step.phase = "PendingResponse" /\ step.acc = acc2
    BY <2>2 DEF Pending
  <2> QED BY <1>8, <1>9, <2>3 DEF step
<1>10. CASE p.role = "eof"
  <2>1. ~isRow
    BY <1>1, <1>10 DEF isRow
  <2>2. step = Finished(acc2, pkt2)
    BY <1>4, <1>7, <2>1
  <2>3. step.panic = FALSE /\ step.phase = "Command"
    BY <2>2 DEF Finished
  <2> QED BY <1>10, <2>3 DEF step
<1> QED BY <1>9, <1>10

Rest(s, t) == Len(t) = Len(s) - 1 /\ \A i \in 1..Len(t) : t[i] = s[i + 1]

\* What an accumulator that expects a reply finds at its head.
LEMMA Heads ==
    ASSUME NEW a, NEW com, NEW s, Len(s) \in Nat \ {0}, Expects(a, com, s),
           NEW role, s[1].pkt.role = role
    PROVE  \/ role \in {"ok", "err"} /\ Len(s) = 1
           \/ /\ com = "Query" /\ a.state = "Initiated" /\ a.columns = 0
              /\ role = "count" /\ Len(s) > 1 /\ s[2].pkt.role = "col" /\ RowsThenEnd(s, 3)
           \/ /\ com = "Query" /\ a.state = "HydrateColumns" /\ a.columns = 0
              /\ a.columnCount = 1 /\ role = "col" /\ Len(s) > 1 /\ RowsThenEnd(s, 2)
           \/ /\ com = "Query" /\ a.state \in {"ColumnsHydrated", "HydrateRows"}
              /\ a.columns = 1 /\ role = "row" /\ Len(s) > 1 /\ RowsThenEnd(s, 2)
           \/ /\ com = "Query" /\ a.state \in {"ColumnsHydrated", "HydrateRows"}
              /\ a.columns = 1 /\ role = "eof" /\ Len(s) = 1
           \/ /\ com = "FieldList" /\ a.state = "Initiated" /\ a.columns = 0
              /\ a.columnCount = 0 /\ role = "col" /\ Len(s) = 2 /\ s[2].pkt.role = "eof"
           \/ /\ com = "FieldList" /\ a.state = "HydrateColumns" /\ role = "eof"
              /\ Len(s) = 1
<1>1. ASSUME RowsThenEnd(s, 1)
      PROVE  \/ role = "row" /\ Len(s) > 1 /\ RowsThenEnd(s, 2)
             \/ role \in {"eof", "err"} /\ Len(s) = 1
  <2>1. CASE Len(s) = 1
    BY <1>1, <2>1 DEF RowsThenEnd
  <2>2. CASE Len(s) > 1
    <3>1. 1 \in 1..(Len(s) - 1)
      BY <2>2
    <3>2. \A i \in 2..(Len(s) - 1) : i \in 1..(Len(s) - 1)
      OBVIOUS
    <3>3. role = "row" /\ RowsThenEnd(s, 2)
      BY <1>1, <2>2, <3>1, <3>2 DEF RowsThenEnd
    <3> QED BY <2>2, <3>3
  <2>3. Len(s) = 1 \/ Len(s) > 1
    <3>1. \A n \in Nat \ {0} : n = 1 \/ n > 1
      OBVIOUS
    <3> QED BY <3>1
  <2> QED BY <2>1, <2>2, <2>3
<1>2. (RowsThenEnd(s, 3) => Len(s) > 1) /\ (RowsThenEnd(s, 2) => Len(s) > 1)
  BY DEF RowsThenEnd
<1>3. \A r : Just(s, r) => Len(s) = 1 /\ role = r
  BY DEF Just
<1> QED BY <1>1, <1>2, <1>3 DEF Expects

LEMMA RowsAfter ==
    ASSUME NEW s, Len(s) \in Nat, NEW t, Rest(s, t), NEW k \in Nat \ {0},
           RowsThenEnd(s, k + 1)
    PROVE  RowsThenEnd(t, k)
<1> DEFINE n == Len(s)
<1>1. n \in Nat /\ Len(t) = n - 1 /\ k + 1 <= n
  BY DEF Rest, RowsThenEnd
<1>2. \A i \in 1..Len(t) : t[i] = s[i + 1]
  BY DEF Rest
<1>3. /\ \A i \in (k + 1)..(n - 1) : s[i].pkt.role = "row"
      /\ s[n].pkt.role \in {"eof", "err"}
  BY DEF RowsThenEnd
<1> HIDE DEF n
<1>4. \A i \in k..(Len(t) - 1) : i \in 1..Len(t) /\ i + 1 \in (k + 1)..(n - 1)
  BY <1>1
<1>5. Len(t) \in 1..Len(t) /\ Len(t) + 1 = n /\ k <= Len(t)
  BY <1>1
<1>6. \A i \in k..(Len(t) - 1) : t[i].pkt.role = "row"
  BY <1>2, <1>3, <1>4
<1>7. t[Len(t)] = s[n]
  BY <1>2, <1>5
<1> QED BY <1>3, <1>5, <1>6, <1>7 DEF RowsThenEnd

LEMMA RowGoesOn ==
    ASSUME Orderly, NEW a, Sane(a), a.skipped = 0, NEW p \in Wire, p.role = "row",
           a.state \in {"ColumnsHydrated", "HydrateRows"}, a.columns = 1,
           NEW com, com = "Query", NEW step, step = Consume(a, p, com, FALSE)
    PROVE  step.panic = FALSE /\ step.phase = "PendingResponse"
           /\ step.acc.state = "HydrateRows" /\ step.acc.columns = 1
<1>1. p.role \in {"row", "eof"}
  OBVIOUS
<1>2. LET st == Consume(a, p, com, FALSE) IN
           /\ st.panic = FALSE
           /\ p.role = "eof" => st.phase = "Command"
           /\ p.role = "row" => /\ st.phase = "PendingResponse"
                                /\ st.acc.state = "HydrateRows" /\ st.acc.columns = 1
  BY <1>1, RowConsumed
<1> QED BY <1>2

Follow(step, com, s, t) ==
    /\ step.panic = FALSE
    /\ Len(s) = 1 => step.phase = "Command"
    /\ Len(s) > 1 => step.phase = "PendingResponse" /\ Expects(step.acc, com, t)

\* The accumulator follows the reply it expects, packet by packet.
LEMMA Follows ==
    ASSUME Orderly, NEW a, Sane(a), a.skipped = 0, NEW p \in Wire,
           NEW com, com \notin {"StmtPrepare", "StmtExecute"},
           NEW s, Len(s) \in Nat \ {0}, Expects(a, com, s), s[1].pkt.role = p.role,
           NEW t, Len(s) > 1 => Rest(s, t)
    PROVE  Follow(Consume(a, p, com, FALSE), com, s, t)
<1> DEFINE role == p.role
           step == Consume(a, p, com, FALSE)
<1> SUFFICES Follow(step, com, s, t)
  OBVIOUS
<1>0. Len(s) > 1 => Len(s) # 1
  <2>1. \A n \in Nat \ {0} : n > 1 => n # 1
    OBVIOUS
  <2> QED BY <2>1
<1>1. \/ role \in {"ok", "err"} /\ Len(s) = 1
      \/ /\ com = "Query" /\ a.state = "Initiated" /\ a.columns = 0
         /\ role = "count" /\ Len(s) > 1 /\ s[2].pkt.role = "col" /\ RowsThenEnd(s, 3)
      \/ /\ com = "Query" /\ a.state = "HydrateColumns" /\ a.columns = 0
         /\ a.columnCount = 1 /\ role = "col" /\ Len(s) > 1 /\ RowsThenEnd(s, 2)
      \/ /\ com = "Query" /\ a.state \in {"ColumnsHydrated", "HydrateRows"}
         /\ a.columns = 1 /\ role = "row" /\ Len(s) > 1 /\ RowsThenEnd(s, 2)
      \/ /\ com = "Query" /\ a.state \in {"ColumnsHydrated", "HydrateRows"}
         /\ a.columns = 1 /\ role = "eof" /\ Len(s) = 1
      \/ /\ com = "FieldList" /\ a.state = "Initiated" /\ a.columns = 0
         /\ a.columnCount = 0 /\ role = "col" /\ Len(s) = 2 /\ s[2].pkt.role = "eof"
      \/ /\ com = "FieldList" /\ a.state = "HydrateColumns" /\ role = "eof"
         /\ Len(s) = 1
  BY Heads
<1>2. CASE role \in {"ok", "err"} /\ Len(s) = 1
  <2>1. TypeOf(p) \in {"Ok", "Error"} /\ (TypeOf(p) = "Ok" => OkParses(p))
    BY <1>2, TypeByRole
  <2>2. Ends(step)
    BY <2>1, EndConsumed
  <2> HIDE DEF step
  <2> QED BY <1>2, <2>2 DEF Ends, Follow
<1>3. CASE /\ com = "Query" /\ a.state = "Initiated" /\ a.columns = 0
           /\ role = "count" /\ Len(s) > 1 /\ s[2].pkt.role = "col" /\ RowsThenEnd(s, 3)
  <2>1. /\ step.panic = FALSE /\ step.phase = "PendingResponse"
        /\ step.acc.state = "HydrateColumns" /\ step.acc.columns = 0
        /\ step.acc.columnCount = 1
    BY <1>3, CountConsumed
  <2> HIDE DEF step
  <2>2. RowsThenEnd(t, 2)
    <3>1. Rest(s, t) /\ RowsThenEnd(s, 2 + 1)
      BY <1>3
    <3> QED BY <3>1, RowsAfter
  <2>3. t[1].pkt.role = "col"
    <3>1. 1 \in 1..Len(t) /\ 1 + 1 = 2
      BY <1>3 DEF Rest
    <3> QED BY <1>3, <3>1 DEF Rest
  <2>4. Expects(step.acc, com, t)
    BY <1>3, <2>1, <2>2, <2>3 DEF Expects
  <2> QED BY <1>3, <2>1, <2>4 DEF Follow
<1>4. CASE /\ com = "Query" /\ a.state = "HydrateColumns" /\ a.columns = 0
           /\ a.columnCount = 1 /\ role = "col" /\ Len(s) > 1 /\ RowsThenEnd(s, 2)
  <2>1. /\ step.panic = FALSE /\ step.phase = "PendingResponse"
        /\ step.acc.state = "ColumnsHydrated" /\ step.acc.columns = 1
    BY <1>4, ColumnConsumed
  <2> HIDE DEF step
  <2>2. RowsThenEnd(t, 1)
    <3>1. Rest(s, t) /\ RowsThenEnd(s, 1 + 1)
      BY <1>4
    <3> QED BY <3>1, RowsAfter
  <2>3. Expects(step.acc, com, t)
    BY <1>4, <2>1, <2>2 DEF Expects
  <2>4. Len(s) # 1
    BY <1>0, <1>4
  <2> QED BY <2>1, <2>3, <2>4 DEF Follow
<1>5. CASE /\ com = "Query" /\ a.state \in {"ColumnsHydrated", "HydrateRows"}
           /\ a.columns = 1 /\ role = "row" /\ Len(s) > 1 /\ RowsThenEnd(s, 2)
  <2>1. /\ step.panic = FALSE /\ step.phase = "PendingResponse"
        /\ step.acc.state = "HydrateRows" /\ step.acc.columns = 1
    <3>1. p.role = "row" /\ com = "Query"
      BY <1>5
    <3> QED BY <1>5, <3>1, RowGoesOn
  <2> HIDE DEF step
  <2>2. RowsThenEnd(t, 1)
    <3>1. Rest(s, t) /\ RowsThenEnd(s, 1 + 1)
      BY <1>5
    <3> QED BY <3>1, RowsAfter
  <2>3. Expects(step.acc, com, t)
    BY <1>5, <2>1, <2>2 DEF Expects
  <2>4. Len(s) # 1
    BY <1>0, <1>5
  <2> QED BY <2>1, <2>3, <2>4 DEF Follow
<1>6. CASE /\ role = "eof" /\ Len(s) = 1
           /\ \/ /\ com = "Query" /\ a.state \in {"ColumnsHydrated", "HydrateRows"}
                 /\ a.columns = 1
              \/ com = "FieldList" /\ a.state = "HydrateColumns"
  <2>1. step.panic = FALSE /\ step.phase = "Command"
    <3>1. p.role \in {"row", "eof"}
      BY <1>6
    <3> QED BY <1>6, <3>1, RowConsumed
  <2> HIDE DEF step
  <2> QED BY <1>6, <2>1 DEF Follow
<1>7. CASE /\ com = "FieldList" /\ a.state = "Initiated" /\ a.columns = 0
           /\ a.columnCount = 0 /\ role = "col" /\ Len(s) = 2 /\ s[2].pkt.role = "eof"
  <2>1. /\ step.panic = FALSE /\ step.phase = "PendingResponse"
        /\ step.acc.state = "HydrateColumns"
    BY <1>7, ColumnConsumed
  <2> HIDE DEF step
  <2>2. Just(t, "eof")
    <3>1. Len(t) = 1 /\ 1 \in 1..Len(t) /\ 1 + 1 = 2
      BY <1>7 DEF Rest
    <3> QED BY <1>7, <3>1 DEF Rest, Just
  <2>3. Expects(step.acc, com, t)
    BY <1>7, <2>1, <2>2 DEF Expects
  <2>4. Len(s) # 1
    BY <1>0, <1>7
  <2> QED BY <2>1, <2>3, <2>4 DEF Follow
<1> QED BY <1>1, <1>2, <1>3, <1>4, <1>5, <1>6, <1>7

\* What is left of a reply after its first packet.
LEMMA Shifted ==
    ASSUME NEW S, NEW u \in Seq(S), Len(u) > 1, LastEnds(u), InOrder(u), ForCurrent(u),
           NEW t, t = Tail(u)
    PROVE  /\ Len(t) = Len(u) - 1 /\ \A i \in 1..Len(t) : t[i] = u[i + 1]
           /\ t # <<>> /\ LastEnds(t) /\ InOrder(t) /\ ForCurrent(t) /\ u[1].last = FALSE
<1>1. Len(u) \in Nat /\ u # <<>>
  OBVIOUS
<1>2. Len(t) = Len(u) - 1 /\ \A i \in 1..(Len(u) - 1) : t[i] = u[i + 1]
  BY <1>1, TailOf
<1>3. \A i \in 1..Len(t) : t[i] = u[i + 1] /\ i + 1 \in 1..Len(u) /\ (i + 1 = Len(u) <=> i = Len(t))
  BY <1>1, <1>2
<1>4. t # <<>>
  <2>1. t = <<>> => Len(t) = 0
    OBVIOUS
  <2> QED BY <1>1, <1>2, <2>1
<1>5. LastEnds(t)
  BY <1>3, <1>4 DEF LastEnds
<1>6. InOrder(t)
  <2>1. \A i \in 2..Len(t) : /\ i + 1 \in 2..Len(u) /\ (i + 1) - 1 = i
                             /\ t[i] = u[i + 1] /\ t[i - 1] = u[i]
    <3>1. ASSUME NEW i \in 2..Len(t)
          PROVE  /\ i \in 1..Len(t) /\ i - 1 \in 1..Len(t) /\ (i - 1) + 1 = i
                 /\ i + 1 \in 2..Len(u) /\ (i + 1) - 1 = i
      BY <1>1, <1>2
    <3> QED BY <1>3, <3>1
  <2> QED BY <2>1 DEF InOrder
<1>7. ForCurrent(t)
  BY <1>3 DEF ForCurrent
<1>8. u[1].last = FALSE
  BY <1>1 DEF LastEnds
<1> QED BY <1>2, <1>3, <1>4, <1>5, <1>6, <1>7, <1>8

\* A packet is added to those passed on.
LEMMA OneMore ==
    ASSUME NEW s, NEW o, Len(s) \in Nat, Len(o) = Len(s) + 1,
           \A i \in 1..Len(s) : o[i] = s[i]
    PROVE  /\ NoneLast(s) /\ o[Len(o)].last = TRUE /\ o # <<>> => LastEnds(o)
           /\ NoneLast(s) /\ o[Len(o)].last = FALSE => NoneLast(o)
           /\ ForCurrent(s) /\ o[Len(o)].cmd \in {0, Current} => ForCurrent(o)
<1>1. PICK n \in Nat : n = Len(s)
  OBVIOUS
<1>2. Len(o) = n + 1
  BY <1>1
<1>3. \A i \in 1..(n + 1) : (i \in 1..n /\ i # n + 1) \/ i = n + 1
  OBVIOUS
<1>4. n + 1 \in 1..(n + 1)
  OBVIOUS
<1> QED BY <1>1, <1>2, <1>3, <1>4 DEF NoneLast, LastEnds, ForCurrent

\* The accumulator takes a packet of the reply it expects.
LEMMA ResponseTaken ==
    ASSUME Orderly, TypeInv, SessionInv, ConsumeResponse, Forwarded,
           NEW u \in Seq(Letters(asked)), Remaining(u), u[1] = frame[1],
           NEW o, o = outgoing', NEW t, t = Tail(u)
    PROVE  /\ pc' = "process" /\ frame' = Tail(frame) /\ lastCommand' = lastCommand /\ Books'
           /\ ForCurrent(o)
           /\ Len(u) = 1 => phase' = "Command" /\ LastEnds(o)
           /\ Len(u) > 1 => /\ phase' = "PendingResponse" /\ NoneLast(o)
                            /\ LastEnds(t) /\ InOrder(t) /\ ForCurrent(t)
                            /\ Expects(acc', lastCommand'.com, t)
<1> DEFINE com  == lastCommand.com
           step == Consume(acc, Packet1, com, FALSE)
<1>1. pc = "process" /\ frame # <<>> /\ phase = "PendingResponse" /\ Processing(phase)
  BY DEF ConsumeResponse, Processing
<1>2. /\ UNCHANGED <<side, c2p, p2c, p2s, s2p, client, server, asked, executed, answered>>
      /\ Elsewhere
  BY DEF ConsumeResponse, Elsewhere, peers
<1>3. lastCommand \in Commands /\ com \notin {"StmtPrepare", "StmtExecute"}
      /\ lastCommand # NoCommand
  <2>1. Current > 0 /\ lastCommand = asked[Current]
    BY DEF Forwarded
  <2>2. asked \in Seq(Commands) /\ Current \in 1..Len(asked)
    BY <2>1, Queues DEF Current
  <2>3. lastCommand \in Commands
    BY <2>1, <2>2
  <2> QED BY <2>3, ExchangeAssumption DEF Orderly, PreparedComs
<1>4. Packet1 \in Wire /\ Packet1 = frame[1].pkt
  <2>1. Head(frame) = frame[1]
    BY <1>1, Queues, TailOf
  <2> QED BY <1>1, <2>1, Packet1OnWire DEF Packet1
<1>5. /\ LastEnds(u) /\ InOrder(u) /\ ForCurrent(u) /\ Expects(acc, com, u)
      /\ Len(u) \in Nat \ {0}
  BY TailOf DEF Remaining, LastEnds
<1>6. Len(u) > 1 => /\ Rest(u, t) /\ LastEnds(t) /\ InOrder(t) /\ ForCurrent(t)
                    /\ u[1].last = FALSE
  BY <1>5, Shifted DEF Rest
<1>7. Follow(step, com, u, t)
  <2>1. Sane(acc) /\ acc.skipped = 0
    BY DEF TypeInv
  <2>2. u[1].pkt.role = Packet1.role /\ (Len(u) > 1 => Rest(u, t))
    BY <1>4, <1>6
  <2> HIDE DEF com
  <2> QED BY <1>3, <1>4, <1>5, <2>1, <2>2, Follows
<1>8. /\ step.panic = FALSE /\ Forward(step.pkt) /\ phase' = step.phase /\ acc' = step.acc
      /\ UNCHANGED <<lastCommand, hasFlags, tls, partial>>
  BY <1>3, <1>7 DEF Follow, ConsumeResponse
<1>9. step.pkt \in Wire /\ step.pkt.role = Packet1.role /\ step.pkt.val = Packet1.val
  BY <1>1, <1>8, ReplyPacket
<1>10. PICK p \in Wire : p = step.pkt /\ Forward(p)
  <2> HIDE DEF step
  <2> QED BY <1>8, <1>9
<1>11. PICK f : f = frame'
  OBVIOUS
<1>12. p.role = Packet1.role /\ p.val = Packet1.val
  BY <1>9, <1>10
<1>13. /\ pc' = pc /\ f \in Seq(Letters(asked)) /\ Len(frame) \in Nat \ {0}
       /\ Len(f) = Len(frame) - 1 /\ \A i \in 1..Len(f) : f[i] = frame[i + 1]
       /\ f = Tail(frame)
       /\ o \in Seq(Letters(asked)) /\ Len(o) = Len(outgoing) + 1 /\ Len(outgoing) \in Nat
       /\ \A i \in 1..Len(outgoing) : o[i] = outgoing[i]
       /\ o[Len(o)].cmd = frame[1].cmd /\ o[Len(o)].last = frame[1].last
  <2>1. /\ pc' = pc /\ f \in Seq(Letters(asked)) /\ Len(frame) \in Nat \ {0}
        /\ Len(f) = Len(frame) - 1 /\ f = Tail(frame)
    <3>1. pc' = pc /\ f \in Seq(Letters(asked)) /\ Len(frame) \in Nat \ {0}
      BY <1>1, <1>10, <1>11, <1>12, Taken
    <3>2. Len(f) = Len(frame) - 1
      BY <1>1, <1>10, <1>11, <1>12, Taken
    <3>3. f = Tail(frame)
      BY <1>10, <1>11 DEF Forward
    <3> QED BY <3>1, <3>2, <3>3
  <2>2. \A i \in 1..Len(f) : f[i] = frame[i + 1]
    <3>1. f \in Seq(Letters(asked)) /\ frame \in Seq(Letters(asked))
      BY <1>1, <1>10, <1>11, <1>12, Taken
    <3> QED BY <1>1, <2>1, <3>1, TailOf
  <2>3. o \in Seq(Letters(asked)) /\ Len(o) = Len(outgoing) + 1 /\ Len(outgoing) \in Nat
    BY <1>1, <1>10, <1>11, <1>12, Taken
  <2>4. \A i \in 1..Len(outgoing) : o[i] = outgoing[i]
    BY <1>1, <1>10, <1>11, <1>12, Taken
  <2>5. o[Len(o)].cmd = frame[1].cmd /\ o[Len(o)].last = frame[1].last
    BY <1>1, <1>10, <1>11, <1>12, Taken
  <2> QED BY <2>1, <2>2, <2>3, <2>4, <2>5
<1> HIDE DEF step, com
<1>14. Books'
  <2>1. Typed(frame)
    BY DEF SessionInv, Books, FrameOK
  <2>2. Typed(f)
    <3>1. \A i \in 1..Len(f) : i + 1 \in 1..Len(frame) /\ f[i] = frame[i + 1]
      BY <1>13
    <3> QED BY <2>1, <3>1 DEF Typed
  <2>3. FrameOK'
    BY <1>1, <1>11, <1>13, <2>2 DEF FrameOK, Typed
  <2>4. FlagsOK'
    BY <1>1, <1>8 DEF SessionInv, Books, FlagsOK
  <2> QED BY <1>2, <2>3, <2>4, SilentBooks
<1>15. ForCurrent(outgoing) /\ NoneLast(outgoing)
  BY <1>1 DEF Forwarded
<1>16. o # <<>>
  BY <1>13
<1>17. frame[1].cmd \in {0, Current} /\ (Len(u) = 1 => frame[1].last = TRUE)
       /\ (Len(u) > 1 => frame[1].last = FALSE)
  <2>1. 1 \in 1..Len(u)
    BY <1>5
  <2>2. u[1].cmd \in {0, Current}
    BY <1>5, <2>1 DEF ForCurrent
  <2>3. u[1].last <=> 1 = Len(u)
    BY <1>5, <2>1 DEF LastEnds
  <2>4. u[1].last \in BOOLEAN
    BY <2>1 DEF Letters
  <2>5. Len(u) = 1 => u[1].last = TRUE
    BY <2>3, <2>4
  <2> QED BY <1>6, <2>2, <2>5
<1>18. ForCurrent(o)
  BY <1>13, <1>15, <1>17, OneMore
<1>19. Len(u) = 1 => LastEnds(o)
  BY <1>13, <1>15, <1>16, <1>17, OneMore
<1>20. Len(u) > 1 => NoneLast(o)
  BY <1>13, <1>15, <1>17, OneMore
<1>21. /\ Len(u) = 1 => phase' = "Command"
       /\ Len(u) > 1 => phase' = "PendingResponse" /\ Expects(acc', lastCommand'.com, t)
  BY <1>7, <1>8 DEF Follow, com
<1>22. pc' = "process" /\ frame' = Tail(frame) /\ lastCommand' = lastCommand
  BY <1>1, <1>8, <1>11, <1>13
<1> QED BY <1>6, <1>14, <1>18, <1>19, <1>20, <1>21, <1>22

LEMMA ResponseSession ==
    ASSUME Orderly, TypeInv, SessionInv, ConsumeResponse
    PROVE  SessionInv'
<1>1. pc = "process" /\ frame # <<>> /\ phase = "PendingResponse"
  BY DEF ConsumeResponse, Processing
<1>2. UNCHANGED <<side, c2p, p2c, p2s, s2p, client, server, asked, executed, answered>>
  BY DEF ConsumeResponse, Elsewhere, peers
<1>3. Replying \/ Dropped
  BY <1>1, Situations
<1>4. PICK o : o = outgoing'
  OBVIOUS
<1>5. /\ Forwarded /\ side = "server" /\ client \in {"waiting", "closed"} /\ c2p = <<>>
      /\ p2s = <<>> /\ NoneLast(p2c) /\ Current > 0 /\ lastCommand = asked[Current]
      /\ ~KeptLocal(asked[Current])
  BY <1>3 DEF Replying, Dropped, Forwarded
<1>6. /\ frame \in Seq(Letters(asked)) /\ s2p \in Seq(Letters(asked))
      /\ Head(frame) = frame[1] /\ Len(frame) \in Nat \ {0} /\ 1 \in 1..Len(frame)
      /\ Tail(frame) \in Seq(Letters(asked)) /\ (Len(frame) = 1 => Tail(frame) = <<>>)
      /\ Len(Tail(frame)) = Len(frame) - 1
  BY <1>1, Queues, TailOf
<1>7. Current' = Current /\ asked' = asked
  BY <1>2 DEF Current
<1>8. /\ Answerable => Answerable'
      /\ PassedTo(Current) => PassedTo(Current)'
      /\ Quiet => Quiet'
      /\ server = "ready" /\ s2p = <<>> => Quiet'
  BY <1>2, SameBooks
<1>9. ASSUME pc' = "process", phase' = "Command", Books', ForCurrent(o), LastEnds(o),
             frame' = <<>>, Quiet', Answerable', PassedTo(Current)'
      PROVE  SessionInv'
  <2>1. Settled'
    BY <1>2, <1>4, <1>5, <1>7, <1>9 DEF Settled, ForCurrent, LastEnds, NoneLast
  <2> QED BY <1>9, <2>1 DEF SessionInv, Conversing
<1>10. ASSUME pc' = "process", phase' = "PendingResponse", lastCommand' = lastCommand,
              ForCurrent(o), NoneLast(o)
       PROVE  Forwarded'
  BY <1>2, <1>4, <1>5, <1>7, <1>10 DEF Forwarded, ForCurrent, NoneLast, KeptLocal
<1>11. CASE Replying
  <2>1. PICK u : u = frame \o s2p
    OBVIOUS
  <2>2. /\ u \in Seq(Letters(asked)) /\ Len(u) = Len(frame) + Len(s2p)
        /\ Len(s2p) \in Nat /\ u[1] = frame[1]
    <3>1. /\ u \in Seq(Letters(asked)) /\ Len(u) = Len(frame) + Len(s2p)
          /\ Len(s2p) \in Nat /\ \A i \in 1..Len(frame) : u[i] = frame[i]
      BY <1>6, <2>1, Concat
    <3> QED BY <1>6, <3>1
  <2>3. server = "ready" /\ Remaining(u) /\ Answerable /\ PassedTo(Current)
    BY <1>11, <2>1 DEF Replying
  <2>4. PICK t : t = Tail(u)
    OBVIOUS
  <2>5. t = Tail(frame) \o s2p
    BY <1>1, <1>6, <2>1, <2>4
  <2>6. /\ pc' = "process" /\ frame' = Tail(frame) /\ lastCommand' = lastCommand /\ Books'
        /\ ForCurrent(o)
        /\ Len(u) = 1 => phase' = "Command" /\ LastEnds(o)
        /\ Len(u) > 1 => /\ phase' = "PendingResponse" /\ NoneLast(o)
                         /\ LastEnds(t) /\ InOrder(t) /\ ForCurrent(t)
                         /\ Expects(acc', lastCommand'.com, t)
    BY <1>4, <1>5, <2>2, <2>3, <2>4, ResponseTaken
  <2>7. CASE Len(u) = 1
    <3>1. Len(frame) = 1 /\ Len(s2p) = 0
      BY <1>6, <2>2, <2>7
    <3>2. frame' = <<>> /\ s2p = <<>>
      BY <1>6, <2>6, <3>1, EmptyIs
    <3> QED BY <1>8, <1>9, <2>3, <2>6, <2>7, <3>2
  <2>8. CASE Len(u) > 1
    <3>1. frame' \o s2p' = t
      BY <1>2, <2>5, <2>6
    <3>2. \A i \in 1..Len(t) : t[i].cmd \in {0, Current'}
      BY <1>7, <2>6, <2>8 DEF ForCurrent
    <3>3. Remaining(frame \o s2p)'
      BY <2>6, <2>8, <3>1, <3>2, RemainingNext
    <3>4. Forwarded'
      BY <1>10, <2>6, <2>8
    <3>5. Replying'
      BY <1>2, <1>5, <1>8, <2>3, <2>6, <3>3, <3>4 DEF Replying
    <3> QED BY <2>6, <3>5 DEF SessionInv, Conversing
  <2>9. Len(u) = 1 \/ Len(u) > 1
    BY <1>6, <2>2
  <2> QED BY <2>7, <2>8, <2>9
<1>12. CASE Dropped
  <2>1. server = "closed" /\ Remaining(frame) /\ Quiet /\ Answerable /\ PassedTo(Current)
    BY <1>12 DEF Dropped, Answerable, PassedTo
  <2>2. PICK t : t = Tail(frame)
    OBVIOUS
  <2>3. /\ pc' = "process" /\ frame' = Tail(frame) /\ lastCommand' = lastCommand /\ Books'
        /\ ForCurrent(o)
        /\ Len(frame) = 1 => phase' = "Command" /\ LastEnds(o)
        /\ Len(frame) > 1 => /\ phase' = "PendingResponse" /\ NoneLast(o)
                             /\ LastEnds(t) /\ InOrder(t) /\ ForCurrent(t)
                             /\ Expects(acc', lastCommand'.com, t)
    BY <1>4, <1>5, <1>6, <2>1, <2>2, ResponseTaken
  <2>4. CASE Len(frame) = 1
    BY <1>6, <1>8, <1>9, <2>1, <2>3, <2>4
  <2>5. CASE Len(frame) > 1
    <3>1. \A i \in 1..Len(t) : t[i].cmd \in {0, Current'}
      BY <1>7, <2>3, <2>5 DEF ForCurrent
    <3>2. Remaining(frame)'
      BY <2>2, <2>3, <2>5, <3>1, RemainingNext
    <3>3. Forwarded'
      BY <1>10, <2>3, <2>5
    <3>4. Dropped'
      BY <1>2, <1>5, <1>8, <2>1, <2>3, <3>2, <3>3 DEF Dropped
    <3> QED BY <2>3, <3>4 DEF SessionInv, Conversing
  <2>6. Len(frame) = 1 \/ Len(frame) > 1
    BY <1>6
  <2> QED BY <2>4, <2>5, <2>6
<1> QED BY <1>3, <1>11, <1>12

-----------------------------------------------------------------------------
(* The session keeps to its situations.                                    *)

LEMMA SessionInit == Init => SessionInv
<1> SUFFICES ASSUME Init PROVE SessionInv
  OBVIOUS
<1>1. Books
  BY DEF Init, Books, FrameOK, Typed, FlagsOK, GoneOK, Owed, NoneKept
<1>2. AwaitsGreeting
  BY DEF Init, AwaitsGreeting, Fresh
<1> QED BY <1>1, <1>2 DEF SessionInv, Connecting

LEMMA SessionStands == ASSUME SessionInv, UNCHANGED vars PROVE SessionInv'
<1>1. UNCHANGED <<side, pc, frame, outgoing, phase, acc, lastCommand, hasFlags, tls, partial,
                  c2p, p2c, p2s, s2p, client, server, asked, executed, answered>>
  BY DEF vars, connection, peers
<1> USE <1>1 DEF Fresh, Current, ForCurrent, LastExecuted, PassedTo, Answerable, Quiet, Notice,
                 Just, Only, IfAny, Asks, NoneLast, LastEnds
<1>2. Books'
  BY DEF SessionInv, Books, FrameOK, Typed, FlagsOK, GoneOK, Owed, NoneKept
<1>3. Connecting => Connecting'
  <2>1. AwaitsGreeting \/ GreetingSent \/ GreetingRead \/ GreetingTaken => Connecting'
    BY DEF AwaitsGreeting, GreetingSent, GreetingRead, GreetingTaken, Connecting
  <2>2. AwaitsLogin \/ AwaitsSecureLogin \/ SslRead \/ LoginRead \/ TlsAwaited => Connecting'
    BY DEF AwaitsLogin, AwaitsSecureLogin, SslRead, LoginRead, TlsAwaited, Connecting,
           SslThenHello
  <2>3. LoginTaken \/ LoginSent \/ VerdictSent \/ VerdictRead => Connecting'
    BY DEF LoginTaken, LoginSent, VerdictSent, VerdictRead, Connecting, SslThenLogin,
           MoreThenOk, InOrder
  <2>4. DataAsked \/ AwaitsData \/ DataRead \/ DataTaken \/ DataSent => Connecting'
    BY DEF DataAsked, AwaitsData, DataRead, DataTaken, DataSent, Connecting
  <2>5. OutcomeSent \/ OutcomeRead \/ Refused => Connecting'
    BY DEF OutcomeSent, OutcomeRead, Refused, Connecting
  <2> QED BY <2>1, <2>2, <2>3, <2>4, <2>5 DEF Connecting
<1>4. Conversing => Conversing'
  <2>1. Settled \/ AwaitsCommand \/ CommandRead \/ CommandTaken => Conversing'
    BY DEF Settled, AwaitsCommand, CommandRead, CommandTaken, Conversing, Accepted
  <2>2. Forwarded => Forwarded'
    BY DEF Forwarded
  <2>3. CommandSent \/ Abandoned => Conversing'
    BY <2>2 DEF CommandSent, Abandoned, Conversing
  <2>4. /\ Remaining(frame \o s2p) => Remaining(frame \o s2p)'
        /\ Remaining(frame) => Remaining(frame)'
    BY DEF Remaining, InOrder, Expects, RowsThenEnd
  <2>5. Replying \/ Dropped => Conversing'
    BY <2>2, <2>4 DEF Replying, Dropped, Conversing
  <2> QED BY <2>1, <2>3, <2>5 DEF Conversing
<1>5. Returned => Returned'
  BY DEF Returned
<1> QED BY <1>2, <1>3, <1>4, <1>5 DEF SessionInv

LEMMA SessionStep == ASSUME Orderly PROVE TypeInv /\ SessionInv /\ [Next]_vars => SessionInv'
<1> SUFFICES ASSUME TypeInv, SessionInv, [Next]_vars PROVE SessionInv'
  OBVIOUS
<1>1. CASE UNCHANGED vars
  BY <1>1, SessionStands
<1>2. CASE ReadServer \/ ReadClient \/ ReadEnd \/ SwitchToTls \/ AcceptTls
  BY <1>2, ServerReadSession, ClientReadSession, EndReadSession, SwitchSession, AcceptSession
<1>3. CASE ConsumeHandshake \/ ConsumeHandshakeResponse \/ ConsumeAuthInit
           \/ ConsumeAuthSwitchResponse \/ ConsumeAuthComplete
  BY <1>3, HandshakeSession, HandshakeResponseSession, AuthInitSession, AuthDataSession,
     AuthEndSession
<1>4. CASE ConsumeCommand \/ ConsumeResponse \/ FrameConsumed
  BY <1>4, CommandSession, ResponseSession, ConsumedSession
<1>5. CASE WriteClient \/ Intercept \/ WriteServer
  BY <1>5, ClientWrittenSession, InterceptedSession, ServerWrittenSession
<1>6. CASE Client
  <2>1. ClientCutOff => ClientCloses
    BY DEF ClientCutOff
  <2> QED BY <1>6, <2>1, GreetedSession, LoggedInSession, AuthenticatedSession, AskedSession,
             ReceivedSession, ClosedSession DEF Client
<1>7. CASE Server
  BY <1>7, ServerGreetsSession, SslTakenSession, LoginAnsweredSession, DataAnsweredSession,
     ExecutedSession, DroppedSession, CutOffSession DEF Server
<1> QED BY <1>1, <1>2, <1>3, <1>4, <1>5, <1>6, <1>7 DEF Next, Worker

LEMMA SessionHolds == ASSUME Orderly PROVE Spec => [](TypeInv /\ SessionInv)
BY TypeInit, TypeStep, SessionInit, SessionStep, PTL DEF Spec

-----------------------------------------------------------------------------
(* What follows.                                                           *)

\* The client loop listens to the client only when no packet of an earlier reply is left
\* (exchange of connection_handler.rs, result_set.rs): for every orderly session.
THEOREM StaysInSync == ASSUME Orderly PROVE Spec => []InSync
<1>1. TypeInv /\ SessionInv => InSync
  <2> SUFFICES ASSUME TypeInv, SessionInv, pc = "read", side = "client", phase = "Command",
                      server = "ready"
               PROVE  s2p = <<>> /\ \A i \in DOMAIN p2s : Unanswered(asked[p2s[i].cmd])
    BY DEF InSync
  <2>1. AwaitsCommand
    BY Situations
  <2> QED BY <2>1 DEF AwaitsCommand, Quiet
<1> QED BY <1>1, SessionHolds, PTL

\* A packet that is on its way to the client, and belongs to a command, belongs to the
\* one the client waits for (connection_handler.rs).
THEOREM AnswersTheAsked == ASSUME Orderly PROVE Spec => []AnswersMatch
<1>1. TypeInv /\ SessionInv => AnswersMatch
  <2> SUFFICES ASSUME TypeInv, SessionInv, NEW i \in DOMAIN p2c, p2c[i].cmd # 0
               PROVE  p2c[i].cmd = Len(asked) /\ client = "waiting"
    BY DEF AnswersMatch
  <2>1. i \in 1..Len(p2c)
    BY Queues
  <2> QED BY <2>1 DEF SessionInv, Books, Owed, ForCurrent, Current
<1> QED BY <1>1, SessionHolds, PTL

\* The worker listens to a server only if that one has spoken or been spoken to
\* (the transition phases of connection_handler.rs).
THEOREM NeverBothWait == ASSUME Orderly PROVE Spec => []NoMutualWait
<1>1. TypeInv /\ SessionInv => NoMutualWait
  <2> SUFFICES ASSUME TypeInv, SessionInv, pc = "read", side = "server",
                      server \in {"login", "authData", "ready"}
               PROVE  s2p # <<>> \/ p2s # <<>>
    BY DEF NoMutualWait
  <2>1. frame = <<>> /\ <<>> \o s2p = s2p
    BY Queues, EmptyIs DEF SessionInv, Books, FrameOK
  <2>2. GreetingSent \/ LoginSent \/ VerdictSent \/ DataSent \/ OutcomeSent \/ CommandSent
        \/ Replying
    BY Situations
  <2>3. Replying => s2p # <<>>
    BY <2>1 DEF Replying, Remaining, LastEnds
  <2> QED BY <2>2, <2>3 DEF GreetingSent, LoginSent, VerdictSent, DataSent, OutcomeSent,
             CommandSent, Asks, Just, MoreThenOk, SslThenLogin
<1> QED BY <1>1, SessionHolds, PTL

\* Neither the order check of verify_packet_order nor an accumulator panics, whatever the
\* order in which the two ends speak, close or are cut off.
THEOREM NeverPanics == ASSUME Orderly PROVE Spec => []WorkerNeverPanics
<1>1. SessionInv => WorkerNeverPanics
  <2> SUFFICES ASSUME SessionInv PROVE pc # "panicked"
    BY DEF WorkerNeverPanics
  <2> QED BY Situations
<1> QED BY <1>1, SessionHolds, PTL

\* is_write_query looks at the first word of the query's text.
WritesArePrefixed == \A c \in Commands : c.writes => c.com = "Query" /\ c.prefix

\* With INTERCEPT_WRITES no write gets to the server, of those that is_write_query knows
\* (connection_handler.rs, README.md "without touching the upstream").
THEOREM WritesAreKept ==
    ASSUME Orderly, WritesArePrefixed PROVE Spec => []WritesStayLocal
<1>1. TypeInv /\ SessionInv => WritesStayLocal
  <2> SUFFICES ASSUME TypeInv, SessionInv, InterceptWrites, NEW i \in DOMAIN executed
               PROVE  ~asked[executed[i]].writes
    BY DEF WritesStayLocal
  <2>1. i \in 1..Len(executed) /\ asked[executed[i]] \in Commands
    BY Queues
  <2>2. ~KeptLocal(asked[executed[i]])
    BY <2>1 DEF SessionInv, Books, NoneKept
  <2> QED BY <2>1, <2>2 DEF KeptLocal, WritesArePrefixed
<1> QED BY <1>1, SessionHolds, PTL

-----------------------------------------------------------------------------
(* The session implements QueryProxy.                                      *)

LEMMA ProxyInit == Init => Proxy!Init
BY DEF Init, Proxy!Init

\* A step of the server but for a command's: it may end its session.
LEMMA ProxyEnds ==
    ASSUME UNCHANGED <<asked, executed, answered>>,
           server' # "closed" => server # "closed"
    PROVE  [Proxy!Next]_Proxy!qvars
<1>1. CASE server' = "closed"
  <2>1. Proxy!End
    BY <1>1 DEF Proxy!End
  <2> QED BY <2>1 DEF Proxy!Next
<1>2. CASE server' # "closed"
  BY <1>2 DEF Proxy!qvars
<1> QED BY <1>1, <1>2

\* The server gets the next command that is not kept.
LEMMA ProxyExecutes ==
    ASSUME TypeInv, SessionInv, ServerExecutes
    PROVE  [Proxy!Next]_Proxy!qvars
<1>1. server = "ready" /\ p2s # <<>> /\ Head(p2s).pkt.role = "command"
      /\ executed' = Append(executed, Head(p2s).cmd)
      /\ UNCHANGED <<asked, answered>>
  BY DEF ServerExecutes, Received, ServerOnly
<1>2. p2s \in Seq(Letters(asked)) /\ Head(p2s) = p2s[1] /\ Len(p2s) \in Nat \ {0}
      /\ asked \in Seq(Commands) /\ executed \in Seq(1..Len(asked)) /\ Current \in Nat
  BY <1>1, Queues, TailOf DEF Current
<1>3. CommandSent
  <2>1. CommandSent \/ Returned
    BY <1>1, Situations
  <2>2. ~Returned
    <3>1. 1 \in 1..Len(p2s)
      BY <1>2
    <3> QED BY <1>1, <1>2, <3>1 DEF Returned, Only
  <2> QED BY <2>1, <2>2
<1>4. p2s[1].cmd = Current /\ ~KeptLocal(asked[Current]) /\ Current > 0 /\ PassedTo(Current - 1)
  BY <1>3 DEF CommandSent, Forwarded, Asks
<1>5. /\ LastExecuted <= Current - 1
      /\ \A j \in (LastExecuted + 1)..(Current - 1) : KeptLocal(asked[j])
  BY <1>1, <1>4 DEF PassedTo
<1>6. LastExecuted \in Nat
  BY <1>2 DEF LastExecuted
<1>7. Current \in (LastExecuted + 1)..Len(asked) /\ Current \in DOMAIN asked
  BY <1>2, <1>4, <1>5, <1>6 DEF Current
<1>8. Proxy!IsNext(Current)
  BY <1>4, <1>5, <1>7 DEF Proxy!IsNext, LastExecuted
<1>9. Proxy!Execute
  BY <1>1, <1>2, <1>4, <1>7, <1>8 DEF Proxy!Execute
<1> QED BY <1>9 DEF Proxy!Next

\* The reply's last packet settles a command that was executed or kept, or is lost with
\* the server.
LEMMA ProxyAnswers ==
    ASSUME TypeInv, SessionInv, ClientReceives
    PROVE  [Proxy!Next]_Proxy!qvars
<1>1. client = "waiting" /\ p2c # <<>> /\ UNCHANGED <<asked, executed, server>>
  BY DEF ClientReceives, ClientOnly
<1>2. p2c \in Seq(Letters(asked)) /\ Head(p2c) = p2c[1] /\ Len(p2c) \in Nat \ {0}
      /\ executed \in Seq(1..Len(asked)) /\ 1 \in 1..Len(p2c)
  BY <1>1, Queues, TailOf
<1>3. CASE ~Head(p2c).last
  BY <1>1, <1>3 DEF ClientReceives, Proxy!qvars
<1>4. CASE Head(p2c).last
  <2>1. answered' = Len(asked)
    BY <1>4 DEF ClientReceives
  <2>2. ~NoneLast(p2c)
    BY <1>2, <1>4 DEF NoneLast
  <2>3. Answerable
    <3>1. Settled \/ AwaitsCommand \/ Replying \/ Dropped \/ CommandSent \/ Abandoned \/ Returned
      BY <1>1, Situations
    <3>2. ~Replying /\ ~Dropped /\ ~CommandSent /\ ~Abandoned
      BY <2>2 DEF Replying, Dropped, CommandSent, Abandoned, Forwarded
    <3>3. Settled => Answerable
      BY <1>1, <2>2 DEF Settled
    <3>4. AwaitsCommand => Answerable
      BY <1>1 DEF AwaitsCommand
    <3>5. Returned => Answerable
      BY <1>1 DEF Returned, Answerable
    <3> QED BY <3>1, <3>2, <3>3, <3>4, <3>5
  <2>4. answered < Len(asked)
    BY <1>1 DEF SessionInv, Books, Owed, Current
  <2>5. DOMAIN executed = 1..Len(executed)
    BY <1>2
  <2>6. Proxy!Answer
    BY <1>1, <2>1, <2>3, <2>4, <2>5 DEF Proxy!Answer, Answerable, Current
  <2> QED BY <2>6 DEF Proxy!Next
<1> QED BY <1>3, <1>4

LEMMA ProxyStep ==
    TypeInv /\ SessionInv /\ [Next]_vars => [Proxy!Next]_Proxy!qvars
<1> SUFFICES ASSUME TypeInv, SessionInv, [Next]_vars PROVE [Proxy!Next]_Proxy!qvars
  OBVIOUS
<1>1. ASSUME UNCHANGED <<asked, executed, answered, server>> PROVE [Proxy!Next]_Proxy!qvars
  BY <1>1, ProxyEnds
<1>2. CASE UNCHANGED vars
  BY <1>1, <1>2 DEF vars, peers
<1>3. CASE ReadServer \/ ReadClient \/ ReadEnd \/ SwitchToTls \/ AcceptTls
  <2>1. UNCHANGED <<asked, executed, answered, server>>
    BY <1>3 DEF ReadServer, ReadClient, ReadEnd, SwitchToTls, AcceptTls, peers
  <2> QED BY <1>1, <2>1
<1>4. CASE ConsumeHandshake \/ ConsumeHandshakeResponse \/ ConsumeAuthInit
           \/ ConsumeAuthSwitchResponse \/ ConsumeAuthComplete
           \/ ConsumeCommand \/ ConsumeResponse \/ FrameConsumed
  <2>1. UNCHANGED <<asked, executed, answered, server>>
    BY <1>4 DEF ConsumeHandshake, ConsumeHandshakeResponse, ConsumeAuthInit,
                ConsumeAuthSwitchResponse, ConsumeAuthComplete, ConsumeCommand,
                ConsumeResponse, FrameConsumed, Elsewhere, peers
  <2> QED BY <1>1, <2>1
<1>5. CASE WriteClient \/ Intercept \/ WriteServer
  <2>1. UNCHANGED <<asked, executed, answered, server>>
    BY <1>5 DEF WriteClient, Intercept, WriteServer, peers
  <2> QED BY <1>1, <2>1
<1>6. CASE ClientGreeted \/ ClientLogsIn \/ ClientAuthenticates \/ ClientCloses \/ ClientCutOff
  <2>1. UNCHANGED <<asked, executed, answered, server>>
    BY <1>6 DEF ClientGreeted, ClientLogsIn, ClientAuthenticates, ClientCloses, ClientCutOff,
                ClientOnly
  <2> QED BY <1>1, <2>1
<1>7. CASE ClientAsks
  <2>1. Proxy!Ask
    BY <1>7 DEF ClientAsks, ClientOnly, Proxy!Ask
  <2> QED BY <2>1 DEF Proxy!Next
<1>8. CASE ClientReceives
  BY <1>8, ProxyAnswers
<1>9. CASE ServerExecutes
  BY <1>9, ProxyExecutes
<1>10. CASE ServerGreets \/ ServerTakesSslRequest \/ ServerTakesLogin \/ ServerTakesAuthData
            \/ ServerDropsSession \/ ServerCutOff
  <2>1. UNCHANGED <<asked, executed, answered>> /\ (server' # "closed" => server # "closed")
    BY <1>10 DEF ServerGreets, ServerTakesSslRequest, ServerTakesLogin, ServerTakesAuthData,
                 ServerDropsSession, ServerCutOff, ServerOnly
  <2> QED BY <2>1, ProxyEnds
<1> QED BY <1>2, <1>3, <1>4, <1>5, <1>6, <1>7, <1>8, <1>9, <1>10
        DEF Next, Worker, Client, Server

\* Seen from its two ends an orderly session is QueryProxy's: every command that is not
\* kept gets to the server once and in its order, and a command is settled only after it
\* was executed, kept, or lost with the server.
THEOREM SessionRefines == ASSUME Orderly PROVE Spec => ImplementsQueryProxy
<1>1. Init => Proxy!Init
  BY ProxyInit
<1>2. TypeInv /\ SessionInv /\ [Next]_vars => [Proxy!Next]_Proxy!qvars
  BY ProxyStep
<1> QED BY <1>1, <1>2, SessionHolds, PTL DEF Spec, ImplementsQueryProxy, Proxy!Spec
=============================================================================
