------------------------------ MODULE Exchange ------------------------------
(***************************************************************************)
(* One worker thread of MocksySQL between a MySQL client and a MySQL       *)
(* server: exchange of connection_handler.rs with its server loop and its  *)
(* client loop, process_incoming_frame of state_handler.rs, the phase      *)
(* machine of the accumulators, the switch to TLS and the interception of  *)
(* writes.  The client and the server are modelled by what they may put on *)
(* the wire.  Messages are whole packets (Framing is about the bytes); a   *)
(* read returns any number of those that have arrived.                     *)
(***************************************************************************)
EXTENDS ResultSet

CONSTANTS
    Commands,        \* commands of the client: [com, prefix, writes]
    AuthFlows,       \* how the server may run the authentication
    TextRows,        \* row packets of the server's result sets
    MaxRows,         \* bound on the rows of a result set
    MaxCommands,     \* bound on the commands of a session
    InterceptWrites, \* the environment variable INTERCEPT_WRITES is "true"
    TlsFeature,      \* built with the feature tls
    TlsClients,      \* whether a client asks for TLS: a subset of BOOLEAN
    ServerTimesOut   \* the server may drop an idle session

NoCommand == [com |-> "none", prefix |-> FALSE, writes |-> FALSE]

\* A command says whether its text starts as a write's (prefix), and whether it is one.
ASSUME ExchangeAssumption ==
    /\ NoCommand \notin Commands
    /\ \A c \in Commands : {c.prefix, c.writes} \subseteq BOOLEAN
    /\ AuthFlows \subseteq {"ok", "fail", "fast", "full", "switch"}
    /\ TextRows \subseteq {p \in Packets : p.role = "row" /\ p.seq \in Nat /\ ~p.skip}
    /\ MaxRows \in Nat /\ MaxCommands \in Nat
    /\ {InterceptWrites, TlsFeature, ServerTimesOut} \subseteq BOOLEAN
    /\ TlsClients \subseteq BOOLEAN

\* Commands the server does not answer.
Unanswered(c) == c.com \in {"StmtClose", "StmtSendLongData", "Quit"}

VARIABLES
    side,        \* the loop the worker is in: "server" or "client"
    pc,          \* "read", "process", "write", "returned" or "panicked"
    phase,       \* Connection.phase
    acc,         \* Connection.query_response
    lastCommand, \* Connection.last_command
    hasFlags,    \* Connection.handshake_response is set
    tls,         \* both connections were wrapped by switch_to_tls
    partial,     \* Connection.partial_bytes holds bytes that are not MySQL's
    frame,       \* packets of the current frame not consumed yet
    outgoing,    \* packets of the current frame consumed and not skipped
    c2p, p2c, p2s, s2p,  \* what is under way between client, proxy and server
    client,      \* "greet", "tls", "secured", "auth", "ready", "waiting", "closed"
    server,      \* "greet", "login", "authData", "ready" or "closed"
    asked,       \* commands the client has sent
    executed,    \* commands the server has received, by their index in asked
    answered     \* commands whose last reply packet has reached the client

connection == <<phase, acc, lastCommand, hasFlags, tls, partial>>
peers      == <<client, server, asked, executed, answered>>
vars == <<side, pc, frame, outgoing, connection, c2p, p2c, p2s, s2p, peers>>

Phases == {"Handshake", "HandshakeResponse", "TlsExchange", "AuthInit", "AuthSwitchResponse",
           "AuthFailed", "AuthComplete", "Command", "PendingResponse"}

\* A packet on the wire with the command it belongs to (0: none) and whether it is
\* the last of its reply.
Message(pkt, cmd, last) == [pkt |-> pkt, cmd |-> cmd, last |-> last]
Batch(reply, cmd) == [i \in DOMAIN reply |-> Message(reply[i], cmd, i = Len(reply))]

Done == pc \in {"returned", "panicked"}

TypeOK ==
    /\ side \in {"server", "client"}
    /\ pc \in {"read", "process", "write", "returned", "panicked"}
    /\ phase \in Phases
    /\ acc.state \in AccStates
    /\ lastCommand \in Commands \cup {NoCommand}
    /\ {hasFlags, tls, partial} \subseteq BOOLEAN
    /\ frame # <<>> => pc \in {"process", "panicked"}
    /\ client \in {"greet", "tls", "secured", "auth", "ready", "waiting", "closed"}
    /\ server \in {"greet", "login", "authData", "ready", "closed"}
    /\ asked \in Seq(Commands) /\ Len(asked) <= MaxCommands
    /\ executed \in Seq(1..Len(asked))
    /\ answered \in 0..Len(asked)

Init ==
    /\ side = "server" /\ pc = "read"
    /\ phase = "Handshake"
    /\ acc = NewAccumulator
    /\ lastCommand = NoCommand
    /\ hasFlags = FALSE /\ tls = FALSE /\ partial = FALSE
    /\ frame = <<>> /\ outgoing = <<>>
    /\ c2p = <<>> /\ p2c = <<>> /\ p2s = <<>> /\ s2p = <<>>
    /\ client = "greet" /\ server = "greet"
    /\ asked = <<>> /\ executed = <<>> /\ answered = 0
-----------------------------------------------------------------------------
(* The worker reads.                                                       *)

\* verify_packet_order panics unless the packets of a frame are numbered one after
\* the other.
InOrder(messages) ==
    \A i \in 2..Len(messages) :
        messages[i].pkt.seq = (messages[i - 1].pkt.seq + 1) % SeqMod

\* make_packets: the type of each packet is decided by the phase of the read.
Parsed(message) == [message EXCEPT !.pkt.type = PacketType(message.pkt, phase)]

Parse(messages) ==
    /\ frame' = [i \in DOMAIN messages |-> Parsed(messages[i])]
    /\ outgoing' = <<>>
    /\ pc' = IF InOrder(messages) THEN "process" ELSE "panicked"

ReadServer ==
    /\ pc = "read" /\ side = "server"
    /\ \E k \in 1..Len(s2p) :
        /\ Parse(SubSeq(s2p, 1, k))
        /\ s2p' = SubSeq(s2p, k + 1, Len(s2p))
    /\ UNCHANGED <<side, connection, c2p, p2c, p2s, peers>>

IsHello(message) == message.pkt.role = "hello"

\* TLS bytes read before the switch announce a packet longer than what has come:
\* make_packets keeps them, and what follows, as partial_bytes.
ReadClient ==
    /\ pc = "read" /\ side = "client"
    /\ ~(TlsFeature /\ phase = "TlsExchange")
    /\ tls => c2p # <<>> /\ ~IsHello(Head(c2p))
    /\ \E k \in 1..Len(c2p) : \E n \in 0..k :
        /\ \A i \in 1..n : ~IsHello(c2p[i])
        /\ n < k => IsHello(c2p[n + 1])
        /\ Parse(SubSeq(c2p, 1, n))
        /\ partial' = (partial \/ n < k)
        /\ c2p' = SubSeq(c2p, k + 1, Len(c2p))
    /\ UNCHANGED <<side, phase, acc, lastCommand, hasFlags, tls, p2c, p2s, s2p, peers>>

\* A faulty form of ReadEnd: only the server's end of the stream is noticed.
ReadEndOfServer ==
    /\ pc = "read" /\ side = "server" /\ server = "closed" /\ s2p = <<>>
    /\ pc' = "returned"
    /\ UNCHANGED <<side, frame, outgoing, connection, c2p, p2c, p2s, s2p, peers>>

\* read() returns 0, or an error where a TLS handshake breaks off: exchange returns
\* and drops both connections.
ReadEnd ==
    /\ pc = "read"
    /\ \/ side = "server" /\ server = "closed" /\ s2p = <<>>
       \/ side = "client" /\ client = "closed" /\ c2p = <<>>
       \/ side = "client" /\ client = "closed" /\ tls /\ c2p # <<>> /\ IsHello(Head(c2p))
    /\ pc' = "returned"
    /\ UNCHANGED <<side, frame, outgoing, connection, c2p, p2c, p2s, s2p, peers>>

\* switch_to_tls, at the top of the client loop.
SwitchToTls ==
    /\ TlsFeature
    /\ pc = "read" /\ side = "client" /\ phase = "TlsExchange"
    /\ tls' = TRUE
    /\ phase' = "HandshakeResponse"
    /\ UNCHANGED <<side, pc, frame, outgoing, acc, lastCommand, hasFlags, partial,
                   c2p, p2c, p2s, s2p, peers>>

\* The first read through rustls answers the client's hello.
AcceptTls ==
    /\ pc = "read" /\ side = "client" /\ tls /\ client = "tls"
    /\ c2p # <<>> /\ IsHello(Head(c2p))
    /\ c2p' = Tail(c2p)
    /\ client' = "secured"
    /\ UNCHANGED <<side, pc, frame, outgoing, connection, p2c, p2s, s2p,
                   server, asked, executed, answered>>
-----------------------------------------------------------------------------
(* process_incoming_frame: the accumulator of the current phase consumes    *)
(* the next packet of the frame.                                           *)

Processing(p) == pc = "process" /\ frame # <<>> /\ phase = p
Packet1       == Head(frame).pkt

\* The packet is forwarded, unless skipped, and the worker goes on.
Forward(pkt) ==
    /\ frame' = Tail(frame)
    /\ outgoing' = IF pkt.skip THEN outgoing
                   ELSE Append(outgoing, [Head(frame) EXCEPT !.pkt = pkt])
    /\ UNCHANGED pc

Die == pc' = "panicked" /\ UNCHANGED <<frame, outgoing, connection>>

Elsewhere == UNCHANGED <<side, c2p, p2c, p2s, s2p, peers>>

\* handshake.rs
ConsumeHandshake ==
    /\ Processing("Handshake")
    /\ IF Packet1.role = "greeting"
       THEN /\ Forward(Packet1)
            /\ phase' = "HandshakeResponse"
            /\ UNCHANGED <<acc, lastCommand, hasFlags, tls, partial>>
       ELSE Die
    /\ Elsewhere

\* handshake_response.rs: a request for TLS is taken as one only on a plain
\* connection; it stores the client's flags too.
ConsumeHandshakeResponse ==
    /\ Processing("HandshakeResponse")
    /\ IF Packet1.role \in {"sslRequest", "response"}
       THEN /\ Forward(Packet1)
            /\ phase' = IF Packet1.role = "sslRequest" /\ ~tls THEN "TlsExchange" ELSE "AuthInit"
            /\ hasFlags' = TRUE
            /\ UNCHANGED <<acc, lastCommand, tls, partial>>
       ELSE Die
    /\ Elsewhere

\* auth_complete.rs
AuthResult(pkt) ==
    CASE pkt.type = "Ok"    -> "Command"
      [] pkt.type = "Error" -> "AuthFailed"
      [] OTHER              -> "panic"

\* Faulty forms of AuthStart: the cached login ends the authentication; the request for
\* the password is not known.
FastIsOver(pkt) ==
    CASE pkt.first = 254                 -> "AuthSwitchResponse"
      [] pkt.first = 0                   -> AuthResult(pkt)
      [] pkt.first = 1 /\ pkt.val = 3    -> "Command"
      [] OTHER                           -> "AuthSwitchResponse"

OnlyFast(pkt) ==
    CASE pkt.first = 254                 -> "AuthSwitchResponse"
      [] pkt.first = 0                   -> AuthResult(pkt)
      [] pkt.first = 1 /\ pkt.val = 3    -> "AuthComplete"
      [] pkt.first = 1 /\ pkt.val # 3    -> "panic"
      [] OTHER                           -> "AuthInit"

\* auth_init.rs and auth_switch_request.rs, by the packet's first byte.
AuthStart(pkt) ==
    CASE pkt.first = 254                       -> "AuthSwitchResponse"
      [] pkt.first = 0                         -> AuthResult(pkt)
      [] pkt.first = 1 /\ pkt.val = 3          -> "AuthComplete"
      [] pkt.first = 1 /\ pkt.val = 4          -> "AuthSwitchResponse"
      [] pkt.first = 1 /\ pkt.val \notin {3, 4} -> "panic"
      [] OTHER                                 -> "AuthInit"

MovePhase(next) ==
    IF next = "panic"
    THEN Die
    ELSE /\ Forward(Packet1)
         /\ phase' = next
         /\ UNCHANGED <<acc, lastCommand, hasFlags, tls, partial>>

ConsumeAuthInit ==
    /\ Processing("AuthInit")
    /\ MovePhase(AuthStart(Packet1))
    /\ Elsewhere

\* auth_switch_response.rs takes whatever comes.
ConsumeAuthSwitchResponse ==
    /\ Processing("AuthSwitchResponse")
    /\ MovePhase("AuthComplete")
    /\ Elsewhere

\* get_accumulator has none for a packet in two phases, and panics.
Untracked == {"TlsExchange", "AuthFailed"}

ConsumeAuthComplete ==
    /\ \E p \in {"AuthComplete"} \cup Untracked : Processing(p)
    /\ MovePhase(IF phase \in Untracked THEN "panic" ELSE AuthResult(Packet1))
    /\ Elsewhere

\* Command::from_bytes wants a known command byte and UTF-8 text.
IsCommand(pkt) == pkt.role = "command"

\* accumulator/command.rs: the command is stored and the response starts afresh.
\* get_handshake_response().unwrap() panics without the client's flags.
ConsumeCommand ==
    /\ Processing("Command")
    /\ IF IsCommand(Packet1) /\ hasFlags
       THEN /\ Forward(Packet1)
            /\ phase' = IF Packet1.val.com = "StmtClose" THEN "Command" ELSE "PendingResponse"
            /\ lastCommand' = Packet1.val
            /\ acc' = NewAccumulator
            /\ UNCHANGED <<hasFlags, tls, partial>>
       ELSE Die
    /\ Elsewhere

\* accumulator/result_set.rs, on a table without differences.
ConsumeResponse ==
    /\ Processing("PendingResponse")
    /\ LET step == Consume(acc, Packet1, lastCommand.com, FALSE) IN
       IF step.panic \/ lastCommand = NoCommand
       THEN Die
       ELSE /\ Forward(step.pkt)
            /\ phase' = step.phase
            /\ acc' = step.acc
            /\ UNCHANGED <<lastCommand, hasFlags, tls, partial>>
    /\ Elsewhere

\* A faulty form of FrameConsumed: the loop is left after the first packet.
FirstConsumed ==
    /\ pc = "process" /\ outgoing # <<>>
    /\ pc' = "write"
    /\ UNCHANGED <<side, frame, outgoing, connection, c2p, p2c, p2s, s2p, peers>>

FrameConsumed ==
    /\ pc = "process" /\ frame = <<>>
    /\ pc' = "write"
    /\ UNCHANGED <<side, frame, outgoing, connection, c2p, p2c, p2s, s2p, peers>>
-----------------------------------------------------------------------------
(* The worker writes and decides which side to listen to.  write_bytes      *)
(* ignores errors.                                                         *)

\* Faulty forms of the two sets: a phase is missing.
NoSwitchResponse == {"HandshakeResponse", "Command"}
NoCommandPhase   == {"HandshakeResponse", "AuthSwitchResponse"}
NoPending        == {"AuthInit", "AuthComplete"}

ServerTransitionPhases == {"HandshakeResponse", "Command", "AuthSwitchResponse"}
ClientTransitionPhases == {"AuthInit", "PendingResponse", "AuthComplete"}

WriteClient ==
    /\ pc = "write" /\ side = "server"
    /\ p2c' = IF client = "closed" THEN p2c ELSE p2c \o outgoing
    /\ side' = IF phase \in ServerTransitionPhases THEN "client" ELSE "server"
    /\ pc' = "read"
    /\ UNCHANGED <<frame, outgoing, connection, c2p, p2s, s2p, peers>>

\* is_write_query: the query's text starts with insert, update or delete.
IsWriteQuery(pkt) ==
    pkt.type = "Command" /\ lastCommand.com = "Query" /\ lastCommand.prefix

\* Faulty forms of Intercepted: the phase before the frame is expected;
\* intercept_enabled is not asked.
InterceptedEarly ==
    /\ InterceptWrites
    /\ phase = "Command"
    /\ Len(outgoing) = 1
    /\ IsWriteQuery(outgoing[1].pkt)

InterceptedAlways ==
    /\ phase = "PendingResponse"
    /\ Len(outgoing) = 1
    /\ IsWriteQuery(outgoing[1].pkt)

Intercepted ==
    /\ InterceptWrites
    /\ phase = "PendingResponse"
    /\ Len(outgoing) = 1
    /\ IsWriteQuery(outgoing[1].pkt)

\* A faulty form of Intercept: without the continue, the command is forwarded too.
InterceptForwards ==
    /\ pc = "write" /\ side = "client" /\ Intercepted
    /\ IF hasFlags
       THEN /\ pc' = "read"
            /\ phase' = "Command"
            /\ p2c' = IF client = "closed" THEN p2c
                      ELSE Append(p2c, Message([OkPacket EXCEPT !.seq = outgoing[1].pkt.seq + 1],
                                               outgoing[1].cmd, TRUE))
            /\ p2s' = IF server = "closed" THEN p2s ELSE p2s \o outgoing
       ELSE pc' = "panicked" /\ UNCHANGED <<phase, p2c, p2s>>
    /\ UNCHANGED <<side, frame, outgoing, acc, lastCommand, hasFlags, tls, partial,
                   c2p, s2p, peers>>

\* intercept_command answers in the server's place and the client loop goes on.
Intercept ==
    /\ pc = "write" /\ side = "client" /\ Intercepted
    /\ IF hasFlags
       THEN /\ pc' = "read"
            /\ phase' = "Command"
            /\ p2c' = IF client = "closed" THEN p2c
                      ELSE Append(p2c, Message([OkPacket EXCEPT !.seq = outgoing[1].pkt.seq + 1],
                                               outgoing[1].cmd, TRUE))
       ELSE pc' = "panicked" /\ UNCHANGED <<phase, p2c>>
    /\ UNCHANGED <<side, frame, outgoing, acc, lastCommand, hasFlags, tls, partial,
                   c2p, p2s, s2p, peers>>

WriteServer ==
    /\ pc = "write" /\ side = "client" /\ ~Intercepted
    /\ p2s' = IF server = "closed" THEN p2s ELSE p2s \o outgoing
    /\ side' = IF phase \in ClientTransitionPhases THEN "server" ELSE "client"
    /\ pc' = "read"
    /\ UNCHANGED <<frame, outgoing, connection, c2p, p2c, s2p, peers>>
-----------------------------------------------------------------------------
(* The client: MySQL's connection phase, then one command at a time.       *)

ClientSends(messages) == c2p' = c2p \o messages
ClientOnly == UNCHANGED <<side, pc, frame, outgoing, connection, p2s, s2p, server, executed>>

Alone(pkt) == <<Message(pkt, 0, TRUE)>>

SslRequest == [Packet("sslRequest", 5, "long") EXCEPT !.seq = 1]
Hello      == Packet("hello", 22, "long")
LoginData  == [Packet("response", 5, "long") EXCEPT !.seq = 2]
AuthData   == [Packet("authData", 9, "long") EXCEPT !.seq = 3]

\* A client that wants TLS starts its handshake without waiting for anything.
ClientGreeted ==
    /\ client = "greet" /\ p2c # <<>>
    /\ p2c' = Tail(p2c)
    /\ \E secure \in TlsClients :
        /\ client' = IF secure THEN "tls" ELSE "auth"
        /\ ClientSends(IF secure THEN Alone(SslRequest) \o Alone(Hello) ELSE Alone(LoginData))
    /\ UNCHANGED <<asked, answered>> /\ ClientOnly

\* Once the connection is secured the login follows.
ClientLogsIn ==
    /\ client = "secured"
    /\ ClientSends(Alone(LoginData))
    /\ client' = "auth"
    /\ UNCHANGED <<p2c, asked, answered>> /\ ClientOnly

\* It answers what asks for data, and takes OK or an error as the end.
ClientAuthenticates ==
    /\ client = "auth" /\ p2c # <<>>
    /\ LET pkt == Head(p2c).pkt IN
       /\ client' = CASE pkt.role = "ok"  -> "ready"
                      [] pkt.role = "err" -> "closed"
                      [] OTHER            -> "auth"
       /\ ClientSends(IF pkt.role = "authAsk" THEN Alone(AuthData) ELSE <<>>)
    /\ p2c' = Tail(p2c)
    /\ UNCHANGED <<asked, answered>> /\ ClientOnly

CommandPacket(c) == [Packet("command", 3, "long") EXCEPT !.val = c]

ClientAsks ==
    /\ client = "ready" /\ Len(asked) < MaxCommands
    /\ \E c \in Commands :
        /\ asked' = Append(asked, c)
        /\ ClientSends(<<Message(CommandPacket(c), Len(asked) + 1, TRUE)>>)
        /\ client' = IF c.com = "Quit" THEN "closed"
                     ELSE IF Unanswered(c) THEN "ready" ELSE "waiting"
    /\ UNCHANGED <<p2c, answered>> /\ ClientOnly

ClientReceives ==
    /\ client = "waiting" /\ p2c # <<>>
    /\ p2c' = Tail(p2c)
    /\ IF Head(p2c).last
       THEN client' = "ready" /\ answered' = Len(asked)
       ELSE UNCHANGED <<client, answered>>
    /\ UNCHANGED <<c2p, asked>> /\ ClientOnly

\* The client goes away.
ClientCloses ==
    /\ client # "closed"
    /\ client' = "closed" /\ p2c' = <<>>
    /\ UNCHANGED <<c2p, asked, answered>> /\ ClientOnly

\* The client has taken all the proxy sent and finds the connection closed.
ClientCutOff ==
    /\ Done /\ p2c = <<>>
    /\ ClientCloses
-----------------------------------------------------------------------------
(* The server.                                                             *)

ServerSends(messages) == s2p' = s2p \o messages
ServerOnly == UNCHANGED <<side, pc, frame, outgoing, connection, c2p, p2c, client, asked, answered>>

ServerGreets ==
    /\ server = "greet"
    /\ server' = "login"
    /\ ServerSends(Alone(Packet("greeting", 10, "long")))
    /\ UNCHANGED <<p2s, executed>> /\ ServerOnly

Received(role) == p2s # <<>> /\ Head(p2s).pkt.role = role

\* From here on the server speaks TLS; the proxy's own handshake with it is part of
\* the next write.
ServerTakesSslRequest ==
    /\ server = "login" /\ Received("sslRequest")
    /\ p2s' = Tail(p2s)
    /\ UNCHANGED <<server, s2p, executed>> /\ ServerOnly

\* An authentication flow: what the server sends on the login and where it ends up.
\* "fast" is caching_sha2_password's cached login, "full" its request for the
\* password, "switch" a request to use another method.
FlowStart(flow) ==
    CASE flow = "ok"     -> [server |-> "ready",    reply |-> <<OkPacket>>]
      [] flow = "fail"   -> [server |-> "closed",   reply |-> <<ErrPacket>>]
      [] flow = "fast"   -> [server |-> "ready",
                             reply |-> <<[Packet("authMore", 1, "short") EXCEPT !.val = 3], OkPacket>>]
      [] flow = "full"   -> [server |-> "authData",
                             reply |-> <<[Packet("authAsk", 1, "short") EXCEPT !.val = 4]>>]
      [] flow = "switch" -> [server |-> "authData", reply |-> <<Packet("authAsk", 254, "long")>>]

ServerTakesLogin ==
    /\ server = "login" /\ Received("response")
    /\ p2s' = Tail(p2s)
    /\ \E flow \in AuthFlows :
        /\ server' = FlowStart(flow).server
        /\ ServerSends(Batch(Numbered(FlowStart(flow).reply), 0))
    /\ UNCHANGED executed /\ ServerOnly

ServerTakesAuthData ==
    /\ server = "authData" /\ Received("authData")
    /\ p2s' = Tail(p2s)
    /\ \E flow \in {"ok", "fail"} :
        /\ server' = FlowStart(flow).server
        /\ ServerSends(Batch(Numbered(FlowStart(flow).reply), 0))
    /\ UNCHANGED executed /\ ServerOnly

\* A command is executed and answered.
ServerExecutes ==
    /\ server = "ready" /\ Received("command")
    /\ p2s' = Tail(p2s)
    /\ LET i == Head(p2s).cmd
           c == asked[i]
       IN
       /\ executed' = Append(executed, i)
       /\ server' = IF c.com = "Quit" THEN "closed" ELSE "ready"
       /\ IF Unanswered(c)
          THEN UNCHANGED s2p
          ELSE \E reply \in Replies(c.com, 1, TextRows, {}, MaxRows) :
                    ServerSends(Batch(Numbered(reply), i))
    /\ ServerOnly

\* An idle session, all it sent long read, is dropped; recent servers send an error
\* first.
ServerDropsSession ==
    /\ ServerTimesOut
    /\ server = "ready" /\ p2s = <<>> /\ s2p = <<>>
    /\ server' = "closed"
    /\ \E notice \in {<<>>, Alone(ErrPacket)} : ServerSends(notice)
    /\ UNCHANGED <<p2s, executed>> /\ ServerOnly

\* The server finds that the proxy has closed its end.
ServerCutOff ==
    /\ Done /\ p2s = <<>> /\ server # "closed"
    /\ server' = "closed"
    /\ UNCHANGED <<p2s, s2p, executed>> /\ ServerOnly
-----------------------------------------------------------------------------
Worker ==
    \/ ReadServer \/ ReadClient \/ ReadEnd \/ SwitchToTls \/ AcceptTls
    \/ ConsumeHandshake \/ ConsumeHandshakeResponse \/ ConsumeAuthInit
    \/ ConsumeAuthSwitchResponse \/ ConsumeAuthComplete \/ ConsumeCommand
    \/ ConsumeResponse \/ FrameConsumed
    \/ WriteClient \/ Intercept \/ WriteServer

Client ==
    \/ ClientGreeted \/ ClientLogsIn \/ ClientAuthenticates \/ ClientAsks
    \/ ClientReceives \/ ClientCloses \/ ClientCutOff

Server ==
    \/ ServerGreets \/ ServerTakesSslRequest \/ ServerTakesLogin \/ ServerTakesAuthData
    \/ ServerExecutes \/ ServerDropsSession \/ ServerCutOff

Next == Worker \/ Client \/ Server

\* The worker is a thread of its own that blocks only in read(); the server handles
\* what it receives; the client takes the replies it waits for.  Nothing makes the
\* client ask, or either end close.
Fairness ==
    /\ WF_vars(Worker)
    /\ WF_vars(ServerGreets \/ ServerTakesSslRequest \/ ServerTakesLogin
                \/ ServerTakesAuthData \/ ServerExecutes \/ ServerCutOff)
    /\ WF_vars(ClientGreeted \/ ClientLogsIn \/ ClientAuthenticates \/ ClientReceives
                \/ ClientCutOff)

Spec == Init /\ [][Next]_vars /\ Fairness
-----------------------------------------------------------------------------
(* Properties.                                                             *)

\* When the client loop waits for a command, the server owes nothing: no packet of an
\* earlier reply is left to be taken for the next one's (result_set.rs decides where
\* a reply ends, connection_handler.rs leaves the server loop on it).
InSync ==
    (pc = "read" /\ side = "client" /\ phase = "Command" /\ server = "ready") =>
        /\ s2p = <<>>
        /\ \A i \in DOMAIN p2s : Unanswered(asked[p2s[i].cmd])

\* What is on its way to the client answers the command the client waits for.
AnswersMatch ==
    \A i \in DOMAIN p2c : p2c[i].cmd # 0 => p2c[i].cmd = Len(asked) /\ client = "waiting"

\* The worker and the server never wait for each other: the worker listens to a server
\* only if that one has something to say, or has something on its way to it.
NoMutualWait ==
    (pc = "read" /\ side = "server" /\ server \in {"login", "authData", "ready"}) =>
        s2p # <<>> \/ p2s # <<>>

\* No session of a client that waits for its replies makes a panic of the worker: in
\* a release build a panic takes every connection with it (Cargo.toml panic = "abort").
WorkerNeverPanics == pc # "panicked"

\* An intercepted write never gets to the server (README.md "without touching the
\* upstream"): no INSERT, UPDATE or DELETE is executed.
WritesStayLocal ==
    InterceptWrites => \A i \in DOMAIN executed : ~asked[executed[i]].writes

\* TLS bytes are left in the socket for rustls: once switched, nothing of them is in
\* partial_bytes (switch_to_tls).
TlsBytesReachTls == tls => ~partial

\* A command is answered, or the client learns that the session is over.
EveryCommandSettled == (client = "waiting") ~> (client # "waiting")

\* When the client is gone the worker ends, and with it the session at the server.
WorkerFollowsClient == (client = "closed") ~> (Done /\ server = "closed")

\* To the two ends the proxy is a server that may keep writes to itself.
KeptLocal(c) == InterceptWrites /\ c.com = "Query" /\ c.prefix

Proxy == INSTANCE QueryProxy WITH Kept <- KeptLocal, over <- (server = "closed")

ImplementsQueryProxy == Proxy!Spec
=============================================================================
