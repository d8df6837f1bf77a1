-------------------------------- MODULE Replay --------------------------------
(***************************************************************************)
(* Logging answers to Kafka and replaying them (feature replay): workers   *)
(* that publish what the server answers (push_to_kafka_if_logging_enabled) *)
(* and workers that serve queries from the map the consumer thread fills   *)
(* (get_response_from_cache_if_replay_enabled) in the server's place, both *)
(* in the server loop of connection_handler.rs.                            *)
(*                                                                         *)
(* A packet travels as two pieces, so that a read can cut it.  A piece     *)
(* <<v, i>> is the i-th one of the v-th reply the server has given.        *)
(***************************************************************************)
EXTENDS ResultSet

Seqs == INSTANCE SequencesExt

CONSTANTS
    Workers,     \* workers, of whatever processes of MocksySQL
    Logs,        \* those with kafka_replay_log_enable
    Replays,     \* those with kafka_replay_response_enable: they share one map
    Commands,    \* what clients ask: [text, com, parsed, ast]
    ServerReplies(_), \* the server's replies to a command
    BufSize,     \* pieces a read or a look-up takes at most: 4096 bytes in the code
    MaxAsks,     \* bound on the commands of a run
    MaxAnswer    \* bound on the pieces of an answer: no whole reply is as long

ASSUME ReplayAssumption ==
    /\ Logs \subseteq Workers /\ Replays \subseteq Workers
    /\ BufSize \in Nat \ {0}
    /\ MaxAsks \in Nat /\ MaxAnswer \in Nat
    /\ \A c \in Commands : \A reply \in ServerReplies(c) : Len(reply) \in Nat

Texts == {c.text : c \in Commands}

\* No command yet.
NotAsked == [text |-> "none", com |-> "none", parsed |-> FALSE, ast |-> <<>>]

VARIABLES
    replies,    \* the replies of the server so far: [text, packets] (history)
    published,  \* the entries handed to the producer: [key, bytes] (history)
    topic,      \* entries the consumer has not received
    map,        \* the replay map: the bytes of each key that has an entry
    pc,         \* of each worker: "client", "server", "ended", "panicked"
    gone,       \* its client has closed the connection
    asking,     \* Connection.last_command
    answer,     \* the server's reply to it, 0 if the server was not asked
    read,       \* pieces read of that reply
    partial,    \* Connection.partial_bytes
    rest,       \* Connection.partial_replay_bytes; empty is None
    acc,        \* Connection.query_response
    got,        \* pieces the client got for its command
    buffer,     \* kafka_log_buffer
    logged      \* pieces published for the command (history)

shared  == <<replies, published, topic, map>>
session == <<pc, gone, asking, answer, read, partial, rest, acc, got, buffer, logged>>
vars    == <<shared, session>>

Bytes(v) == [i \in 1..(2 * Len(replies[v].packets)) |-> <<v, i>>]

\* The pieces of the replies there have been.
Pieces ==
    {p \in (DOMAIN replies) \X Nat : p[2] \in 1..(2 * Len(replies[p[1]].packets))}

\* What the server may answer.
Given == UNION { [text : {c.text}, packets : ServerReplies(c)] : c \in Commands }

FlowTypeOK ==
    /\ replies \in Seq(Given)
    /\ published \subseteq [key : Texts, bytes : Seq(Pieces)]
    /\ topic \subseteq published
    /\ \A k \in DOMAIN map : [key |-> k, bytes |-> map[k]] \in published
    /\ pc \in [Workers -> {"client", "server", "ended", "panicked"}]
    /\ gone \in [Workers -> BOOLEAN]
    /\ asking \in [Workers -> Commands \cup {NotAsked}]
    /\ answer \in [Workers -> 0..Len(replies)]
    /\ read \in [Workers -> Nat]
    /\ {partial, rest, got, buffer, logged} \subseteq [Workers -> Seq(Pieces)]
    /\ \A w \in Workers :
        /\ pc[w] = "server" => asking[w] \in Commands
        /\ read[w] <= IF answer[w] = 0 THEN 0 ELSE Len(Bytes(answer[w]))

TypeOK ==
    /\ FlowTypeOK
    /\ Len(replies) <= MaxAsks
    /\ \A w \in Workers : Len(partial[w]) < 2 /\ acc[w].state \in AccStates

Init ==
    /\ replies = <<>> /\ published = {} /\ topic = {}
    /\ map = <<>>
    /\ pc = [w \in Workers |-> "client"]
    /\ gone = [w \in Workers |-> FALSE]
    /\ asking = [w \in Workers |-> NotAsked]
    /\ answer = [w \in Workers |-> 0]
    /\ read = [w \in Workers |-> 0]
    /\ partial = [w \in Workers |-> <<>>]
    /\ rest = [w \in Workers |-> <<>>]
    /\ acc = [w \in Workers |-> NewAccumulator]
    /\ got = [w \in Workers |-> <<>>]
    /\ buffer = [w \in Workers |-> <<>>]
    /\ logged = [w \in Workers |-> <<>>]
-----------------------------------------------------------------------------
(* The client loop.                                                        *)

\* A query is kept from the server if it did not parse, selects from a table, or is a
\* query of another form; any other statement is sent.
SendCommandToServer(w, c) ==
    \/ w \notin Replays
    \/ c.com # "Query"
    \/ /\ c.parsed
       /\ \A i \in DOMAIN c.ast : c.ast[i] \notin {"selectFrom", "otherQuery"}

\* A command is read, and written to the server, which answers; the server loop starts
\* with a fresh log buffer.
Ask(w) ==
    /\ pc[w] = "client" /\ ~gone[w]
    /\ \E c \in Commands :
        /\ asking' = [asking EXCEPT ![w] = c]
        /\ IF SendCommandToServer(w, c)
           THEN /\ Len(replies) < MaxAsks
                /\ \E reply \in ServerReplies(c) :
                    replies' = Append(replies, [text |-> c.text, packets |-> reply])
                /\ answer' = [answer EXCEPT ![w] = Len(replies) + 1]
           ELSE /\ answer' = [answer EXCEPT ![w] = 0]
                /\ UNCHANGED replies
    /\ pc' = [pc EXCEPT ![w] = "server"]
    /\ read' = [read EXCEPT ![w] = 0]
    /\ acc' = [acc EXCEPT ![w] = NewAccumulator]
    /\ got' = [got EXCEPT ![w] = <<>>]
    /\ buffer' = [buffer EXCEPT ![w] = <<>>]
    /\ logged' = [logged EXCEPT ![w] = <<>>]
    /\ UNCHANGED <<published, topic, map, gone, partial, rest>>

ClientCloses(w) ==
    /\ ~gone[w] /\ pc[w] \in {"client", "server"}
    /\ gone' = [gone EXCEPT ![w] = TRUE]
    /\ UNCHANGED <<shared, pc, asking, answer, read, partial, rest, acc, got, buffer, logged>>

\* read() returns 0 in the client loop.
WorkerEnds(w) ==
    /\ pc[w] = "client" /\ gone[w]
    /\ pc' = [pc EXCEPT ![w] = "ended"]
    /\ UNCHANGED <<shared, gone, asking, answer, read, partial, rest, acc, got, buffer, logged>>
-----------------------------------------------------------------------------
(* The server loop.                                                        *)

PacketOf(piece) == replies[piece[1]].packets[(piece[2] + 1) \div 2]

\* A faulty form of Whole: the last packet is left for the next read.
LeavesLast(frame) == IF Len(frame) < 2 THEN 0 ELSE 2 * ((Len(frame) \div 2) - 1)

\* How much of what is left of the last read and of this one makes whole packets.
Whole(frame) == 2 * (Len(frame) \div 2)

\* What the packet makes of a step.  One behind the end of a reply goes to the command
\* accumulator, which panics unless it starts as a command does and is UTF-8; taken for
\* one it would replace last_command, which is left out.  Not even an entry that is cut
\* off between two packets has such a packet: what ends a reply is the last of the entry.
After(step, pkt, com) ==
    IF step.panic THEN step
    ELSE IF step.phase = "Command" THEN Panic(step.acc, pkt)
    ELSE Consume(step.acc, pkt, com, FALSE)

\* What process_incoming_frame makes of the packets of a frame: the set of its outcomes,
\* which is one.
Outcomes(w, frame) ==
    LET steps[i \in 0..(Len(frame) \div 2)] ==
            IF i = 0 THEN {Pending(acc[w], OkPacket)}
            ELSE {After(step, pkt, asking[w].com) :
                    step \in steps[i - 1], pkt \in {PacketOf(frame[2 * i])}}
    IN  steps[Len(frame) \div 2]

\* A faulty form of KeptBack: what was kept back before is overwritten.
OnlyThisRead(w, forwarded, partialAfter) == IF partialAfter = <<>> THEN <<>> ELSE forwarded

\* What kafka_log_buffer holds after the read: a read that leaves an incomplete packet
\* adds to it, any other one empties it.
KeptBack(w, forwarded, partialAfter) ==
    IF partialAfter = <<>> THEN <<>> ELSE buffer[w] \o forwarded

\* push_to_kafka_if_logging_enabled.  The producer wants no acknowledgement and its
\* errors are ignored: what it sends may be lost.
Push(w, forwarded, partialAfter) ==
    IF w \in Logs
    THEN /\ buffer' = [buffer EXCEPT ![w] = KeptBack(w, forwarded, partialAfter)]
         /\ IF partialAfter = <<>>
            THEN LET entry == [key |-> asking[w].text, bytes |-> buffer[w] \o forwarded] IN
                 /\ published' = published \cup {entry}
                 /\ \E arrives \in BOOLEAN :
                        topic' = IF arrives THEN topic \cup {entry} ELSE topic
                 /\ logged' = [logged EXCEPT ![w] = @ \o entry.bytes]
            ELSE UNCHANGED <<published, topic, logged>>
    ELSE UNCHANGED <<buffer, published, topic, logged>>

\* One pass of the loop: the whole packets go to the accumulator, to the client and to
\* the log, and the phase decides who is next.
HandleFrame(w, frame) ==
    LET forwarded == SubSeq(frame, 1, Whole(frame))
        left      == SubSeq(frame, Whole(frame) + 1, Len(frame))
    IN
    \E step \in Outcomes(w, frame) :
        IF step.panic
        THEN /\ pc' = [pc EXCEPT ![w] = "panicked"]
             /\ UNCHANGED <<partial, acc, got, buffer, published, topic, logged>>
        ELSE /\ pc' = [pc EXCEPT ![w] = IF step.phase = "Command" THEN "client" ELSE "server"]
             /\ partial' = [partial EXCEPT ![w] = left]
             /\ acc' = [acc EXCEPT ![w] = step.acc]
             /\ got' = [got EXCEPT ![w] = @ \o forwarded]
             /\ Push(w, forwarded, left)

HasEntry(w) == asking[w].text \in DOMAIN map

\* Faulty forms of FromServer: what is not in the map is read from the server; all is.
IfNotInMap(w) == SendCommandToServer(w, asking[w]) \/ ~HasEntry(w)

NoReplay(w) == TRUE

\* The look-up returns at once for what was sent to the server.
FromServer(w) == SendCommandToServer(w, asking[w])

Unread(w) == IF answer[w] = 0 THEN <<>>
             ELSE SubSeq(Bytes(answer[w]), read[w] + 1, Len(Bytes(answer[w])))

ReadServer(w) ==
    /\ pc[w] = "server" /\ FromServer(w)
    /\ \E n \in 1..BufSize :
        /\ n <= Len(Unread(w))
        /\ read' = [read EXCEPT ![w] = @ + n]
        /\ UNCHANGED <<replies, map, gone, asking, answer, rest>>
        /\ \E frame \in {partial[w] \o SubSeq(Unread(w), 1, n)} : HandleFrame(w, frame)

\* Faulty forms of ToTransmit: a chunk is cut out of the entry of the moment; the
\* entry of the moment is always served from its start.
FromEntry(w) ==
    SubSeq(map[asking[w].text], Len(got[w]) + Len(partial[w]) + 1, Len(map[asking[w].text]))
FromStart(w) == map[asking[w].text]

\* The rest of the entry a chunk was taken of, or the entry of the moment.
ToTransmit(w) == IF rest[w] # <<>> THEN rest[w] ELSE map[asking[w].text]

\* The look-up finds an entry, even when it goes on with the rest of an earlier one; a
\* chunk of it takes the place of a read.  Without one it sleeps and tries again.
ServeChunk(w) ==
    /\ pc[w] = "server" /\ ~FromServer(w)
    /\ HasEntry(w)
    /\ Len(got[w]) < MaxAnswer
    /\ \E all \in {ToTransmit(w)} :
        LET len == IF Len(all) < BufSize THEN Len(all) ELSE BufSize IN
        /\ rest' = [rest EXCEPT ![w] = SubSeq(all, len + 1, Len(all))]
        /\ UNCHANGED <<replies, map, gone, asking, answer, read>>
        /\ \E frame \in {partial[w] \o SubSeq(all, 1, len)} : HandleFrame(w, frame)
-----------------------------------------------------------------------------
(* The consumer thread.                                                    *)

\* spawn_kafka_read.  The entries have no key of their own in Kafka, so those of one
\* command may lie in several partitions and arrive in any order.
ReceiveEntry ==
    \E e \in topic :
        /\ topic' = topic \ {e}
        /\ map' = [k \in DOMAIN map \cup {e.key} |-> IF k = e.key THEN e.bytes ELSE map[k]]
        /\ UNCHANGED <<replies, published, session>>

\* The entry's time is over (DIFF_TTL).
ExpireEntry(k) ==
    /\ k \in DOMAIN map
    /\ map' = [j \in DOMAIN map \ {k} |-> map[j]]
    /\ UNCHANGED <<replies, published, topic, session>>

Worker(w) == WorkerEnds(w) \/ ReadServer(w) \/ ServeChunk(w)

Next ==
    \/ \E w \in Workers : Ask(w) \/ ClientCloses(w) \/ Worker(w)
    \/ ReceiveEntry
    \/ \E k \in Texts : ExpireEntry(k)

\* A worker reads what has come and finds the entries there are; the consumer polls.
\* Nothing makes a client ask, and no entry expires for sure.
Spec == /\ Init /\ [][Next]_vars
        /\ \A w \in Workers : WF_vars(Worker(w))
        /\ WF_vars(ReceiveEntry)
-----------------------------------------------------------------------------
(* Replies the accumulator follows: those of an ordinary server, to a      *)
(* client with DEPRECATE_EOF.                                              *)

\* The accumulators it goes through, from one command to the next.
Trail(reply, com) ==
    LET accs[i \in 0..Len(reply)] ==
            IF i = 0 THEN NewAccumulator ELSE Consume(accs[i - 1], reply[i], com, FALSE).acc
    IN  accs

\* They lead to the reply's last packet, and no further.
Traces(accs, reply, com) ==
    /\ accs[0] = NewAccumulator
    /\ \A i \in 1..Len(reply) :
         LET step == Consume(accs[i - 1], reply[i], com, FALSE) IN
         /\ ~step.panic /\ step.acc = accs[i]
         /\ step.phase = IF i = Len(reply) THEN "Command" ELSE "PendingResponse"

\* It is a reply of a server, none of whose columns passes for the packet that ends it.
Regular(reply, com) ==
    /\ reply \in Seq(Packets) /\ reply # <<>>
    /\ \A i \in 1..Len(reply) : IsColumn(reply[i]) => TypeOf(reply[i]) = "Other"
    /\ Traces(Trail(reply, com), reply, com)

\* Every reply is one, and what is logged and looked up by its text alone is a command of
\* one kind.
RegularReplies ==
    /\ DeprecateEof
    /\ \A c, d \in Commands : c.text = d.text => c.com = d.com
    /\ \A c \in Commands : \A reply \in ServerReplies(c) : Regular(reply, c.com)
-----------------------------------------------------------------------------
(* Properties.                                                             *)

IsReply(bytes, text) ==
    \E v \in DOMAIN replies : replies[v].text = text /\ bytes = Bytes(v)

\* An entry is the whole of one reply to its command (README.md, "Publish full server
\* responses keyed by the last command").
PublishesFullResponses == \A e \in published : IsReply(e.bytes, e.key)

\* Nothing the server said is missing from the log or in it twice: what has been read is
\* published, in kafka_log_buffer, or an incomplete packet
\* (push_to_kafka_if_logging_enabled).
LogCoversAnswer ==
    \A w \in Logs :
        /\ logged[w] \o buffer[w] = got[w]
        /\ (answer[w] # 0 /\ pc[w] # "panicked") =>
                logged[w] \o buffer[w] \o partial[w] = SubSeq(Bytes(answer[w]), 1, read[w])

\* Once the answer is over all of it is published, whatever the reads cut it into.
LogComplete ==
    \A w \in Logs :
        pc[w] \in {"client", "ended"} =>
            /\ buffer[w] = <<>> /\ partial[w] = <<>>
            /\ answer[w] # 0 => logged[w] = Bytes(answer[w])

\* While the entries are whole replies, the answer to a replayed query is one reply to
\* it, from its start to where the worker is: never parts of two, though the entry is
\* replaced or expires between two chunks (partial_replay_bytes).
AnswerIsOneReply ==
    PublishesFullResponses =>
        \A w \in Replays :
            \/ pc[w] = "panicked"
            \/ got[w] \o partial[w] \o rest[w] = <<>> /\ (pc[w] = "server" \/ asking[w] = NotAsked)
            \/ \E v \in DOMAIN replies :
                /\ replies[v].text = asking[w].text
                /\ Seqs!IsPrefix(got[w] \o partial[w] \o rest[w], Bytes(v))
                /\ pc[w] \in {"client", "ended"} => got[w] = Bytes(v)

\* While the entries are whole replies no worker dies of one.
WholeEntriesNeverPanic == PublishesFullResponses => \A w \in Workers : pc[w] # "panicked"

\* A worker listens to the server only for what the server has been asked and has not
\* said yet: the two uses of send_command_to_server, one per loop, agree.
WaitsForServerOnlyIfAsked ==
    \A w \in Workers : (pc[w] = "server" /\ FromServer(w)) => Unread(w) # <<>>

Coming(w) == \/ HasEntry(w)
             \/ \E e \in topic : e.key = asking[w].text

\* A query whose answer is in the map, or on its way to it, is answered unless the entry
\* expires first: no chunk is lost between look-ups (get_response_from_cache_if_replay_enabled).
ReplayedQuerySettled ==
    \A w \in Replays :
        (pc[w] = "server" /\ Coming(w) /\ PublishesFullResponses)
            ~> (pc[w] # "server" \/ ~Coming(w) \/ ~PublishesFullResponses)

\* When its client has gone a worker ends, but for one that waits for an entry that is
\* not there: that one the loop of get_response_from_cache_if_replay_enabled keeps.
WorkerFollowsClient ==
    \A w \in Workers :
        (gone[w] /\ PublishesFullResponses) ~>
            \/ pc[w] \in {"ended", "panicked"}
            \/ pc[w] = "server" /\ ~FromServer(w) /\ ~HasEntry(w)
            \/ ~PublishesFullResponses
=============================================================================
