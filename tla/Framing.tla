------------------------------- MODULE Framing -------------------------------
(***************************************************************************)
(* Frame reassembly of one direction of a connection: the blocking read of *)
(* connection_handler.rs, Connection.partial_bytes of connection.rs and    *)
(* make_packets / parse_buffer / verify_packet_order of state_handler.rs.  *)
(*                                                                         *)
(* A byte is its position in the stream and a packet is its index.  A      *)
(* stream is described by where its packets end and by the sequence number *)
(* in each header; sizes follow from the ends.                             *)
(***************************************************************************)
EXTENDS Integers, Sequences

CONSTANTS
    Streams,     \* the streams the peer may send
    MaxPackets,  \* bound on the packets of a stream
    HeaderSize,  \* bytes of a packet header, 4 in the code
    BufSize,     \* bytes of the read buffer, 4096 in the code
    SeqMod       \* sequence numbers are u8: 256 in the code

ASSUME SizesAssumption ==
    /\ MaxPackets \in Nat
    /\ HeaderSize \in Nat \ {0}
    /\ BufSize \in Nat \ {0}
    /\ SeqMod \in Nat \ {0}

\* A stream of n packets: packet i takes the bytes from end[i-1] up to end[i],
\* which is room for a header at least.
IsStream(s) ==
    /\ s.n \in 0..MaxPackets
    /\ s.end \in [0..s.n -> Nat]
    /\ s.seq \in [1..s.n -> 0..(SeqMod - 1)]
    /\ s.end[0] = 0
    /\ \A i, j \in 0..s.n : i < j => s.end[i] + HeaderSize <= s.end[j]

ASSUME StreamsAssumption == \A s \in Streams : IsStream(s)

VARIABLES
    stream,      \* the stream this connection carries
    sent,        \* bytes the peer has written to the socket
    conn,        \* the peer's end: "open", "closed", or "reset"
    read,        \* bytes the worker has read from the socket
    partial,     \* bytes kept in Connection.partial_bytes, 0 for None
    out,         \* packets handed over by make_packets and forwarded
    status       \* of the worker thread: "running", "returned", "panicked"

vars == <<stream, sent, conn, read, partial, out, status>>

TypeOK ==
    /\ stream \in Streams
    /\ sent \in 0..stream.end[stream.n]
    /\ conn \in {"open", "closed", "reset"}
    /\ read \in 0..sent
    /\ partial \in 0..read
    /\ out \in Seq(1..stream.n)
    /\ status \in {"running", "returned", "panicked"}

Init ==
    /\ stream \in Streams
    /\ sent = 0
    /\ conn = "open"
    /\ read = 0
    /\ partial = 0
    /\ out = <<>>
    /\ status = "running"
-----------------------------------------------------------------------------
(* The peer.                                                               *)

\* TCP delivers the peer's bytes in order, in pieces of any size.
PeerSend ==
    /\ conn = "open"
    /\ \E k \in 1..(stream.end[stream.n] - sent) : sent' = sent + k
    /\ UNCHANGED <<stream, conn, read, partial, out, status>>

\* The peer closes its end, in order or by a reset; it may do so inside a packet.
PeerClose ==
    /\ conn = "open"
    /\ conn' \in {"closed", "reset"}
    /\ UNCHANGED <<stream, sent, read, partial, out, status>>
-----------------------------------------------------------------------------
(* make_packets over the buffer that holds the bytes from base up to limit. *)

\* Faulty forms of IsBatch: a packet is parsed before its last byte is there; a
\* packet that ends with the buffer is left for later.
TakesPartialPacket(base, limit, lo, hi) ==
    LET end == stream.end IN
    /\ lo <= hi
    /\ base <= end[lo]
    /\ lo > 0 => end[lo - 1] < base
    /\ hi > lo => end[hi - 1] < limit
    /\ hi < stream.n => limit <= end[hi]

LeavesLastPacket(base, limit, lo, hi) ==
    LET end == stream.end IN
    /\ lo <= hi
    /\ base <= end[lo]
    /\ lo > 0 => end[lo - 1] < base
    /\ hi > lo => end[hi] < limit
    /\ hi < stream.n => limit <= end[hi + 1]

\* The packets lo+1 .. hi lie wholly in the buffer and are parsed; the next one
\* does not.
IsBatch(base, limit, lo, hi) ==
    LET end == stream.end IN
    /\ lo <= hi
    /\ base <= end[lo]
    /\ lo > 0 => end[lo - 1] < base
    /\ hi > lo => end[hi] <= limit
    /\ hi < stream.n => limit < end[hi + 1]

\* Where parse_buffer's offset stands when the loop ends.
ParsedUpTo(base, lo, hi) == IF hi > lo THEN stream.end[hi] ELSE base

\* Faulty forms of PartialAfter: the rest of the buffer is dropped; partial_bytes is
\* not reset when nothing is left.
DropsRest(limit, offset) == 0
KeepsStale(limit, offset) == IF limit = offset THEN partial ELSE limit - offset

\* The bytes left at the offset become partial_bytes; with none left (the
\* PacketParseResult::None branch) partial_bytes is reset.
PartialAfter(limit, offset) == limit - offset

\* A faulty form of OutOfOrder, without the case of the rollover.
NoRollover(prev, cur) == prev # cur - 1

\* verify_packet_order's test of a packet against the previous one of the frame.
OutOfOrder(prev, cur) ==
    \/ cur # 0 /\ prev # cur - 1
    \/ cur = 0 /\ prev # SeqMod - 1

\* A packet with an empty body: get_packet_type reads body[0] of it.
EmptyBody(i) == stream.end[i] = stream.end[i - 1] + HeaderSize

\* make_packets panics: on an empty body, or on sequence numbers that do not
\* follow each other within the frame.
BatchPanics(lo, hi) ==
    \/ \E i \in (lo + 1)..hi : EmptyBody(i)
    \/ \E i \in (lo + 2)..hi : OutOfOrder(stream.seq[i - 1], stream.seq[i])
-----------------------------------------------------------------------------
(* The worker thread.                                                      *)

\* One pass of the loop with k > 0 bytes read: the buffer is partial_bytes
\* followed by the bytes read.
ReadFrame ==
    /\ status = "running"
    /\ \E k \in 1..(sent - read) :
        /\ k <= BufSize
        /\ \E lo, hi \in 0..stream.n :
            LET base  == read - partial
                limit == read + k
            IN
            /\ IsBatch(base, limit, lo, hi)
            /\ read' = limit
            /\ \/ /\ BatchPanics(lo, hi)
                  /\ status' = "panicked"
                  /\ UNCHANGED <<partial, out>>
               \/ /\ ~BatchPanics(lo, hi)
                  /\ partial' = PartialAfter(limit, ParsedUpTo(base, lo, hi))
                  /\ out' = out \o [j \in 1..(hi - lo) |-> lo + j]
                  /\ UNCHANGED status
    /\ UNCHANGED <<stream, sent, conn>>

\* read() returns 0 at the end of the stream, or an error after a reset, which may
\* overtake bytes already sent: exchange returns and partial_bytes is dropped.
ReadEnd ==
    /\ status = "running"
    /\ \/ conn = "closed" /\ read = sent
       \/ conn = "reset"
    /\ status' = "returned"
    /\ UNCHANGED <<stream, sent, conn, read, partial, out>>

Next == PeerSend \/ PeerClose \/ ReadFrame \/ ReadEnd

\* The worker is a thread that only ever blocks in read(): it keeps reading what
\* has arrived.  Nothing is assumed of the peer.
Fairness == WF_vars(ReadFrame) /\ WF_vars(ReadEnd)

Spec == Init /\ [][Next]_vars /\ Fairness
-----------------------------------------------------------------------------
(* Properties.                                                             *)

NextSeq(seq) == IF seq = SeqMod - 1 THEN 0 ELSE seq + 1

\* The headers of the stream are numbered consecutively and no body is empty.
WellFormed ==
    /\ \A i \in 1..stream.n : ~EmptyBody(i)
    /\ \A i \in 2..stream.n : stream.seq[i] = NextSeq(stream.seq[i - 1])

\* However the stream is cut into reads, while the worker lives it has forwarded
\* exactly the packets whose last byte it has read, in order and each once, and
\* partial_bytes holds exactly the bytes after them (state_handler.rs make_packets).
ForwardsWholePackets ==
    status # "panicked" =>
        \E k \in 0..stream.n :
            /\ out = [i \in 1..k |-> i]
            /\ stream.end[k] + partial = read
            /\ k < stream.n => read < stream.end[k + 1]

\* The panics of make_packets are never an effect of how TCP cut the stream: a
\* stream numbered as one server reply is (verify_packet_order, get_packet_type)
\* is reassembled without a panic.
NoPanicOnWellFormed == WellFormed => status # "panicked"

\* Once the last byte of a packet has reached the socket the packet is forwarded,
\* unless the stream is one that panics or the peer resets the connection.
CompletePacketsForwarded ==
    \A i \in 1..MaxPackets :
        (WellFormed /\ i <= stream.n /\ sent >= stream.end[i])
            ~> (Len(out) >= i \/ conn = "reset")

\* Framing hands packets over as PacketStream says (process_incoming_frame's
\* callers rely on nothing else).
Reader == INSTANCE PacketStream WITH
    length <- stream.n, stopped <- (status # "running")

ImplementsPacketStream == Reader!Spec
=============================================================================
