---------------------------- MODULE FramingProofs ----------------------------
(***************************************************************************)
(* Proofs about Framing, for every set of streams, header size, buffer     *)
(* size and modulus of the sequence numbers.                               *)
(*                                                                         *)
(* The invariant is inductive because the buffer parse_buffer works on     *)
(* starts where the last forwarded packet ends (Aligned): the parse of a   *)
(* frame then goes on with the packet after it.                            *)
(***************************************************************************)
EXTENDS Framing, TLAPS, SequenceTheorems

\* The type invariant and both safety properties together.
IInv == TypeOK /\ ForwardsWholePackets /\ NoPanicOnWellFormed

USE SizesAssumption

\* What the layout of a stream says of its parts.
LEMMA StreamParts ==
    ASSUME NEW s \in Streams
    PROVE  /\ s.n \in Nat
           /\ \A i \in 0..s.n : s.end[i] \in Nat
           /\ s.end[0] = 0
           /\ s.seq \in [1..s.n -> 0..(SeqMod - 1)]
<1>1. IsStream(s)
  BY StreamsAssumption
<1>2. /\ s.n \in 0..MaxPackets
      /\ s.end \in [0..s.n -> Nat]
      /\ s.seq \in [1..s.n -> 0..(SeqMod - 1)]
      /\ s.end[0] = 0
  BY <1>1, Zenon DEF IsStream
<1> QED BY <1>2

\* Packets end further on than the packets before them.
LEMMA EndsIncrease ==
    ASSUME NEW s \in Streams,
           NEW i \in 0..s.n, NEW j \in 0..s.n, i < j
    PROVE  s.end[i] < s.end[j]
<1>1. IsStream(s)
  BY StreamsAssumption
<1>2. s.end[i] \in Nat /\ s.end[j] \in Nat
  BY StreamParts
<1>3. s.end[i] + HeaderSize <= s.end[j]
  BY <1>1, Zenon DEF IsStream
<1> QED BY <1>2, <1>3

\* A batch read at a packet's end begins with the next packet, and what is kept
\* for the next read is what follows its last packet.
LEMMA BatchAligned ==
    ASSUME TypeOK,
           NEW k \in 0..stream.n,
           NEW limit \in Nat, limit >= stream.end[k],
           NEW lo \in 0..stream.n, NEW hi \in 0..stream.n,
           IsBatch(stream.end[k], limit, lo, hi)
    PROVE  /\ lo = k
           /\ hi >= k
           /\ ParsedUpTo(stream.end[k], lo, hi) = stream.end[hi]
           /\ stream.end[hi] \in Nat
           /\ stream.end[hi] <= limit
           /\ hi < stream.n => limit < stream.end[hi + 1]
<1> USE DEF IsBatch, ParsedUpTo
<1>1. stream \in Streams
  BY DEF TypeOK
<1>2. /\ stream.n \in Nat
      /\ \A i \in 0..stream.n : stream.end[i] \in Nat
  BY <1>1, StreamParts
<1>3. \A i, j \in 0..stream.n : i < j => stream.end[i] < stream.end[j]
  BY <1>1, EndsIncrease
<1>4. ~(lo < k)
  BY <1>2, <1>3
<1>5. ~(lo > k)
  <2>1. SUFFICES ASSUME lo > k PROVE FALSE
    OBVIOUS
  <2>2. stream.end[lo - 1] < stream.end[k]
    BY <2>1
  <2>3. lo - 1 = k \/ stream.end[k] < stream.end[lo - 1]
    BY <1>2, <1>3, <2>1
  <2> QED BY <1>2, <2>1, <2>2, <2>3
<1>6. lo = k
  BY <1>2, <1>4, <1>5
<1> QED BY <1>2, <1>6

\* Appending a batch to the packets forwarded so far.
LEMMA AppendBatch ==
    ASSUME NEW k \in Nat, NEW hi \in Nat, k <= hi
    PROVE  [i \in 1..k |-> i] \o [j \in 1..(hi - k) |-> k + j] = [i \in 1..hi |-> i]
<1> DEFINE a == [i \in 1..k |-> i]
           b == [j \in 1..(hi - k) |-> k + j]
           c == [i \in 1..hi |-> i]
<1>1. a \in Seq(Nat) /\ Len(a) = k
  OBVIOUS
<1>2. b \in Seq(Nat) /\ Len(b) = hi - k
  OBVIOUS
<1>3. c \in Seq(Nat) /\ Len(c) = hi
  OBVIOUS
<1>4. a \o b \in Seq(Nat) /\ Len(a \o b) = hi
  BY <1>1, <1>2
<1>5. ASSUME NEW i \in 1..hi PROVE (a \o b)[i] = c[i]
  <2>1. CASE i <= k
    BY <1>1, <1>2, <2>1
  <2>2. CASE i > k
    BY <1>1, <1>2, <2>2
  <2> QED BY <2>1, <2>2
<1> QED BY <1>3, <1>4, <1>5, SeqEqual

\* A frame of a well-formed stream does not panic: its packets are numbered
\* consecutively, the wrap to 0 included.
LEMMA WellFormedBatch ==
    ASSUME TypeOK, WellFormed,
           NEW lo \in 0..stream.n, NEW hi \in 0..stream.n
    PROVE  ~BatchPanics(lo, hi)
<1>1. stream.n \in Nat /\ stream.seq \in [1..stream.n -> 0..(SeqMod - 1)]
  BY StreamParts DEF TypeOK
<1>2. \A i \in (lo + 1)..hi : ~EmptyBody(i)
  BY <1>1 DEF WellFormed
<1>3. ASSUME NEW i \in (lo + 2)..hi
      PROVE  ~OutOfOrder(stream.seq[i - 1], stream.seq[i])
  <2>1. i \in 2..stream.n /\ i \in 1..stream.n /\ i - 1 \in 1..stream.n
    BY <1>1
  <2>2. stream.seq[i] = NextSeq(stream.seq[i - 1])
    BY <2>1 DEF WellFormed
  <2>3. stream.seq[i - 1] \in 0..(SeqMod - 1)
    BY <1>1, <2>1
  <2> QED BY <2>2, <2>3 DEF OutOfOrder, NextSeq
<1> QED BY <1>2, <1>3 DEF BatchPanics
-----------------------------------------------------------------------------
LEMMA InitInv == Init => IInv
<1> SUFFICES ASSUME Init PROVE IInv
  OBVIOUS
<1>1. stream \in Streams
  BY DEF Init
<1>2. stream.n \in Nat /\ stream.end[0] = 0 /\ stream.end[stream.n] \in Nat
  BY <1>1, StreamParts
<1>3. TypeOK
  BY <1>2 DEF Init, TypeOK
<1>4. ForwardsWholePackets
  <2>1. out = [i \in 1..0 |-> i]
    BY DEF Init
  <2>2. 0 < stream.n => 0 < stream.end[0 + 1]
    BY <1>1, <1>2, EndsIncrease
  <2> QED BY <1>2, <2>1, <2>2 DEF Init, ForwardsWholePackets
<1> QED BY <1>3, <1>4 DEF Init, IInv, NoPanicOnWellFormed

\* The read of a frame, with what it changes.
LEMMA ReadFrameInv == IInv /\ ReadFrame => IInv'
<1> SUFFICES ASSUME IInv, ReadFrame PROVE IInv'
  OBVIOUS
<1>1. TypeOK /\ ForwardsWholePackets /\ NoPanicOnWellFormed
  BY DEF IInv
<1>2. PICK m \in 1..(sent - read), lo \in 0..stream.n, hi \in 0..stream.n :
        /\ IsBatch(read - partial, read + m, lo, hi)
        /\ read' = read + m
        /\ \/ /\ BatchPanics(lo, hi)
              /\ status' = "panicked"
              /\ UNCHANGED <<partial, out>>
           \/ /\ ~BatchPanics(lo, hi)
              /\ partial' = PartialAfter(read + m, ParsedUpTo(read - partial, lo, hi))
              /\ out' = out \o [j \in 1..(hi - lo) |-> lo + j]
              /\ UNCHANGED status
  BY DEF ReadFrame
<1>3. UNCHANGED <<stream, sent, conn>> /\ status = "running"
  BY DEF ReadFrame
<1>4. stream \in Streams
  BY <1>1 DEF TypeOK
<1>5. /\ stream.n \in Nat
      /\ \A i \in 0..stream.n : stream.end[i] \in Nat
  BY <1>4, StreamParts
<1>6. sent \in Nat /\ read \in Nat /\ partial \in Nat /\ read <= sent /\ partial <= read
  BY <1>1, <1>5 DEF TypeOK
<1>7. m \in Nat /\ read + m \in Nat /\ read + m <= sent
  BY <1>2, <1>6
<1>8. CASE BatchPanics(lo, hi) /\ status' = "panicked" /\ UNCHANGED <<partial, out>>
  <2>1. TypeOK'
    BY <1>1, <1>2, <1>3, <1>6, <1>7, <1>8 DEF TypeOK
  <2>2. ~WellFormed'
    BY <1>1, <1>3, <1>8, WellFormedBatch DEF WellFormed, EmptyBody
  <2> QED BY <1>8, <2>1, <2>2 DEF IInv, ForwardsWholePackets, NoPanicOnWellFormed
<1>9. CASE /\ ~BatchPanics(lo, hi)
           /\ partial' = PartialAfter(read + m, ParsedUpTo(read - partial, lo, hi))
           /\ out' = out \o [j \in 1..(hi - lo) |-> lo + j]
           /\ UNCHANGED status
  <2>1. PICK k \in 0..stream.n :
          /\ out = [i \in 1..k |-> i]
          /\ stream.end[k] + partial = read
    BY <1>1, <1>3 DEF ForwardsWholePackets
  <2>2. read - partial = stream.end[k] /\ read + m >= stream.end[k]
    <3>1. stream.end[k] \in Nat
      BY <1>5
    <3> QED BY <1>6, <1>7, <2>1, <3>1
  <2>3. /\ lo = k
        /\ hi >= k
        /\ ParsedUpTo(stream.end[k], lo, hi) = stream.end[hi]
        /\ stream.end[hi] \in Nat
        /\ stream.end[hi] <= read + m
        /\ hi < stream.n => read + m < stream.end[hi + 1]
    BY <1>1, <1>2, <1>7, <2>2, BatchAligned
  <2>4. partial' = (read + m) - stream.end[hi]
    <3>1. ParsedUpTo(read - partial, lo, hi) = stream.end[hi]
      BY <2>2, <2>3, Zenon
    <3>2. partial' = PartialAfter(read + m, stream.end[hi])
      BY <1>9, <3>1, Zenon
    <3> QED BY <3>2 DEF PartialAfter
  <2>5. out' = [i \in 1..hi |-> i]
    <3>1. out' = [i \in 1..k |-> i] \o [j \in 1..(hi - k) |-> k + j]
      BY <1>9, <2>1, <2>3, Zenon
    <3>2. k \in Nat /\ hi \in Nat /\ k <= hi
      BY <1>5, <2>3
    <3> QED BY <3>1, <3>2, AppendBatch
  <2>6. TypeOK'
    <3>1. out' \in Seq(1..stream.n)
      BY <1>5, <2>5
    <3>2. partial' \in 0..(read + m)
      BY <1>6, <1>7, <2>3, <2>4
    <3> QED BY <1>1, <1>2, <1>3, <1>6, <1>7, <1>9, <3>1, <3>2 DEF TypeOK
  <2>7. stream.end[hi] + partial' = read'
    BY <1>2, <1>6, <1>7, <2>3, <2>4
  <2>8. ForwardsWholePackets'
    BY <1>2, <1>3, <2>3, <2>5, <2>7 DEF ForwardsWholePackets
  <2> QED BY <1>3, <1>9, <2>6, <2>8 DEF IInv, NoPanicOnWellFormed
<1> QED BY <1>2, <1>8, <1>9

\* Every step keeps the invariant.
LEMMA NextInv == IInv /\ [Next]_vars => IInv'
<1> SUFFICES ASSUME IInv, [Next]_vars PROVE IInv'
  OBVIOUS
<1> USE DEF IInv, TypeOK, ForwardsWholePackets, NoPanicOnWellFormed, WellFormed, EmptyBody
<1>1. stream \in Streams
  OBVIOUS
<1>2. stream.n \in Nat /\ stream.end[stream.n] \in Nat
  BY <1>1, StreamParts
<1>3. CASE PeerSend
  <2>1. PICK k \in 1..(stream.end[stream.n] - sent) : sent' = sent + k
    BY <1>3 DEF PeerSend
  <2>2. UNCHANGED <<stream, conn, read, partial, out, status>>
    BY <1>3 DEF PeerSend
  <2>3. sent' \in 0..stream.end[stream.n] /\ read \in 0..sent'
    BY <1>2, <2>1
  <2> QED BY <2>2, <2>3
<1>4. CASE PeerClose
  BY <1>4 DEF PeerClose
<1>5. CASE ReadFrame
  BY <1>5, ReadFrameInv
<1>6. CASE ReadEnd
  BY <1>6 DEF ReadEnd
<1>7. CASE UNCHANGED vars
  BY <1>7 DEF vars
<1> QED BY <1>3, <1>4, <1>5, <1>6, <1>7 DEF Next

\* The variables keep their types and their bounds: in particular what is kept in
\* partial_bytes was read, and what was read was sent (connection.rs partial_bytes).
THEOREM TypeCorrect == Spec => []TypeOK
<1>1. IInv => TypeOK
  BY DEF IInv
<1> QED BY <1>1, InitInv, NextInv, PTL DEF Spec

\* However TCP cuts a stream, a live worker has forwarded exactly the packets whose
\* last byte it has read and keeps exactly the bytes after them (make_packets).
THEOREM WholePackets == Spec => []ForwardsWholePackets
<1>1. IInv => ForwardsWholePackets
  BY DEF IInv
<1> QED BY <1>1, InitInv, NextInv, PTL DEF Spec

\* A stream numbered as one reply is, of any length and with any number of wraps of
\* the sequence number, never makes make_packets panic (verify_packet_order).
THEOREM NoSpuriousPanic == Spec => []NoPanicOnWellFormed
<1>1. IInv => NoPanicOnWellFormed
  BY DEF IInv
<1> QED BY <1>1, InitInv, NextInv, PTL DEF Spec
-----------------------------------------------------------------------------
\* A step of the worker or of its peer is a step of PacketStream or none of its
\* business.
LEMMA StepRefines == IInv /\ IInv' /\ [Next]_vars => [Reader!Next]_(Reader!svars)
<1> SUFFICES ASSUME IInv, IInv', [Next]_vars PROVE [Reader!Next]_(Reader!svars)
  OBVIOUS
<1> USE DEF Reader!svars
<1>1. CASE PeerSend
  BY <1>1 DEF PeerSend
<1>2. CASE PeerClose
  BY <1>2 DEF PeerClose
<1>3. CASE ReadEnd
  BY <1>3 DEF ReadEnd, Reader!Next, Reader!Stop
<1>4. CASE UNCHANGED vars
  BY <1>4 DEF vars
<1>5. CASE ReadFrame
  <2>1. UNCHANGED stream /\ status = "running"
    BY <1>5 DEF ReadFrame
  <2>2. CASE status' = "panicked"
    <3>1. UNCHANGED out
      BY <1>5, <2>1, <2>2 DEF ReadFrame
    <3> QED BY <2>1, <2>2, <3>1 DEF Reader!Next, Reader!Stop
  <2>3. CASE status' # "panicked"
    <3>1. UNCHANGED status
      BY <1>5, <2>1, <2>3 DEF ReadFrame
    <3>2. PICK h \in 0..stream.n : out' = [i \in 1..h |-> i]
      BY <2>1, <2>3 DEF IInv, ForwardsWholePackets
    <3>3. PICK k \in 0..stream.n : out = [i \in 1..k |-> i] /\ stream.end[k] + partial = read
      BY <2>1 DEF IInv, ForwardsWholePackets
    <3>4. stream.n \in Nat
      BY StreamParts DEF IInv, TypeOK
    <3>5. Len(out) <= Len(out')
      <4>1. PICK m, lo \in 0..stream.n, hi \in 0..stream.n :
              out' = out \o [j \in 1..(hi - lo) |-> lo + j] /\ hi >= lo
        BY <1>5, <2>1, <2>3 DEF ReadFrame, IsBatch
      <4> DEFINE b == [j \in 1..(hi - lo) |-> lo + j]
      <4>2. out \in Seq(Nat) /\ b \in Seq(Nat)
        BY <3>3, <3>4, <4>1
      <4> QED BY <4>1, <4>2
    <3>6. h \in Len(out)..stream.n
      <4>1. Len(out') = h
        BY <3>2, <3>4
      <4>2. Len(out) = k
        BY <3>3, <3>4
      <4> QED BY <3>4, <3>5, <4>1, <4>2
    <3>7. Reader!Deliver
      BY <2>1, <3>1, <3>2, <3>6 DEF Reader!Deliver, Reader!FirstPackets
    <3> QED BY <3>7 DEF Reader!Next
  <2> QED BY <2>2, <2>3
<1> QED BY <1>1, <1>2, <1>3, <1>4, <1>5 DEF Next

\* Frame reassembly implements the packet stream its callers assume: packets in
\* order, whole, each once (process_incoming_frame).
THEOREM Refinement == Spec => ImplementsPacketStream
<1>1. Init => Reader!Init
  BY StreamParts DEF Init, Reader!Init
<1>2. IInv /\ IInv' /\ [Next]_vars => [Reader!Next]_(Reader!svars)
  BY StepRefines
<1> QED BY <1>1, <1>2, InitInv, NextInv, PTL DEF Spec, ImplementsPacketStream, Reader!Spec
=============================================================================
