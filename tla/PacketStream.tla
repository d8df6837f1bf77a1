---------------------------- MODULE PacketStream ----------------------------
(***************************************************************************)
(* What MocksySQL's frame reassembly promises its callers: whatever way    *)
(* the bytes of a connection are cut into reads, the packets come out      *)
(* whole, in order, and each once.  The reader may stop for good at any    *)
(* point (end of the stream, an error, or a panic of its thread).          *)
(***************************************************************************)
EXTENDS Naturals, Sequences

VARIABLES length,   \* the number of packets of the stream
          out,      \* the packets handed over, by their index in the stream
          stopped   \* the reader has stopped

svars == <<length, out, stopped>>

\* The first k packets of the stream.
FirstPackets(k) == [i \in 1..k |-> i]

Init ==
    /\ length \in Nat
    /\ out = <<>>
    /\ stopped = FALSE

\* Any number of further packets is handed over at once.
Deliver ==
    /\ ~stopped
    /\ \E k \in Len(out)..length : out' = FirstPackets(k)
    /\ UNCHANGED <<length, stopped>>

Stop ==
    /\ stopped' = TRUE
    /\ UNCHANGED <<length, out>>

Next == Deliver \/ Stop

Spec == Init /\ [][Next]_svars
=============================================================================
