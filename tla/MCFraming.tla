------------------------------ MODULE MCFraming ------------------------------
(* Small instances of Framing: every cut of short streams into reads.      *)
EXTENDS Framing

\* A stream with the given body sizes and sequence numbers.
RECURSIVE Ends(_, _)
Ends(sizes, k) == IF k = 0 THEN 0 ELSE Ends(sizes, k - 1) + HeaderSize + sizes[k]

MkStream(sizes, seqs) ==
    [n |-> Len(sizes), end |-> [k \in 0..Len(sizes) |-> Ends(sizes, k)], seq |-> seqs]

\* Up to three packets, with bodies of none, one or two bytes, numbered
\* consecutively from any start.
MCStreams ==
    { MkStream(sizes, [i \in 1..n |-> (start + i - 1) % SeqMod]) :
        start \in 0..(SeqMod - 1),
        <<n, sizes>> \in UNION { {n} \X [1..n -> 0..2] : n \in 1..3 } }
=============================================================================
