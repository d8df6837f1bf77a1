---------------------------- MODULE ResponseFlow ----------------------------
(***************************************************************************)
(* One reply of the server on its way to the client: the server loop of    *)
(* connection_handler.rs feeds it, packet by packet, to the accumulator of *)
(* result_set.rs (process_incoming_frame) and forwards what is not         *)
(* skipped, until the phase says that the reply is over.                   *)
(***************************************************************************)
EXTENDS ResultSet, FiniteSets

CONSTANTS
    Coms,        \* kinds of commands asked
    ColumnCounts,\* how many columns a result set may have
    TextRows,    \* row packets of a text result set
    BinaryRows,  \* row packets of a binary result set
    MaxRows,     \* bound on the rows of a result set
    Filtering    \* the table has differences that may drop rows from the answer

\* A row is a packet marked as one, and a column count one byte that is no packet type's.
ASSUME ResponseFlowAssumption ==
    /\ ColumnCounts \subseteq 1..250
    /\ MaxRows \in Nat
    /\ Filtering \in BOOLEAN
    /\ TextRows \cup BinaryRows \subseteq {p \in Packets : p.role = "row" /\ ~p.skip}

VARIABLES
    com,     \* the command the reply is for
    reply,   \* the server's reply
    next,    \* index of the next packet to consume
    acc,     \* Connection.query_response
    phase,   \* Connection.phase
    out,     \* packets forwarded to the client
    hidden,  \* indices of the rows that were skipped
    fate     \* of the worker: "running" or "panicked"

vars == <<com, reply, next, acc, phase, out, hidden, fate>>

TypeOK ==
    /\ com \in Coms
    /\ next \in 1..(Len(reply) + 1)
    /\ acc.state \in AccStates
    /\ acc.skipped \in 0..MaxRows
    /\ phase \in {"PendingResponse", "Command"}
    /\ Len(out) < next
    /\ hidden \subseteq 1..(next - 1)
    /\ fate \in {"running", "panicked"}

Init ==
    /\ com \in Coms
    /\ \E n \in ColumnCounts :
        \E r \in Replies(com, n, TextRows, BinaryRows, MaxRows) : reply = Numbered(r)
    /\ next = 1
    /\ acc = NewAccumulator
    /\ phase = "PendingResponse"
    /\ out = <<>>
    /\ hidden = {}
    /\ fate = "running"

\* parse_row and override_row: what WHERE makes of a row, its values overridden by the
\* table's differences.
Filters == IF Filtering THEN BOOLEAN ELSE {FALSE}

\* The body of process_incoming_frame's loop for the next packet; the accumulator
\* is stored back in the connection (sync_connection_state).
ConsumePacket ==
    /\ fate = "running"
    /\ phase = "PendingResponse"
    /\ next <= Len(reply)
    /\ \E filtered \in Filters :
        LET step == Consume(acc, reply[next], com, filtered) IN
        \/ /\ step.panic
           /\ fate' = "panicked"
           /\ UNCHANGED <<acc, phase, out, next, hidden>>
        \/ /\ ~step.panic
           /\ acc' = step.acc
           /\ phase' = step.phase
           /\ out' = IF step.pkt.skip THEN out ELSE Append(out, step.pkt)
           /\ hidden' = IF step.pkt.skip THEN hidden \cup {next} ELSE hidden
           /\ next' = next + 1
           /\ UNCHANGED fate
    /\ UNCHANGED <<com, reply>>

\* The worker is out of this reply: in the client loop, dead, or waiting in read()
\* for more of it than there is.
Settled ==
    /\ \/ fate = "panicked"
       \/ phase = "Command"
       \/ next > Len(reply)
    /\ UNCHANGED vars

Next == ConsumePacket \/ Settled

\* The server loop processes every packet it has read before it reads again.
Spec == Init /\ [][Next]_vars /\ WF_vars(ConsumePacket)
-----------------------------------------------------------------------------
(* Properties.                                                             *)

WholeReplyConsumed == next > Len(reply)

\* The accumulator declares the reply over at its last packet and at no other
\* (accumulator/mod.rs: "Returns true if no the accumulator expects no further
\* packets"): what is left after an early end would be taken for the next reply.  Left
\* out are binary result sets in which the numbers roll over: their rows start as an OK
\* packet does, and the one numbered 1 ends the reply.
EndsWithLastPacket ==
    phase = "Command" /\ (com = "StmtExecute" => Len(reply) <= SeqMod) => WholeReplyConsumed

\* What the client sees is numbered 1, 2, 3, ... whatever rows were skipped, but for an
\* error that ends the rows: the number of every packet of a result set, the terminator's
\* too, is lowered by the rows skipped before it (result_set.rs, HydrateRows).
NoGapInResultSet == \A i \in DOMAIN out : out[i].role # "err" => out[i].seq = i % SeqMod

\* How many of the packets before the i-th were skipped.
HiddenBefore(i) == Cardinality({j \in hidden : j < i})

\* Skipping removes rows and nothing else: the client gets every other packet, in
\* the order the server sent them, up to where the worker is.
OnlySkippedRowsMissing ==
    /\ \A i \in hidden : reply[i].role = "row"
    /\ Len(out) + acc.skipped = next - 1
    /\ \A i \in 1..(next - 1) :
        i \notin hidden => out[i - HiddenBefore(i)].role = reply[i].role

\* The replies the accumulator can follow to the end: not the error that refuses a
\* prepare, nor the answer to one without parameters, nor an error in the place of a
\* binary result set's terminator.
Followed ==
    /\ com = "StmtPrepare" => reply[1].role = "prepared" /\ reply[1].val[1] > 0
    /\ com = "StmtExecute" => \A i \in DOMAIN reply : reply[i].role # "err"

\* Each of them does put the connection back in the command phase: the worker does not
\* die of it and does not wait for packets the server will not send (process_result_set,
\* process_binary_result_set, process_stmt_prepare).
ReplyEnds == Followed => <>(phase = "Command")
=============================================================================
