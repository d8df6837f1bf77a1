---------------------------- MODULE ResponseProofs ----------------------------
(***************************************************************************)
(* Proofs about ResponseFlow, for every reply, however long, and whichever *)
(* of its rows are skipped: the numbers of what the client sees, where the *)
(* accumulator declares a reply over, and that rows only are missing.      *)
(***************************************************************************)
EXTENDS ResponseFlow, ResultSetProofs, FiniteSetTheorems

USE WireAssumption, ResponseFlowAssumption

-----------------------------------------------------------------------------
(* The numbers of what the client sees.                                    *)

\* No text row would pass for an OK packet or an error, as get_packet_type lets one whose
\* first column is empty do.
RowsAreSound == TextRows \subseteq Sound

\* A reply is numbered as the server numbers it; of a text command's, only an error has
\* an error's type, or an OK packet's that is not the whole reply.
ReplyOK ==
    /\ reply \in Seq(Packets)
    /\ \A i \in 1..Len(reply) : ~reply[i].skip /\ reply[i].seq = i % SeqMod
    /\ TextCom(com) =>
         \/ Len(reply) = 1
         \/ \A i \in 1..Len(reply) :
              TypeOf(reply[i]) \in {"Ok", "Error"} => reply[i].role = "err"

\* Every packet was forwarded or is a skipped row, and rows are skipped only where the
\* packets after them are renumbered.
Counted ==
    /\ Sane(acc) /\ acc.skipped \in Nat
    /\ next \in Nat \ {0}
    /\ out \in Seq(Packets)
    /\ Len(out) + acc.skipped = next - 1
    /\ acc.skipped > 0 => TextCom(com) /\ (phase = "Command" \/ acc.state = "HydrateRows")

FlowInv == ReplyOK /\ Counted /\ NoGapInResultSet

LEMMA InitialReply == ASSUME RowsAreSound, Init PROVE ReplyOK
<1>1. PICK n \in ColumnCounts :
        \E r \in Replies(com, n, TextRows, BinaryRows, MaxRows) : reply = Numbered(r)
  BY DEF Init
<1>2. PICK r \in Replies(com, n, TextRows, BinaryRows, MaxRows) : reply = Numbered(r)
  BY <1>1
<1>3. r \in Seq(Unskipped) /\ (TextCom(com) => r = <<OkPacket>> \/ r \in Seq(Sound))
  <2>1. n \in 1..250 /\ TextRows \subseteq Unskipped /\ BinaryRows \subseteq Unskipped
    BY DEF Unskipped
  <2> QED BY <1>2, <2>1, RepliesAreSound DEF RowsAreSound
<1>4. /\ reply \in Seq(Packets) /\ Len(reply) = Len(r)
      /\ \A i \in 1..Len(reply) :
           /\ ~reply[i].skip /\ reply[i].seq = i % SeqMod
           /\ TypeOf(reply[i]) = TypeOf(r[i]) /\ reply[i].role = r[i].role
  BY <1>2, <1>3, NumberedReply
<1>5. ASSUME TextCom(com), r \in Seq(Sound), NEW i \in 1..Len(reply),
             TypeOf(reply[i]) \in {"Ok", "Error"}
      PROVE  reply[i].role = "err"
  <2>1. r[i] \in Sound
    BY <1>4, <1>5
  <2> QED BY <1>4, <1>5, <2>1 DEF Sound
<1>6. r = <<OkPacket>> => Len(reply) = 1
  BY <1>4
<1> QED BY <1>3, <1>4, <1>5, <1>6 DEF ReplyOK

LEMMA PacketStep ==
    ASSUME FlowInv, ConsumePacket
    PROVE  FlowInv'
<1> USE DEF FlowInv
<1>1. PICK filtered \in Filters :
        LET step == Consume(acc, reply[next], com, filtered) IN
        \/ /\ step.panic
           /\ UNCHANGED <<acc, phase, out, next, hidden>>
        \/ /\ ~step.panic
           /\ acc' = step.acc
           /\ phase' = step.phase
           /\ out' = IF step.pkt.skip THEN out ELSE Append(out, step.pkt)
           /\ next' = next + 1
  BY DEF ConsumePacket
<1>2. ReplyOK'
  BY DEF ConsumePacket, ReplyOK
<1> DEFINE pkt  == reply[next]
           step == Consume(acc, pkt, com, filtered)
<1>3. CASE step.panic /\ UNCHANGED <<acc, phase, out, next, hidden>>
  BY <1>2, <1>3 DEF ConsumePacket, Counted, NoGapInResultSet
<1>4. CASE /\ ~step.panic
           /\ acc' = step.acc
           /\ phase' = step.phase
           /\ out' = IF step.pkt.skip THEN out ELSE Append(out, step.pkt)
           /\ next' = next + 1
  <2>1. /\ pkt \in Packets /\ ~pkt.skip /\ pkt.seq = next % SeqMod
        /\ TextCom(com) /\ next > 1 /\ TypeOf(pkt) \in {"Ok", "Error"} => pkt.role = "err"
    BY DEF ReplyOK, Counted, ConsumePacket
  <2>2. filtered \in BOOLEAN
    BY DEF Filters
  <2>3. Accounted(acc, pkt, com, filtered, step)
    <3>1. acc.skipped > 0 => TextCom(com) /\ acc.state = "HydrateRows"
      BY DEF Counted, ConsumePacket
    <3>2. Sane(acc) /\ acc.skipped \in Nat /\ DOMAIN pkt = PacketFields
      <4> HIDE DEF pkt
      <4> QED BY <2>1 DEF Counted, Packets, PacketFields
    <3> HIDE DEF pkt
    <3> QED BY <1>4, <2>2, <3>1, <3>2, ConsumeStep
  <2> HIDE DEF pkt, step
  <2> DEFINE added == IF step.pkt.skip THEN 1 ELSE 0
             n     == Len(out) + 1
  <2>4. /\ Sane(step.acc) /\ step.acc.skipped = acc.skipped + added
        /\ step.pkt \in Packets /\ step.pkt.role = pkt.role
    BY <2>1, <2>2, <2>3, AccountedPacket DEF Counted
  <2>5. /\ out' \in Seq(Packets) /\ Len(out') = Len(out) + (1 - added)
        /\ \A i \in 1..Len(out') : \/ i \in 1..Len(out) /\ out'[i] = out[i]
                                   \/ ~step.pkt.skip /\ i = n /\ out'[i] = step.pkt
    BY <1>4, <2>4 DEF Counted
  <2>6. com' = com
    BY DEF ConsumePacket
  <2>7. Counted'
    <3>1. step.acc.skipped > 0 =>
            TextCom(com) /\ (step.phase = "Command" \/ step.acc.state = "HydrateRows")
      BY <2>3 DEF Accounted, Rowed, Kept, Counted
    <3> QED BY <1>4, <2>4, <2>5, <2>6, <3>1 DEF Counted
  <2>8. ~step.pkt.skip => step.pkt.role = "err" \/ step.pkt.seq = n % SeqMod
    <3> SUFFICES ASSUME ~step.pkt.skip
                 PROVE  step.pkt.role = "err" \/ step.pkt.seq = n % SeqMod
      OBVIOUS
    <3>1. n = next - acc.skipped /\ acc.skipped \in Nat /\ next \in Nat \ {0} /\ n \in Nat
      BY DEF Counted
    <3>2. CASE Rowed(acc, pkt, filtered, step)
      <4>1. step.pkt.seq = ((next % SeqMod) - acc.skipped) % SeqMod
        <5>1. step.acc.skipped = acc.skipped
          BY <2>4, <3>1
        <5>2. step.pkt.seq = (pkt.seq - step.acc.skipped) % SeqMod
          <6> DEFINE s == (pkt.seq - step.acc.skipped) % SeqMod
                     k == step.pkt.skip
          <6>1. step.pkt = [pkt EXCEPT !.seq = s, !.skip = k] /\ "seq" \in DOMAIN pkt
            BY <2>1, <3>2 DEF Rowed, Packets
          <6> HIDE DEF s, k
          <6>2. step.pkt.seq = s
            BY <6>1
          <6> QED BY <6>2 DEF s
        <5>3. pkt.seq = next % SeqMod
          BY <2>1
        <5> QED BY <5>1, <5>2, <5>3
      <4>2. step.pkt.seq = (next - acc.skipped) % SeqMod
        <5>1. SeqMod \in Nat \ {0} /\ next \in Int /\ acc.skipped \in Int
          BY <3>1
        <5>2. ((next % SeqMod) - acc.skipped) % SeqMod = (next - acc.skipped) % SeqMod
          BY <5>1, WrapsAlike, Zenon
        <5> QED BY <4>1, <5>2
      <4> QED BY <3>1, <4>2
    <3>3. CASE Kept(acc, pkt, step) /\ acc.skipped = 0
      <4>1. step.pkt = pkt /\ n = next
        BY <3>1, <3>3 DEF Kept
      <4>2. pkt.seq = next % SeqMod
        BY <2>1
      <4> HIDE DEF n
      <4> QED BY <4>1, <4>2
    <3>4. CASE Kept(acc, pkt, step) /\ TypeOf(pkt) \in {"Ok", "Error"} /\ acc.skipped > 0
      <4>1. next > 1 /\ TextCom(com)
        BY <3>4 DEF Counted
      <4>2. step.pkt = pkt
        BY <3>4 DEF Kept
      <4> HIDE DEF n
      <4> QED BY <2>1, <3>4, <4>1, <4>2
    <3> QED BY <2>3, <3>1, <3>2, <3>3, <3>4 DEF Accounted
  <2>9. NoGapInResultSet'
    <3> SUFFICES ASSUME NEW i \in 1..Len(out'), out'[i].role # "err"
                 PROVE  out'[i].seq = i % SeqMod
      BY <2>5 DEF NoGapInResultSet
    <3>1. CASE i \in 1..Len(out) /\ out'[i] = out[i]
      BY <3>1 DEF NoGapInResultSet, Counted
    <3>2. CASE ~step.pkt.skip /\ i = n /\ out'[i] = step.pkt
      BY <2>8, <3>2
    <3> QED BY <2>5, <3>1, <3>2
  <2> QED BY <1>2, <2>7, <2>9
<1> QED BY <1>1, <1>3, <1>4

LEMMA FlowKept == ASSUME RowsAreSound PROVE Spec => []FlowInv
<1>1. Init => FlowInv
  <2> SUFFICES ASSUME Init PROVE FlowInv
    OBVIOUS
  <2>1. ReplyOK
    BY InitialReply
  <2>2. Counted /\ NoGapInResultSet
    BY DEF Init, NewAccumulator, Fields, Sane, AccStates, Counted, NoGapInResultSet
  <2> QED BY <2>1, <2>2 DEF FlowInv
<1>2. FlowInv /\ [Next]_vars => FlowInv'
  <2> SUFFICES ASSUME FlowInv, [Next]_vars PROVE FlowInv'
    OBVIOUS
  <2>1. CASE ConsumePacket
    BY <2>1, PacketStep
  <2>2. CASE UNCHANGED vars
    BY <2>2 DEF vars, FlowInv, ReplyOK, Counted, NoGapInResultSet
  <2> QED BY <2>1, <2>2 DEF Next, Settled
<1> QED BY <1>1, <1>2, PTL DEF Spec

\* Whatever the reply, however many of its rows are skipped and wherever they are, the
\* packets the client gets are numbered without a gap, wrapping as the header's byte
\* does, up to an error that ends the rows (result_set.rs, HydrateRows).
THEOREM NumbersHaveNoGap ==
    ASSUME RowsAreSound
    PROVE  Spec => []NoGapInResultSet
<1>1. FlowInv => NoGapInResultSet
  BY DEF FlowInv
<1> QED BY <1>1, FlowKept, PTL
-----------------------------------------------------------------------------
(* The end of a reply.                                                     *)

\* Rows look like rows: their first byte and length are no other packet's, but for a
\* binary row's, which may be an OK packet's.
RowsLookLikeRows ==
    /\ \A row \in TextRows : TypeOf(row) = "Other"
    /\ \A row \in BinaryRows : TypeOf(row) # "Eof"

LEMMA LookingIsSound == ASSUME RowsLookLikeRows PROVE RowsAreSound
BY DEF RowsLookLikeRows, RowsAreSound, Sound, Unskipped

\* A binary result set in which no numbers recur.
Short == com = "StmtExecute" => Len(reply) <= SeqMod

\* Where the accumulator is while packets are to come.
Underway ==
    /\ com \in {"Query", "FieldList"} => acc.state # "Complete"
    /\ com = "StmtPrepare" /\ Len(reply) > 1 =>
         \A p \in Nat, c \in Nat :
            Len(reply) = 1 + p + c /\ reply[1].val = <<p, c>> => Progress(acc, next - 1, p, c)

EndInv ==
    /\ Shape(com, reply)
    /\ Short /\ next <= Len(reply) => phase = "PendingResponse" /\ Underway

LEMMA EndInit == ASSUME DeprecateEof, RowsLookLikeRows, Init PROVE EndInv
<1>1. PICK n \in ColumnCounts :
        \E r \in Replies(com, n, TextRows, BinaryRows, MaxRows) : reply = Numbered(r)
  BY DEF Init
<1>2. PICK r \in Replies(com, n, TextRows, BinaryRows, MaxRows) : reply = Numbered(r)
  BY <1>1
<1>3. Shape(com, r) /\ r \in Seq(Unskipped)
  <2>1. n \in 1..250 /\ TextRows \subseteq Unskipped /\ BinaryRows \subseteq Unskipped
    BY DEF Unskipped
  <2>2. Shape(com, r)
    BY <1>2, <2>1, RepliesHaveShape DEF RowsLookLikeRows
  <2> QED BY <1>2, <2>1, <2>2, RepliesAreSound
<1>4. /\ Len(reply) = Len(r) /\ Len(r) \in Nat
      /\ \A i \in 1..Len(r) : TypeOf(reply[i]) = TypeOf(r[i]) /\ reply[i].val = r[i].val
  BY <1>2, <1>3, NumberedReply
<1>5. Shape(com, reply)
  <2>1. CASE Len(r) = 1
    BY <1>4, <2>1 DEF Shape
  <2>2. CASE /\ com \in {"Query", "FieldList"}
             /\ \A i \in 1..(Len(r) - 1) : TextRow(r[i])
    BY <1>4, <2>2 DEF Shape, TextRow
  <2>3. CASE /\ com = "StmtExecute" /\ Len(r) > 1 /\ TextRow(r[1])
             /\ \A i \in 1..(Len(r) - 1) : TypeOf(r[i]) # "Eof"
    BY <1>4, <2>3 DEF Shape, TextRow
  <2>4. CASE /\ com = "StmtPrepare"
             /\ \E p \in Nat, k \in Nat : Len(r) = 1 + p + k /\ r[1].val = <<p, k>>
    BY <1>4, <2>4 DEF Shape
  <2> QED BY <1>3, <2>1, <2>2, <2>3, <2>4 DEF Shape
<1>6. /\ next = 1 /\ phase = "PendingResponse"
      /\ acc.state = "Initiated" /\ acc.params = 0 /\ acc.columns = 0
  BY DEF Init, NewAccumulator
<1>7. Underway
  BY <1>6 DEF Underway, Progress
<1> QED BY <1>5, <1>6, <1>7 DEF EndInv

LEMMA EndStep ==
    ASSUME DeprecateEof, ~OptionalMetadata, FlowInv, EndInv, ConsumePacket
    PROVE  EndInv'
<1>1. PICK filtered \in Filters :
        LET step == Consume(acc, reply[next], com, filtered) IN
        \/ /\ step.panic
           /\ UNCHANGED <<acc, phase, out, next, hidden>>
        \/ /\ ~step.panic
           /\ acc' = step.acc
           /\ phase' = step.phase
           /\ next' = next + 1
  BY DEF ConsumePacket
<1>2. UNCHANGED <<com, reply>> /\ next <= Len(reply) /\ phase = "PendingResponse"
  BY DEF ConsumePacket
<1>3. /\ Sane(acc) /\ DOMAIN acc = Fields /\ next \in Nat \ {0} /\ Len(reply) \in Nat
      /\ \A i \in 1..Len(reply) : reply[i].seq = i % SeqMod
  BY DEF FlowInv, Counted, ReplyOK, Sane
<1> DEFINE pkt  == reply[next]
           step == Consume(acc, pkt, com, filtered)
<1>4. CASE step.panic /\ UNCHANGED <<acc, phase, out, next, hidden>>
  BY <1>2, <1>4 DEF EndInv, Short, Underway
<1>5. CASE /\ ~step.panic
           /\ acc' = step.acc
           /\ phase' = step.phase
           /\ next' = next + 1
  <2> SUFFICES ASSUME Short, next < Len(reply)
               PROVE  (phase = "PendingResponse" /\ Underway)'
    BY <1>2, <1>3, <1>5 DEF EndInv, Short
  <2>1. Underway
    BY <1>2 DEF EndInv
  <2>2. CASE /\ com \in {"Query", "FieldList"}
             /\ \A i \in 1..(Len(reply) - 1) : TextRow(reply[i])
    <3>1. TextRow(pkt) /\ acc.state # "Complete"
      BY <1>3, <2>1, <2>2 DEF Underway
    <3>2. Open(step)
      BY <1>3, <1>5, <2>2, <3>1, ConsumeOpen
    <3> HIDE DEF step
    <3> QED BY <1>2, <1>5, <2>2, <3>2 DEF Open, Underway
  <2>3. CASE /\ com = "StmtExecute" /\ TextRow(reply[1])
             /\ \A i \in 1..(Len(reply) - 1) : TypeOf(reply[i]) # "Eof"
    <3>1. TypeOf(pkt) # "Eof" /\ pkt.seq = next % SeqMod
      BY <1>3, <2>3
    <3>2. next \in 0..(SeqMod - 1)
      BY <1>3, <2>3 DEF Short
    <3>3. next % SeqMod = next
      BY <3>2, SmallRemainder
    <3>4. ~(pkt.seq = 1 /\ TypeOf(pkt) = "Ok")
      BY <2>3, <3>1, <3>3 DEF TextRow
    <3>5. step.phase = "PendingResponse"
      BY <1>5, <2>3, <3>1, <3>4, BinaryOpen
    <3> HIDE DEF step
    <3> QED BY <1>2, <1>5, <2>3, <3>5 DEF Underway
  <2>4. CASE com = "StmtPrepare"
    <3>1. step = StmtPrepare(acc, pkt)
      <4> HIDE DEF pkt
      <4> QED BY <2>4, ZenonT(30) DEF Consume
    <3> HIDE DEF step
    <3>2. ASSUME NEW p \in Nat, NEW c \in Nat,
                 Len(reply) = 1 + p + c, reply[1].val = <<p, c>>
          PROVE  step.phase = "PendingResponse" /\ Progress(step.acc, next, p, c)
      <4> DEFINE n == next - 1
      <4>1. n \in Nat /\ n < p + c /\ n + 1 = next
        BY <1>3, <3>2
      <4>2. Progress(acc, n, p, c)
        BY <1>3, <2>1, <2>4, <3>2 DEF Underway
      <4>3. n = 0 => pkt.val = <<p, c>>
        BY <1>3, <3>2
      <4> HIDE DEF n, pkt
      <4>4. /\ step.phase = "PendingResponse"
            /\ Progress(step.acc, n + 1, p, c)
        BY <1>3, <1>5, <3>1, <4>1, <4>2, <4>3, PrepareProgress
      <4> QED BY <4>1, <4>4
    <3>3. PICK p \in Nat, c \in Nat : Len(reply) = 1 + p + c /\ reply[1].val = <<p, c>>
      <4>1. Len(reply) # 1
        BY <1>3
      <4>2. com \notin {"Query", "FieldList"} /\ com # "StmtExecute"
        BY <2>4
      <4> QED BY <4>1, <4>2, ZenonT(30) DEF EndInv, Shape
    <3>4. phase' = "PendingResponse"
      BY <1>5, <3>2, <3>3
    <3>5. next' - 1 = next
      BY <1>3, <1>5
    <3> QED BY <1>2, <1>5, <2>4, <3>2, <3>4, <3>5 DEF Underway
  <2> QED BY <1>3, <2>2, <2>3, <2>4 DEF EndInv, Shape
<1> QED BY <1>1, <1>4, <1>5

\* Whatever the reply to whatever command, the accumulator puts the connection back in
\* the command phase at its last packet and at no other, for clients with DEPRECATE_EOF
\* and without OPTIONAL_RESULTSET_METADATA and for rows that look like rows; but for
\* binary result sets in which the numbers roll over (ResponseAccumulator::consume).
THEOREM EndsAtLastPacket ==
    ASSUME DeprecateEof, ~OptionalMetadata, RowsLookLikeRows
    PROVE  Spec => []EndsWithLastPacket
<1>1. Spec => []FlowInv
  BY LookingIsSound, FlowKept
<1>2. Init => EndInv
  BY EndInit
<1>3. FlowInv /\ EndInv /\ [Next]_vars => EndInv'
  <2> SUFFICES ASSUME FlowInv, EndInv, [Next]_vars PROVE EndInv'
    OBVIOUS
  <2>1. CASE ConsumePacket
    BY <2>1, EndStep
  <2>2. CASE UNCHANGED vars
    BY <2>2 DEF vars, EndInv, Short, Underway
  <2> QED BY <2>1, <2>2 DEF Next, Settled
<1>4. FlowInv /\ EndInv => EndsWithLastPacket
  <2> SUFFICES ASSUME FlowInv, EndInv PROVE EndsWithLastPacket
    OBVIOUS
  <2>1. next \in Nat /\ Len(reply) \in Nat
    BY DEF FlowInv, Counted, ReplyOK
  <2> QED BY <2>1 DEF EndInv, Short, EndsWithLastPacket, WholeReplyConsumed
<1> QED BY <1>1, <1>2, <1>3, <1>4, PTL DEF Spec
-----------------------------------------------------------------------------
(* What is skipped.                                                        *)

\* A result set: how many columns it has, then they, rows, and what ends them.
Outlined(r) ==
    /\ r[1].val \in 1..250
    /\ Len(r) <= r[1].val + MaxRows + 2
    /\ \A i \in 1..Len(r) :
         i > r[1].val + 1 /\ TypeOf(r[i]) = "Other" => r[i].role = "row" /\ i < Len(r)

\* Where the accumulator is in a text reply that has not ended.
Place ==
    \/ /\ next = 1 /\ acc.state = "Initiated"
       /\ acc.columns = 0 /\ acc.columnCount = 0
    \/ /\ com = "Query" /\ Outlined(reply)
       /\ acc.state = "HydrateColumns" /\ acc.columnCount = reply[1].val
       /\ acc.columns = next - 2 /\ acc.columns < acc.columnCount
    \/ /\ com = "Query" /\ Outlined(reply)
       /\ acc.state \in {"ColumnsHydrated", "HydrateRows"}
       /\ acc.skipped <= next - reply[1].val - 2
    \/ /\ com = "FieldList"
       /\ acc.state = "HydrateColumns" /\ acc.columnCount = 0 /\ acc.columns \in Nat

\* The packets before the i-th that were not skipped are in front of it.
Passed(i) ==
    /\ i - HiddenBefore(i) \in 1..Len(out)
    /\ out[i - HiddenBefore(i)].role = reply[i].role

SkipInv ==
    /\ com = "Query" => Outlined(reply) \/ TypeOf(reply[1]) \in {"Ok", "Error"}
    /\ TextCom(com) /\ phase = "PendingResponse" => Place
    /\ acc.skipped <= MaxRows
    /\ hidden \subseteq 1..(next - 1) /\ IsFiniteSet(hidden)
    /\ Cardinality(hidden) = acc.skipped
    /\ \A i \in hidden : reply[i].role = "row"
    /\ \A i \in (1..(next - 1)) \ hidden : Passed(i)

LEMMA ResultSetOutlined ==
    ASSUME DeprecateEof, NEW n \in 1..250, NEW r \in ResultSets(n, TextRows, MaxRows)
    PROVE  /\ r[1] = CountPacket(n) /\ Len(r) \in Nat /\ Len(r) <= n + MaxRows + 2
           /\ \A i \in 1..Len(r) :
                i > n + 1 /\ TypeOf(r[i]) = "Other" => r[i].role = "row" /\ i < Len(r)
<1>1. PICK rows \in Rows(TextRows, MaxRows), end \in {Terminator, ErrPacket} :
        r = <<CountPacket(n)>> \o Columns(n) \o EofIfKept \o rows \o <<end>>
  BY DEF ResultSets
<1> DEFINE S  == {CountPacket(n), ColumnPacket, end} \cup TextRows
           c  == <<CountPacket(n)>>
           s1 == c \o Columns(n)
           s  == s1 \o rows
<1>2. PICK k \in 0..MaxRows : rows \in [1..k -> TextRows]
  BY <1>1 DEF Rows
<1>3. /\ rows \in Seq(S) /\ Len(rows) = k
      /\ \A i \in 1..k : rows[i].role = "row"
  BY <1>2
<1>4. Columns(n) \in Seq(S) /\ Len(Columns(n)) = n
  BY DEF Columns
<1>5. c \in Seq(S) /\ Len(c) = 1 /\ c[1] = CountPacket(n) /\ <<end>> \in Seq(S)
  OBVIOUS
<1>6. TypeOf(end) # "Other"
  <2>1. {"mid", "short", "long"} \subseteq Sizes /\ {"err", "eof"} \subseteq Roles
    BY DEF Sizes, Roles
  <2>2. (end.first = 254 /\ end.size = "mid") \/ end.first = 255
    <3>1. Terminator.first = 254 /\ Terminator.size = "mid"
      BY <2>1, NewPacket DEF Terminator
    <3>2. ErrPacket.first = 255
      BY <2>1, NewPacket DEF ErrPacket
    <3> QED BY <1>1, <3>1, <3>2
  <2> HIDE DEF S
  <2>3. CASE end.first = 255
    <3>1. PacketType(end, "PendingResponse") = "Error"
      BY <2>3 DEF PacketType
    <3> QED BY <3>1 DEF TypeOf
  <2>4. CASE end.first = 254 /\ end.size = "mid"
    <3>1. PacketType(end, "PendingResponse") = "Eof"
      BY <2>4 DEF PacketType
    <3> QED BY <3>1 DEF TypeOf
  <2> QED BY <2>2, <2>3, <2>4
<1> HIDE DEF S, c
<1>7. s1 \in Seq(S) /\ Len(s1) = 1 + n /\ s1[1] = CountPacket(n)
  <2>1. Len(c) >= 1
    BY <1>5
  <2>2. /\ c \o Columns(n) \in Seq(S) /\ Len(c \o Columns(n)) = Len(c) + Len(Columns(n))
        /\ (c \o Columns(n))[1] = c[1]
    BY <1>4, <1>5, <2>1, FirstStays
  <2> QED BY <1>4, <1>5, <2>2
<1>8. r = s \o <<end>>
  <2>1. EofIfKept = <<>>
    BY DEF EofIfKept
  <2>2. s1 \o EofIfKept = s1
    BY <1>7, <2>1, ConcatEmptySeq
  <2> QED BY <1>1, <2>2 DEF c
<1> HIDE DEF s1
<1>9. /\ s \in Seq(S) /\ Len(s) = 1 + n + k
      /\ \A i \in 1..Len(s) : s[i] = IF i <= 1 + n THEN s1[i] ELSE rows[i - (1 + n)]
  BY <1>3, <1>7, ConcatProperties
<1>10. s[1] = CountPacket(n)
  <2>1. 1 \in 1..Len(s) /\ 1 <= 1 + n
    <3>1. Len(s) = 1 + n + k
      BY <1>9
    <3> HIDE DEF s
    <3> QED BY <1>2, <3>1
  <2> QED BY <1>7, <1>9, <2>1
<1>11. ASSUME NEW i \in 1..Len(s), i > n + 1
       PROVE  s[i].role = "row"
  <2>1. PICK j : j = i - (1 + n) /\ j \in 1..k
    BY <1>2, <1>9, <1>11
  <2>2. s[i] = rows[j]
    BY <1>2, <1>9, <1>11, <2>1
  <2>3. rows[j].role = "row"
    BY <1>3, <2>1, Zenon
  <2> QED BY <2>2, <2>3
<1> HIDE DEF s
<1>12. /\ Len(r) = Len(s) + 1
       /\ \A i \in 1..(Len(s) + 1) : r[i] = IF i <= Len(s) THEN s[i] ELSE <<end>>[i - Len(s)]
  <2>1. Len(<<end>>) = 1
    OBVIOUS
  <2> QED BY <1>5, <1>8, <1>9, <2>1, ConcatProperties
<1>13. /\ \A i \in 1..Len(s) : r[i] = s[i]
       /\ r[Len(s) + 1] = end
  BY <1>2, <1>9, <1>12
<1>14. r[1] = CountPacket(n)
  <2>1. 1 \in 1..Len(s)
    BY <1>2, <1>9
  <2> QED BY <1>10, <1>13, <2>1
<1>15. ASSUME NEW i \in 1..Len(r), i > n + 1, TypeOf(r[i]) = "Other"
       PROVE  r[i].role = "row" /\ i < Len(r)
  <2>1. i # Len(s) + 1
    BY <1>6, <1>13, <1>15
  <2>2. i \in 1..Len(s)
    BY <1>2, <1>9, <1>12, <2>1
  <2> QED BY <1>9, <1>11, <1>12, <1>13, <1>15, <2>2
<1>16. Len(r) \in Nat /\ Len(r) <= n + MaxRows + 2
  BY <1>2, <1>9, <1>12
<1> QED BY <1>14, <1>15, <1>16

LEMMA SkipInit == ASSUME DeprecateEof, RowsLookLikeRows, Init PROVE SkipInv
<1>1. PICK n \in ColumnCounts :
        \E r \in Replies(com, n, TextRows, BinaryRows, MaxRows) : reply = Numbered(r)
  BY DEF Init
<1>2. PICK r \in Replies(com, n, TextRows, BinaryRows, MaxRows) : reply = Numbered(r)
  BY <1>1
<1>3. n \in 1..250 /\ r \in Seq(Unskipped)
  <2>1. n \in 1..250 /\ TextRows \subseteq Unskipped /\ BinaryRows \subseteq Unskipped
    BY DEF Unskipped
  <2> QED BY <1>2, <2>1, RepliesAreSound
<1>4. /\ Len(reply) = Len(r)
      /\ \A i \in 1..Len(r) : /\ TypeOf(reply[i]) = TypeOf(r[i])
                              /\ reply[i].role = r[i].role /\ reply[i].val = r[i].val
  BY <1>2, <1>3, NumberedReply
<1>5. com = "Query" => Outlined(reply) \/ TypeOf(reply[1]) \in {"Ok", "Error"}
  <2>1. ASSUME r \in ResultSets(n, TextRows, MaxRows) PROVE Outlined(reply)
    <3>1. /\ r[1] = CountPacket(n) /\ Len(r) \in Nat /\ Len(r) <= n + MaxRows + 2
          /\ \A i \in 1..Len(r) :
               i > n + 1 /\ TypeOf(r[i]) = "Other" => r[i].role = "row" /\ i < Len(r)
      BY <1>3, <2>1, ResultSetOutlined
    <3>2. Len(r) # 0
      <4> DEFINE S == {ColumnPacket, CountPacket(n)} \cup TextRows
      <4>1. ColumnPacket \in S /\ CountPacket(n) \in S /\ TextRows \subseteq S
        OBVIOUS
      <4> HIDE DEF S
      <4>2. Len(r) > 1
        BY <1>3, <2>1, <4>1, ResultSetShape
      <4> QED BY <3>1, <4>2
    <3>3. CountPacket(n).val = n
      BY DEF CountPacket, Packet
    <3>4. reply[1].val = n
      BY <1>4, <3>1, <3>2, <3>3
    <3> QED BY <1>3, <1>4, <3>1, <3>4 DEF Outlined
  <2>2. ASSUME r = <<OkPacket>> \/ r = <<ErrPacket>>
        PROVE  TypeOf(reply[1]) \in {"Ok", "Error"}
    <3>1. {"mid", "long"} \subseteq Sizes /\ {"ok", "err"} \subseteq Roles
      BY DEF Sizes, Roles
    <3>2. OkPacket.first = 0 /\ OkPacket.size = "mid" /\ ErrPacket.first = 255
      BY <3>1, NewPacket DEF OkPacket, ErrPacket
    <3>3. TypeOf(OkPacket) = "Ok" /\ TypeOf(ErrPacket) = "Error"
      <4>1. PacketType(OkPacket, "PendingResponse") = "Ok"
        BY <3>2 DEF PacketType
      <4>2. PacketType(ErrPacket, "PendingResponse") = "Error"
        BY <3>2 DEF PacketType
      <4> QED BY <4>1, <4>2 DEF TypeOf
    <3>4. Len(r) = 1 /\ (r[1] = OkPacket \/ r[1] = ErrPacket)
      BY <2>2
    <3> QED BY <1>4, <3>3, <3>4
  <2> QED BY <1>2, <2>1, <2>2, ReplyCases
<1>6. /\ next = 1 /\ hidden = {} /\ acc.skipped = 0 /\ acc.state = "Initiated"
      /\ acc.columns = 0 /\ acc.columnCount = 0
  BY DEF Init, NewAccumulator
<1>7. IsFiniteSet(hidden) /\ Cardinality(hidden) = 0
  BY <1>6, FS_EmptySet
<1>8. Place
  BY <1>6 DEF Place
<1>9. acc.skipped <= MaxRows
  BY <1>6
<1>10. (1..(next - 1)) \ hidden = {} /\ hidden \subseteq 1..(next - 1)
  BY <1>6
<1> QED BY <1>5, <1>6, <1>7, <1>8, <1>9, <1>10 DEF SkipInv

\* Where a packet leaves the accumulator in a text reply that stays open.
LEMMA PlaceStep ==
    ASSUME DeprecateEof, FlowInv, SkipInv, TextCom(com), phase = "PendingResponse",
           next <= Len(reply), NEW filtered \in BOOLEAN, NEW step,
           step = Consume(acc, reply[next], com, filtered), ~step.panic,
           step.phase = "PendingResponse",
           acc' = step.acc, next' = next + 1, UNCHANGED <<com, reply>>,
           step.acc.skipped = acc.skipped + (IF step.pkt.skip THEN 1 ELSE 0)
    PROVE  /\ Place'
           /\ step.pkt.skip => /\ com = "Query" /\ Outlined(reply)
                               /\ reply[next].role = "row"
                               /\ acc.skipped < MaxRows
<1> DEFINE pkt == reply[next]
<1>1. /\ Sane(acc) /\ acc.skipped \in Nat /\ next \in Nat \ {0} /\ Len(reply) \in Nat
      /\ pkt \in Packets /\ ~pkt.skip
      /\ acc.skipped > 0 => acc.state = "HydrateRows"
  BY DEF FlowInv, Counted, ReplyOK
<1>2. Place /\ (com = "Query" => Outlined(reply) \/ TypeOf(reply[1]) \in {"Ok", "Error"})
  BY DEF SkipInv
<1>3. DOMAIN pkt = PacketFields
  <2> HIDE DEF pkt
  <2> QED BY <1>1 DEF Packets, PacketFields
<1>4. Continues(acc, pkt, com, filtered, step)
  <2> HIDE DEF pkt
  <2>1. step = Consume(acc, pkt, com, filtered)
    BY DEF pkt
  <2>2. ~Consume(acc, pkt, com, filtered).panic
    BY <2>1
  <2>3. Consume(acc, pkt, com, filtered).phase = "PendingResponse"
    BY <2>1
  <2> QED BY <1>1, <2>1, <2>2, <2>3, StaysOpen
<1>5. CASE /\ \/ com = "Query" /\ acc.state = "Initiated"
              \/ acc.state = "ColumnCount"
           /\ step = Pending(Counting(acc, pkt), pkt)
  <2>1. next = 1 /\ acc.state = "Initiated" /\ acc.columns = 0 /\ com = "Query"
    BY <1>2, <1>5 DEF Place
  <2>2. Outlined(reply)
    BY <1>2, <1>4, <2>1 DEF Continues
  <2>3. Counting(acc, pkt).state = "HydrateColumns" /\ Counting(acc, pkt).columns = 0
        /\ Counting(acc, pkt).columnCount = pkt.val
    <3> HIDE DEF pkt
    <3> QED BY <1>1, <2>1 DEF Counting, Sane, Fields
  <2>4. step.acc = Counting(acc, pkt) /\ step.pkt = pkt
    BY <1>5, PendingFields
  <2>5. Place'
    <3>1. pkt.val = reply[1].val /\ reply[1].val \in 1..250
      BY <2>1, <2>2 DEF Outlined
    <3>2. /\ acc'.state = "HydrateColumns" /\ acc'.columns = 0
          /\ acc'.columnCount = reply'[1].val
      BY <2>3, <2>4, <3>1
    <3>3. next' - 2 = 0 /\ acc'.columns < acc'.columnCount
      <4>1. next' = 2
        BY <2>1
      <4>2. 0 < reply[1].val
        <5>1. \A v \in 1..250 : 0 < v
          OBVIOUS
        <5> QED BY <3>1, <5>1
      <4> QED BY <3>2, <4>1, <4>2
    <3>4. com' = "Query" /\ Outlined(reply)'
      BY <2>1, <2>2 DEF Outlined
    <3> QED BY <3>2, <3>3, <3>4 DEF Place
  <2> QED BY <1>1, <2>4, <2>5
<1>6. CASE /\ \/ com = "FieldList" /\ acc.state = "Initiated"
              \/ acc.state = "HydrateColumns"
           /\ step = Pending(OneColumnMore(acc), pkt)
  <2> DEFINE n == acc.columns + 1
             s == IF n = acc.columnCount THEN "ColumnsHydrated" ELSE "HydrateColumns"
  <2>1. step.acc = OneColumnMore(acc) /\ step.pkt = pkt
    BY <1>6, PendingFields
  <2>2. acc'.state = s /\ acc'.columns = n /\ acc'.columnCount = acc.columnCount
    <3>1. OneColumnMore(acc) = [acc EXCEPT !.columns = n, !.state = s]
      BY DEF OneColumnMore
    <3> HIDE DEF n, s
    <3> QED BY <1>1, <2>1, <3>1 DEF Sane, Fields
  <2>3. acc.skipped = 0 /\ acc'.skipped = 0
    <3>1. acc.state # "HydrateRows"
      BY <1>6
    <3> QED BY <1>1, <2>1, <3>1
  <2>4. CASE com = "FieldList"
    <3>1. acc.columnCount = 0 /\ acc.columns \in Nat
      BY <2>4, <1>2 DEF Place
    <3>2. acc'.state = "HydrateColumns" /\ acc'.columnCount = 0 /\ acc'.columns \in Nat
      BY <2>2, <3>1
    <3>3. Place'
      BY <2>4, <3>2 DEF Place
    <3> QED BY <1>1, <2>1, <3>3
  <2>5. CASE com # "FieldList"
    <3>1. /\ com = "Query" /\ Outlined(reply) /\ acc.columnCount = reply[1].val
          /\ acc.columns = next - 2 /\ acc.columns < acc.columnCount
          /\ acc.state = "HydrateColumns"
      BY <1>2, <1>6, <2>5 DEF Place
    <3>2. reply[1].val \in 1..250
      BY <3>1 DEF Outlined
    <3>3. CASE n = acc.columnCount
      <4>1. acc'.state = "ColumnsHydrated" /\ acc'.skipped <= next' - reply'[1].val - 2
        BY <1>1, <2>2, <2>3, <3>1, <3>2, <3>3
      <4>2. com' = "Query" /\ Outlined(reply)'
        BY <3>1 DEF Outlined
      <4> QED BY <1>1, <2>1, <4>1, <4>2 DEF Place
    <3>4. CASE n # acc.columnCount
      <4>1. /\ acc'.state = "HydrateColumns" /\ acc'.columnCount = reply'[1].val
            /\ acc'.columns = next' - 2 /\ acc'.columns < acc'.columnCount
        <5> DEFINE v == reply[1].val
        <5>1. v \in 1..250 /\ acc.columnCount = v /\ acc.columns = next - 2 /\ acc.columns < v
          BY <3>1, <3>2
        <5>2. acc'.columns = acc.columns + 1 /\ acc'.columnCount = v /\ reply'[1].val = v
          BY <2>2, <5>1
        <5>3. acc'.state = "HydrateColumns" /\ acc.columns + 1 # v
          BY <2>2, <3>4, <5>1
        <5>4. next \in Nat /\ next' = next + 1
          BY <1>1
        <5>5. (acc.columns + 1) = (next' - 2) /\ acc.columns + 1 < v
          <6> HIDE DEF v
          <6> QED BY <5>1, <5>3, <5>4
        <5> HIDE DEF v
        <5> QED BY <5>2, <5>3, <5>5
      <4>2. com' = "Query" /\ Outlined(reply)'
        BY <3>1 DEF Outlined
      <4> QED BY <1>1, <2>1, <4>1, <4>2 DEF Place
    <3> QED BY <3>3, <3>4
  <2> QED BY <2>4, <2>5
<1>7. CASE /\ \/ acc.state \in {"ColumnsHydrated", "HydrateRows"}
              \/ com = "FieldList" /\ TypeOf(pkt) = "Eof"
           /\ step = HydrateRows(acc, pkt, filtered)
  <2>1. TypeOf(pkt) = "Other" /\ acc'.state = "HydrateRows"
    <3> HIDE DEF pkt
    <3>1. ~HydrateRows(acc, pkt, filtered).panic
      BY <1>7
    <3>2. /\ HydrateRows(acc, pkt, filtered).phase = "PendingResponse"
               <=> TypeOf(pkt) = "Other"
          /\ TypeOf(pkt) = "Other" =>
               HydrateRows(acc, pkt, filtered).acc.state = "HydrateRows"
      BY <1>1, <1>3, <3>1, OpenRow
    <3> QED BY <1>7, <3>2
  <2>2. acc.state \in {"ColumnsHydrated", "HydrateRows"}
    BY <1>7, <2>1
  <2>3. com = "Query" /\ Outlined(reply) /\ acc.skipped <= next - reply[1].val - 2
    BY <1>2, <2>2 DEF Place
  <2>4. /\ reply[1].val \in 1..250 /\ Len(reply) <= reply[1].val + MaxRows + 2
        /\ next > reply[1].val + 1 => pkt.role = "row" /\ next < Len(reply)
    BY <1>1, <2>1, <2>3 DEF Outlined
  <2> DEFINE v == reply[1].val
             k == acc.skipped
  <2>0. v \in 1..250 /\ k \in Nat /\ k <= next - v - 2 /\ Len(reply) <= v + MaxRows + 2
    BY <1>1, <2>3, <2>4
  <2>5. next > reply[1].val + 1
    <3> HIDE DEF k
    <3> SUFFICES next > v + 1
      OBVIOUS
    <3> HIDE DEF v
    <3> QED BY <1>1, <2>0
  <2>6. acc'.skipped <= next' - reply'[1].val - 2
    <3>1. acc'.skipped \in {k, k + 1} /\ reply'[1].val = v
      BY <1>1
    <3> HIDE DEF k, v
    <3> QED BY <1>1, <2>0, <3>1
  <2>7. Outlined(reply)'
    BY <2>3 DEF Outlined
  <2>8. Place'
    BY <2>1, <2>3, <2>6, <2>7 DEF Place
  <2>9. acc.skipped < MaxRows
    <3>1. next < Len(reply)
      BY <2>4, <2>5
    <3> SUFFICES k < MaxRows
      OBVIOUS
    <3> HIDE DEF k, v
    <3> QED BY <1>1, <2>0, <3>1
  <2> QED BY <2>3, <2>4, <2>5, <2>8, <2>9
<1> QED BY <1>4, <1>5, <1>6, <1>7 DEF Continues

LEMMA SkipStep ==
    ASSUME DeprecateEof, FlowInv, SkipInv, ConsumePacket
    PROVE  SkipInv'
<1>1. PICK filtered \in Filters :
        LET step == Consume(acc, reply[next], com, filtered) IN
        \/ /\ step.panic
           /\ UNCHANGED <<acc, phase, out, next, hidden>>
        \/ /\ ~step.panic
           /\ acc' = step.acc
           /\ phase' = step.phase
           /\ out' = IF step.pkt.skip THEN out ELSE Append(out, step.pkt)
           /\ hidden' = IF step.pkt.skip THEN hidden \cup {next} ELSE hidden
           /\ next' = next + 1
  BY DEF ConsumePacket
<1>2. UNCHANGED <<com, reply>> /\ next <= Len(reply) /\ phase = "PendingResponse"
  BY DEF ConsumePacket
<1> DEFINE pkt  == reply[next]
           step == Consume(acc, pkt, com, filtered)
<1>3. CASE step.panic /\ UNCHANGED <<acc, phase, out, next, hidden>>
  BY <1>2, <1>3 DEF SkipInv, Place, Outlined, Passed, HiddenBefore
<1>4. CASE /\ ~step.panic
           /\ acc' = step.acc
           /\ phase' = step.phase
           /\ out' = IF step.pkt.skip THEN out ELSE Append(out, step.pkt)
           /\ hidden' = IF step.pkt.skip THEN hidden \cup {next} ELSE hidden
           /\ next' = next + 1
  <2>1. /\ Sane(acc) /\ acc.skipped \in Nat /\ next \in Nat \ {0} /\ Len(reply) \in Nat
        /\ pkt \in Packets /\ ~pkt.skip
        /\ out \in Seq(Packets) /\ Len(out) + acc.skipped = next - 1
        /\ acc.skipped > 0 => TextCom(com) /\ acc.state = "HydrateRows"
    BY <1>2 DEF FlowInv, Counted, ReplyOK
  <2>2. filtered \in BOOLEAN
    BY DEF Filters
  <2>3. DOMAIN pkt = PacketFields
    <3> HIDE DEF pkt
    <3> QED BY <2>1 DEF Packets, PacketFields
  <2>4. Accounted(acc, pkt, com, filtered, step)
    <3> HIDE DEF pkt
    <3> QED BY <1>4, <2>1, <2>2, <2>3, ConsumeStep
  <2>5. step = Consume(acc, reply[next], com, filtered)
    OBVIOUS
  <2> DEFINE skips == step.pkt.skip
  <2> HIDE DEF pkt, step
  <2>6. /\ step.acc.skipped = acc.skipped + (IF skips THEN 1 ELSE 0)
        /\ step.pkt \in Packets /\ step.pkt.role = pkt.role
    BY <2>1, <2>2, <2>4, AccountedPacket
  <2>7. skips => TextCom(com) /\ step.phase = "PendingResponse"
    BY <2>1, <2>4 DEF Accounted, Rowed, Kept
  <2>8. ASSUME TextCom(com), step.phase = "PendingResponse"
        PROVE  /\ Place'
               /\ skips => /\ com = "Query" /\ Outlined(reply)
                           /\ reply[next].role = "row"
                           /\ acc.skipped < MaxRows
    BY <1>2, <1>4, <2>2, <2>5, <2>6, <2>8, PlaceStep
  <2>9. /\ hidden \subseteq 1..(next - 1) /\ IsFiniteSet(hidden)
        /\ Cardinality(hidden) = acc.skipped /\ acc.skipped <= MaxRows
        /\ \A i \in hidden : reply[i].role = "row"
        /\ \A i \in (1..(next - 1)) \ hidden : Passed(i)
    BY DEF SkipInv
  <2>10. acc'.skipped <= MaxRows
    BY <1>4, <2>1, <2>6, <2>7, <2>8, <2>9
  <2>11. hidden' \subseteq 1..(next' - 1)
    <3>1. hidden' \subseteq hidden \cup {next}
      BY <1>4
    <3>2. \A j \in 1..(next - 1) : j \in 1..next
      BY <2>1
    <3>3. next \in 1..next /\ next' - 1 = next
      BY <1>4, <2>1
    <3> QED BY <2>9, <3>1, <3>2, <3>3
  <2>12. IsFiniteSet(hidden') /\ Cardinality(hidden') = acc'.skipped
    <3>1. next \notin hidden
      BY <2>1, <2>9
    <3>2. IsFiniteSet(hidden \cup {next}) /\ Cardinality(hidden \cup {next}) = acc.skipped + 1
      <4>1. IsFiniteSet(hidden) /\ Cardinality(hidden) = acc.skipped
        BY <2>9
      <4>2. /\ IsFiniteSet(hidden \cup {next})
            /\ Cardinality(hidden \cup {next}) =
                 IF next \in hidden THEN Cardinality(hidden) ELSE Cardinality(hidden) + 1
        BY <4>1, FS_AddElement
      <4> QED BY <3>1, <4>1, <4>2
    <3> QED BY <1>4, <2>1, <2>6, <2>9, <3>2
  <2>13. \A i \in hidden' : reply'[i].role = "row"
    BY <1>2, <1>4, <2>7, <2>8, <2>9
  <2>14. ASSUME NEW i \in (1..(next' - 1)) \ hidden'
         PROVE  Passed(i)'
    <3>1. i \in 1..next /\ i \notin hidden
      BY <1>4, <2>1
    <3>2. /\ out' \in Seq(Packets)
          /\ \A k \in 1..Len(out) : k \in 1..Len(out') /\ out'[k] = out[k]
          /\ ~skips => /\ Len(out) + 1 \in 1..Len(out')
                       /\ out'[Len(out) + 1] = step.pkt
      BY <1>4, <2>1, <2>6
    <3>3. {j \in hidden' : j < i} = {j \in hidden : j < i}
      BY <1>4, <2>1, <3>1
    <3> DEFINE H == HiddenBefore(i)
    <3>4. HiddenBefore(i)' = H
      BY <3>3 DEF HiddenBefore
    <3>5. CASE i < next
      <4>1. i - H \in 1..Len(out) /\ out[i - H].role = reply[i].role
        <5>1. i \in (1..(next - 1)) \ hidden
          BY <2>1, <3>1, <3>5
        <5> QED BY <2>9, <5>1 DEF Passed
      <4> HIDE DEF H
      <4> DEFINE k == i - H
      <4>2. k \in 1..Len(out') /\ out'[k].role = reply[i].role
        <5> HIDE DEF k
        <5>1. k \in 1..Len(out) /\ out[k].role = reply[i].role
          BY <4>1 DEF k
        <5> QED BY <3>2, <5>1
      <4> QED BY <1>2, <3>4, <4>2 DEF Passed
    <3>6. CASE i = next
      <4>1. {j \in hidden : j < i} = hidden
        <5>1. \A j \in 1..(next - 1) : j < next
          BY <2>1
        <5> QED BY <2>9, <3>6, <5>1
      <4>2. H = acc.skipped
        BY <2>9, <4>1 DEF HiddenBefore
      <4>3. i - H = Len(out) + 1
        <5> HIDE DEF H
        <5> QED BY <2>1, <3>6, <4>2
      <4>4. ~skips
        BY <1>4, <3>6
      <4> HIDE DEF H
      <4> DEFINE k == i - H
      <4>5. k \in 1..Len(out') /\ out'[k].role = reply[i].role
        <5> HIDE DEF k
        <5>1. k = Len(out) + 1
          BY <4>3 DEF k
        <5>2. reply[i] = pkt
          BY <3>6 DEF pkt
        <5> QED BY <2>6, <3>2, <4>4, <5>1, <5>2
      <4> QED BY <1>2, <3>4, <4>5 DEF Passed
    <3> QED BY <2>1, <3>1, <3>5, <3>6
  <2>15. (com = "Query" => Outlined(reply) \/ TypeOf(reply[1]) \in {"Ok", "Error"})'
    BY <1>2 DEF SkipInv, Outlined
  <2>16. (TextCom(com) /\ phase = "PendingResponse" => Place)'
    BY <1>2, <1>4, <2>8
  <2> QED BY <2>10, <2>11, <2>12, <2>13, <2>14, <2>15, <2>16 DEF SkipInv
<1> QED BY <1>1, <1>3, <1>4

LEMMA SkipKept ==
    ASSUME DeprecateEof, RowsLookLikeRows
    PROVE  Spec => [](FlowInv /\ SkipInv)
<1>1. Spec => []FlowInv
  BY LookingIsSound, FlowKept
<1>2. Init => SkipInv
  BY SkipInit
<1>3. FlowInv /\ SkipInv /\ [Next]_vars => SkipInv'
  <2> SUFFICES ASSUME FlowInv, SkipInv, [Next]_vars PROVE SkipInv'
    OBVIOUS
  <2>1. CASE ConsumePacket
    BY <2>1, SkipStep
  <2>2. CASE UNCHANGED vars
    BY <2>2 DEF vars, SkipInv, Place, Outlined, Passed, HiddenBefore
  <2> QED BY <2>1, <2>2 DEF Next, Settled
<1> QED BY <1>1, <1>2, <1>3, PTL DEF Spec

\* Whatever the reply and whichever of its rows are skipped, the client gets every other
\* packet of it, in the order the server sent them, for clients with DEPRECATE_EOF and
\* rows that look like rows (result_set.rs, HydrateRows; ResponseAccumulator::consume).
THEOREM OnlyRowsAreMissing ==
    ASSUME DeprecateEof, RowsLookLikeRows
    PROVE  Spec => []OnlySkippedRowsMissing
<1>1. FlowInv /\ SkipInv => OnlySkippedRowsMissing
  <2> SUFFICES ASSUME FlowInv, SkipInv PROVE OnlySkippedRowsMissing
    OBVIOUS
  <2>1. \A i \in hidden : reply[i].role = "row"
    BY DEF SkipInv
  <2>2. Len(out) + acc.skipped = next - 1
    BY DEF FlowInv, Counted
  <2>3. \A i \in 1..(next - 1) :
          i \notin hidden => out[i - HiddenBefore(i)].role = reply[i].role
    BY DEF SkipInv, Passed
  <2> QED BY <2>1, <2>2, <2>3 DEF OnlySkippedRowsMissing
<1> QED BY <1>1, SkipKept, PTL

\* The bounds of the counts and indices in every state of every reply: no more rows are
\* counted as skipped than there are, and nothing is forwarded ahead of the server.
THEOREM TypeCorrect ==
    ASSUME DeprecateEof, RowsLookLikeRows
    PROVE  Spec => []TypeOK
<1> DEFINE Rest == /\ com \in Coms /\ next <= Len(reply) + 1
                   /\ phase \in ReplyPhases /\ fate \in {"running", "panicked"}
<1>1. Spec => [](FlowInv /\ SkipInv)
  BY SkipKept
<1>2. Init => Rest
  <2> SUFFICES ASSUME Init PROVE Rest
    OBVIOUS
  <2>1. reply \in Seq(Packets)
    BY LookingIsSound, InitialReply DEF ReplyOK
  <2>2. com \in Coms /\ phase \in ReplyPhases /\ fate \in {"running", "panicked"}
    BY DEF Init, ReplyPhases
  <2>3. next <= Len(reply) + 1
    BY <2>1 DEF Init
  <2> QED BY <2>2, <2>3
<1>3. FlowInv /\ Rest /\ [Next]_vars => Rest'
  <2> SUFFICES ASSUME FlowInv, Rest, [Next]_vars PROVE Rest'
    OBVIOUS
  <2>1. CASE ConsumePacket
    <3>1. PICK filtered \in Filters :
            LET step == Consume(acc, reply[next], com, filtered) IN
            \/ step.panic /\ fate' = "panicked" /\ UNCHANGED <<phase, next>>
            \/ /\ ~step.panic /\ phase' = step.phase
               /\ next' = next + 1 /\ UNCHANGED fate
      BY <2>1 DEF ConsumePacket
    <3> DEFINE pkt  == reply[next]
               step == Consume(acc, pkt, com, filtered)
    <3>2. /\ UNCHANGED <<com, reply>> /\ next <= Len(reply)
          /\ next \in Nat \ {0} /\ Len(reply) \in Nat /\ pkt \in Packets
          /\ Sane(acc) /\ acc.skipped \in Nat /\ filtered \in BOOLEAN
          /\ acc.skipped > 0 => TextCom(com) /\ acc.state = "HydrateRows"
      <4>1. /\ UNCHANGED <<com, reply>> /\ next <= Len(reply) /\ phase = "PendingResponse"
            /\ filtered \in BOOLEAN
        BY <2>1 DEF ConsumePacket, Filters
      <4>2. /\ next \in Nat \ {0} /\ Len(reply) \in Nat /\ pkt \in Packets
            /\ Sane(acc) /\ acc.skipped \in Nat
        BY <4>1 DEF FlowInv, Counted, ReplyOK
      <4>3. acc.skipped > 0 => TextCom(com) /\ acc.state = "HydrateRows"
        BY <4>1 DEF FlowInv, Counted
      <4> HIDE DEF pkt
      <4> QED BY <4>1, <4>2, <4>3
    <3>3. CASE step.panic /\ fate' = "panicked" /\ UNCHANGED <<phase, next>>
      BY <3>2, <3>3
    <3>4. CASE ~step.panic /\ phase' = step.phase /\ next' = next + 1 /\ UNCHANGED fate
      <4>1. DOMAIN pkt = PacketFields
        <5> HIDE DEF pkt
        <5> QED BY <3>2 DEF Packets, PacketFields
      <4>2. Accounted(acc, pkt, com, filtered, step)
        <5> HIDE DEF pkt
        <5> QED BY <3>2, <3>4, <4>1, ConsumeStep
      <4> HIDE DEF pkt, step
      <4>3. step.phase \in ReplyPhases
        BY <4>2 DEF Accounted, Rowed, Kept
      <4> QED BY <3>2, <3>4, <4>3
    <3> QED BY <3>1, <3>3, <3>4
  <2>2. CASE UNCHANGED vars
    BY <2>2 DEF vars
  <2> QED BY <2>1, <2>2 DEF Next, Settled
<1>4. FlowInv /\ SkipInv /\ Rest => TypeOK
  <2> SUFFICES ASSUME FlowInv, SkipInv, Rest PROVE TypeOK
    OBVIOUS
  <2>1. /\ next \in Nat \ {0} /\ acc.skipped \in Nat /\ Len(reply) \in Nat
        /\ Len(out) + acc.skipped = next - 1 /\ Len(out) \in Nat
        /\ acc.state \in AccStates
    BY DEF FlowInv, Counted, ReplyOK, Sane
  <2>2. acc.skipped <= MaxRows /\ hidden \subseteq 1..(next - 1)
    BY DEF SkipInv
  <2>3. acc.skipped \in 0..MaxRows /\ next \in 1..(Len(reply) + 1) /\ Len(out) < next
    BY <2>1, <2>2
  <2> QED BY <2>1, <2>2, <2>3 DEF TypeOK, ReplyPhases
<1> HIDE DEF Rest
<1> QED BY <1>1, <1>2, <1>3, <1>4, PTL DEF Spec
=============================================================================
