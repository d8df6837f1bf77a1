---------------------------- MODULE ExchangeProofs ----------------------------
(***************************************************************************)
(* Proofs about Exchange.  For every client, server and build: what the    *)
(* worker and the wires hold has its type, and a command under way is the  *)
(* one the client asked under its number.                                  *)
(***************************************************************************)
EXTENDS Exchange, ResultSetProofs

USE WireAssumption

-----------------------------------------------------------------------------
(* What is on the wires.                                                   *)

\* Rows look like rows: their first byte and length are no other packet's.
RowsLookLikeRows == \A row \in TextRows : TypeOf(row) = "Other"

\* What a packet's role says of its bytes.
Kind(pkt) ==
    /\ pkt.role = "ok"       => pkt.first = 0 /\ pkt.size = "mid" /\ pkt.okLike
    /\ pkt.role = "err"      => pkt.first = 255
    /\ pkt.role = "authMore" => pkt.first = 1 /\ pkt.val = 3
    /\ pkt.role = "authAsk"  => pkt.first = 254 \/ (pkt.first = 1 /\ pkt.val = 4)
    /\ pkt.role = "command"  => pkt.first = 3 /\ pkt.val \in Commands
    /\ pkt.role = "count"    => pkt.first = 1 /\ pkt.val = 1
    /\ pkt.role = "col"      => pkt.first = 3
    /\ pkt.role = "eof"      => pkt.first = 254 /\ pkt.size # "long" /\ ~pkt.more
                                /\ (DeprecateEof => pkt.size = "mid")
    /\ pkt.role = "row" /\ RowsLookLikeRows => TypeOf(pkt) = "Other"

Values == Int \cup (Int \X Int) \cup Commands

AllRoles == Roles \cup {"greeting", "sslRequest", "hello", "response", "authData", "authMore",
                        "authAsk", "command"}

Frames ==
    [role : AllRoles, first : Int, size : Sizes, seq : Nat, val : Values,
     more : BOOLEAN, okLike : BOOLEAN, metadata : BOOLEAN, type : Types, skip : {FALSE}]

Wire == {p \in Frames : Kind(p)}

\* A message belongs to no command or to one that was asked; a message with a command has
\* the one the client asked under its number.
Letters(cmds) ==
    {m \in [pkt : Wire, cmd : 0..Len(cmds), last : BOOLEAN] :
        m.pkt.role = "command" => m.cmd \in 1..Len(cmds) /\ m.pkt.val = cmds[m.cmd]}

MailOK == {frame, outgoing, c2p, p2c, p2s, s2p} \subseteq Seq(Letters(asked))

TypeInv == TypeOK /\ MailOK /\ Sane(acc) /\ acc.skipped = 0

\* What the two ends make.
LEMMA NewWire ==
    ASSUME NEW role \in AllRoles, NEW first \in Int, NEW size \in Sizes,
           Kind(Packet(role, first, size))
    PROVE  Packet(role, first, size) \in Wire
BY DEF Packet, Wire, Frames, Types, Values

LEMMA Renumbered ==
    ASSUME NEW p \in Wire, NEW n \in Nat, NEW q, q = [p EXCEPT !.seq = n]
    PROVE  /\ q \in Wire /\ q.seq = n
           /\ q.role = p.role /\ q.val = p.val /\ q.first = p.first /\ q.type = p.type
<1>1. /\ q.role = p.role /\ q.first = p.first /\ q.size = p.size /\ q.seq = n /\ q.val = p.val
      /\ q.more = p.more /\ q.okLike = p.okLike /\ q.type = p.type /\ q.skip = p.skip
  BY DEF Wire, Frames
<1>2. TypeOf(q) = TypeOf(p)
  BY <1>1, Zenon DEF TypeOf, PacketType
<1>3. Kind(q)
  BY <1>1, <1>2 DEF Kind, Wire, Frames
<1> QED BY <1>1, <1>3 DEF Wire, Frames

LEMMA WithValue ==
    ASSUME NEW p \in Frames, NEW v \in Values, NEW q, q = [p EXCEPT !.val = v]
    PROVE  q \in Frames /\ q.role = p.role /\ q.first = p.first /\ q.val = v
BY DEF Frames

LEMMA AloneOf ==
    ASSUME NEW pkt \in Wire, pkt.role # "command", NEW cmds, Len(cmds) \in Nat
    PROVE  Alone(pkt) \in Seq(Letters(cmds))
<1> DEFINE m == Message(pkt, 0, TRUE)
           S == Letters(cmds)
<1>1. m \in S
  BY DEF Message, Letters
<1>2. Alone(pkt) = <<m>>
  BY DEF Alone
<1> HIDE DEF m, S
<1>3. Alone(pkt) \in Seq(S)
  BY <1>1, <1>2
<1> QED BY <1>3 DEF S

LEMMA WirePackets ==
    /\ {OkPacket, ErrPacket, ColumnPacket, CountPacket(1), Terminator} \subseteq Wire
    /\ {SslRequest, Hello, LoginData, AuthData, Packet("greeting", 10, "long"),
        Packet("authAsk", 254, "long")} \subseteq Wire
    /\ [Packet("authMore", 1, "short") EXCEPT !.val = 3] \in Wire
    /\ [Packet("authAsk", 1, "short") EXCEPT !.val = 4] \in Wire
    /\ \A c \in Commands : CommandPacket(c) \in Wire
<1>1. {"short", "mid", "long"} = Sizes
  BY DEF Sizes
<1>2. AllRoles = {"ok", "err", "prepared", "count", "col", "row", "eof", "greeting", "sslRequest",
                  "hello", "response", "authData", "authMore", "authAsk", "command"}
  BY DEF AllRoles, Roles
<1>3. OkPacket \in Wire
  BY <1>1, <1>2 DEF OkPacket, Packet, Wire, Frames, Types, Values, Kind
<1>4. ErrPacket \in Wire
  BY <1>1, <1>2 DEF ErrPacket, Packet, Wire, Frames, Types, Values, Kind
<1>5. ColumnPacket \in Wire
  BY <1>1, <1>2 DEF ColumnPacket, Packet, Wire, Frames, Types, Values, Kind
<1>6. CountPacket(1) \in Wire
  BY <1>1, <1>2 DEF CountPacket, Packet, Wire, Frames, Types, Values, Kind
<1>7. Terminator \in Wire
  BY <1>1, <1>2 DEF Terminator, EofPacket, Packet, Wire, Frames, Types, Values, Kind
<1>8. SslRequest \in Wire
  <2>1. Packet("sslRequest", 5, "long") \in Wire
    BY <1>1, <1>2 DEF Packet, Wire, Frames, Types, Values, Kind
  <2> QED BY <2>1, Renumbered DEF SslRequest
<1>9. Hello \in Wire
  BY <1>1, <1>2 DEF Hello, Packet, Wire, Frames, Types, Values, Kind
<1>10. LoginData \in Wire
  <2>1. Packet("response", 5, "long") \in Wire
    BY <1>1, <1>2 DEF Packet, Wire, Frames, Types, Values, Kind
  <2> QED BY <2>1, Renumbered DEF LoginData
<1>11. AuthData \in Wire
  <2>1. Packet("authData", 9, "long") \in Wire
    BY <1>1, <1>2 DEF Packet, Wire, Frames, Types, Values, Kind
  <2> QED BY <2>1, Renumbered DEF AuthData
<1>12. Packet("greeting", 10, "long") \in Wire
  BY <1>1, <1>2 DEF Packet, Wire, Frames, Types, Values, Kind
<1>13. Packet("authAsk", 254, "long") \in Wire
  BY <1>1, <1>2 DEF Packet, Wire, Frames, Types, Values, Kind
<1>14. [Packet("authMore", 1, "short") EXCEPT !.val = 3] \in Wire
  <2> DEFINE p == Packet("authMore", 1, "short")
         q == [Packet("authMore", 1, "short") EXCEPT !.val = 3]
  <2>1. p \in Frames /\ p.role = "authMore" /\ p.first = 1
    BY <1>1, <1>2 DEF Packet, Frames, Types, Values
  <2>2. 3 \in Values /\ q = [p EXCEPT !.val = 3]
    BY DEF Values
  <2> HIDE DEF p, q
  <2>3. q \in Frames /\ q.role = "authMore" /\ q.first = 1 /\ q.val = 3
    BY <2>1, <2>2, WithValue
  <2>4. q \in Wire
    BY <2>3 DEF Wire, Kind
  <2> QED BY <2>4 DEF q
<1>15. [Packet("authAsk", 1, "short") EXCEPT !.val = 4] \in Wire
  <2> DEFINE p == Packet("authAsk", 1, "short")
         q == [Packet("authAsk", 1, "short") EXCEPT !.val = 4]
  <2>1. p \in Frames /\ p.role = "authAsk" /\ p.first = 1
    BY <1>1, <1>2 DEF Packet, Frames, Types, Values
  <2>2. 4 \in Values /\ q = [p EXCEPT !.val = 4]
    BY DEF Values
  <2> HIDE DEF p, q
  <2>3. q \in Frames /\ q.role = "authAsk" /\ q.first = 1 /\ q.val = 4
    BY <2>1, <2>2, WithValue
  <2>4. q \in Wire
    BY <2>3 DEF Wire, Kind
  <2> QED BY <2>4 DEF q
<1>16. ASSUME NEW c \in Commands PROVE CommandPacket(c) \in Wire
  <2> DEFINE p == Packet("command", 3, "long")
         q == CommandPacket(c)
  <2>1. p \in Frames /\ p.role = "command" /\ p.first = 3
    BY <1>1, <1>2 DEF Packet, Frames, Types, Values
  <2>2. c \in Values /\ q = [p EXCEPT !.val = c]
    BY DEF Values, CommandPacket
  <2> HIDE DEF p, q
  <2>3. q \in Frames /\ q.role = "command" /\ q.first = 3 /\ q.val = c
    BY <2>1, <2>2, WithValue
  <2>4. q \in Wire
    BY <2>3 DEF Wire, Kind
  <2> QED BY <2>4 DEF q
<1> QED BY <1>3, <1>4, <1>5, <1>6, <1>7, <1>8, <1>9, <1>10, <1>11, <1>12, <1>13, <1>14,
           <1>15, <1>16

LEMMA RowsOnWire == TextRows \subseteq Wire
<1> SUFFICES ASSUME NEW p \in TextRows PROVE p \in Wire
  OBVIOUS
<1>1. p \in Packets /\ p.role = "row" /\ p.seq \in Nat /\ p.skip = FALSE
  BY ExchangeAssumption DEF Packets
<1>2. p \in Frames
  BY <1>1 DEF Packets, Frames, AllRoles, Values
<1>3. Kind(p)
  BY <1>1 DEF Kind, RowsLookLikeRows
<1> QED BY <1>2, <1>3 DEF Wire

LEMMA PreparesOnWire ==
    ASSUME NEW p \in Nat, NEW c \in Nat
    PROVE  PrepareOk(p, c) \in Wire
<1> DEFINE b == Packet("prepared", 0, "long")
           v == <<p, c>>
           q == PrepareOk(p, c)
<1>1. b \in Frames /\ b.role = "prepared"
  BY DEF Packet, Frames, Types, Values, AllRoles, Roles, Sizes
<1>2. v \in Values /\ q = [b EXCEPT !.val = v]
  BY DEF Values, PrepareOk
<1> HIDE DEF b, v, q
<1>3. q \in Frames /\ q.role = "prepared"
  BY <1>1, <1>2, WithValue
<1>4. q \in Wire
  BY <1>3 DEF Wire, Kind
<1> QED BY <1>4 DEF q

\* A reply to a command is made of packets of the command phase.
Answers == {p \in Wire : p.role \in Roles}

LEMMA RepliesOnWire ==
    ASSUME NEW cm, NEW r \in Replies(cm, 1, TextRows, {}, MaxRows)
    PROVE  r \in Seq(Answers) /\ r \in Seq(Wire) /\ \A i \in 1..Len(r) : r[i].role \in Roles
<1>1. {OkPacket, ErrPacket, ColumnPacket, CountPacket(1), Terminator} \subseteq Answers
  <2>1. /\ OkPacket.role = "ok" /\ ErrPacket.role = "err" /\ ColumnPacket.role = "col"
        /\ CountPacket(1).role = "count" /\ Terminator.role = "eof"
    BY DEF OkPacket, ErrPacket, ColumnPacket, CountPacket, Terminator, EofPacket, Packet
  <2> QED BY <2>1, WirePackets DEF Answers, Roles
<1>2. EofIfKept \in Seq(Answers)
  <2>1. EofIfKept = IF DeprecateEof THEN <<>> ELSE <<Terminator>>
    BY DEF EofIfKept, Terminator
  <2> QED BY <1>1, <2>1
<1>3. \A p \in Nat, c \in Nat : PrepareOk(p, c) \in Answers
  BY PreparesOnWire DEF Answers, PrepareOk, Packet, Roles
<1>4. TextRows \subseteq Answers
  BY RowsOnWire, ExchangeAssumption DEF Answers, Roles
<1>5. r \in Seq(Answers)
  <2>1. 1 \in 1..250 /\ {} \subseteq Answers
    OBVIOUS
  <2> QED BY <1>1, <1>2, <1>3, <1>4, <2>1, RepliesOf, ExchangeAssumption
<1> QED BY <1>5 DEF Answers

\* A reply is numbered and sent as one batch, its last packet marked.
LEMMA Batched ==
    ASSUME NEW r \in Seq(Wire), \A i \in 1..Len(r) : r[i].role # "command",
           NEW cmds, Len(cmds) \in Nat, NEW cmd \in 0..Len(cmds)
    PROVE  /\ Batch(Numbered(r), cmd) \in Seq(Letters(cmds))
           /\ Len(Batch(Numbered(r), cmd)) = Len(r)
           /\ \A i \in 1..Len(r) :
                /\ Batch(Numbered(r), cmd)[i].pkt.role = r[i].role
                /\ Batch(Numbered(r), cmd)[i].pkt.seq = i % SeqMod
                /\ Batch(Numbered(r), cmd)[i].cmd = cmd
                /\ Batch(Numbered(r), cmd)[i].last <=> i = Len(r)
<1> DEFINE q(i) == [r[i] EXCEPT !.seq = i % SeqMod]
           e(i) == i = Len(r)
           m(i) == Message(q(i), cmd, e(i))
           n    == Numbered(r)
           b    == Batch(n, cmd)
           S    == Letters(cmds)
<1>1. DOMAIN r = 1..Len(r) /\ Len(r) \in Nat /\ \A i \in 1..Len(r) : r[i] \in Wire
  OBVIOUS
<1>2. ASSUME NEW i \in 1..Len(r)
      PROVE  q(i) \in Wire /\ q(i).role = r[i].role /\ q(i).seq = i % SeqMod
  <2>1. i % SeqMod \in Nat /\ r[i] \in Wire
    BY <1>1, Remainder
  <2> QED BY <2>1, Renumbered
<1>3. n = [i \in 1..Len(r) |-> q(i)]
  BY <1>1 DEF Numbered
<1> HIDE DEF q
<1>4. ASSUME NEW i \in 1..Len(r)
      PROVE  /\ m(i) \in S /\ m(i).pkt = q(i) /\ m(i).cmd = cmd
             /\ m(i).last <=> e(i)
  <2>1. q(i) \in Wire /\ q(i).role # "command" /\ e(i) \in BOOLEAN
    BY <1>2
  <2> HIDE DEF e
  <2> QED BY <2>1 DEF Message, Letters
<1>5. n \in Seq(Wire) /\ Len(n) = Len(r)
  BY <1>1, <1>2, <1>3
<1>6. b = [i \in 1..Len(r) |-> m(i)] /\ \A i \in 1..Len(r) : m(i) \in S
  <2>1. \A i \in 1..Len(r) : n[i] = q(i)
    BY <1>3
  <2>2. DOMAIN n = 1..Len(r)
    BY <1>1, <1>5
  <2>3. b = [i \in 1..Len(r) |-> Message(n[i], cmd, i = Len(r))]
    <3> HIDE DEF n
    <3> QED BY <1>5, <2>2 DEF Batch
  <2> HIDE DEF n
  <2>4. b = [i \in 1..Len(r) |-> m(i)]
    BY <2>1, <2>3
  <2> QED BY <1>4, <2>4
<1> HIDE DEF m, n, b, S
<1>7. b \in Seq(S) /\ Len(b) = Len(r) /\ \A i \in 1..Len(r) : b[i] = m(i)
  BY <1>1, <1>6
<1>8. \A i \in 1..Len(r) : /\ b[i].pkt.role = r[i].role /\ b[i].pkt.seq = i % SeqMod
                           /\ b[i].cmd = cmd /\ (b[i].last <=> i = Len(r))
  BY <1>2, <1>4, <1>7
<1> QED BY <1>7, <1>8 DEF b, n, S

\* What the server says to a login, by the flow it chooses.
LEMMA Flows ==
    ASSUME NEW flow \in {"ok", "fail", "fast", "full", "switch"}
    PROVE  LET f == FlowStart(flow) IN
           /\ f.reply \in Seq(Wire) /\ f.server \in {"ready", "closed", "authData"}
           /\ \A i \in 1..Len(f.reply) : f.reply[i].role # "command"
           /\ \/ Len(f.reply) = 1 /\ f.reply[1].role = "ok" /\ f.server = "ready"
                 /\ flow = "ok"
              \/ Len(f.reply) = 1 /\ f.reply[1].role = "err" /\ f.server = "closed"
                 /\ flow = "fail"
              \/ Len(f.reply) = 2 /\ f.reply[1].role = "authMore" /\ f.reply[2].role = "ok"
                 /\ f.server = "ready" /\ flow = "fast"
              \/ Len(f.reply) = 1 /\ f.reply[1].role = "authAsk" /\ f.server = "authData"
                 /\ flow \in {"full", "switch"}
<1> DEFINE more == [Packet("authMore", 1, "short") EXCEPT !.val = 3]
           full == [Packet("authAsk", 1, "short") EXCEPT !.val = 4]
           swit == Packet("authAsk", 254, "long")
           f    == FlowStart(flow)
<1>1. /\ OkPacket.role = "ok" /\ ErrPacket.role = "err" /\ more.role = "authMore"
      /\ full.role = "authAsk" /\ swit.role = "authAsk"
  BY DEF OkPacket, ErrPacket, Packet
<1>2. {OkPacket, ErrPacket, more, full, swit} \subseteq Wire
  BY WirePackets
<1>3. f = CASE flow = "ok"     -> [server |-> "ready",    reply |-> <<OkPacket>>]
            [] flow = "fail"   -> [server |-> "closed",   reply |-> <<ErrPacket>>]
            [] flow = "fast"   -> [server |-> "ready",    reply |-> <<more, OkPacket>>]
            [] flow = "full"   -> [server |-> "authData", reply |-> <<full>>]
            [] flow = "switch" -> [server |-> "authData", reply |-> <<swit>>]
  BY DEF FlowStart
<1> DEFINE n == Len(f.reply)
           Goal == /\ f.reply \in Seq(Wire) /\ f.server \in {"ready", "closed", "authData"}
                   /\ \A i \in 1..n : f.reply[i].role # "command"
                   /\ \/ n = 1 /\ f.reply[1].role = "ok" /\ f.server = "ready" /\ flow = "ok"
                      \/ n = 1 /\ f.reply[1].role = "err" /\ f.server = "closed"
                         /\ flow = "fail"
                      \/ n = 2 /\ f.reply[1].role = "authMore" /\ f.reply[2].role = "ok"
                         /\ f.server = "ready" /\ flow = "fast"
                      \/ n = 1 /\ f.reply[1].role = "authAsk" /\ f.server = "authData"
                         /\ flow \in {"full", "switch"}
<1> SUFFICES Goal
  OBVIOUS
<1> HIDE DEF more, full, swit, f
<1>4. CASE flow = "ok"
  <2>1. f.server = "ready" /\ f.reply = <<OkPacket>>
    BY <1>3, <1>4
  <2> QED BY <1>1, <1>2, <1>4, <2>1
<1>5. CASE flow = "fail"
  <2>1. f.server = "closed" /\ f.reply = <<ErrPacket>>
    BY <1>3, <1>5
  <2> QED BY <1>1, <1>2, <1>5, <2>1
<1>6. CASE flow = "fast"
  <2>1. f.server = "ready" /\ f.reply = <<more, OkPacket>>
    BY <1>3, <1>6
  <2> QED BY <1>1, <1>2, <1>6, <2>1
<1>7. CASE flow = "full"
  <2>1. f.server = "authData" /\ f.reply = <<full>>
    BY <1>3, <1>7
  <2> QED BY <1>1, <1>2, <1>7, <2>1
<1>8. CASE flow = "switch"
  <2>1. f.server = "authData" /\ f.reply = <<swit>>
    BY <1>3, <1>8
  <2> QED BY <1>1, <1>2, <1>8, <2>1
<1> HIDE DEF Goal
<1> QED BY <1>4, <1>5, <1>6, <1>7, <1>8
-----------------------------------------------------------------------------
(* What the worker reads.                                                  *)

\* A message keeps what it is when its packet is changed in the accumulator's hands.
LEMMA NewPacketOf ==
    ASSUME NEW cmds, NEW m \in Letters(cmds), NEW p \in Wire, p.role = m.pkt.role,
           p.val = m.pkt.val, NEW q, q = [m EXCEPT !.pkt = p]
    PROVE  q \in Letters(cmds) /\ q.pkt = p /\ q.cmd = m.cmd /\ q.last = m.last
BY DEF Letters

LEMMA ParsedOf ==
    ASSUME NEW cmds, NEW m \in Letters(cmds)
    PROVE  LET q == Parsed(m) IN
           /\ q \in Letters(cmds) /\ q.cmd = m.cmd /\ q.last = m.last
           /\ q.pkt.role = m.pkt.role /\ q.pkt.seq = m.pkt.seq
           /\ q.pkt.type = PacketType(m.pkt, phase)
<1> DEFINE t == PacketType(m.pkt, phase)
           p == [m.pkt EXCEPT !.type = t]
           q == Parsed(m)
<1>1. q = [m EXCEPT !.pkt = p]
  BY DEF Parsed, Letters
<1>2. m.pkt \in Wire
  BY DEF Letters
<1>3. t \in Types
  BY DEF PacketType, Types
<1> HIDE DEF t
<1>4. /\ p \in Frames /\ p.role = m.pkt.role /\ p.first = m.pkt.first /\ p.size = m.pkt.size
      /\ p.seq = m.pkt.seq /\ p.val = m.pkt.val /\ p.more = m.pkt.more
      /\ p.okLike = m.pkt.okLike /\ p.type = t
  BY <1>2, <1>3 DEF Wire, Frames
<1> HIDE DEF p, q
<1>5. TypeOf(p) = TypeOf(m.pkt)
  BY <1>4, Zenon DEF TypeOf, PacketType
<1>6. p \in Wire
  BY <1>2, <1>4, <1>5 DEF Wire, Kind
<1>7. q \in Letters(cmds) /\ q.pkt = p /\ q.cmd = m.cmd /\ q.last = m.last
  BY <1>1, <1>4, <1>6, NewPacketOf
<1> QED BY <1>4, <1>7 DEF q, t

\* The first k messages of a queue are read, the others stay.
ReadOf(s, k) == [i \in DOMAIN SubSeq(s, 1, k) |-> Parsed(SubSeq(s, 1, k)[i])]

LEMMA ReadMessages ==
    ASSUME NEW cmds, NEW s \in Seq(Letters(cmds)), NEW k \in 0..Len(s)
    PROVE  /\ ReadOf(s, k) \in Seq(Letters(cmds)) /\ Len(ReadOf(s, k)) = k
           /\ \A i \in 1..k : ReadOf(s, k)[i] = Parsed(s[i])
           /\ SubSeq(s, k + 1, Len(s)) \in Seq(Letters(cmds))
           /\ Len(SubSeq(s, k + 1, Len(s))) = Len(s) - k
           /\ \A i \in 1..(Len(s) - k) : SubSeq(s, k + 1, Len(s))[i] = s[k + i]
<1> DEFINE S == Letters(cmds)
           r == SubSeq(s, 1, k)
           t == SubSeq(s, k + 1, Len(s))
           f == ReadOf(s, k)
<1>1. \A m \in S : Parsed(m) \in S
  BY ParsedOf
<1>2. s \in Seq(S)
  OBVIOUS
<1> HIDE DEF S
<1>3. r \in Seq(S) /\ Len(r) = k /\ \A i \in 1..k : r[i] = s[i] /\ r[i] \in S
  BY <1>2
<1>4. t \in Seq(S) /\ Len(t) = Len(s) - k /\ \A i \in 1..(Len(s) - k) : t[i] = s[k + i]
  BY <1>2
<1>5. f = [i \in 1..k |-> Parsed(r[i])]
  BY <1>3 DEF ReadOf
<1> HIDE DEF r
<1>6. f \in Seq(S) /\ Len(f) = k /\ \A i \in 1..k : f[i] = Parsed(r[i])
  BY <1>1, <1>3, <1>5
<1> QED BY <1>3, <1>4, <1>6 DEF S
-----------------------------------------------------------------------------
(* Types, action by action.                                                *)

\* While the client asks nothing, what counts as a message stays the same.
LEMMA SameLetters ==
    ASSUME TypeInv, asked' = asked,
           {frame', outgoing', c2p', p2c', p2s', s2p'} \subseteq Seq(Letters(asked))
    PROVE  MailOK'
BY DEF MailOK

LEMMA ReadTypes ==
    ASSUME TypeInv, ReadServer \/ ReadClient
    PROVE  TypeInv'
<1> DEFINE S == Letters(asked)
<1>1. {frame, outgoing, c2p, p2c, p2s, s2p} \subseteq Seq(S)
  BY DEF TypeInv, MailOK
<1>2. CASE ReadServer
  <2>1. PICK k \in 1..Len(s2p) : /\ Parse(SubSeq(s2p, 1, k))
                                /\ s2p' = SubSeq(s2p, k + 1, Len(s2p))
    BY <1>2 DEF ReadServer
  <2>2. frame' = ReadOf(s2p, k) /\ k \in 0..Len(s2p)
    BY <1>1, <2>1 DEF Parse, ReadOf
  <2>3. frame' \in Seq(S) /\ s2p' \in Seq(S)
    BY <1>1, <2>1, <2>2, ReadMessages
  <2>4. MailOK'
    <3> HIDE DEF S
    <3>1. {frame', outgoing', c2p', p2c', p2s', s2p'} \subseteq Seq(S) /\ asked' = asked
      BY <1>1, <1>2, <2>1, <2>3 DEF ReadServer, Parse, peers
    <3> QED BY <3>1, SameLetters DEF S
  <2>5. TypeOK'
    BY <1>2, <2>1 DEF TypeInv, TypeOK, ReadServer, Parse, connection, peers
  <2> QED BY <1>2, <2>4, <2>5 DEF TypeInv, ReadServer, connection
<1>3. CASE ReadClient
  <2>0. PICK k \in 1..Len(c2p) : \E n \in 0..k :
          /\ Parse(SubSeq(c2p, 1, n))
          /\ partial' = (partial \/ n < k)
          /\ c2p' = SubSeq(c2p, k + 1, Len(c2p))
    BY <1>3 DEF ReadClient
  <2>1. PICK n \in 0..k : /\ Parse(SubSeq(c2p, 1, n))
                          /\ partial' = (partial \/ n < k)
                          /\ c2p' = SubSeq(c2p, k + 1, Len(c2p))
    BY <2>0
  <2>2. frame' = ReadOf(c2p, n) /\ k \in 0..Len(c2p) /\ n \in 0..Len(c2p)
    BY <1>1, <2>1 DEF Parse, ReadOf
  <2>3. frame' \in Seq(S) /\ c2p' \in Seq(S)
    BY <1>1, <2>1, <2>2, ReadMessages
  <2>4. MailOK'
    <3> HIDE DEF S
    <3>1. {frame', outgoing', c2p', p2c', p2s', s2p'} \subseteq Seq(S) /\ asked' = asked
      BY <1>1, <1>3, <2>1, <2>3 DEF ReadClient, Parse, peers
    <3> QED BY <3>1, SameLetters DEF S
  <2>5. TypeOK'
    BY <1>3, <2>1 DEF TypeInv, TypeOK, ReadClient, Parse, peers
  <2> QED BY <1>3, <2>4, <2>5 DEF TypeInv, ReadClient
<1> QED BY <1>2, <1>3

LEMMA TurnTypes ==
    ASSUME TypeInv, ReadEnd \/ SwitchToTls \/ AcceptTls \/ FrameConsumed
    PROVE  TypeInv'
<1> DEFINE S == Letters(asked)
<1>1. {frame, outgoing, c2p, p2c, p2s, s2p} \subseteq Seq(S)
  BY DEF TypeInv, MailOK
<1> USE DEF TypeInv, TypeOK
<1>2. CASE ReadEnd
  <2>1. TypeOK' /\ UNCHANGED <<frame, outgoing, c2p, p2c, p2s, s2p, asked, acc>>
    BY <1>2 DEF ReadEnd, connection, peers
  <2> QED BY <1>1, <2>1, SameLetters
<1>3. CASE SwitchToTls
  <2>1. TypeOK' /\ UNCHANGED <<frame, outgoing, c2p, p2c, p2s, s2p, asked, acc>>
    BY <1>3 DEF SwitchToTls, peers, Phases
  <2> QED BY <1>1, <2>1, SameLetters
<1>4. CASE AcceptTls
  <2>1. TypeOK' /\ UNCHANGED <<frame, outgoing, p2c, p2s, s2p, asked, acc>>
    BY <1>4 DEF AcceptTls, connection
  <2>2. c2p' \in Seq(S)
    <3>1. c2p # <<>> /\ c2p' = Tail(c2p)
      BY <1>4 DEF AcceptTls
    <3> HIDE DEF S
    <3> QED BY <1>1, <3>1
  <2> QED BY <1>1, <2>1, <2>2, SameLetters
<1>5. CASE FrameConsumed
  <2>1. TypeOK' /\ UNCHANGED <<frame, outgoing, c2p, p2c, p2s, s2p, asked, acc>>
    BY <1>5 DEF FrameConsumed, connection, peers
  <2> QED BY <1>1, <2>1, SameLetters
<1> QED BY <1>2, <1>3, <1>4, <1>5

\* A packet is consumed: it is forwarded as what it came as.
LEMMA ForwardTypes ==
    ASSUME TypeInv, frame # <<>>, NEW p \in Wire,
           p.role = Packet1.role, p.val = Packet1.val, Forward(p)
    PROVE  frame' \in Seq(Letters(asked)) /\ outgoing' \in Seq(Letters(asked))
<1> DEFINE S == Letters(asked)
           m == Head(frame)
           q == [m EXCEPT !.pkt = p]
<1>1. {frame, outgoing} \subseteq Seq(S)
  BY DEF TypeInv, MailOK
<1>2. m \in S /\ Tail(frame) \in Seq(S)
  BY <1>1
<1>3. q \in S
  BY <1>2, NewPacketOf DEF Packet1
<1> HIDE DEF S, q
<1>4. frame' = Tail(frame) /\ (outgoing' = outgoing \/ outgoing' = Append(outgoing, q))
  BY DEF Forward, q
<1>5. frame' \in Seq(S) /\ outgoing' \in Seq(S)
  BY <1>1, <1>2, <1>3, <1>4
<1> QED BY <1>5 DEF S

\* Packet1 is what it came as, and stays what it is.
LEMMA Packet1OnWire ==
    ASSUME TypeInv, frame # <<>>
    PROVE  /\ Packet1 \in Wire
           /\ Packet1.role = "command" =>
                Head(frame).cmd \in 1..Len(asked) /\ Packet1.val = asked[Head(frame).cmd]
                /\ Packet1.val \in Commands
<1> DEFINE S == Letters(asked)
<1>1. frame \in Seq(S)
  BY DEF TypeInv, MailOK
<1> HIDE DEF S
<1>2. Head(frame) \in S
  BY <1>1
<1> QED BY <1>2 DEF S, Letters, Packet1, Wire, Kind

\* The accumulators of the connection phase and of a command's first byte.
LEMMA PhaseTypes ==
    ASSUME TypeInv,
           \/ ConsumeHandshake \/ ConsumeHandshakeResponse \/ ConsumeAuthInit
           \/ ConsumeAuthSwitchResponse \/ ConsumeAuthComplete \/ ConsumeCommand
    PROVE  TypeInv'
<1> DEFINE S == Letters(asked)
<1>1. {frame, outgoing, c2p, p2c, p2s, s2p} \subseteq Seq(S)
  BY DEF TypeInv, MailOK
<1>2. frame # <<>> /\ pc = "process" /\ UNCHANGED <<side, c2p, p2c, p2s, s2p, peers>>
  BY DEF ConsumeHandshake, ConsumeHandshakeResponse, ConsumeAuthInit,
         ConsumeAuthSwitchResponse, ConsumeAuthComplete, ConsumeCommand, Processing, Elsewhere
<1>3. \/ Die
      \/ /\ Forward(Packet1) /\ phase' \in Phases
         /\ {hasFlags', tls', partial'} \subseteq {hasFlags, tls, partial, TRUE}
         /\ \/ lastCommand' = lastCommand /\ acc' = acc
            \/ lastCommand' \in Commands /\ acc' = NewAccumulator
  <2>1. CASE ConsumeHandshake
    BY <2>1 DEF ConsumeHandshake, Phases
  <2>2. CASE ConsumeHandshakeResponse
    BY <2>2 DEF ConsumeHandshakeResponse, Phases
  <2>3. \A next : MovePhase(next) /\ next \in Phases \cup {"panic"} =>
          \/ Die
          \/ /\ Forward(Packet1) /\ phase' \in Phases
             /\ UNCHANGED <<acc, lastCommand, hasFlags, tls, partial>>
    BY DEF MovePhase
  <2>4. AuthResult(Packet1) \in Phases \cup {"panic"}
    BY DEF AuthResult, Phases
  <2>5. AuthStart(Packet1) \in Phases \cup {"panic"}
    BY <2>4, Zenon DEF AuthStart, Phases
  <2>6. "AuthComplete" \in Phases \cup {"panic"}
    BY DEF Phases
  <2>7. CASE ConsumeAuthInit
    BY <2>3, <2>5, <2>7 DEF ConsumeAuthInit
  <2>8. CASE ConsumeAuthSwitchResponse
    BY <2>3, <2>6, <2>8 DEF ConsumeAuthSwitchResponse
  <2>9. CASE ConsumeAuthComplete
    BY <2>3, <2>4, <2>9 DEF ConsumeAuthComplete
  <2>10. CASE ConsumeCommand
    <3>1. Packet1.role = "command" => Packet1.val \in Commands
      BY <1>2, Packet1OnWire
    <3> QED BY <2>10, <3>1 DEF ConsumeCommand, IsCommand, Phases
  <2> QED BY <2>1, <2>2, <2>7, <2>8, <2>9, <2>10
<1>4. CASE Die
  <2>1. TypeOK' /\ UNCHANGED <<frame, outgoing, c2p, p2c, p2s, s2p, asked, acc>>
    BY <1>2, <1>4 DEF TypeInv, TypeOK, Die, connection, peers
  <2> QED BY <1>1, <2>1, SameLetters DEF TypeInv
<1>5. CASE /\ Forward(Packet1) /\ phase' \in Phases
           /\ {hasFlags', tls', partial'} \subseteq {hasFlags, tls, partial, TRUE}
           /\ \/ lastCommand' = lastCommand /\ acc' = acc
              \/ lastCommand' \in Commands /\ acc' = NewAccumulator
  <2>1. frame' \in Seq(S) /\ outgoing' \in Seq(S)
    BY <1>2, <1>5, Packet1OnWire, ForwardTypes
  <2>2. Sane(NewAccumulator) /\ NewAccumulator.skipped = 0
    BY DEF NewAccumulator, Sane, Fields, AccStates
  <2>3. Sane(acc') /\ acc'.skipped = 0 /\ acc'.state \in AccStates
    BY <1>5, <2>2 DEF TypeInv, Sane
  <2>4. TypeOK' /\ UNCHANGED <<c2p, p2c, p2s, s2p, asked>>
    BY <1>2, <1>5, <2>3 DEF TypeInv, TypeOK, Forward, peers
  <2>5. MailOK'
    <3> HIDE DEF S
    <3>1. {frame', outgoing', c2p', p2c', p2s', s2p'} \subseteq Seq(S)
      BY <1>1, <2>1, <2>4
    <3> QED BY <2>4, <3>1, SameLetters DEF S
  <2> QED BY <2>3, <2>4, <2>5 DEF TypeInv
<1> QED BY <1>3, <1>4, <1>5

\* A reply's packet leaves the accumulator as it came, but for its number: no table has
\* differences, and no row is skipped.
LEMMA ReplyPacket ==
    ASSUME TypeInv, frame # <<>>, NEW c, ~Consume(acc, Packet1, c, FALSE).panic
    PROVE  LET step == Consume(acc, Packet1, c, FALSE) IN
           /\ step.pkt \in Wire /\ step.pkt.role = Packet1.role /\ step.pkt.val = Packet1.val
           /\ step.phase \in ReplyPhases /\ Sane(step.acc) /\ step.acc.skipped = 0
<1> DEFINE p    == Packet1
           no   == FALSE
           step == Consume(acc, p, c, no)
<1>1. p \in Wire
  BY Packet1OnWire
<1> HIDE DEF p
<1>2. DOMAIN p = PacketFields /\ p.skip = FALSE /\ p.seq \in Nat
  BY <1>1 DEF Wire, Frames, PacketFields
<1>3. Sane(acc) /\ acc.skipped = 0
  BY DEF TypeInv
<1>4. ~step.panic
  BY DEF p
<1>5. Accounted(acc, p, c, no, step)
  <2>1. /\ no \in BOOLEAN /\ acc.skipped \in Nat
        /\ acc.skipped > 0 => TextCom(c) /\ acc.state = "HydrateRows"
    BY <1>3
  <2> HIDE DEF no
  <2> QED BY <1>2, <1>3, <1>4, <2>1, ConsumeStep
<1> HIDE DEF step
<1>6. CASE Kept(acc, p, step)
  BY <1>1, <1>3, <1>6 DEF Kept, p, step
<1>7. CASE Rowed(acc, p, no, step)
  <2>1. step.pkt.skip = FALSE /\ step.acc.skipped = 0
    BY <1>3, <1>7 DEF Rowed
  <2> DEFINE n == (p.seq - step.acc.skipped) % SeqMod
             k == step.pkt.skip
             q == [p EXCEPT !.seq = n]
  <2>2. n \in Nat
    <3>1. p.seq - step.acc.skipped \in Int
      BY <1>2, <2>1
    <3> QED BY <3>1, Remainder
  <2>3. step.pkt = [p EXCEPT !.seq = n, !.skip = k]
    BY <1>7 DEF Rowed
  <2> HIDE DEF n
  <2>4. k = p.skip
    BY <1>2, <2>1
  <2> HIDE DEF k
  <2>5. step.pkt = q
    BY <1>1, <2>3, <2>4 DEF Wire, Frames
  <2> HIDE DEF q
  <2>6. q = [p EXCEPT !.seq = n]
    BY DEF q
  <2>7. q \in Wire /\ q.role = p.role /\ q.val = p.val
    BY <1>1, <2>2, <2>6, Renumbered
  <2> QED BY <1>7, <2>1, <2>5, <2>7 DEF Rowed, p, step
<1> QED BY <1>5, <1>6, <1>7 DEF Accounted

LEMMA ResponseTypes == ASSUME TypeInv, ConsumeResponse PROVE TypeInv'
<1> DEFINE S == Letters(asked)
           step == Consume(acc, Packet1, lastCommand.com, FALSE)
<1>1. {frame, outgoing, c2p, p2c, p2s, s2p} \subseteq Seq(S)
  BY DEF TypeInv, MailOK
<1>2. frame # <<>> /\ pc = "process" /\ UNCHANGED <<side, c2p, p2c, p2s, s2p, peers>>
  BY DEF ConsumeResponse, Processing, Elsewhere
<1>3. \/ Die
      \/ ~step.panic /\ Forward(step.pkt) /\ phase' = step.phase /\ acc' = step.acc
         /\ UNCHANGED <<lastCommand, hasFlags, tls, partial>>
  BY DEF ConsumeResponse
<1> HIDE DEF step
<1>4. CASE Die
  <2>1. TypeOK' /\ UNCHANGED <<frame, outgoing, c2p, p2c, p2s, s2p, asked, acc>>
    BY <1>2, <1>4 DEF TypeInv, TypeOK, Die, connection, peers
  <2> QED BY <1>1, <2>1, SameLetters DEF TypeInv
<1>5. CASE /\ ~step.panic /\ Forward(step.pkt) /\ phase' = step.phase /\ acc' = step.acc
           /\ UNCHANGED <<lastCommand, hasFlags, tls, partial>>
  <2>1. /\ step.pkt \in Wire /\ step.pkt.role = Packet1.role /\ step.pkt.val = Packet1.val
        /\ step.phase \in ReplyPhases /\ Sane(step.acc) /\ step.acc.skipped = 0
    BY <1>2, <1>5, ReplyPacket DEF step
  <2>2. frame' \in Seq(S) /\ outgoing' \in Seq(S)
    BY <1>2, <1>5, <2>1, ForwardTypes
  <2>3. TypeOK' /\ UNCHANGED <<c2p, p2c, p2s, s2p, asked>>
    BY <1>2, <1>5, <2>1 DEF TypeInv, TypeOK, Forward, peers, ReplyPhases, Phases, Sane
  <2>4. MailOK'
    <3> HIDE DEF S
    <3>1. {frame', outgoing', c2p', p2c', p2s', s2p'} \subseteq Seq(S)
      BY <1>1, <2>2, <2>3
    <3> QED BY <2>3, <3>1, SameLetters DEF S
  <2> QED BY <1>5, <2>1, <2>3, <2>4 DEF TypeInv
<1> QED BY <1>3, <1>4, <1>5

\* The OK packet that answers an intercepted write.
LEMMA OkAnswer ==
    ASSUME NEW n \in Nat, NEW cmds, NEW cmd \in 0..Len(cmds), NEW m,
           m = Message([OkPacket EXCEPT !.seq = n], cmd, TRUE)
    PROVE  m \in Letters(cmds) /\ m.pkt.role = "ok" /\ m.cmd = cmd /\ m.last = TRUE
<1> DEFINE q == [OkPacket EXCEPT !.seq = n]
<1>1. OkPacket \in Wire /\ OkPacket.role = "ok"
  BY WirePackets DEF OkPacket, Packet
<1>2. q \in Wire /\ q.role = "ok"
  BY <1>1, Renumbered
<1> HIDE DEF q
<1>3. m = Message(q, cmd, TRUE)
  BY DEF q
<1> QED BY <1>2, <1>3 DEF Message, Letters

LEMMA WriteTypes ==
    ASSUME TypeInv, WriteClient \/ Intercept \/ WriteServer
    PROVE  TypeInv'
<1> DEFINE S == Letters(asked)
<1>1. {frame, outgoing, c2p, p2c, p2s, s2p} \subseteq Seq(S)
  BY DEF TypeInv, MailOK
<1>2. frame = <<>> /\ UNCHANGED <<frame, outgoing, c2p, s2p, acc, asked>>
  BY DEF TypeInv, TypeOK, WriteClient, Intercept, WriteServer, connection, peers
<1>3. TypeOK'
  <2>1. CASE WriteClient
    BY <2>1, <1>2 DEF TypeInv, TypeOK, WriteClient, connection, peers
  <2>2. CASE Intercept
    BY <2>2, <1>2 DEF TypeInv, TypeOK, Intercept, peers, Phases
  <2>3. CASE WriteServer
    BY <2>3, <1>2 DEF TypeInv, TypeOK, WriteServer, connection, peers
  <2> QED BY <2>1, <2>2, <2>3
<1>4. p2c' \in Seq(S) /\ p2s' \in Seq(S)
  <2>1. CASE WriteClient
    <3> HIDE DEF S
    <3>1. /\ outgoing \in Seq(S) /\ p2c \in Seq(S) /\ p2s \in Seq(S)
          /\ p2c' = p2c \/ p2c' = p2c \o outgoing
          /\ p2s' = p2s
      BY <1>1, <2>1 DEF WriteClient
    <3>2. p2c \o outgoing \in Seq(S)
      BY <3>1, ConcatProperties
    <3> QED BY <3>1, <3>2
  <2>2. CASE Intercept
    <3> DEFINE n == outgoing[1].pkt.seq + 1
               m == Message([OkPacket EXCEPT !.seq = n], outgoing[1].cmd, TRUE)
    <3>1. p2s' = p2s /\ (p2c' = p2c \/ p2c' = Append(p2c, m))
      BY <2>2 DEF Intercept
    <3>2. n \in Nat /\ outgoing[1].cmd \in 0..Len(asked)
      <4>1. Len(outgoing) = 1
        BY <2>2 DEF Intercept, Intercepted
      <4>2. outgoing[1] \in S
        <5> HIDE DEF S
        <5> QED BY <1>1, <4>1
      <4>3. outgoing[1].cmd \in 0..Len(asked) /\ outgoing[1].pkt \in Wire
        BY <4>2 DEF Letters
      <4>4. outgoing[1].pkt.seq \in Nat
        BY <4>3 DEF Wire, Frames
      <4> QED BY <4>3, <4>4
    <3> HIDE DEF n
    <3>3. m = Message([OkPacket EXCEPT !.seq = n], outgoing[1].cmd, TRUE)
      OBVIOUS
    <3> HIDE DEF m
    <3>4. m \in S
      BY <3>2, <3>3, OkAnswer
    <3> HIDE DEF S
    <3>5. p2c \in Seq(S) /\ p2s \in Seq(S) /\ Append(p2c, m) \in Seq(S)
      BY <1>1, <3>4
    <3> QED BY <3>1, <3>5
  <2>3. CASE WriteServer
    <3> HIDE DEF S
    <3>1. /\ outgoing \in Seq(S) /\ p2s \in Seq(S) /\ p2c \in Seq(S)
          /\ p2s' = p2s \/ p2s' = p2s \o outgoing
          /\ p2c' = p2c
      BY <1>1, <2>3 DEF WriteServer
    <3>2. p2s \o outgoing \in Seq(S)
      BY <3>1, ConcatProperties
    <3> QED BY <3>1, <3>2
  <2> QED BY <2>1, <2>2, <2>3
<1>5. MailOK'
  <2> HIDE DEF S
  <2>1. {frame', outgoing', c2p', p2c', p2s', s2p'} \subseteq Seq(S)
    BY <1>1, <1>2, <1>4
  <2> QED BY <1>2, <2>1, SameLetters DEF S
<1> QED BY <1>2, <1>3, <1>5 DEF TypeInv

\* A client that asks nothing says only what belongs to no command.
LEMMA ClientTypes ==
    ASSUME TypeInv, ClientGreeted \/ ClientLogsIn \/ ClientAuthenticates \/ ClientReceives
                    \/ ClientCloses
    PROVE  TypeInv'
<1> DEFINE S == Letters(asked)
<1>1. {frame, outgoing, c2p, p2c, p2s, s2p} \subseteq Seq(S)
  BY DEF TypeInv, MailOK
<1>2. UNCHANGED <<side, pc, frame, outgoing, connection, p2s, s2p, server, executed, asked>>
  BY DEF ClientGreeted, ClientLogsIn, ClientAuthenticates, ClientReceives, ClientCloses,
         ClientOnly
<1>3. Alone(SslRequest) \in Seq(S) /\ Alone(Hello) \in Seq(S) /\ Alone(LoginData) \in Seq(S)
      /\ Alone(AuthData) \in Seq(S)
  <2>1. {SslRequest, Hello, LoginData, AuthData} \subseteq Wire
    BY WirePackets
  <2>2. /\ SslRequest.role = "sslRequest" /\ Hello.role = "hello" /\ LoginData.role = "response"
        /\ AuthData.role = "authData"
    BY DEF SslRequest, Hello, LoginData, AuthData, Packet
  <2> QED BY <2>1, <2>2, AloneOf
<1>4. Alone(SslRequest) \o Alone(Hello) \in Seq(S) /\ <<>> \in Seq(S)
  <2> HIDE DEF S
  <2> QED BY <1>3, ConcatProperties
<1>5. (c2p' = c2p) \/ (\E said \in Seq(S) : c2p' = c2p \o said)
  <2> HIDE DEF S
  <2>1. CASE ClientGreeted
    BY <1>3, <1>4, <2>1 DEF ClientGreeted, ClientSends
  <2>2. CASE ClientLogsIn
    BY <1>3, <2>2 DEF ClientLogsIn, ClientSends
  <2>3. CASE ClientAuthenticates
    BY <1>3, <1>4, <2>3 DEF ClientAuthenticates, ClientSends
  <2>4. CASE ClientReceives
    BY <2>4 DEF ClientReceives
  <2>5. CASE ClientCloses
    BY <2>5 DEF ClientCloses
  <2> QED BY <2>1, <2>2, <2>3, <2>4, <2>5
<1>8. (p2c' = p2c) \/ (p2c' = <<>>) \/ (p2c # <<>> /\ p2c' = Tail(p2c))
  BY DEF ClientGreeted, ClientLogsIn, ClientAuthenticates, ClientReceives, ClientCloses
<1>6. MailOK'
  <2> HIDE DEF S
  <2>0. p2c \in Seq(S)
    BY <1>1
  <2>1. p2c' \in Seq(S)
    <3>1. CASE p2c' = <<>>
      BY <3>1
    <3>2. CASE p2c' = p2c
      BY <2>0, <3>2
    <3>3. CASE p2c # <<>> /\ p2c' = Tail(p2c)
      BY <2>0, <3>3
    <3> QED BY <1>8, <3>1, <3>2, <3>3
  <2>2. ASSUME NEW said \in Seq(S) PROVE c2p \o said \in Seq(S)
    BY <1>1, ConcatProperties
  <2>3. c2p' \in Seq(S)
    BY <1>1, <1>5, <2>2
  <2>4. {frame', outgoing', c2p', p2c', p2s', s2p'} \subseteq Seq(S)
    BY <1>1, <1>2, <2>1, <2>3
  <2> QED BY <1>2, <2>4, SameLetters DEF S
<1>7. /\ client' \in {"greet", "tls", "secured", "auth", "ready", "waiting", "closed"}
      /\ answered' \in 0..Len(asked)
  <2>1. CASE ClientGreeted
    BY <2>1 DEF ClientGreeted, TypeInv, TypeOK
  <2>2. CASE ClientLogsIn
    BY <2>2 DEF ClientLogsIn, TypeInv, TypeOK
  <2>3. CASE ClientAuthenticates
    <3> DEFINE role == Head(p2c).pkt.role
               now  == CASE role = "ok" -> "ready" [] role = "err" -> "closed" [] OTHER -> "auth"
    <3>1. client' = now /\ answered' = answered
      BY <2>3, Zenon DEF ClientAuthenticates
    <3>2. now \in {"ready", "closed", "auth"}
      <4> HIDE DEF role
      <4> QED BY Zenon
    <3> QED BY <3>1, <3>2 DEF TypeInv, TypeOK
  <2>4. CASE ClientReceives
    BY <2>4 DEF ClientReceives, TypeInv, TypeOK
  <2>5. CASE ClientCloses
    BY <2>5 DEF ClientCloses, TypeInv, TypeOK
  <2> QED BY <2>1, <2>2, <2>3, <2>4, <2>5
<1> QED BY <1>2, <1>6, <1>7 DEF TypeInv, TypeOK, connection

\* The command asked goes out under its number; the earlier ones keep theirs.
LEMMA AskTypes == ASSUME TypeInv, ClientAsks PROVE TypeInv'
<1>1. PICK c \in Commands :
        /\ asked' = Append(asked, c)
        /\ c2p' = c2p \o <<Message(CommandPacket(c), Len(asked) + 1, TRUE)>>
        /\ client' = IF c.com = "Quit" THEN "closed"
                     ELSE IF Unanswered(c) THEN "ready" ELSE "waiting"
  BY DEF ClientAsks, ClientSends
<1> DEFINE S == Letters(asked)
           T == Letters(asked')
           m == Message(CommandPacket(c), Len(asked) + 1, TRUE)
<1>2. asked \in Seq(Commands) /\ asked' \in Seq(Commands) /\ Len(asked') = Len(asked) + 1
      /\ Len(asked) \in Nat
      /\ asked'[Len(asked) + 1] = c /\ \A i \in 1..Len(asked) : asked'[i] = asked[i]
  BY <1>1 DEF TypeInv, TypeOK
<1>3. S \subseteq T
  BY <1>2 DEF Letters
<1>4. m \in T
  <2>1. CommandPacket(c) \in Wire /\ CommandPacket(c).val = c
    BY WirePackets DEF CommandPacket, Packet
  <2> HIDE DEF T
  <2> DEFINE p == CommandPacket(c)
             n == Len(asked) + 1
  <2>2. p \in Wire /\ p.val = c /\ n \in Nat /\ n \in 1..Len(asked') /\ asked'[n] = c
    BY <1>2, <2>1
  <2> HIDE DEF p, n
  <2>3. Message(p, n, TRUE) \in T
    BY <2>2 DEF Message, Letters, T
  <2> QED BY <2>3 DEF p, n
<1>5. {frame, outgoing, c2p, p2c, p2s, s2p} \subseteq Seq(S)
  BY DEF TypeInv, MailOK
<1>6. UNCHANGED <<side, pc, frame, outgoing, connection, p2c, p2s, s2p, server, executed, answered>>
  BY DEF ClientAsks, ClientOnly
<1>7. MailOK'
  <2> HIDE DEF S, T, m
  <2>1. {frame, outgoing, c2p, p2c, p2s, s2p} \subseteq Seq(T)
    BY <1>3, <1>5
  <2>2. c2p' \in Seq(T)
    <3>1. c2p' = c2p \o <<m>>
      BY <1>1 DEF m
    <3>2. <<m>> \in Seq(T)
      BY <1>4
    <3> QED BY <2>1, <3>1, <3>2, ConcatProperties
  <2>3. {frame', outgoing', c2p', p2c', p2s', s2p'} \subseteq Seq(T)
    BY <1>6, <2>1, <2>2
  <2> QED BY <2>3 DEF MailOK, T
<1>8. client' \in {"closed", "ready", "waiting"}
  BY <1>1, Zenon
<1>9. Len(asked') <= MaxCommands
  BY <1>2, ExchangeAssumption DEF ClientAsks, TypeInv, TypeOK
<1>10. TypeOK'
  BY <1>2, <1>6, <1>8, <1>9 DEF TypeInv, TypeOK, connection
<1> QED BY <1>6, <1>7, <1>10 DEF TypeInv, connection

LEMMA ServerTypes ==
    ASSUME TypeInv, ServerGreets \/ ServerTakesSslRequest \/ ServerTakesLogin
                    \/ ServerTakesAuthData \/ ServerExecutes \/ ServerDropsSession
                    \/ ServerCutOff
    PROVE  TypeInv'
<1> DEFINE S == Letters(asked)
<1>1. {frame, outgoing, c2p, p2c, p2s, s2p} \subseteq Seq(S)
  BY DEF TypeInv, MailOK
<1>2. UNCHANGED <<side, pc, frame, outgoing, connection, c2p, p2c, client, asked, answered>>
  BY DEF ServerGreets, ServerTakesSslRequest, ServerTakesLogin, ServerTakesAuthData,
         ServerExecutes, ServerDropsSession, ServerCutOff, ServerOnly
<1>3. p2s' = p2s \/ (p2s # <<>> /\ p2s' = Tail(p2s))
  BY DEF ServerGreets, ServerTakesSslRequest, ServerTakesLogin, ServerTakesAuthData,
         ServerExecutes, ServerDropsSession, ServerCutOff, ServerOnly, Received
<1>4. ASSUME NEW flow \in {"ok", "fail", "fast", "full", "switch"}
      PROVE  /\ Batch(Numbered(FlowStart(flow).reply), 0) \in Seq(S)
             /\ FlowStart(flow).server \in {"ready", "closed", "authData"}
  <2>1. Len(asked) \in Nat /\ 0 \in 0..Len(asked)
    BY DEF TypeInv, TypeOK
  <2> QED BY <2>1, Flows, Batched
<1>5. /\ s2p' = s2p \/ \E said \in Seq(S) : s2p' = s2p \o said
      /\ server' \in {"greet", "login", "authData", "ready", "closed"}
      /\ \/ executed' = executed
         \/ p2s # <<>> /\ Head(p2s).pkt.role = "command" /\ executed' = Append(executed, Head(p2s).cmd)
  <2>1. CASE ServerGreets
    <3>1. Alone(Packet("greeting", 10, "long")) \in Seq(S)
      <4> DEFINE p == Packet("greeting", 10, "long")
      <4>1. p \in Wire /\ p.role # "command"
        BY WirePackets DEF Packet
      <4>2. Len(asked) \in Nat
        BY DEF TypeInv, TypeOK
      <4> QED BY <4>1, <4>2, AloneOf
    <3> HIDE DEF S
    <3> QED BY <2>1, <3>1 DEF ServerGreets, ServerSends
  <2>2. CASE ServerTakesSslRequest
    BY <2>2 DEF ServerTakesSslRequest, TypeInv, TypeOK
  <2>3. CASE ServerTakesLogin
    <3>1. PICK flow \in AuthFlows :
            /\ server' = FlowStart(flow).server
            /\ s2p' = s2p \o Batch(Numbered(FlowStart(flow).reply), 0)
      BY <2>3 DEF ServerTakesLogin, ServerSends
    <3>2. flow \in {"ok", "fail", "fast", "full", "switch"}
      BY ExchangeAssumption
    <3>3. executed' = executed
      BY <2>3 DEF ServerTakesLogin
    <3> HIDE DEF S
    <3> QED BY <1>4, <3>1, <3>2, <3>3
  <2>4. CASE ServerTakesAuthData
    <3>1. PICK flow \in {"ok", "fail"} :
            /\ server' = FlowStart(flow).server
            /\ s2p' = s2p \o Batch(Numbered(FlowStart(flow).reply), 0)
      BY <2>4 DEF ServerTakesAuthData, ServerSends
    <3>2. flow \in {"ok", "fail", "fast", "full", "switch"} /\ executed' = executed
      BY <2>4 DEF ServerTakesAuthData
    <3> HIDE DEF S
    <3> QED BY <1>4, <3>1, <3>2
  <2>5. CASE ServerExecutes
    <3> DEFINE i == Head(p2s).cmd
               c == asked[i]
    <3>1. p2s # <<>> /\ Head(p2s).pkt.role = "command" /\ executed' = Append(executed, i)
          /\ server' \in {"ready", "closed"}
      BY <2>5 DEF ServerExecutes, Received
    <3>2. i \in 0..Len(asked) /\ Len(asked) \in Nat
      <4>0. Len(asked) \in Nat
        BY DEF TypeInv, TypeOK
      <4>1. Head(p2s) \in S
        <5> HIDE DEF S
        <5> QED BY <1>1, <3>1
      <4> QED BY <4>0, <4>1 DEF Letters
    <3>3. \/ s2p' = s2p
          \/ \E reply \in Replies(c.com, 1, TextRows, {}, MaxRows) :
                s2p' = s2p \o Batch(Numbered(reply), i)
      BY <2>5 DEF ServerExecutes, ServerSends
    <3>4. ASSUME NEW reply \in Replies(c.com, 1, TextRows, {}, MaxRows)
          PROVE  Batch(Numbered(reply), i) \in Seq(S)
      <4>1. reply \in Seq(Wire) /\ \A j \in 1..Len(reply) : reply[j].role # "command"
        <5> HIDE DEF c
        <5>1. "command" \notin Roles
          BY DEF Roles
        <5> QED BY <5>1, RepliesOnWire
      <4> HIDE DEF i
      <4> QED BY <3>2, <4>1, Batched
    <3> HIDE DEF S, i, c
    <3>5. s2p' = s2p \/ \E said \in Seq(S) : s2p' = s2p \o said
      BY <3>3, <3>4
    <3> QED BY <3>1, <3>5 DEF i
  <2>6. CASE ServerDropsSession
    <3>1. Alone(ErrPacket) \in Seq(S)
      <4>1. ErrPacket \in Wire /\ ErrPacket.role # "command"
        BY WirePackets DEF ErrPacket, Packet
      <4> QED BY <4>1, AloneOf
    <3> HIDE DEF S
    <3>2. <<>> \in Seq(S)
      OBVIOUS
    <3> QED BY <2>6, <3>1, <3>2 DEF ServerDropsSession, ServerSends
  <2>7. CASE ServerCutOff
    BY <2>7 DEF ServerCutOff
  <2> HIDE DEF S
  <2> QED BY <2>1, <2>2, <2>3, <2>4, <2>5, <2>6, <2>7
<1>6. MailOK'
  <2> HIDE DEF S
  <2>0. p2s \in Seq(S)
    BY <1>1
  <2>1. p2s' \in Seq(S)
    BY <1>3, <2>0
  <2>2. ASSUME NEW said \in Seq(S) PROVE s2p \o said \in Seq(S)
    BY <1>1, ConcatProperties
  <2>3. s2p' \in Seq(S)
    BY <1>1, <1>5, <2>2
  <2>4. {frame', outgoing', c2p', p2c', p2s', s2p'} \subseteq Seq(S)
    BY <1>1, <1>2, <2>1, <2>3
  <2> QED BY <1>2, <2>4, SameLetters DEF S
<1>7. executed' \in Seq(1..Len(asked))
  <2>1. CASE executed' = executed
    BY <2>1 DEF TypeInv, TypeOK
  <2>2. CASE /\ p2s # <<>> /\ Head(p2s).pkt.role = "command"
             /\ executed' = Append(executed, Head(p2s).cmd)
    <3>1. Head(p2s) \in S
      <4> HIDE DEF S
      <4> QED BY <1>1, <2>2
    <3>2. Head(p2s).cmd \in 1..Len(asked)
      BY <2>2, <3>1 DEF Letters
    <3> QED BY <2>2, <3>2 DEF TypeInv, TypeOK
  <2> QED BY <1>5, <2>1, <2>2
<1> QED BY <1>2, <1>5, <1>6, <1>7 DEF TypeInv, TypeOK, connection

LEMMA TypeInit == Init => TypeInv
<1>1. NewAccumulator.state \in AccStates /\ Sane(NewAccumulator) /\ NewAccumulator.skipped = 0
  BY DEF NewAccumulator, AccStates, Sane, Fields
<1> SUFFICES ASSUME Init PROVE TypeInv
  OBVIOUS
<1>2. acc.state \in AccStates /\ Sane(acc) /\ acc.skipped = 0
  BY <1>1 DEF Init
<1>3. asked = <<>> /\ executed = <<>> /\ answered = 0
  BY DEF Init
<1>4. asked \in Seq(Commands) /\ Len(asked) <= MaxCommands /\ executed \in Seq(1..Len(asked))
      /\ answered \in 0..Len(asked)
  BY <1>3, ExchangeAssumption
<1>5. MailOK
  <2> DEFINE S == Letters(asked)
  <2> HIDE DEF S
  <2>1. {frame, outgoing, c2p, p2c, p2s, s2p} \subseteq Seq(S)
    BY DEF Init
  <2> QED BY <2>1 DEF MailOK, S
<1> QED BY <1>2, <1>4, <1>5 DEF Init, TypeInv, TypeOK, Phases

LEMMA TypeStep == TypeInv /\ [Next]_vars => TypeInv'
<1> SUFFICES ASSUME TypeInv, [Next]_vars PROVE TypeInv'
  OBVIOUS
<1>1. CASE UNCHANGED vars
  BY <1>1 DEF TypeInv, TypeOK, MailOK, vars, connection, peers
<1>2. CASE Worker
  BY <1>2, ReadTypes, TurnTypes, PhaseTypes, ResponseTypes, WriteTypes DEF Worker
<1>3. CASE Client
  <2>1. ClientCutOff => ClientCloses
    BY DEF ClientCutOff
  <2> QED BY <1>3, <2>1, ClientTypes, AskTypes DEF Client
<1>4. CASE Server
  BY <1>4, ServerTypes DEF Server
<1> QED BY <1>1, <1>2, <1>3, <1>4 DEF Next

\* The worker's variables have their types, for every client and server: in particular
\* the packets of a frame are gone when the worker reads or writes, and a command the
\* server executes is one the client asked (process_incoming_frame, exchange).
THEOREM TypeCorrect == Spec => []TypeOK
<1>1. TypeInv => TypeOK
  BY DEF TypeInv
<1> QED BY <1>1, TypeInit, TypeStep, PTL DEF Spec
=============================================================================
