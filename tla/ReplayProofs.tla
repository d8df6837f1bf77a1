----------------------------- MODULE ReplayProofs -----------------------------
(***************************************************************************)
(* Proofs about Replay, for every number of workers, command, reply and    *)
(* size of the buffer.                                                     *)
(*                                                                         *)
(* The first part is about the flow of pieces alone: nothing that is read  *)
(* is lost between partial_bytes, kafka_log_buffer and what is published,  *)
(* whichever packet the accumulator takes for the last one.  The second    *)
(* part follows the accumulator through the replies of RegularReplies, and *)
(* proves the invariant ReplayInv, of which the safety properties are      *)
(* consequences.  Induction over the packets of a frame is done by least   *)
(* counterexamples (LeastNatural).                                         *)
(***************************************************************************)
EXTENDS Replay, ResultSetProofs, WellFoundedInduction

USE ReplayAssumption

\* Concatenation of pieces is associative.
LEMMA Associative == \A s, t, u \in Seq(Pieces) : (s \o t) \o u = s \o (t \o u)
BY ConcatAssociative

\* What the server gave in reply to some command.
LEMMA GivenReply ==
    ASSUME NEW r \in Given
    PROVE  /\ \E c \in Commands : r.text = c.text /\ r.packets \in ServerReplies(c)
           /\ r.text \in Texts /\ Len(r.packets) \in Nat
<1>1. PICK c \in Commands : r \in [text : {c.text}, packets : ServerReplies(c)]
  BY DEF Given
<1>2. r.text = c.text /\ r.packets \in ServerReplies(c)
  BY <1>1
<1> QED BY <1>2 DEF Texts

LEMMA PieceOf ==
    ASSUME NEW v, NEW i
    PROVE  <<v, i>> \in Pieces <=>
             v \in DOMAIN replies /\ i \in Nat /\ i \in 1..(2 * Len(replies[v].packets))
BY DEF Pieces

\* The bytes of a reply, and that later replies do not change them.
LEMMA BytesType ==
    ASSUME FlowTypeOK, NEW v \in DOMAIN replies
    PROVE  Bytes(v) \in Seq(Pieces) /\ Len(Bytes(v)) \in Nat
<1>1. replies \in Seq(Given)
  BY DEF FlowTypeOK
<1>2. v \in Nat /\ replies[v] \in Given
  <2> DEFINE R == Given
  <2> HIDE DEF R
  <2>1. replies \in Seq(R)
    BY <1>1 DEF R
  <2>2. v \in Nat /\ replies[v] \in R
    BY <2>1
  <2> QED BY <2>2 DEF R
<1>3. Len(replies[v].packets) \in Nat
  BY <1>2, GivenReply
<1>4. \A i \in 1..(2 * Len(replies[v].packets)) : <<v, i>> \in Pieces
  BY <1>3, PieceOf
<1>5. Bytes(v) \in [1..(2 * Len(replies[v].packets)) -> Pieces]
  BY <1>4 DEF Bytes
<1> QED BY <1>3, <1>5, IsASeq

LEMMA BytesKept ==
    ASSUME FlowTypeOK, NEW r \in Given,
           replies' = Append(replies, r), NEW v \in DOMAIN replies
    PROVE  Bytes(v)' = Bytes(v) /\ v \in DOMAIN replies'
<1>1. replies \in Seq(Given)
  BY DEF FlowTypeOK
<1>2. replies'[v] = replies[v] /\ v \in DOMAIN replies'
  BY <1>1
<1> QED BY <1>2 DEF Bytes

\* The pieces there were are there later.
LEMMA PiecesKept ==
    ASSUME FlowTypeOK, NEW r \in Given, replies' = Append(replies, r)
    PROVE  Seq(Pieces) \subseteq Seq(Pieces')
<1>1. ASSUME NEW p \in Pieces PROVE p \in Pieces'
  <2>1. /\ p \in (DOMAIN replies) \X Nat
        /\ p[2] \in 1..(2 * Len(replies[p[1]].packets))
    BY DEF Pieces
  <2>2. replies \in Seq(Given)
    BY DEF FlowTypeOK
  <2>3. \A v \in DOMAIN replies : v \in DOMAIN replies' /\ replies'[v] = replies[v]
    BY <2>2
  <2> QED BY <2>1, <2>3 DEF Pieces
<1> QED BY <1>1, SeqMonotonic

\* A frame is cut into what goes on and what is left.
LEMMA FrameCut ==
    ASSUME NEW frame \in Seq(Pieces)
    PROVE  /\ SubSeq(frame, 1, Whole(frame)) \in Seq(Pieces)
           /\ SubSeq(frame, Whole(frame) + 1, Len(frame)) \in Seq(Pieces)
           /\ SubSeq(frame, 1, Whole(frame)) \o SubSeq(frame, Whole(frame) + 1, Len(frame)) = frame
<1>1. Whole(frame) \in 0..Len(frame) /\ Len(frame) \in Nat
  BY DEF Whole
<1>2. SubSeq(frame, 1, Len(frame)) = frame
  BY SubSeqFull
<1>3. ASSUME NEW m \in 1..(Len(frame) + 1), NEW n \in 0..Len(frame)
      PROVE  SubSeq(frame, m, n) \in Seq(Pieces)
  <2>1. \A i \in m..n : i \in 1..Len(frame)
    BY <1>1
  <2>2. \A i \in m..n : frame[i] \in Pieces
    BY <2>1, ElementOfSeq
  <2>3. m \in Int /\ n \in Int
    BY <1>1
  <2> QED BY <2>2, <2>3, SubSeqProperties
<1>4. SubSeq(frame, 1, Whole(frame)) \o SubSeq(frame, Whole(frame) + 1, Len(frame))
        = SubSeq(frame, 1, Len(frame))
  <2>1. /\ 1 \in 1..(Len(frame) + 1)
        /\ Whole(frame) \in (1 - 1)..Len(frame)
        /\ Len(frame) \in Whole(frame)..Len(frame)
    BY <1>1
  <2> QED BY <2>1, ConcatAdjacentSubSeq
<1>5. 1 \in 1..(Len(frame) + 1) /\ Whole(frame) + 1 \in 1..(Len(frame) + 1)
  BY <1>1
<1>6. SubSeq(frame, 1, Whole(frame)) \in Seq(Pieces)
  BY <1>1, <1>3, <1>5
<1>7. SubSeq(frame, Whole(frame) + 1, Len(frame)) \in Seq(Pieces)
  BY <1>1, <1>3, <1>5
<1> QED BY <1>2, <1>4, <1>6, <1>7

\* A part of a sequence of pieces is one.
LEMMA PartType ==
    ASSUME NEW s \in Seq(Pieces), NEW m \in Nat \ {0}, NEW n \in Nat, n <= Len(s)
    PROVE  SubSeq(s, m, n) \in Seq(Pieces)
<1>1. \A i \in m..n : i \in 1..Len(s)
  BY Len(s) \in Nat
<1>2. \A i \in m..n : s[i] \in Pieces
  BY <1>1, ElementOfSeq
<1>3. m \in Int /\ n \in Int
  OBVIOUS
<1> QED BY <1>2, <1>3, SubSeqProperties

\* The server's read: what has been read and the read make what has been read then.
LEMMA ReadIsNext ==
    ASSUME FlowTypeOK, NEW w \in Workers, NEW n \in 1..BufSize, n <= Len(Unread(w))
    PROVE  /\ answer[w] \in DOMAIN replies
           /\ read[w] \in Nat /\ read[w] + n <= Len(Bytes(answer[w]))
           /\ SubSeq(Unread(w), 1, n) \in Seq(Pieces)
           /\ SubSeq(Bytes(answer[w]), 1, read[w]) \in Seq(Pieces)
           /\ SubSeq(Bytes(answer[w]), 1, read[w]) \o SubSeq(Unread(w), 1, n)
                = SubSeq(Bytes(answer[w]), 1, read[w] + n)
<1> DEFINE b == Bytes(answer[w])
<1>1. n \in Nat /\ n >= 1 /\ read[w] \in Nat /\ answer[w] \in 0..Len(replies)
  BY DEF FlowTypeOK
<1>2. answer[w] # 0
  BY <1>1 DEF Unread
<1>3. replies \in Seq(Given)
  BY DEF FlowTypeOK
<1>4. answer[w] \in DOMAIN replies
  <2>1. DOMAIN replies = 1..Len(replies) /\ Len(replies) \in Nat
    BY <1>3
  <2> QED BY <1>1, <1>2, <2>1
<1>5. b \in Seq(Pieces) /\ Len(b) \in Nat
  BY <1>4, BytesType
<1>6. read[w] <= Len(b)
  BY <1>2 DEF FlowTypeOK
<1>7. Unread(w) = SubSeq(b, read[w] + 1, Len(b))
  BY <1>2 DEF Unread
<1> HIDE DEF b
<1>8. Len(SubSeq(b, read[w] + 1, Len(b))) = Len(b) - read[w]
  BY <1>1, <1>5, <1>6
<1>9. n <= Len(b) - read[w]
  BY <1>7, <1>8
<1>10. SubSeq(Unread(w), 1, n) = SubSeq(b, read[w] + 1, read[w] + n)
  <2> DEFINE lo == read[w] + 1
             hi == Len(b)
  <2>1. lo \in 1..Len(b) /\ hi \in 1..Len(b)
    BY <1>1, <1>5, <1>9
  <2>2. 1 \in 1..(hi - lo + 1) /\ n \in 1..(hi - lo + 1)
    BY <1>1, <1>5, <1>9
  <2>3. lo + 1 - 1 = read[w] + 1 /\ lo + n - 1 = read[w] + n
    BY <1>1
  <2>5. Unread(w) = SubSeq(b, lo, hi)
    BY <1>7
  <2> HIDE DEF lo, hi
  <2>4. SubSeq(SubSeq(b, lo, hi), 1, n) = SubSeq(b, lo + 1 - 1, lo + n - 1)
    BY <1>5, <2>1, <2>2, SubSeqOfSubSeq
  <2> QED BY <2>3, <2>4, <2>5
<1>11. SubSeq(b, 1, read[w]) \o SubSeq(b, read[w] + 1, read[w] + n) = SubSeq(b, 1, read[w] + n)
  <2>1. 1 \in 1..(Len(b) + 1) /\ read[w] \in (1 - 1)..Len(b) /\ read[w] + n \in read[w]..Len(b)
    BY <1>1, <1>5, <1>9
  <2> QED BY <1>5, <2>1, ConcatAdjacentSubSeq
<1>12. read[w] + n <= Len(b)
  BY <1>1, <1>5, <1>9
<1>13. SubSeq(b, read[w] + 1, read[w] + n) \in Seq(Pieces) /\ SubSeq(b, 1, read[w]) \in Seq(Pieces)
  <2>1. read[w] + 1 \in Nat \ {0} /\ read[w] + n \in Nat /\ 1 \in Nat \ {0}
    BY <1>1
  <2> QED BY <1>1, <1>5, <1>6, <1>12, <2>1, PartType
<1> QED BY <1>1, <1>4, <1>10, <1>11, <1>12, <1>13 DEF b
-----------------------------------------------------------------------------
(* What one pass of the server loop does, whatever the accumulator finds.  *)

\* A pass keeps the types.
LEMMA HandleFrameType ==
    ASSUME FlowTypeOK, NEW w \in Workers, NEW frame \in Seq(Pieces),
           asking[w] \in Commands, HandleFrame(w, frame)
    PROVE  /\ pc' \in [Workers -> {"client", "server", "ended", "panicked"}]
           /\ \A u \in Workers : u # w => pc'[u] = pc[u]
           /\ {partial', got', buffer', logged'} \subseteq [Workers -> Seq(Pieces)]
           /\ published' \subseteq [key : Texts, bytes : Seq(Pieces)]
           /\ published \subseteq published'
           /\ topic' \subseteq published'
<1> DEFINE F == SubSeq(frame, 1, Whole(frame))
           R == SubSeq(frame, Whole(frame) + 1, Len(frame))
<1>1. F \in Seq(Pieces) /\ R \in Seq(Pieces)
  BY FrameCut
<1>2. PICK step \in Outcomes(w, frame) :
        IF step.panic
        THEN /\ pc' = [pc EXCEPT ![w] = "panicked"]
             /\ UNCHANGED <<partial, acc, got, buffer, published, topic, logged>>
        ELSE /\ pc' = [pc EXCEPT ![w] = IF step.phase = "Command" THEN "client" ELSE "server"]
             /\ partial' = [partial EXCEPT ![w] = R]
             /\ acc' = [acc EXCEPT ![w] = step.acc]
             /\ got' = [got EXCEPT ![w] = @ \o F]
             /\ Push(w, F, R)
  BY DEF HandleFrame
<1> HIDE DEF F, R
<1>3. /\ partial \in [Workers -> Seq(Pieces)] /\ got \in [Workers -> Seq(Pieces)]
      /\ buffer \in [Workers -> Seq(Pieces)] /\ logged \in [Workers -> Seq(Pieces)]
      /\ published \subseteq [key : Texts, bytes : Seq(Pieces)] /\ topic \subseteq published
  BY DEF FlowTypeOK
<1>4. /\ pc' \in [Workers -> {"client", "server", "ended", "panicked"}]
      /\ \A u \in Workers : u # w => pc'[u] = pc[u]
  BY <1>2 DEF FlowTypeOK
<1>5. CASE step.panic
  BY <1>2, <1>3, <1>4, <1>5
<1>6. CASE ~step.panic
  <2>1. partial' \in [Workers -> Seq(Pieces)] /\ got' \in [Workers -> Seq(Pieces)]
    <3>1. got[w] \o F \in Seq(Pieces)
      BY <1>1, <1>3, ConcatProperties
    <3> QED BY <1>1, <1>2, <1>3, <1>6, <3>1
  <2>2. buffer[w] \o F \in Seq(Pieces) /\ <<>> \in Seq(Pieces)
    BY <1>1, <1>3, ConcatProperties, EmptySeq
  <2>3. logged[w] \o (buffer[w] \o F) \in Seq(Pieces)
    BY <1>3, <2>2, ConcatProperties
  <2>4. Push(w, F, R)
    BY <1>2, <1>6
  <2>5. buffer' \in [Workers -> Seq(Pieces)]
    BY <1>3, <2>2, <2>4 DEF Push, KeptBack
  <2>6. logged' \in [Workers -> Seq(Pieces)]
    BY <1>3, <2>3, <2>4 DEF Push
  <2>7. [key |-> asking[w].text, bytes |-> buffer[w] \o F] \in [key : Texts, bytes : Seq(Pieces)]
    BY <2>2 DEF Texts
  <2>8. /\ published \subseteq published' /\ topic' \subseteq published'
        /\ published' \subseteq [key : Texts, bytes : Seq(Pieces)]
    BY <1>3, <2>4, <2>7 DEF Push
  <2> QED BY <1>4, <2>1, <2>5, <2>6, <2>8
<1> QED BY <1>5, <1>6

\* A pass of one worker leaves the others alone.
LEMMA HandleFrameOthers ==
    ASSUME FlowTypeOK, NEW w \in Workers, NEW frame, HandleFrame(w, frame),
           NEW u \in Workers, u # w
    PROVE  /\ pc'[u] = pc[u] /\ partial'[u] = partial[u] /\ got'[u] = got[u]
           /\ buffer'[u] = buffer[u] /\ logged'[u] = logged[u]
BY DEF HandleFrame, Push, FlowTypeOK

\* In a pass of a logging worker nothing of the frame is lost: what goes to the client
\* goes to the log or is kept back for it, and the rest is kept back as partial_bytes.
LEMMA HandleFrameFlow ==
    ASSUME FlowTypeOK, NEW w \in Workers, NEW frame \in Seq(Pieces),
           w \in Logs, HandleFrame(w, frame), LogCoversAnswer
    PROVE  /\ logged'[w] \o buffer'[w] = got'[w]
           /\ pc'[w] # "panicked" => got'[w] \o partial'[w] = got[w] \o frame
<1> DEFINE F == SubSeq(frame, 1, Whole(frame))
           R == SubSeq(frame, Whole(frame) + 1, Len(frame))
<1>1. F \in Seq(Pieces) /\ R \in Seq(Pieces) /\ F \o R = frame
  BY FrameCut
<1>2. PICK step \in Outcomes(w, frame) :
        IF step.panic
        THEN /\ pc' = [pc EXCEPT ![w] = "panicked"]
             /\ UNCHANGED <<partial, acc, got, buffer, published, topic, logged>>
        ELSE /\ pc' = [pc EXCEPT ![w] = IF step.phase = "Command" THEN "client" ELSE "server"]
             /\ partial' = [partial EXCEPT ![w] = R]
             /\ acc' = [acc EXCEPT ![w] = step.acc]
             /\ got' = [got EXCEPT ![w] = @ \o F]
             /\ Push(w, F, R)
  BY DEF HandleFrame
<1> HIDE DEF F, R
<1>3. /\ partial \in [Workers -> Seq(Pieces)] /\ got \in [Workers -> Seq(Pieces)]
      /\ buffer \in [Workers -> Seq(Pieces)] /\ logged \in [Workers -> Seq(Pieces)]
      /\ pc \in [Workers -> {"client", "server", "ended", "panicked"}]
  BY DEF FlowTypeOK
<1>4. logged[w] \o buffer[w] = got[w]
  BY DEF LogCoversAnswer
<1>5. CASE step.panic
  BY <1>2, <1>3, <1>4, <1>5
<1>6. CASE ~step.panic
  <2>1. Push(w, F, R)
    BY <1>2, <1>6
  <2>2. /\ buffer' = [buffer EXCEPT ![w] = IF R = <<>> THEN <<>> ELSE buffer[w] \o F]
        /\ logged' = IF R = <<>> THEN [logged EXCEPT ![w] = @ \o (buffer[w] \o F)] ELSE logged
    BY <2>1 DEF Push, KeptBack
  <2>3. /\ got'[w] = got[w] \o F /\ partial'[w] = R
    BY <1>2, <1>3, <1>6
  <2>5. logged[w] \o (buffer[w] \o F) = got[w] \o F
    <3>1. buffer[w] \in Seq(Pieces) /\ logged[w] \in Seq(Pieces) /\ F \in Seq(Pieces)
      BY <1>1, <1>3
    <3>2. (logged[w] \o buffer[w]) \o F = logged[w] \o (buffer[w] \o F)
      BY <3>1, Associative, Zenon
    <3> QED BY <1>4, <3>2
  <2>6. logged'[w] \o buffer'[w] = got'[w]
    <3>1. CASE R = <<>>
      <4>1. logged'[w] = got[w] \o F /\ buffer'[w] = <<>>
        BY <1>3, <2>2, <2>5, <3>1
      <4>2. got[w] \o F \in Seq(Pieces)
        BY <1>1, <1>3, ConcatProperties
      <4> QED BY <2>3, <4>1, <4>2, ConcatEmptySeq
    <3>2. CASE R # <<>>
      BY <1>3, <2>2, <2>3, <2>5, <3>2
    <3> QED BY <3>1, <3>2
  <2>7. got'[w] \o partial'[w] = got[w] \o frame
    <3>1. got[w] \in Seq(Pieces)
      BY <1>3
    <3>2. (got[w] \o F) \o R = got[w] \o (F \o R)
      BY <1>1, <3>1, Associative, Zenon
    <3> QED BY <1>1, <2>3, <3>2
  <2> QED BY <2>6, <2>7
<1> QED BY <1>5, <1>6
-----------------------------------------------------------------------------
(* Type correctness.                                                       *)

\* Asking keeps the types: the replies there were are the same.
LEMMA AskType ==
    ASSUME FlowTypeOK, NEW w \in Workers, Ask(w)
    PROVE  FlowTypeOK'
<1>1. PICK c \in Commands :
        /\ asking' = [asking EXCEPT ![w] = c]
        /\ IF SendCommandToServer(w, c)
           THEN /\ Len(replies) < MaxAsks
                /\ \E reply \in ServerReplies(c) :
                    replies' = Append(replies, [text |-> c.text, packets |-> reply])
                /\ answer' = [answer EXCEPT ![w] = Len(replies) + 1]
           ELSE /\ answer' = [answer EXCEPT ![w] = 0]
                /\ UNCHANGED replies
  BY DEF Ask
<1>2. /\ pc' = [pc EXCEPT ![w] = "server"] /\ read' = [read EXCEPT ![w] = 0]
      /\ got' = [got EXCEPT ![w] = <<>>] /\ buffer' = [buffer EXCEPT ![w] = <<>>]
      /\ logged' = [logged EXCEPT ![w] = <<>>]
      /\ UNCHANGED <<published, topic, map, gone, partial, rest>>
  BY DEF Ask
<1>3. /\ replies \in Seq(Given) /\ Len(replies) \in Nat
      /\ answer \in [Workers -> 0..Len(replies)]
      /\ asking \in [Workers -> Commands \cup {NotAsked}]
  BY DEF FlowTypeOK
<1>4. /\ replies' \in Seq(Given)
      /\ answer' \in [Workers -> 0..Len(replies')]
      /\ \A u \in Workers : u # w => answer'[u] = answer[u]
      /\ \A v \in DOMAIN replies : Bytes(v)' = Bytes(v)
      /\ answer'[w] # 0 => answer'[w] \in DOMAIN replies'
  <2>1. CASE SendCommandToServer(w, c)
    <3>1. PICK reply \in ServerReplies(c) :
            replies' = Append(replies, [text |-> c.text, packets |-> reply])
      BY <1>1, <2>1
    <3> DEFINE r == [text |-> c.text, packets |-> reply]
    <3>2. r \in Given
      BY DEF Given
    <3>3. replies' = Append(replies, r)
      BY <3>1
    <3>4. answer' = [answer EXCEPT ![w] = Len(replies) + 1]
      BY <1>1, <2>1
    <3> HIDE DEF r
    <3> DEFINE A == Given
    <3>5. replies \in Seq(A) /\ r \in A
      BY <1>3, <3>2
    <3> HIDE DEF A
    <3>6. /\ replies' \in Seq(A) /\ Len(replies') = Len(replies) + 1
          /\ DOMAIN replies' = 1..(Len(replies) + 1)
      BY <3>3, <3>5
    <3>7. answer' \in [Workers -> 0..Len(replies')]
      BY <1>3, <3>4, <3>6
    <3>8. \A v \in DOMAIN replies : Bytes(v)' = Bytes(v)
      BY <3>2, <3>3, BytesKept
    <3> QED BY <1>3, <3>4, <3>6, <3>7, <3>8 DEF A
  <2>2. CASE ~SendCommandToServer(w, c)
    <3>1. answer' = [answer EXCEPT ![w] = 0] /\ replies' = replies
      BY <1>1, <2>2
    <3> QED BY <1>3, <3>1 DEF Bytes
  <2> QED BY <2>1, <2>2
<1>5. /\ pc' \in [Workers -> {"client", "server", "ended", "panicked"}]
      /\ gone' \in [Workers -> BOOLEAN]
      /\ asking' \in [Workers -> Commands \cup {NotAsked}]
      /\ read' \in [Workers -> Nat]
  BY <1>1, <1>2 DEF FlowTypeOK
<1>6. /\ published' \subseteq [key : Texts, bytes : Seq(Pieces)]
      /\ topic' \subseteq published'
      /\ \A k \in DOMAIN map' : [key |-> k, bytes |-> map'[k]] \in published'
      /\ {partial', rest'} \subseteq [Workers -> Seq(Pieces)]
  BY <1>2 DEF FlowTypeOK
<1>7. {got', buffer', logged'} \subseteq [Workers -> Seq(Pieces)]
  BY <1>2, EmptySeq DEF FlowTypeOK
<1>8. ASSUME NEW u \in Workers
      PROVE  /\ pc'[u] = "server" => asking'[u] \in Commands
             /\ (read[u] <= IF answer[u] = 0 THEN 0 ELSE Len(Bytes(answer[u])))'
  <2>1. CASE u = w
    <3>1. read'[u] = 0 /\ asking'[u] = c
      BY <1>1, <1>2, <1>3, <2>1 DEF FlowTypeOK
    <3>2. ASSUME answer'[u] # 0
          PROVE  Len(Bytes(answer[u]))' \in Nat
      <4> DEFINE A == Given
      <4>1. PICK v : v = answer'[u]
        OBVIOUS
      <4>2. v \in DOMAIN replies'
        BY <1>4, <2>1, <3>2, <4>1
      <4>3. replies' \in Seq(A) /\ \A r \in A : Len(r.packets) \in Nat
        BY <1>4, GivenReply
      <4> HIDE DEF A
      <4>5. Len(replies'[v].packets) \in Nat
        BY <4>2, <4>3
      <4>6. Len(Bytes(v)') = 2 * Len(replies'[v].packets)
        BY <4>5 DEF Bytes
      <4>7. Bytes(answer[u])' = Bytes(v)'
        BY <4>1 DEF Bytes
      <4> QED BY <4>5, <4>6, <4>7
    <3> QED BY <3>1, <3>2
  <2>2. CASE u # w
    <3>1. /\ pc'[u] = pc[u] /\ asking'[u] = asking[u] /\ read'[u] = read[u]
          /\ answer'[u] = answer[u]
      BY <1>1, <1>2, <1>4, <2>2 DEF FlowTypeOK
    <3>2. answer[u] # 0 => answer[u] \in DOMAIN replies
      BY <1>3
    <3>3. ASSUME answer[u] # 0
          PROVE  Bytes(answer[u])' = Bytes(answer[u])
      <4>1. PICK v : v = answer[u]
        OBVIOUS
      <4>2. Bytes(v)' = Bytes(v)
        BY <1>4, <3>2, <3>3, <4>1
      <4> QED BY <3>1, <4>1, <4>2 DEF Bytes
    <3> QED BY <3>1, <3>3 DEF FlowTypeOK
  <2> QED BY <2>1, <2>2
<1>9. Seq(Pieces) \subseteq Seq(Pieces')
  <2>1. CASE SendCommandToServer(w, c)
    <3>1. PICK reply \in ServerReplies(c) :
            replies' = Append(replies, [text |-> c.text, packets |-> reply])
      BY <1>1, <2>1
    <3> DEFINE r == [text |-> c.text, packets |-> reply]
    <3>2. r \in Given /\ replies' = Append(replies, r)
      BY <3>1 DEF Given
    <3> QED BY <3>2, PiecesKept
  <2>2. CASE ~SendCommandToServer(w, c)
    BY <1>1, <2>2 DEF Pieces
  <2> QED BY <2>1, <2>2
<1>10. /\ published' \subseteq [key : Texts, bytes : Seq(Pieces')]
       /\ {partial', rest', got', buffer', logged'} \subseteq [Workers -> Seq(Pieces')]
  BY <1>6, <1>7, <1>9
<1> QED BY <1>4, <1>5, <1>6, <1>8, <1>10 DEF FlowTypeOK

\* A read from the server takes what comes next of the reply, and keeps the types.
LEMMA ReadServerType ==
    ASSUME FlowTypeOK, NEW w \in Workers, ReadServer(w)
    PROVE  FlowTypeOK'
<1>1. PICK n \in 1..BufSize :
        /\ n <= Len(Unread(w))
        /\ read' = [read EXCEPT ![w] = @ + n]
        /\ UNCHANGED <<replies, map, gone, asking, answer, rest>>
        /\ HandleFrame(w, partial[w] \o SubSeq(Unread(w), 1, n))
  BY DEF ReadServer
<1> DEFINE frame == partial[w] \o SubSeq(Unread(w), 1, n)
<1>2. /\ read[w] \in Nat /\ read[w] + n <= Len(Bytes(answer[w]))
      /\ SubSeq(Unread(w), 1, n) \in Seq(Pieces)
      /\ answer[w] \in DOMAIN replies
  BY <1>1, ReadIsNext
<1>3. frame \in Seq(Pieces)
  <2>1. partial[w] \in Seq(Pieces)
    BY DEF FlowTypeOK
  <2> QED BY <1>2, <2>1, ConcatProperties
<1>4. asking[w] \in Commands /\ HandleFrame(w, frame)
  BY <1>1 DEF FlowTypeOK, ReadServer
<1> HIDE DEF frame
<1>5. /\ pc' \in [Workers -> {"client", "server", "ended", "panicked"}]
      /\ \A u \in Workers : u # w => pc'[u] = pc[u]
      /\ {partial', got', buffer', logged'} \subseteq [Workers -> Seq(Pieces)]
      /\ published' \subseteq [key : Texts, bytes : Seq(Pieces)]
      /\ published \subseteq published' /\ topic' \subseteq published'
  BY <1>3, <1>4, HandleFrameType
<1>6. read' \in [Workers -> Nat]
  BY <1>1, <1>2 DEF FlowTypeOK
<1>7. ASSUME NEW u \in Workers
      PROVE  /\ pc'[u] = "server" => asking'[u] \in Commands
             /\ (read[u] <= IF answer[u] = 0 THEN 0 ELSE Len(Bytes(answer[u])))'
  <2>1. pc'[u] = "server" => asking'[u] \in Commands
    BY <1>1, <1>4, <1>5 DEF FlowTypeOK
  <2>2. Bytes(answer[u])' = Bytes(answer[u]) /\ answer'[u] = answer[u]
    BY <1>1 DEF Bytes
  <2>3. CASE u = w
    <3>1. read'[u] = read[w] + n
      BY <1>1, <2>3 DEF FlowTypeOK
    <3>2. answer[u] # 0
      BY <1>2, <2>3 DEF FlowTypeOK
    <3> QED BY <1>2, <2>1, <2>2, <2>3, <3>1, <3>2
  <2>4. CASE u # w
    <3>1. read'[u] = read[u]
      BY <1>1, <2>4 DEF FlowTypeOK
    <3> QED BY <2>1, <2>2, <3>1 DEF FlowTypeOK
  <2> QED BY <2>3, <2>4
<1>8. /\ replies' \in Seq(Given)
      /\ \A k \in DOMAIN map' : [key |-> k, bytes |-> map'[k]] \in published'
      /\ gone' \in [Workers -> BOOLEAN]
      /\ asking' \in [Workers -> Commands \cup {NotAsked}]
      /\ answer' \in [Workers -> 0..Len(replies')]
      /\ rest' \in [Workers -> Seq(Pieces)]
  BY <1>1, <1>5 DEF FlowTypeOK
<1>9. Pieces' = Pieces
  BY <1>1 DEF Pieces
<1> QED BY <1>5, <1>6, <1>7, <1>8, <1>9 DEF FlowTypeOK

\* A chunk of an entry is a sequence of pieces that was published, and so is its rest.
LEMMA ServeChunkType ==
    ASSUME FlowTypeOK, NEW w \in Workers, ServeChunk(w)
    PROVE  FlowTypeOK'
<1> DEFINE all == ToTransmit(w)
           len == IF Len(all) < BufSize THEN Len(all) ELSE BufSize
           frame == partial[w] \o SubSeq(all, 1, len)
<1>1. /\ rest' = [rest EXCEPT ![w] = SubSeq(all, len + 1, Len(all))]
      /\ UNCHANGED <<replies, map, gone, asking, answer, read>>
      /\ HandleFrame(w, frame)
  BY DEF ServeChunk
<1>2. all \in Seq(Pieces)
  <2>1. [key |-> asking[w].text, bytes |-> map[asking[w].text]] \in [key : Texts, bytes : Seq(Pieces)]
    BY DEF ServeChunk, HasEntry, FlowTypeOK
  <2>2. map[asking[w].text] \in Seq(Pieces)
    BY <2>1
  <2> QED BY <2>2 DEF ToTransmit, FlowTypeOK
<1>3. len \in Nat /\ len <= Len(all) /\ Len(all) \in Nat
  BY <1>2
<1> HIDE DEF all, len
<1>4. SubSeq(all, 1, len) \in Seq(Pieces) /\ SubSeq(all, len + 1, Len(all)) \in Seq(Pieces)
  <2>1. 1 \in Nat \ {0} /\ len + 1 \in Nat \ {0}
    BY <1>3
  <2> QED BY <1>2, <1>3, <2>1, PartType
<1>5. frame \in Seq(Pieces)
  <2>1. partial[w] \in Seq(Pieces)
    BY DEF FlowTypeOK
  <2> QED BY <1>4, <2>1, ConcatProperties
<1>6. asking[w] \in Commands
  BY DEF FlowTypeOK, ServeChunk
<1> HIDE DEF frame
<1>7. /\ pc' \in [Workers -> {"client", "server", "ended", "panicked"}]
      /\ \A u \in Workers : u # w => pc'[u] = pc[u]
      /\ {partial', got', buffer', logged'} \subseteq [Workers -> Seq(Pieces)]
      /\ published' \subseteq [key : Texts, bytes : Seq(Pieces)]
      /\ published \subseteq published' /\ topic' \subseteq published'
  BY <1>1, <1>5, <1>6, HandleFrameType
<1>8. rest' \in [Workers -> Seq(Pieces)]
  BY <1>1, <1>4 DEF FlowTypeOK
<1>9. ASSUME NEW u \in Workers
      PROVE  /\ pc'[u] = "server" => asking'[u] \in Commands
             /\ (read[u] <= IF answer[u] = 0 THEN 0 ELSE Len(Bytes(answer[u])))'
  <2>1. pc'[u] = "server" => asking'[u] \in Commands
    BY <1>1, <1>6, <1>7 DEF FlowTypeOK
  <2>2. Bytes(answer[u])' = Bytes(answer[u]) /\ answer'[u] = answer[u] /\ read'[u] = read[u]
    BY <1>1 DEF Bytes
  <2> QED BY <2>1, <2>2 DEF FlowTypeOK
<1>10. /\ replies' \in Seq(Given)
       /\ \A k \in DOMAIN map' : [key |-> k, bytes |-> map'[k]] \in published'
       /\ gone' \in [Workers -> BOOLEAN] /\ read' \in [Workers -> Nat]
       /\ asking' \in [Workers -> Commands \cup {NotAsked}]
       /\ answer' \in [Workers -> 0..Len(replies')]
  BY <1>1, <1>7 DEF FlowTypeOK
<1>11. Pieces' = Pieces
  BY <1>1 DEF Pieces
<1> QED BY <1>7, <1>8, <1>9, <1>10, <1>11 DEF FlowTypeOK

\* A step that leaves the replies, the entries and the commands alone keeps the types
\* of what depends on them.
LEMMA QuietType ==
    ASSUME FlowTypeOK,
           UNCHANGED <<replies, published, asking, answer, read>>,
           UNCHANGED <<partial, rest, got, buffer, logged>>,
           topic' \subseteq topic,
           \A k \in DOMAIN map' : [key |-> k, bytes |-> map'[k]] \in published,
           pc' \in [Workers -> {"client", "server", "ended", "panicked"}],
           \A w \in Workers : pc'[w] = "server" => pc[w] = "server",
           gone' \in [Workers -> BOOLEAN]
    PROVE  FlowTypeOK'
<1>1. \A w \in Workers : Bytes(answer[w])' = Bytes(answer[w])
  BY DEF Bytes
<1>2. Pieces' = Pieces
  BY DEF Pieces
<1> QED BY <1>1, <1>2 DEF FlowTypeOK

\* A worker's variables, the log and the map keep their types, for every number of
\* workers and commands, every length of reply and every size of read: an entry of the
\* map was published, and no worker has read more than the server has said.
THEOREM FlowTypeCorrect == Spec => []FlowTypeOK
<1>1. Init => FlowTypeOK
  <2> SUFFICES ASSUME Init PROVE FlowTypeOK
    OBVIOUS
  <2>1. /\ replies = <<>> /\ published = {} /\ topic = {} /\ map = <<>>
        /\ replies \in Seq(Given)
    BY EmptySeq DEF Init
  <2>2. DOMAIN map = {}
    BY <2>1
  <2>3. {partial, rest, got, buffer, logged} \subseteq [Workers -> Seq(Pieces)]
    BY EmptySeq DEF Init
  <2>4. answer \in [Workers -> 0..Len(replies)]
    BY <2>1 DEF Init
  <2> QED BY <2>1, <2>2, <2>3, <2>4 DEF Init, FlowTypeOK
<1>2. FlowTypeOK /\ [Next]_vars => FlowTypeOK'
  <2> SUFFICES ASSUME FlowTypeOK, [Next]_vars PROVE FlowTypeOK'
    OBVIOUS
  <2>1. ASSUME NEW w \in Workers, Ask(w) PROVE FlowTypeOK'
    BY <2>1, AskType
  <2>2. ASSUME NEW w \in Workers, ClientCloses(w) PROVE FlowTypeOK'
    BY <2>2, QuietType DEF ClientCloses, shared, FlowTypeOK
  <2>3. ASSUME NEW w \in Workers, WorkerEnds(w) PROVE FlowTypeOK'
    <3>1. /\ pc' \in [Workers -> {"client", "server", "ended", "panicked"}]
          /\ \A u \in Workers : pc'[u] = "server" => pc[u] = "server"
      BY <2>3 DEF WorkerEnds, FlowTypeOK
    <3> QED BY <2>3, <3>1, QuietType DEF WorkerEnds, shared, FlowTypeOK
  <2>4. ASSUME NEW w \in Workers, ReadServer(w) PROVE FlowTypeOK'
    BY <2>4, ReadServerType
  <2>5. ASSUME NEW w \in Workers, ServeChunk(w) PROVE FlowTypeOK'
    BY <2>5, ServeChunkType
  <2>6. ASSUME ReceiveEntry PROVE FlowTypeOK'
    <3>1. PICK e \in topic :
            /\ topic' = topic \ {e}
            /\ map' = [k \in DOMAIN map \cup {e.key} |->
                            IF k = e.key THEN e.bytes ELSE map[k]]
            /\ UNCHANGED <<replies, published, session>>
      BY <2>6 DEF ReceiveEntry
    <3>2. e \in [key : Texts, bytes : Seq(Pieces)] /\ e \in published
      BY DEF FlowTypeOK
    <3>3. e = [key |-> e.key, bytes |-> e.bytes]
      BY <3>2
    <3>4. ASSUME NEW k \in DOMAIN map' PROVE [key |-> k, bytes |-> map'[k]] \in published
      <4>1. CASE k = e.key
        BY <3>1, <3>2, <3>3, <4>1
      <4>2. CASE k # e.key
        <5>1. k \in DOMAIN map /\ map'[k] = map[k]
          BY <3>1, <4>2
        <5> QED BY <5>1 DEF FlowTypeOK
      <4> QED BY <4>1, <4>2
    <3>5. topic' \subseteq topic
      BY <3>1
    <3> QED BY <3>1, <3>4, <3>5, QuietType DEF session, FlowTypeOK
  <2>7. ASSUME NEW k \in Texts, ExpireEntry(k) PROVE FlowTypeOK'
    <3>1. \A j \in DOMAIN map' : j \in DOMAIN map /\ map'[j] = map[j]
      BY <2>7 DEF ExpireEntry
    <3>2. \A j \in DOMAIN map' : [key |-> j, bytes |-> map'[j]] \in published
      BY <3>1 DEF FlowTypeOK
    <3> QED BY <2>7, <3>2, QuietType DEF ExpireEntry, session, FlowTypeOK
  <2>8. CASE UNCHANGED vars
    BY <2>8, QuietType DEF vars, shared, session, FlowTypeOK
  <2> QED BY <2>1, <2>2, <2>3, <2>4, <2>5, <2>6, <2>7, <2>8 DEF Next, Worker
<1> QED BY <1>1, <1>2, PTL DEF Spec
-----------------------------------------------------------------------------
(* Nothing the server says is lost on its way to the log.                  *)

\* A read of the server is published, kept back for the log or kept as partial_bytes.
LEMMA ReadServerFlow ==
    ASSUME FlowTypeOK, LogCoversAnswer, NEW w \in Workers, ReadServer(w)
    PROVE  LogCoversAnswer'
<1>1. PICK n \in 1..BufSize :
        /\ n <= Len(Unread(w))
        /\ read' = [read EXCEPT ![w] = @ + n]
        /\ UNCHANGED <<replies, map, gone, asking, answer, rest>>
        /\ HandleFrame(w, partial[w] \o SubSeq(Unread(w), 1, n))
  BY DEF ReadServer
<1> DEFINE next == SubSeq(Unread(w), 1, n)
           frame == partial[w] \o next
<1>2. /\ answer[w] \in DOMAIN replies /\ read[w] \in Nat
      /\ next \in Seq(Pieces)
      /\ SubSeq(Bytes(answer[w]), 1, read[w]) \o next = SubSeq(Bytes(answer[w]), 1, read[w] + n)
  BY <1>1, ReadIsNext
<1>3. partial[w] \in Seq(Pieces) /\ got[w] \in Seq(Pieces) /\ pc[w] = "server"
  BY DEF FlowTypeOK, ReadServer
<1>4. asking[w] \in Commands /\ HandleFrame(w, frame)
  BY <1>1 DEF FlowTypeOK, ReadServer
<1> HIDE DEF next
<1>5. frame \in Seq(Pieces) /\ got[w] \o frame = (got[w] \o partial[w]) \o next
  BY <1>2, <1>3, ConcatProperties, Associative
<1> HIDE DEF frame
<1>6. \A u \in Workers : Bytes(answer[u])' = Bytes(answer[u]) /\ answer'[u] = answer[u]
  BY <1>1 DEF Bytes
<1>7. \A u \in Workers : u # w => pc'[u] = pc[u] /\ read'[u] = read[u]
  BY <1>1, <1>4, <1>5, HandleFrameType DEF FlowTypeOK
<1>8. read'[w] = read[w] + n
  BY <1>1 DEF FlowTypeOK
<1> SUFFICES ASSUME NEW u \in Logs
             PROVE  /\ logged'[u] \o buffer'[u] = got'[u]
                    /\ (answer'[u] # 0 /\ pc'[u] # "panicked") =>
                         logged'[u] \o buffer'[u] \o partial'[u]
                            = (SubSeq(Bytes(answer[u]), 1, read[u]))'
  BY DEF LogCoversAnswer
<1>9. u \in Workers
  OBVIOUS
<1>10. CASE u = w
  <2>1. /\ logged'[w] \o buffer'[w] = got'[w]
        /\ pc'[w] # "panicked" => got'[w] \o partial'[w] = got[w] \o frame
    BY <1>4, <1>5, <1>10, HandleFrameFlow
  <2>2. (got[w] \o partial[w]) \o next = SubSeq(Bytes(answer[w]), 1, read[w] + n)
    <3>1. logged[w] \o buffer[w] = got[w]
      BY <1>10 DEF LogCoversAnswer
    <3>2. answer[w] # 0 /\ pc[w] # "panicked"
      BY <1>2, <1>3 DEF FlowTypeOK
    <3>3. logged[w] \o buffer[w] \o partial[w] = SubSeq(Bytes(answer[w]), 1, read[w])
      BY <1>10, <3>2 DEF LogCoversAnswer
    <3> QED BY <1>2, <3>1, <3>3
  <2> QED BY <1>5, <1>6, <1>8, <1>9, <1>10, <2>1, <2>2
<1>11. CASE u # w
  <2>1. pc'[u] = pc[u] /\ read'[u] = read[u] /\ answer'[u] = answer[u]
    BY <1>6, <1>7, <1>9, <1>11
  <2>2. /\ partial'[u] = partial[u] /\ got'[u] = got[u]
        /\ buffer'[u] = buffer[u] /\ logged'[u] = logged[u]
    BY <1>4, <1>9, <1>11, HandleFrameOthers
  <2> QED BY <1>6, <1>9, <2>1, <2>2 DEF LogCoversAnswer
<1> QED BY <1>10, <1>11

\* The server has been asked exactly by the workers that listen to it: the test of the
\* client loop and that of the server loop agree.
AskedIfListening ==
    \A w \in Workers : pc[w] = "server" => (answer[w] # 0 <=> FromServer(w))

\* A chunk of an entry is published, kept back or kept as partial_bytes just the same.
LEMMA ServeChunkFlow ==
    ASSUME FlowTypeOK, LogCoversAnswer, AskedIfListening, NEW w \in Workers, ServeChunk(w),
           FlowTypeOK'
    PROVE  LogCoversAnswer'
<1> DEFINE all == ToTransmit(w)
           len == IF Len(all) < BufSize THEN Len(all) ELSE BufSize
           frame == partial[w] \o SubSeq(all, 1, len)
<1>1. /\ UNCHANGED <<replies, map, gone, asking, answer, read>>
      /\ HandleFrame(w, frame) /\ pc[w] = "server" /\ ~FromServer(w)
  BY DEF ServeChunk
<1>2. all \in Seq(Pieces)
  <2>1. [key |-> asking[w].text, bytes |-> map[asking[w].text]] \in [key : Texts, bytes : Seq(Pieces)]
    BY DEF ServeChunk, HasEntry, FlowTypeOK
  <2>2. map[asking[w].text] \in Seq(Pieces)
    BY <2>1
  <2> QED BY <2>2 DEF ToTransmit, FlowTypeOK
<1>3. len \in Nat /\ len <= Len(all) /\ Len(all) \in Nat
  BY <1>2
<1> HIDE DEF all, len
<1>4. frame \in Seq(Pieces)
  <2>1. SubSeq(all, 1, len) \in Seq(Pieces)
    <3>1. 1 \in Nat \ {0}
      OBVIOUS
    <3> QED BY <1>2, <1>3, <3>1, PartType
  <2>2. partial[w] \in Seq(Pieces)
    BY DEF FlowTypeOK
  <2> QED BY <2>1, <2>2, ConcatProperties
<1> HIDE DEF frame
<1>5. answer[w] = 0
  BY <1>1 DEF AskedIfListening
<1>6. \A u \in Workers : Bytes(answer[u])' = Bytes(answer[u])
  BY <1>1 DEF Bytes
<1>7. asking[w] \in Commands
  BY <1>1 DEF FlowTypeOK
<1>8. \A u \in Workers : u # w => pc'[u] = pc[u]
  BY <1>1, <1>4, <1>7, HandleFrameType
<1> SUFFICES ASSUME NEW u \in Logs
             PROVE  /\ logged'[u] \o buffer'[u] = got'[u]
                    /\ (answer'[u] # 0 /\ pc'[u] # "panicked") =>
                         logged'[u] \o buffer'[u] \o partial'[u]
                            = (SubSeq(Bytes(answer[u]), 1, read[u]))'
  BY DEF LogCoversAnswer
<1>9. u \in Workers
  OBVIOUS
<1>10. CASE u = w
  BY <1>1, <1>4, <1>5, <1>10, HandleFrameFlow
<1>11. CASE u # w
  <2>1. /\ partial'[u] = partial[u] /\ got'[u] = got[u]
        /\ buffer'[u] = buffer[u] /\ logged'[u] = logged[u]
    <3>1. HandleFrame(w, frame)
      BY <1>1
    <3> QED BY <1>9, <1>11, <3>1, HandleFrameOthers
  <2> QED BY <1>1, <1>6, <1>8, <1>9, <1>11, <2>1 DEF LogCoversAnswer
<1> QED BY <1>10, <1>11

\* A command starts with nothing logged, kept back or left over: the reply before it was
\* read to its end.
LEMMA AskFlow ==
    ASSUME FlowTypeOK, LogCoversAnswer, LogComplete, NEW w \in Workers, Ask(w)
    PROVE  LogCoversAnswer'
<1>1. /\ got' = [got EXCEPT ![w] = <<>>] /\ buffer' = [buffer EXCEPT ![w] = <<>>]
      /\ logged' = [logged EXCEPT ![w] = <<>>] /\ read' = [read EXCEPT ![w] = 0]
      /\ pc' = [pc EXCEPT ![w] = "server"] /\ pc[w] = "client" /\ partial' = partial
  BY DEF Ask
<1>2. \/ \E r \in Given : replies' = Append(replies, r)
      \/ replies' = replies
  <2>1. PICK c \in Commands :
            \/ \E reply \in ServerReplies(c) :
                  replies' = Append(replies, [text |-> c.text, packets |-> reply])
            \/ replies' = replies
    BY DEF Ask
  <2>2. \A reply \in ServerReplies(c) :
            [text |-> c.text, packets |-> reply] \in Given
    BY DEF Given
  <2> QED BY <2>1, <2>2
<1>3. \A u \in Workers : u # w => answer'[u] = answer[u]
  BY DEF Ask, FlowTypeOK
<1>4. \A v \in DOMAIN replies : Bytes(v)' = Bytes(v)
  <2>1. CASE replies' = replies
    BY <2>1 DEF Bytes
  <2>2. CASE \E r \in Given : replies' = Append(replies, r)
    BY <2>2, BytesKept
  <2> QED BY <1>2, <2>1, <2>2
<1> SUFFICES ASSUME NEW u \in Logs
             PROVE  /\ logged'[u] \o buffer'[u] = got'[u]
                    /\ (answer'[u] # 0 /\ pc'[u] # "panicked") =>
                         logged'[u] \o buffer'[u] \o partial'[u]
                            = (SubSeq(Bytes(answer[u]), 1, read[u]))'
  BY DEF LogCoversAnswer
<1>5. u \in Workers
  OBVIOUS
<1>6. CASE u = w
  <2>1. logged'[u] = <<>> /\ buffer'[u] = <<>> /\ got'[u] = <<>> /\ read'[u] = 0
    BY <1>1, <1>5, <1>6 DEF FlowTypeOK
  <2>2. partial'[u] = <<>>
    BY <1>1, <1>6 DEF LogComplete
  <2>3. <<>> \o <<>> = <<>>
    BY ConcatEmptySeq, EmptySeq
  <2>4. \A s : SubSeq(s, 1, 0) = <<>>
    BY SubSeqEmpty
  <2> QED BY <2>1, <2>2, <2>3, <2>4
<1>7. CASE u # w
  <2>1. /\ partial'[u] = partial[u] /\ got'[u] = got[u] /\ answer'[u] = answer[u]
        /\ buffer'[u] = buffer[u] /\ logged'[u] = logged[u] /\ read'[u] = read[u]
        /\ pc'[u] = pc[u]
    BY <1>1, <1>3, <1>5, <1>7 DEF FlowTypeOK
  <2>2. ASSUME answer[u] # 0 PROVE Bytes(answer[u])' = Bytes(answer[u])
    <3>1. PICK v : v = answer[u]
      OBVIOUS
    <3>2. v \in DOMAIN replies
      <4>1. answer[u] \in 0..Len(replies)
        BY <1>5 DEF FlowTypeOK
      <4>2. DOMAIN replies = 1..Len(replies) /\ Len(replies) \in Nat
        BY DEF FlowTypeOK
      <4> QED BY <2>2, <3>1, <4>1, <4>2
    <3>3. Bytes(v)' = Bytes(v)
      BY <1>4, <3>2
    <3> QED BY <2>1, <3>1, <3>3 DEF Bytes
  <2> QED BY <2>1, <2>2 DEF LogCoversAnswer
<1> QED BY <1>6, <1>7

\* A step that leaves the session's flow alone leaves the log's account of it right.
LEMMA QuietFlow ==
    ASSUME LogCoversAnswer, UNCHANGED <<replies, answer, read, partial, got, buffer, logged>>,
           \A w \in Workers : pc[w] = "panicked" => pc'[w] = "panicked"
    PROVE  LogCoversAnswer'
<1>1. \A w \in Workers : Bytes(answer[w])' = Bytes(answer[w])
  BY DEF Bytes
<1> QED BY <1>1 DEF LogCoversAnswer

\* At the start nothing has been read.
LEMMA FlowInit ==
    ASSUME Init
    PROVE  LogCoversAnswer /\ AskedIfListening
<1>1. \A w \in Logs : logged[w] = <<>> /\ buffer[w] = <<>> /\ got[w] = <<>> /\ answer[w] = 0
  BY DEF Init
<1>2. <<>> \o <<>> = <<>>
  BY ConcatEmptySeq, EmptySeq
<1> QED BY <1>1, <1>2 DEF Init, LogCoversAnswer, AskedIfListening

\* A step keeps the log's account of the answer, where the end of the last answer was
\* recognised.
LEMMA FlowKept ==
    ASSUME FlowTypeOK, FlowTypeOK', LogComplete, LogCoversAnswer, AskedIfListening, [Next]_vars
    PROVE  LogCoversAnswer' /\ AskedIfListening'
<1> DEFINE I == LogCoversAnswer /\ AskedIfListening
<1> SUFFICES I'
  OBVIOUS
<1>1. ASSUME NEW w \in Workers, Ask(w) PROVE I'
  <2>1. LogCoversAnswer'
    BY <1>1, AskFlow
  <2>2. AskedIfListening'
    <3>1. PICK c \in Commands :
              /\ asking' = [asking EXCEPT ![w] = c]
              /\ answer' = [answer EXCEPT ![w] =
                               IF SendCommandToServer(w, c) THEN Len(replies) + 1 ELSE 0]
      BY <1>1 DEF Ask
    <3>2. Len(replies) \in Nat /\ pc' = [pc EXCEPT ![w] = "server"]
      BY <1>1 DEF FlowTypeOK, Ask
    <3>3. ASSUME NEW u \in Workers
          PROVE  (pc[u] = "server" => (answer[u] # 0 <=> FromServer(u)))'
      <4>1. CASE u = w
        <5>1. /\ asking'[u] = c
              /\ answer'[u] = IF SendCommandToServer(w, c) THEN Len(replies) + 1 ELSE 0
          BY <3>1, <4>1 DEF FlowTypeOK
        <5>2. FromServer(u)' <=> SendCommandToServer(w, c)
          BY <4>1, <5>1 DEF FromServer, SendCommandToServer
        <5> QED BY <3>2, <5>1, <5>2
      <4>2. CASE u # w
        <5>1. asking'[u] = asking[u] /\ answer'[u] = answer[u] /\ pc'[u] = pc[u]
          BY <3>1, <3>2, <4>2 DEF FlowTypeOK
        <5> QED BY <5>1 DEF AskedIfListening, FromServer, SendCommandToServer
      <4> QED BY <4>1, <4>2
    <3> QED BY <3>3 DEF AskedIfListening
  <2> QED BY <2>1, <2>2
<1>2. ASSUME NEW w \in Workers, ClientCloses(w) PROVE I'
  BY <1>2, QuietFlow DEF ClientCloses, shared, AskedIfListening, FromServer,
     SendCommandToServer
<1>3. ASSUME NEW w \in Workers, WorkerEnds(w) PROVE I'
  BY <1>3, QuietFlow DEF WorkerEnds, shared, AskedIfListening, FromServer,
     SendCommandToServer, FlowTypeOK
<1>4. ASSUME NEW w \in Workers, ReadServer(w) \/ ServeChunk(w) PROVE I'
  <2>1. LogCoversAnswer'
    BY <1>4, ReadServerFlow, ServeChunkFlow
  <2>2. AskedIfListening'
    <3>1. asking' = asking /\ answer' = answer /\ pc[w] = "server"
      BY <1>4 DEF ReadServer, ServeChunk
    <3>2. \A u \in Workers : u # w => pc'[u] = pc[u]
      <4>1. PICK frame : HandleFrame(w, frame)
        BY <1>4 DEF ReadServer, ServeChunk
      <4> QED BY <4>1, HandleFrameOthers
    <3> QED BY <3>1, <3>2 DEF AskedIfListening, FromServer, SendCommandToServer
  <2> QED BY <2>1, <2>2
<1>5. ASSUME ReceiveEntry PROVE I'
  BY <1>5, QuietFlow DEF ReceiveEntry, session, AskedIfListening, FromServer,
     SendCommandToServer
<1>6. ASSUME NEW k \in Texts, ExpireEntry(k) PROVE I'
  BY <1>6, QuietFlow DEF ExpireEntry, session, AskedIfListening, FromServer,
     SendCommandToServer
<1>7. CASE UNCHANGED vars
  BY <1>7, QuietFlow DEF vars, shared, session, AskedIfListening, FromServer,
     SendCommandToServer
<1> QED BY <1>1, <1>2, <1>3, <1>4, <1>5, <1>6, <1>7 DEF Next, Worker

\* As long as the end of an answer is recognised where it is (LogComplete), nothing the
\* server says is missing from the log or in it twice, however reads cut it, for every
\* number of workers and size of buffer: it is published, in kafka_log_buffer, or an
\* incomplete packet (push_to_kafka_if_logging_enabled).
THEOREM NothingMissing == Spec /\ []LogComplete => []LogCoversAnswer
<1> DEFINE I == LogCoversAnswer /\ AskedIfListening
<1>1. Init => I
  BY FlowInit
<1>2. FlowTypeOK /\ FlowTypeOK' /\ LogComplete /\ I /\ [Next]_vars => I'
  BY FlowKept
<1>3. I => LogCoversAnswer
  OBVIOUS
<1> QED BY <1>1, <1>2, <1>3, FlowTypeCorrect, PTL DEF Spec
-----------------------------------------------------------------------------
(* What the accumulator makes of a frame.                                  *)

\* A set of naturals that is not empty has a least element: what is proved by induction
\* below is proved of the least counterexample.
LEMMA LeastNatural ==
    ASSUME NEW T, T \subseteq Nat, T # {}
    PROVE  \E n \in T : \A m \in T : n <= m
<1> DEFINE R == OpToRel(<, Nat)
<1>1. IsWellFoundedOn(R, Nat)
  BY NatLessThanWellFounded
<1> HIDE DEF R
<1>2. PICK x \in T : \A y \in T : <<y, x>> \notin R
  BY <1>1, WFMin
<1>3. \A y \in T : ~(y < x)
  BY <1>2 DEF R, OpToRel
<1> QED BY <1>2, <1>3

\* The steps through a frame, packet by packet.
OneMore(w, frame, i, steps) ==
    {After(step, pkt, asking[w].com) : step \in steps, pkt \in {PacketOf(frame[2 * i])}}

Steps(w, frame, n, f) ==
    f = [i \in 0..n |-> IF i = 0 THEN {Pending(acc[w], OkPacket)}
                        ELSE OneMore(w, frame, i, f[i - 1])]

LEMMA StepsExist ==
    ASSUME NEW w, NEW frame, NEW n \in Nat
    PROVE  \E f : Steps(w, frame, n, f)
<1> DEFINE T == {k \in Nat : ~ \E f : Steps(w, frame, k, f)}
<1>1. SUFFICES ASSUME T # {} PROVE FALSE
  OBVIOUS
<1>2. PICK k \in T : \A m \in T : k <= m
  <2>1. T \subseteq Nat
    OBVIOUS
  <2> HIDE DEF T
  <2> QED BY <1>1, <2>1, LeastNatural
<1>3. CASE k = 0
  <2> DEFINE h == [i \in 0..0 |-> {Pending(acc[w], OkPacket)}]
  <2>1. Steps(w, frame, 0, h)
    BY DEF Steps
  <2> QED BY <1>2, <1>3, <2>1
<1>4. CASE k > 0
  <2>1. k - 1 \in Nat /\ k - 1 \notin T
    BY <1>2, <1>4
  <2>2. PICK g : Steps(w, frame, k - 1, g)
    BY <2>1
  <2> DEFINE h == [i \in 0..k |-> IF i = k THEN OneMore(w, frame, k, g[k - 1]) ELSE g[i]]
  <2>3. \A i \in 0..(k - 1) : g[i] = IF i = 0 THEN {Pending(acc[w], OkPacket)}
                                       ELSE OneMore(w, frame, i, g[i - 1])
    BY <2>1, <2>2 DEF Steps
  <2>4. ASSUME NEW i \in 0..k
        PROVE  h[i] = IF i = 0 THEN {Pending(acc[w], OkPacket)}
                      ELSE OneMore(w, frame, i, h[i - 1])
    <3>1. CASE i = k
      <4>1. h[k - 1] = g[k - 1] /\ h[k] = OneMore(w, frame, k, g[k - 1])
        BY <1>4, <2>1
      <4> HIDE DEF h
      <4> QED BY <1>4, <3>1, <4>1
    <3>2. CASE i # k
      <4>1. i \in 0..(k - 1) /\ h[i] = g[i]
        BY <2>1, <3>2
      <4>2. i # 0 => h[i - 1] = g[i - 1]
        BY <2>1, <4>1
      <4> HIDE DEF h
      <4> QED BY <2>3, <4>1, <4>2
    <3> QED BY <3>1, <3>2
  <2>5. h = [i \in 0..k |-> h[i]]
    OBVIOUS
  <2> HIDE DEF h
  <2>6. Steps(w, frame, k, h)
    BY <2>4, <2>5 DEF Steps
  <2> QED BY <1>2, <2>6
<1> QED BY <1>2, <1>3, <1>4

\* The outcomes are those of the last step.
Walks(w, frame, f) ==
    /\ f[0] = {Pending(acc[w], OkPacket)}
    /\ \A i \in 1..(Len(frame) \div 2) : f[i] = OneMore(w, frame, i, f[i - 1])
    /\ Outcomes(w, frame) = f[Len(frame) \div 2]

LEMMA OutcomesWalk ==
    ASSUME NEW w, NEW frame, Len(frame) \in Nat
    PROVE  \E f : Walks(w, frame, f)
<1> DEFINE n == Len(frame) \div 2
           f == CHOOSE g : Steps(w, frame, n, g)
<1>1. n \in Nat
  OBVIOUS
<1>2. Outcomes(w, frame) = f[n]
  BY DEF Outcomes, Steps, OneMore
<1> HIDE DEF n
<1>3. Steps(w, frame, n, f)
  BY <1>1, StepsExist
<1> HIDE DEF f
<1>4. /\ f[0] = {Pending(acc[w], OkPacket)}
      /\ \A i \in 1..n : f[i] = OneMore(w, frame, i, f[i - 1])
  <2>1. 0 \in 0..n /\ \A i \in 1..n : i \in 0..n /\ i # 0
    BY <1>1
  <2>2. \A i \in 0..n : f[i] = IF i = 0 THEN {Pending(acc[w], OkPacket)}
                                ELSE OneMore(w, frame, i, f[i - 1])
    BY <1>3, Zenon DEF Steps
  <2> QED BY <2>1, <2>2, Zenon
<1>5. Walks(w, frame, f)
  BY <1>2, <1>4 DEF Walks, n
<1> QED BY <1>5
-----------------------------------------------------------------------------
(* The accumulator on its way through a reply.                             *)

LEMMA PacketDomain ==
    ASSUME NEW p \in Packets
    PROVE  DOMAIN p = PacketFields
BY DEF Packets, PacketFields

\* One packet more of a step that was not the last.
LEMMA AfterPending ==
    ASSUME NEW step, ~step.panic, step.phase = "PendingResponse", NEW pkt, NEW com
    PROVE  After(step, pkt, com) = Consume(step.acc, pkt, com, FALSE)
BY DEF After

\* A frame that goes on where the accumulator is takes it as many packets further.
Arrives(frame, k, n, a, step) ==
    /\ ~step.panic /\ step.acc = a[k + (Len(frame) \div 2)]
    /\ step.phase = IF k + (Len(frame) \div 2) = n THEN "Command" ELSE "PendingResponse"

\* The i-th packet after the k-th of n, and the one before it.
LEMMA PlaceAfter ==
    ASSUME NEW k \in Nat, NEW m \in Nat, NEW n \in Nat, k + m <= n, NEW i \in 1..m
    PROVE  k + i \in 1..n /\ k + (i - 1) = (k + i) - 1 /\ k + (i - 1) # n
OBVIOUS

LEMMA WalkAlong ==
    ASSUME NEW w, NEW frame, Len(frame) \in Nat, NEW v, NEW com, asking[w].com = com,
           NEW k \in Nat, NEW n \in Nat, n = Len(replies[v].packets), k < n,
           NEW a, Traces(a, replies[v].packets, com), acc[w] = a[k],
           k + (Len(frame) \div 2) <= n,
           \A i \in 1..(Len(frame) \div 2) : frame[2 * i] = <<v, 2 * (k + i)>>,
           NEW step \in Outcomes(w, frame)
    PROVE  Arrives(frame, k, n, a, step)
<1> DEFINE m == Len(frame) \div 2
           p == replies[v].packets
           Fine(i, s) == /\ ~s.panic /\ s.acc = a[k + i]
                         /\ s.phase = IF k + i = n THEN "Command" ELSE "PendingResponse"
<1>1. m \in Nat /\ k + m <= n
  OBVIOUS
<1>10. \A i \in 1..m : k + i \in 1..n /\ k + (i - 1) = (k + i) - 1 /\ k + (i - 1) # n
  <2> HIDE DEF m
  <2> QED BY <1>1, PlaceAfter
<1>2. PICK f : Walks(w, frame, f)
  BY OutcomesWalk
<1>3. /\ f[0] = {Pending(acc[w], OkPacket)}
      /\ \A i \in 1..m : f[i] = OneMore(w, frame, i, f[i - 1])
      /\ Outcomes(w, frame) = f[m]
  BY <1>2, Zenon DEF Walks
<1>4. ASSUME NEW i \in 1..m PROVE PacketOf(frame[2 * i]) = p[k + i]
  <2>1. frame[2 * i] = <<v, 2 * (k + i)>>
    OBVIOUS
  <2>2. (2 * (k + i) + 1) \div 2 = k + i
    BY <1>1
  <2>3. <<v, 2 * (k + i)>>[1] = v /\ <<v, 2 * (k + i)>>[2] = 2 * (k + i)
    OBVIOUS
  <2> QED BY <2>1, <2>2, <2>3 DEF PacketOf
<1>5. \A i \in 1..n : /\ ~Consume(a[i - 1], p[i], com, FALSE).panic
                      /\ Consume(a[i - 1], p[i], com, FALSE).acc = a[i]
                      /\ Consume(a[i - 1], p[i], com, FALSE).phase
                            = IF i = n THEN "Command" ELSE "PendingResponse"
  BY DEF Traces
<1> HIDE DEF m
<1> DEFINE T == {i \in 0..m : ~ \A s \in f[i] : Fine(i, s)}
<1>6. T = {}
  <2> SUFFICES ASSUME T # {} PROVE FALSE
    OBVIOUS
  <2>1. PICK i \in T : \A j \in T : i <= j
    <3>1. T \subseteq Nat
      BY <1>1
    <3> HIDE DEF T
    <3> QED BY <3>1, LeastNatural
  <2>2. CASE i = 0
    <3>1. \A s \in f[0] : s = Pending(acc[w], OkPacket)
      BY <1>3
    <3>2. \A s \in f[0] : Fine(0, s)
      BY <3>1, PendingFields
    <3> QED BY <2>1, <2>2, <3>2
  <2>3. CASE i # 0
    <3>1. i \in 1..m /\ i - 1 \in 0..m /\ i - 1 \notin T
      <4>1. T \subseteq 0..m
        OBVIOUS
      <4> HIDE DEF T
      <4> QED BY <1>1, <2>1, <2>3, <4>1
    <3>2. \A s \in f[i - 1] : Fine(i - 1, s)
      BY <3>1
    <3>3. ASSUME NEW s \in f[i] PROVE Fine(i, s)
      <4>1. s \in OneMore(w, frame, i, f[i - 1])
        BY <1>3, <3>1
      <4>2. PICK t \in f[i - 1] : s = After(t, PacketOf(frame[2 * i]), asking[w].com)
        BY <4>1 DEF OneMore
      <4>3. Fine(i - 1, t)
        BY <3>2
      <4>4. k + i \in 1..n /\ k + (i - 1) = (k + i) - 1 /\ k + (i - 1) # n
        BY <1>10, <3>1, Zenon
      <4>5. ~t.panic /\ t.acc = a[(k + i) - 1] /\ t.phase = "PendingResponse"
        BY <4>3, <4>4
      <4>6. s = Consume(t.acc, p[k + i], com, FALSE)
        BY <1>4, <3>1, <4>2, <4>5, AfterPending
      <4> HIDE DEF p
      <4> QED BY <1>5, <4>4, <4>5, <4>6
    <3> QED BY <2>1, <3>3
  <2> QED BY <2>2, <2>3
<1>7. m \in 0..m
  BY <1>1
<1>8. \A s \in f[m] : Fine(m, s)
  BY <1>6, <1>7
<1>9. Fine(m, step)
  BY <1>3, <1>8
<1> QED BY <1>9 DEF m, Arrives

\* A piece that ends a packet of no special type.
Plain(piece) == TypeOf(PacketOf(piece)) = "Other"

\* The packets of a frame are packets, and its columns look like columns.
Typed(frame) ==
    \A i \in 1..(Len(frame) \div 2) :
        /\ DOMAIN PacketOf(frame[2 * i]) = PacketFields
        /\ IsColumn(PacketOf(frame[2 * i])) => Plain(frame[2 * i])

\* No row is skipped in a frame.
LEMMA WalkClear ==
    ASSUME NEW w, NEW frame, Len(frame) \in Nat, Typed(frame), Clear(acc[w]),
           NEW step \in Outcomes(w, frame)
    PROVE  step.panic \/ Clear(step.acc)
<1> DEFINE m == Len(frame) \div 2
           com == asking[w].com
           Fine(s) == s.panic \/ Clear(s.acc)
<1>1. m \in Nat
  OBVIOUS
<1>2. PICK f : Walks(w, frame, f)
  BY OutcomesWalk
<1>3. /\ f[0] = {Pending(acc[w], OkPacket)}
      /\ \A i \in 1..m : f[i] = OneMore(w, frame, i, f[i - 1])
      /\ Outcomes(w, frame) = f[m]
  BY <1>2, Zenon DEF Walks
<1>4. \A i \in 1..m : DOMAIN PacketOf(frame[2 * i]) = PacketFields
  BY DEF Typed
<1> HIDE DEF m
<1> DEFINE T == {i \in 0..m : ~ \A s \in f[i] : Fine(s)}
<1>5. T = {}
  <2> SUFFICES ASSUME T # {} PROVE FALSE
    OBVIOUS
  <2>1. PICK i \in T : \A j \in T : i <= j
    <3>1. T \subseteq Nat
      BY <1>1
    <3> HIDE DEF T
    <3> QED BY <3>1, LeastNatural
  <2>2. CASE i = 0
    <3>1. \A s \in f[0] : s = Pending(acc[w], OkPacket)
      BY <1>3
    <3>2. \A s \in f[0] : Fine(s)
      BY <3>1, PendingFields
    <3> QED BY <2>1, <2>2, <3>2
  <2>3. CASE i # 0
    <3>1. i \in 1..m /\ i - 1 \in 0..m /\ i - 1 \notin T
      <4>1. T \subseteq 0..m
        OBVIOUS
      <4> HIDE DEF T
      <4> QED BY <1>1, <2>1, <2>3, <4>1
    <3>2. \A s \in f[i - 1] : Fine(s)
      BY <3>1
    <3>3. ASSUME NEW s \in f[i], ~s.panic PROVE Clear(s.acc)
      <4>1. s \in OneMore(w, frame, i, f[i - 1])
        BY <1>3, <3>1
      <4>2. PICK t \in f[i - 1] : s = After(t, PacketOf(frame[2 * i]), com)
        BY <4>1 DEF OneMore
      <4> DEFINE q == PacketOf(frame[2 * i])
      <4>3. Fine(t) /\ DOMAIN q = PacketFields
        BY <1>4, <3>1, <3>2
      <4> HIDE DEF q, com
      <4>4. Panic(t.acc, q).panic
        BY DEF Panic
      <4>5. s = After(t, q, com)
        BY <4>2 DEF q
      <4>6. ~t.panic /\ s = Consume(t.acc, q, com, FALSE)
        BY <3>3, <4>4, <4>5, Zenon DEF After
      <4> QED BY <3>3, <4>3, <4>6, ClearStep
    <3> QED BY <2>1, <3>3
  <2> QED BY <2>2, <2>3
<1>6. m \in 0..m
  BY <1>1
<1>7. \A s \in f[m] : Fine(s)
  BY <1>5, <1>6
<1> QED BY <1>3, <1>7

\* Where a frame takes the reply to a query: on, while none of its packets is of a special
\* type, or to its end with the first that is, which is the frame's last.
QueryGoesOn(frame, step) ==
    IF step.phase = "Command"
    THEN /\ Len(frame) \div 2 > 0 /\ ~Plain(frame[2 * (Len(frame) \div 2)])
         /\ \A i \in 1..((Len(frame) \div 2) - 1) : Plain(frame[2 * i])
    ELSE /\ step.acc.state # "Complete"
         /\ \A i \in 1..(Len(frame) \div 2) : Plain(frame[2 * i])

LEMMA WalkQuery ==
    ASSUME DeprecateEof, NEW w, NEW frame, Len(frame) \in Nat, Typed(frame),
           Clear(acc[w]), acc[w].state # "Complete", asking[w].com = "Query",
           NEW step \in Outcomes(w, frame)
    PROVE  step.panic \/ QueryGoesOn(frame, step)
<1> DEFINE m == Len(frame) \div 2
           Goes(i, s) ==
             IF s.phase = "Command"
             THEN /\ i > 0 /\ ~Plain(frame[2 * i])
                  /\ \A j \in 1..(i - 1) : Plain(frame[2 * j])
             ELSE /\ s.acc.state # "Complete" /\ s.phase = "PendingResponse"
                  /\ \A j \in 1..i : Plain(frame[2 * j])
           Fine(i, s) == s.panic \/ (Clear(s.acc) /\ Goes(i, s))
<1>1. m \in Nat
  OBVIOUS
<1>2. PICK f : Walks(w, frame, f)
  BY OutcomesWalk
<1>3. /\ f[0] = {Pending(acc[w], OkPacket)}
      /\ \A i \in 1..m : f[i] = OneMore(w, frame, i, f[i - 1])
      /\ Outcomes(w, frame) = f[m]
  BY <1>2, Zenon DEF Walks
<1>4. \A i \in 1..m : /\ DOMAIN PacketOf(frame[2 * i]) = PacketFields
                      /\ IsColumn(PacketOf(frame[2 * i])) => Plain(frame[2 * i])
  BY DEF Typed
<1> SUFFICES Fine(m, step)
  BY DEF QueryGoesOn
<1> HIDE DEF m
<1> DEFINE T == {i \in 0..m : ~ \A s \in f[i] : Fine(i, s)}
<1>5. T = {}
  <2> SUFFICES ASSUME T # {} PROVE FALSE
    OBVIOUS
  <2>1. PICK i \in T : \A j \in T : i <= j
    <3>1. T \subseteq Nat
      BY <1>1
    <3> HIDE DEF T
    <3> QED BY <3>1, LeastNatural
  <2>2. CASE i = 0
    <3>1. \A s \in f[0] : s = Pending(acc[w], OkPacket)
      BY <1>3
    <3>2. ASSUME NEW s \in f[0] PROVE Fine(0, s)
      <4>1. s.acc = acc[w] /\ s.phase = "PendingResponse"
        BY <3>1, PendingFields
      <4>2. \A j \in 1..0 : FALSE
        OBVIOUS
      <4> QED BY <4>1, <4>2
    <3> QED BY <2>1, <2>2, <3>2
  <2>3. CASE i # 0
    <3>1. i \in 1..m /\ i - 1 \in 0..m /\ i - 1 \notin T
      <4>1. T \subseteq 0..m
        OBVIOUS
      <4> HIDE DEF T
      <4> QED BY <1>1, <2>1, <2>3, <4>1
    <3>2. \A s \in f[i - 1] : Fine(i - 1, s)
      BY <3>1
    <3>3. ASSUME NEW s \in f[i], ~s.panic PROVE Fine(i, s)
      <4>1. s \in OneMore(w, frame, i, f[i - 1])
        BY <1>3, <3>1
      <4>2. PICK t \in f[i - 1] : s = After(t, PacketOf(frame[2 * i]), "Query")
        BY <4>1 DEF OneMore
      <4> DEFINE q == PacketOf(frame[2 * i])
      <4>3. Fine(i - 1, t) /\ DOMAIN q = PacketFields /\ (IsColumn(q) => Plain(frame[2 * i]))
        BY <1>4, <3>1, <3>2
      <4>4. Plain(frame[2 * i]) <=> TypeOf(q) = "Other"
        BY DEF Plain
      <4>5. s = After(t, q, "Query")
        BY <4>2
      <4> HIDE DEF q
      <4>6. Panic(t.acc, q).panic
        BY DEF Panic
      <4>7. /\ ~t.panic /\ t.phase # "Command"
            /\ s = Consume(t.acc, q, "Query", FALSE)
        BY <3>3, <4>5, <4>6, Zenon DEF After
      <4>8. /\ Clear(t.acc) /\ t.acc.state # "Complete"
            /\ \A j \in 1..(i - 1) : Plain(frame[2 * j])
        BY <4>3, <4>7
      <4>9. Clear(s.acc) /\ s.phase \in ReplyPhases
        BY <3>3, <4>3, <4>7, <4>8, ClearStep
      <4>10. IF TypeOf(q) = "Other" THEN Open(s) ELSE s.phase = "Command"
        BY <3>3, <4>3, <4>4, <4>7, <4>8, QueryStep
      <4>11. \A j \in 1..i : j = i \/ j \in 1..(i - 1)
        BY <3>1
      <4>12. i > 0
        BY <3>1
      <4>13. CASE TypeOf(q) = "Other"
        <5>1. s.acc.state # "Complete" /\ s.phase = "PendingResponse"
          BY <4>10, <4>13 DEF Open
        <5>2. \A j \in 1..i : Plain(frame[2 * j])
          BY <4>4, <4>8, <4>11, <4>13
        <5> QED BY <4>9, <5>1, <5>2
      <4>14. CASE TypeOf(q) # "Other"
        <5>1. s.phase = "Command" /\ ~Plain(frame[2 * i])
          BY <4>4, <4>10, <4>14
        <5> QED BY <4>8, <4>9, <4>12, <5>1
      <4> QED BY <4>13, <4>14
    <3> QED BY <2>1, <3>3
  <2> QED BY <2>2, <2>3
<1>6. m \in 0..m
  BY <1>1
<1>7. \A s \in f[m] : Fine(m, s)
  BY <1>5, <1>6
<1> QED BY <1>3, <1>7
-----------------------------------------------------------------------------
(* Parts of a reply.                                                       *)

\* How many pieces a reply has, and those behind the m-th, to the n-th.
Size(v) == 2 * Len(replies[v].packets)

Stretch(v, m, n) == SubSeq(Bytes(v), m + 1, n)

LEMMA SizeOf ==
    ASSUME FlowTypeOK, NEW v \in DOMAIN replies
    PROVE  /\ replies[v] \in Given /\ Len(replies[v].packets) \in Nat
           /\ Size(v) \in Nat /\ Len(Bytes(v)) = Size(v) /\ Bytes(v) \in Seq(Pieces)
           /\ \A i \in 1..Size(v) : Bytes(v)[i] = <<v, i>>
<1>1. replies[v] \in Given
  <2> DEFINE R == Given
  <2>1. replies \in Seq(R)
    BY DEF FlowTypeOK
  <2> HIDE DEF R
  <2>2. replies[v] \in R
    BY <2>1
  <2> QED BY <2>2 DEF R
<1>2. Len(replies[v].packets) \in Nat
  BY <1>1, GivenReply
<1>3. Bytes(v) \in Seq(Pieces)
  BY BytesType
<1> QED BY <1>1, <1>2, <1>3 DEF Size, Bytes

LEMMA StretchOf ==
    ASSUME FlowTypeOK, NEW v \in DOMAIN replies, NEW m \in Nat, NEW n \in Nat,
           m <= n, n <= Size(v)
    PROVE  /\ Stretch(v, m, n) \in Seq(Pieces) /\ Len(Stretch(v, m, n)) = n - m
           /\ \A i \in 1..(n - m) : Stretch(v, m, n)[i] = <<v, m + i>>
<1> DEFINE b == Bytes(v)
<1>1. b \in Seq(Pieces) /\ Len(b) = Size(v) /\ Size(v) \in Nat
      /\ \A i \in 1..Size(v) : b[i] = <<v, i>>
  BY SizeOf
<1> HIDE DEF b
<1>2. \A i \in (m + 1)..n : b[i] \in Pieces
  <2>1. \A i \in (m + 1)..n : i \in 1..Len(b)
    BY <1>1
  <2> QED BY <1>1, <2>1, ElementOfSeq
<1>3. m + 1 \in Int /\ n \in Int
  OBVIOUS
<1>4. /\ SubSeq(b, m + 1, n) \in Seq(Pieces)
      /\ Len(SubSeq(b, m + 1, n)) = IF m + 1 <= n THEN n - (m + 1) + 1 ELSE 0
      /\ \A i \in 1..(n - (m + 1) + 1) : SubSeq(b, m + 1, n)[i] = b[m + 1 + i - 1]
  BY <1>2, <1>3, SubSeqProperties
<1>5. \A i \in 1..(n - m) : m + 1 + i - 1 = m + i /\ m + i \in 1..Size(v)
  BY <1>1
<1> QED BY <1>1, <1>4, <1>5 DEF Stretch, b

LEMMA StretchJoin ==
    ASSUME FlowTypeOK, NEW v \in DOMAIN replies, NEW m \in Nat, NEW n \in Nat, NEW p \in Nat,
           m <= n, n <= p, p <= Size(v)
    PROVE  Stretch(v, m, n) \o Stretch(v, n, p) = Stretch(v, m, p)
<1>1. Bytes(v) \in Seq(Pieces) /\ Len(Bytes(v)) = Size(v) /\ Size(v) \in Nat
  BY SizeOf
<1>2. /\ m + 1 \in 1..(Len(Bytes(v)) + 1)
      /\ n \in (m + 1 - 1)..Len(Bytes(v)) /\ p \in n..Len(Bytes(v))
  BY <1>1
<1> QED BY <1>1, <1>2, ConcatAdjacentSubSeq DEF Stretch

\* A part of a part of a reply is one.
IsPart(v, m, p, i, j) == SubSeq(Stretch(v, m, p), i + 1, j) = Stretch(v, m + i, m + j)

LEMMA StretchPart ==
    ASSUME FlowTypeOK, NEW v \in DOMAIN replies, NEW m \in Nat, NEW p \in Nat,
           m <= p, p <= Size(v), NEW i \in Nat, NEW j \in Nat, i <= j, m + j <= p
    PROVE  IsPart(v, m, p, i, j)
<1> SUFFICES SubSeq(Stretch(v, m, p), i + 1, j) = Stretch(v, m + i, m + j)
  BY DEF IsPart
<1>1. Bytes(v) \in Seq(Pieces) /\ Len(Bytes(v)) = Size(v) /\ Size(v) \in Nat
  BY SizeOf
<1>2. CASE i = j
  <2>1. i + 1 \in Int /\ j \in Int /\ j < i + 1
    BY <1>2
  <2>2. m + i + 1 \in Int /\ m + j \in Int /\ m + j < m + i + 1
    BY <1>2
  <2>3. SubSeq(Stretch(v, m, p), i + 1, j) = <<>>
    BY <2>1, SubSeqEmpty
  <2>4. SubSeq(Bytes(v), m + i + 1, m + j) = <<>>
    BY <2>2, SubSeqEmpty
  <2> QED BY <2>3, <2>4 DEF Stretch
<1>3. CASE i < j
  <2> DEFINE b  == Bytes(v)
             lo == m + 1
  <2> HIDE DEF b
  <2>1. lo \in 1..Len(b) /\ p \in 1..Len(b)
    BY <1>1, <1>3 DEF b
  <2>2. i + 1 \in 1..(p - lo + 1) /\ j \in 1..(p - lo + 1)
    BY <1>1, <1>3
  <2>3. lo + (i + 1) - 1 = m + i + 1 /\ lo + j - 1 = m + j
    OBVIOUS
  <2> HIDE DEF lo
  <2>4. SubSeq(SubSeq(b, lo, p), i + 1, j) = SubSeq(b, lo + (i + 1) - 1, lo + j - 1)
    BY <1>1, <2>1, <2>2, SubSeqOfSubSeq DEF b
  <2> QED BY <2>3, <2>4 DEF Stretch, lo, b
<1> QED BY <1>2, <1>3

LEMMA StretchEnds ==
    ASSUME FlowTypeOK, NEW v \in DOMAIN replies
    PROVE  /\ Stretch(v, 0, Size(v)) = Bytes(v)
           /\ \A m \in Nat : Stretch(v, m, m) = <<>>
<1>1. Bytes(v) \in Seq(Pieces) /\ Len(Bytes(v)) = Size(v)
  BY SizeOf
<1>2. \A m \in Nat : m + 1 \in Int /\ m \in Int /\ m < m + 1
  OBVIOUS
<1> QED BY <1>1, <1>2, SubSeqFull, SubSeqEmpty DEF Stretch

\* Half of what has come, rounded down.
LEMMA Halves ==
    ASSUME NEW n \in Nat
    PROVE  n \div 2 \in Nat /\ 2 * (n \div 2) <= n /\ n <= 2 * (n \div 2) + 1
OBVIOUS
-----------------------------------------------------------------------------
(* A worker on its way through a reply.                                    *)

\* A worker has got the first r pieces of a reply.
At(w, v, r) ==
    /\ v \in DOMAIN replies /\ replies[v].text = asking[w].text
    /\ r \in 0..Size(v)
    /\ got[w] = Stretch(v, 0, 2 * (r \div 2))
    /\ partial[w] = Stretch(v, 2 * (r \div 2), r)
    /\ acc[w] = Trail(replies[v].packets, asking[w].com)[r \div 2]
    /\ IF pc[w] = "server" THEN r < Size(v) ELSE pc[w] \in {"client", "ended"} /\ r = Size(v)

\* The accumulators are accumulators.
AccsClear == DOMAIN acc = Workers /\ \A w \in Workers : Clear(acc[w])

\* A reply to a command is one that the accumulator follows.
LEMMA RegularReply ==
    ASSUME RegularReplies, FlowTypeOK, NEW v \in DOMAIN replies,
           NEW c \in Commands, replies[v].text = c.text
    PROVE  /\ Regular(replies[v].packets, c.com)
           /\ Traces(Trail(replies[v].packets, c.com), replies[v].packets, c.com)
           /\ Size(v) > 0
<1> DEFINE p == replies[v].packets
<1>1. replies[v] \in Given /\ Len(p) \in Nat
  BY SizeOf
<1>2. PICK d \in Commands : replies[v].text = d.text /\ p \in ServerReplies(d)
  BY <1>1, GivenReply
<1>3. c.com = d.com /\ Regular(p, d.com)
  BY <1>2 DEF RegularReplies
<1> HIDE DEF p
<1>4. Regular(p, c.com)
  BY <1>3
<1>5. Traces(Trail(p, c.com), p, c.com)
  BY <1>4 DEF Regular
<1>6. Len(p) > 0
  BY <1>1, <1>4 DEF Regular
<1>7. Size(v) > 0
  BY <1>1, <1>6 DEF Size, p
<1> QED BY <1>4, <1>5, <1>7 DEF p

\* Every piece is one of a packet.
LEMMA FrameTyped ==
    ASSUME RegularReplies, FlowTypeOK, NEW frame \in Seq(Pieces)
    PROVE  Typed(frame)
<1> SUFFICES ASSUME NEW i \in 1..(Len(frame) \div 2)
             PROVE  /\ DOMAIN PacketOf(frame[2 * i]) = PacketFields
                    /\ IsColumn(PacketOf(frame[2 * i])) => Plain(frame[2 * i])
  BY DEF Typed
<1>1. frame[2 * i] \in Pieces
  <2>1. 2 * i \in 1..Len(frame)
    BY Len(frame) \in Nat
  <2> QED BY <2>1, ElementOfSeq
<1>2. PICK v, j : frame[2 * i] = <<v, j>>
  BY <1>1 DEF Pieces
<1>3. v \in DOMAIN replies /\ j \in Nat /\ j \in 1..(2 * Len(replies[v].packets))
  BY <1>1, <1>2, PieceOf
<1> DEFINE p == replies[v].packets
           h == (j + 1) \div 2
<1>4. replies[v] \in Given /\ Len(p) \in Nat
  BY <1>3, SizeOf
<1>5. PICK d \in Commands : p \in ServerReplies(d)
  BY <1>4, GivenReply
<1>6. p \in Seq(Packets) /\ \A l \in 1..Len(p) : IsColumn(p[l]) => TypeOf(p[l]) = "Other"
  BY <1>5 DEF RegularReplies, Regular
<1>7. h \in 1..Len(p)
  BY <1>3, <1>4
<1>8. PacketOf(frame[2 * i]) = p[h]
  BY <1>2 DEF PacketOf
<1> HIDE DEF p, h
<1>9. p[h] \in Packets /\ (IsColumn(p[h]) => TypeOf(p[h]) = "Other")
  BY <1>6, <1>7
<1> QED BY <1>8, <1>9, PacketDomain DEF Plain

\* A pass over what comes next of a reply takes the worker there.
LEMMA PassAlong ==
    ASSUME RegularReplies, FlowTypeOK, AccsClear, NEW w \in Workers, asking[w] \in Commands,
           NEW v, NEW r, At(w, v, r), pc[w] = "server",
           NEW n \in Nat, r + n <= Size(v),
           HandleFrame(w, partial[w] \o Stretch(v, r, r + n)),
           UNCHANGED <<replies, asking>>
    PROVE  At(w, v, r + n)'
<1> DEFINE p  == replies[v].packets
           q  == r + n
           k  == r \div 2
           l  == q \div 2
           a  == Trail(p, asking[w].com)
           frame == partial[w] \o Stretch(v, r, q)
           F  == SubSeq(frame, 1, Whole(frame))
           R  == SubSeq(frame, Whole(frame) + 1, Len(frame))
<1>1. /\ v \in DOMAIN replies /\ replies[v].text = asking[w].text
      /\ r \in 0..Size(v) /\ r < Size(v)
      /\ got[w] = Stretch(v, 0, 2 * k) /\ partial[w] = Stretch(v, 2 * k, r)
      /\ acc[w] = a[k]
  BY DEF At
<1>2. Size(v) \in Nat /\ Len(p) \in Nat /\ Size(v) = 2 * Len(p)
  BY <1>1, SizeOf DEF Size
<1>3. Traces(a, p, asking[w].com)
  BY <1>1, RegularReply
<1>4. /\ r \in Nat /\ q \in Nat /\ k \in Nat /\ l \in Nat /\ k <= l
      /\ 2 * k <= r /\ r <= q /\ q <= Size(v) /\ 2 * l <= q /\ q <= 2 * l + 1
      /\ k < Len(p) /\ l <= Len(p) /\ (l = Len(p) <=> q = Size(v))
      /\ (q - 2 * k) \div 2 = l - k
  BY <1>1, <1>2
<1> SUFFICES At(w, v, q)'
  OBVIOUS
<1> HIDE DEF q, k, l, a, p
<1> DEFINE k2 == 2 * k
           l2 == 2 * l
<1>40. /\ k2 \in Nat /\ l2 \in Nat /\ 0 \in Nat /\ 0 <= k2 /\ k2 <= l2 /\ k2 <= q /\ l2 <= q
       /\ k2 <= r /\ k2 <= Size(v) /\ l2 <= Size(v) /\ r <= Size(v)
  BY <1>2, <1>4
<1>41. v \in DOMAIN replies /\ r \in Nat /\ q \in Nat /\ r <= q /\ q <= Size(v)
  BY <1>1, <1>4
<1>42. q \in Nat /\ k \in Nat /\ l \in Nat /\ k <= l /\ 2 * k <= q /\ 2 * l <= q
  BY <1>4, <1>40, Zenon
<1>5. frame = Stretch(v, 2 * k, q)
  <2> HIDE DEF k2
  <2>1. Stretch(v, k2, r) \o Stretch(v, r, q) = Stretch(v, k2, q)
    BY <1>40, <1>41, StretchJoin
  <2> QED BY <1>1, <2>1 DEF k2
<1>6. /\ frame \in Seq(Pieces) /\ Len(frame) = q - 2 * k
      /\ \A i \in 1..(q - 2 * k) : frame[i] = <<v, 2 * k + i>>
  <2> HIDE DEF k2
  <2>1. /\ Stretch(v, k2, q) \in Seq(Pieces) /\ Len(Stretch(v, k2, q)) = q - k2
        /\ \A i \in 1..(q - k2) : Stretch(v, k2, q)[i] = <<v, k2 + i>>
    BY <1>1, <1>4, <1>40, StretchOf
  <2> QED BY <1>5, <2>1 DEF k2
<1>7. HandleFrame(w, frame)
  BY DEF q
<1> HIDE DEF frame
<1>8. Whole(frame) = 2 * (l - k) /\ Len(frame) \div 2 = l - k /\ Len(frame) \in Nat
  BY <1>4, <1>6 DEF Whole
<1>9. F = Stretch(v, 2 * k, 2 * l)
  <2> DEFINE i == 0
             j == 2 * (l - k)
  <2>1. i \in Nat /\ j \in Nat /\ i <= j /\ k2 + j <= q /\ k2 + i = k2
        /\ k2 + j = l2 /\ i + 1 = 1
    BY <1>42
  <2> HIDE DEF i, j, k2, l2
  <2>2. IsPart(v, k2, q, i, j)
    BY <1>40, <1>41, <2>1, StretchPart
  <2> QED BY <1>5, <1>8, <2>1, <2>2 DEF j, k2, l2, IsPart
<1>10. R = Stretch(v, 2 * l, q)
  <2> DEFINE i == 2 * (l - k)
             j == q - 2 * k
  <2>1. i \in Nat /\ j \in Nat /\ i <= j /\ k2 + j <= q /\ k2 + i = l2 /\ k2 + j = q
    BY <1>42
  <2> HIDE DEF i, j, k2, l2
  <2>2. IsPart(v, k2, q, i, j)
    BY <1>40, <1>41, <2>1, StretchPart
  <2> QED BY <1>5, <1>6, <1>8, <2>1, <2>2 DEF i, j, k2, l2, IsPart
<1>11. PICK step \in Outcomes(w, frame) :
        IF step.panic
        THEN /\ pc' = [pc EXCEPT ![w] = "panicked"]
             /\ UNCHANGED <<partial, acc, got, buffer, published, topic, logged>>
        ELSE /\ pc' = [pc EXCEPT ![w] = IF step.phase = "Command" THEN "client" ELSE "server"]
             /\ partial' = [partial EXCEPT ![w] = R]
             /\ acc' = [acc EXCEPT ![w] = step.acc]
             /\ got' = [got EXCEPT ![w] = @ \o F]
             /\ Push(w, F, R)
  BY <1>7 DEF HandleFrame
<1> HIDE DEF F, R
<1>12. /\ ~step.panic /\ step.acc = a[l]
       /\ step.phase = IF l = Len(p) THEN "Command" ELSE "PendingResponse"
  <2>1. \A i \in 1..(l - k) : frame[2 * i] = <<v, 2 * (k + i)>>
    <3>1. \A i \in 1..(l - k) : 2 * i \in 1..(q - 2 * k) /\ 2 * k + 2 * i = 2 * (k + i)
      BY <1>4
    <3> QED BY <1>6, <3>1
  <2>2. k + (Len(frame) \div 2) = l
    BY <1>4, <1>8
  <2>3. Arrives(frame, k, Len(p), a, step)
    <3>1. \A i \in 1..(Len(frame) \div 2) : frame[2 * i] = <<v, 2 * (k + i)>>
      BY <1>8, <2>1
    <3>2. k + (Len(frame) \div 2) <= Len(p)
      BY <1>4, <2>2
    <3>3. Len(p) = Len(replies[v].packets) /\ Traces(a, replies[v].packets, asking[w].com)
      BY <1>3 DEF p
    <3>4. acc[w] = a[k] /\ k \in Nat /\ Len(p) \in Nat /\ k < Len(p)
      BY <1>1, <1>2, <1>4
    <3>5. Len(frame) \in Nat
      BY <1>8
    <3> HIDE DEF R, F
    <3> QED BY <3>1, <3>2, <3>3, <3>4, <3>5, WalkAlong
  <2> QED BY <2>2, <2>3 DEF Arrives
<1>13. /\ pc'[w] = IF l = Len(p) THEN "client" ELSE "server"
       /\ partial'[w] = R /\ acc'[w] = a[l] /\ got'[w] = got[w] \o F
  BY <1>11, <1>12 DEF FlowTypeOK, AccsClear
<1>14. got'[w] = Stretch(v, 0, 2 * l)
  <2> DEFINE z == 0
  <2>1. z \in Nat /\ z <= k2
    BY <1>40
  <2> HIDE DEF k2, l2, z
  <2>2. Stretch(v, z, k2) \o Stretch(v, k2, l2) = Stretch(v, z, l2)
    BY <1>40, <1>41, <2>1, StretchJoin
  <2>3. Stretch(v, 0, k2) \o Stretch(v, k2, l2) = Stretch(v, 0, l2)
    BY <2>2 DEF z
  <2> QED BY <1>1, <1>9, <1>13, <2>3 DEF k2, l2
<1>15. q \in 0..Size(v)
  BY <1>2, <1>4
<1>16. IF pc'[w] = "server" THEN q < Size(v) ELSE pc'[w] \in {"client", "ended"} /\ q = Size(v)
  BY <1>2, <1>4, <1>13
<1>17. /\ \A i, j : Stretch(v, i, j)' = Stretch(v, i, j)
       /\ Size(v)' = Size(v)
  BY DEF Stretch, Bytes, Size
<1> QED BY <1>1, <1>10, <1>13, <1>14, <1>15, <1>16, <1>17 DEF At, a, p, l
-----------------------------------------------------------------------------
(* The invariant of sessions with a log.                                   *)

\* Whole packets, none of which but the last may end the reply to a query.
EndsAtMostLast(s) ==
    /\ Len(s) % 2 = 0
    /\ \A i \in 1..Len(s) : i % 2 = 0 /\ i < Len(s) => Plain(s[i])

\* Whole packets that do not end one.
EndsNot(s) ==
    /\ Len(s) % 2 = 0
    /\ \A i \in 1..Len(s) : i % 2 = 0 => Plain(s[i])

\* No entry of a query goes on behind a packet that ends its reply.
QueryTexts == {c.text : c \in {d \in Commands : d.com = "Query"}}
Entries    == \A e \in published : e.key \in QueryTexts => EndsAtMostLast(e.bytes)

\* The worker reads the server's answer.
Reading(w) == answer[w] # 0 => At(w, answer[w], read[w]) /\ rest[w] = <<>>

\* It has asked nothing yet.
Idle(w) ==
    /\ asking[w] = NotAsked /\ pc[w] \in {"client", "ended"}
    /\ got[w] = <<>> /\ partial[w] = <<>> /\ rest[w] = <<>>

\* It waits for an entry.
Fresh(w) ==
    /\ pc[w] = "server" /\ acc[w] = NewAccumulator
    /\ got[w] = <<>> /\ partial[w] = <<>> /\ rest[w] = <<>>

\* It is served the rest of a reply it has got the start of.
Served(w) ==
    \E v \in DOMAIN replies : \E r \in 0..Size(v) :
        At(w, v, r) /\ rest[w] = Stretch(v, r, Size(v))

Replaying(w) ==
    PublishesFullResponses /\ answer[w] = 0 => Idle(w) \/ Fresh(w) \/ Served(w)

\* Between commands nothing is left over; while a query is answered, what is left over
\* ends where a packet does, whatever the entries are.
Tidy(w) ==
    /\ Len(partial[w]) < 2
    /\ w \notin Logs => buffer[w] = <<>>
    /\ pc[w] \in {"client", "ended"} =>
         partial[w] = <<>> /\ rest[w] = <<>> /\ buffer[w] = <<>>
    /\ pc[w] = "server" /\ asking[w].com = "Query" =>
         /\ EndsNot(buffer[w]) /\ acc[w].state # "Complete"
         /\ answer[w] = 0 => EndsAtMostLast(partial[w] \o rest[w])

\* The server has been asked exactly by the workers that listen to it.
Listening(w) == pc[w] = "server" => (answer[w] # 0 <=> FromServer(w))

\* A worker dies of nothing but an entry that is no whole reply.
DiesOfEntries(w) == pc[w] = "panicked" => answer[w] = 0 /\ ~PublishesFullResponses

WorkerInv(w) ==
    Reading(w) /\ Replaying(w) /\ Tidy(w) /\ Listening(w) /\ DiesOfEntries(w)

ReplayInv ==
    /\ FlowTypeOK /\ AccsClear /\ Len(replies) <= MaxAsks
    /\ Entries
    /\ \A w \in Workers : WorkerInv(w)
-----------------------------------------------------------------------------
(* What a step of others leaves as it is.                                  *)

\* The server has given no reply, or one.
RepliesGrow == replies' = replies \/ \E r \in Given : replies' = Append(replies, r)

\* Nothing changes for the worker, unless its client has gone.
Unmoved(w) ==
    /\ asking'[w] = asking[w] /\ answer'[w] = answer[w] /\ read'[w] = read[w]
    /\ partial'[w] = partial[w] /\ rest'[w] = rest[w] /\ acc'[w] = acc[w]
    /\ got'[w] = got[w] /\ buffer'[w] = buffer[w]
    /\ pc'[w] = pc[w] \/ (pc[w] = "client" /\ pc'[w] = "ended")

\* The replies there were are the same.
LEMMA RepliesKept ==
    ASSUME FlowTypeOK, RepliesGrow, NEW v \in DOMAIN replies
    PROVE  /\ v \in DOMAIN replies' /\ replies'[v] = replies[v]
           /\ Bytes(v)' = Bytes(v) /\ Size(v)' = Size(v)
           /\ \A i, j : Stretch(v, i, j)' = Stretch(v, i, j)
<1>1. replies \in Seq(Given)
  BY DEF FlowTypeOK
<1>2. v \in DOMAIN replies' /\ replies'[v] = replies[v]
  <2> DEFINE G == Given
  <2> HIDE DEF G
  <2>1. replies \in Seq(G) /\ (replies' = replies \/ \E r \in G : replies' = Append(replies, r))
    BY <1>1 DEF RepliesGrow, G
  <2> QED BY <2>1
<1>3. Bytes(v)' = Bytes(v)
  BY <1>2 DEF Bytes
<1> QED BY <1>2, <1>3 DEF Size, Stretch

\* So are the packets of the pieces there were, and what they end.
LEMMA PlainKept ==
    ASSUME FlowTypeOK, RepliesGrow, NEW s \in Seq(Pieces)
    PROVE  /\ EndsNot(s)' <=> EndsNot(s)
           /\ EndsAtMostLast(s)' <=> EndsAtMostLast(s)
<1>1. ASSUME NEW p \in Pieces PROVE Plain(p)' <=> Plain(p)
  <2>1. p[1] \in DOMAIN replies
    BY DEF Pieces
  <2>2. replies'[p[1]] = replies[p[1]]
    BY <2>1, RepliesKept
  <2> QED BY <2>2 DEF Plain, PacketOf
<1>2. \A i \in 1..Len(s) : Plain(s[i])' <=> Plain(s[i])
  BY <1>1, ElementOfSeq
<1> QED BY <1>2 DEF EndsNot, EndsAtMostLast

\* Entries that are whole replies now were so before: none is of a reply not yet given.
LEMMA PublishedKept ==
    ASSUME RegularReplies, FlowTypeOK, RepliesGrow, published \subseteq published',
           PublishesFullResponses'
    PROVE  PublishesFullResponses
<1> SUFFICES ASSUME NEW e \in published PROVE IsReply(e.bytes, e.key)
  BY DEF PublishesFullResponses
<1>1. e.bytes \in Seq(Pieces)
  BY DEF FlowTypeOK
<1>2. IsReply(e.bytes, e.key)'
  BY DEF PublishesFullResponses
<1>3. PICK v \in DOMAIN replies' : replies'[v].text = e.key /\ e.bytes = Bytes(v)'
  BY <1>2 DEF IsReply
<1>4. CASE v \in DOMAIN replies
  BY <1>3, <1>4, RepliesKept DEF IsReply
<1>5. CASE v \notin DOMAIN replies
  <2>1. PICK r \in Given : replies' = Append(replies, r)
    BY <1>3, <1>5 DEF RepliesGrow
  <2>2. replies'[v] = r
    <3> DEFINE G == Given
    <3>1. replies \in Seq(G) /\ r \in G
      BY DEF FlowTypeOK
    <3> HIDE DEF G
    <3> QED BY <1>3, <1>5, <2>1, <3>1
  <2>3. PICK d \in Commands : r.packets \in ServerReplies(d)
    BY GivenReply
  <2>4. Len(r.packets) \in Nat /\ r.packets # <<>> /\ r.packets \in Seq(Packets)
    BY <2>3, GivenReply DEF RegularReplies, Regular
  <2>5. Len(r.packets) > 0
    BY <2>4
  <2>6. Bytes(v)' = [i \in 1..(2 * Len(r.packets)) |-> <<v, i>>]
    BY <2>2 DEF Bytes
  <2>7. 1 \in 1..(2 * Len(r.packets))
    BY <2>4, <2>5
  <2>8. e.bytes[1] = <<v, 1>> /\ 1 \in DOMAIN e.bytes
    BY <1>3, <2>6, <2>7
  <2>9. <<v, 1>> \in Pieces
    BY <1>1, <2>8
  <2> QED BY <1>5, <2>9, PieceOf
<1> QED BY <1>4, <1>5

LEMMA AtKept ==
    ASSUME FlowTypeOK, RepliesGrow, NEW w, Unmoved(w), NEW v, NEW r, At(w, v, r)
    PROVE  At(w, v, r)'
<1>1. v \in DOMAIN replies
  BY DEF At
<1>2. /\ v \in DOMAIN replies' /\ replies'[v] = replies[v] /\ Size(v)' = Size(v)
      /\ \A i, j : Stretch(v, i, j)' = Stretch(v, i, j)
  BY <1>1, RepliesKept
<1> QED BY <1>2 DEF At, Unmoved

\* A worker that does nothing is as it was.
LEMMA WorkerKept ==
    ASSUME RegularReplies, FlowTypeOK, RepliesGrow, published \subseteq published',
           NEW w \in Workers, Unmoved(w), WorkerInv(w)
    PROVE  WorkerInv(w)'
<1>1. PublishesFullResponses' => PublishesFullResponses
  BY PublishedKept
<1>2. \A v, r : At(w, v, r) => At(w, v, r)'
  BY AtKept
<1>3. /\ asking'[w] = asking[w] /\ answer'[w] = answer[w] /\ read'[w] = read[w]
      /\ partial'[w] = partial[w] /\ rest'[w] = rest[w] /\ acc'[w] = acc[w]
      /\ got'[w] = got[w] /\ buffer'[w] = buffer[w]
      /\ pc'[w] = pc[w] \/ (pc[w] = "client" /\ pc'[w] = "ended")
  BY DEF Unmoved
<1>4. Reading(w)'
  <2>1. Reading(w)
    BY DEF WorkerInv
  <2> QED BY <1>2, <1>3, <2>1 DEF Reading
<1>5. Replaying(w)'
  <2>1. SUFFICES ASSUME PublishesFullResponses', answer'[w] = 0
                 PROVE  Idle(w)' \/ Fresh(w)' \/ Served(w)'
    BY DEF Replaying
  <2>2. Idle(w) \/ Fresh(w) \/ Served(w)
    BY <1>1, <1>3, <2>1 DEF WorkerInv, Replaying
  <2>3. CASE Idle(w)
    BY <1>3, <2>3 DEF Idle
  <2>4. CASE Fresh(w)
    BY <1>3, <2>4 DEF Fresh
  <2>5. CASE Served(w)
    <3>0. PICK v \in DOMAIN replies :
            \E r \in 0..Size(v) : At(w, v, r) /\ rest[w] = Stretch(v, r, Size(v))
      BY <2>5 DEF Served
    <3>1. PICK r \in 0..Size(v) : At(w, v, r) /\ rest[w] = Stretch(v, r, Size(v))
      BY <3>0
    <3>2. /\ v \in DOMAIN replies' /\ Size(v)' = Size(v)
          /\ \A i, j : Stretch(v, i, j)' = Stretch(v, i, j)
      BY RepliesKept
    <3>3. At(w, v, r)'
      BY <1>2, <3>1
    <3>4. (rest[w] = Stretch(v, r, Size(v)))'
      BY <1>3, <3>1, <3>2 DEF Stretch
    <3> QED BY <3>2, <3>3, <3>4 DEF Served
  <2> QED BY <2>2, <2>3, <2>4, <2>5
<1>6. Tidy(w)'
  <2>1. Tidy(w)
    BY DEF WorkerInv
  <2>2. /\ buffer[w] \in Seq(Pieces) /\ partial[w] \o rest[w] \in Seq(Pieces)
    <3>1. buffer[w] \in Seq(Pieces) /\ partial[w] \in Seq(Pieces) /\ rest[w] \in Seq(Pieces)
      BY DEF FlowTypeOK
    <3> QED BY <3>1, ConcatProperties
  <2>3. PICK b, x : b = buffer[w] /\ x = partial[w] \o rest[w]
    OBVIOUS
  <2>4. /\ EndsNot(b)' <=> EndsNot(b)
        /\ EndsAtMostLast(x)' <=> EndsAtMostLast(x)
    BY <2>2, <2>3, PlainKept
  <2>5. b = buffer'[w] /\ x = partial'[w] \o rest'[w]
    BY <1>3, <2>3
  <2>6. /\ EndsNot(buffer[w])' <=> EndsNot(buffer[w])
        /\ EndsAtMostLast(partial[w] \o rest[w])' <=> EndsAtMostLast(partial[w] \o rest[w])
    BY <2>3, <2>4, <2>5 DEF EndsNot, EndsAtMostLast
  <2> QED BY <1>3, <2>1, <2>6 DEF Tidy
<1>7. Listening(w)'
  BY <1>3 DEF WorkerInv, Listening, FromServer, SendCommandToServer
<1>8. DiesOfEntries(w)'
  BY <1>1, <1>3 DEF WorkerInv, DiesOfEntries
<1> QED BY <1>4, <1>5, <1>6, <1>7, <1>8 DEF WorkerInv
-----------------------------------------------------------------------------
(* Where packets end the reply to a query.                                 *)

LEMMA NotIsAtMost ==
    ASSUME NEW s, EndsNot(s)
    PROVE  EndsAtMostLast(s)
BY DEF EndsNot, EndsAtMostLast

LEMMA NothingEnds == EndsNot(<<>>)
BY DEF EndsNot

\* The indices of a concatenation.
LEMMA JoinIndex ==
    ASSUME NEW s \in Seq(Pieces), NEW t \in Seq(Pieces)
    PROVE  /\ Len(s \o t) = Len(s) + Len(t) /\ Len(s) \in Nat /\ Len(t) \in Nat
           /\ \A i \in 1..Len(s) : (s \o t)[i] = s[i]
           /\ \A i \in 1..Len(t) : (s \o t)[Len(s) + i] = t[i]
<1>1. Len(s) \in Nat /\ Len(t) \in Nat /\ Len(s \o t) = Len(s) + Len(t)
  OBVIOUS
<1>2. \A i \in 1..Len(s) : (s \o t)[i] = s[i]
  BY <1>1
<1>3. \A i \in 1..Len(t) : (s \o t)[Len(s) + i] = t[i]
  BY <1>1
<1> QED BY <1>1, <1>2, <1>3

LEMMA JoinEnds ==
    ASSUME NEW s \in Seq(Pieces), NEW t \in Seq(Pieces), EndsNot(s)
    PROVE  /\ EndsNot(t) => EndsNot(s \o t)
           /\ EndsAtMostLast(t) => EndsAtMostLast(s \o t)
<1> DEFINE m == Len(s)
           n == Len(t)
           x == s \o t
<1>1. /\ Len(x) = m + n /\ m \in Nat /\ n \in Nat
      /\ \A i \in 1..m : x[i] = s[i]
      /\ \A i \in 1..n : x[m + i] = t[i]
  BY JoinIndex
<1>2. m % 2 = 0 /\ \A i \in 1..m : i % 2 = 0 => Plain(s[i])
  BY DEF EndsNot
<1> HIDE DEF x, m, n
<1>3. ASSUME NEW i \in 1..Len(x), i % 2 = 0, i > m
      PROVE  i - m \in 1..n /\ (i - m) % 2 = 0 /\ x[i] = t[i - m] /\ i \in Nat
  <2>1. i - m \in 1..n /\ (i - m) % 2 = 0 /\ m + (i - m) = i
    BY <1>1, <1>2, <1>3
  <2> QED BY <1>1, <2>1
<1>4. ASSUME NEW i \in 1..Len(x), i % 2 = 0, ~(i > m)
      PROVE  Plain(x[i])
  <2>1. i \in 1..m
    BY <1>1, <1>4
  <2> QED BY <1>1, <1>2, <1>4, <2>1
<1>5. ASSUME EndsNot(t) PROVE EndsNot(x)
  <2>1. n % 2 = 0 /\ \A i \in 1..n : i % 2 = 0 => Plain(t[i])
    BY <1>5 DEF EndsNot, n
  <2>2. Len(x) % 2 = 0
    BY <1>1, <1>2, <2>1
  <2>3. \A i \in 1..Len(x) : i % 2 = 0 => Plain(x[i])
    BY <1>3, <1>4, <2>1
  <2> QED BY <2>2, <2>3 DEF EndsNot
<1>6. ASSUME EndsAtMostLast(t) PROVE EndsAtMostLast(x)
  <2>1. n % 2 = 0 /\ \A i \in 1..n : i % 2 = 0 /\ i < n => Plain(t[i])
    BY <1>6 DEF EndsAtMostLast, n
  <2>2. Len(x) % 2 = 0
    BY <1>1, <1>2, <2>1
  <2>3. ASSUME NEW i \in 1..Len(x), i % 2 = 0, i < Len(x) PROVE Plain(x[i])
    <3>1. CASE i > m
      <4>1. i - m \in 1..n /\ (i - m) % 2 = 0 /\ x[i] = t[i - m]
        BY <1>3, <2>3, <3>1
      <4>2. i - m < n
        BY <1>1, <2>3
      <4> QED BY <2>1, <4>1, <4>2
    <3> QED BY <1>4, <2>3, <3>1
  <2> QED BY <2>2, <2>3 DEF EndsAtMostLast
<1> QED BY <1>5, <1>6 DEF x

\* Behind whole packets nothing ends a reply that could not before, and nothing is behind
\* one that does.
LEMMA TailEnds ==
    ASSUME NEW s \in Seq(Pieces), NEW t \in Seq(Pieces), Len(s) % 2 = 0, EndsAtMostLast(s \o t)
    PROVE  /\ EndsAtMostLast(t)
           /\ Len(s) > 0 /\ ~Plain(s[Len(s)]) => t = <<>>
<1> DEFINE m == Len(s)
           n == Len(t)
           x == s \o t
<1>1. /\ Len(x) = m + n /\ m \in Nat /\ n \in Nat
      /\ \A i \in 1..m : x[i] = s[i]
      /\ \A i \in 1..n : x[m + i] = t[i]
  BY JoinIndex
<1>2. Len(x) % 2 = 0 /\ \A i \in 1..Len(x) : i % 2 = 0 /\ i < Len(x) => Plain(x[i])
  BY DEF EndsAtMostLast
<1>3. m % 2 = 0
  OBVIOUS
<1> HIDE DEF x, m, n
<1>4. n % 2 = 0
  <2>1. (m + n) % 2 = 0 /\ m \in Nat /\ n \in Nat
    BY <1>1, <1>2
  <2> QED BY <1>3, <2>1
<1>5. ASSUME NEW i \in 1..n, i % 2 = 0, i < n PROVE Plain(t[i])
  <2>1. m + i \in 1..Len(x) /\ (m + i) % 2 = 0 /\ m + i < Len(x)
    BY <1>1, <1>3, <1>5
  <2> QED BY <1>1, <1>2, <2>1
<1>6. ASSUME m > 0, ~Plain(s[m]), t # <<>> PROVE FALSE
  <2>1. n > 0
    BY <1>1, <1>6 DEF n
  <2>2. m \in 1..Len(x) /\ m \in 1..m /\ m < Len(x)
    BY <1>1, <1>6, <2>1
  <2> QED BY <1>1, <1>2, <1>3, <1>6, <2>2
<1> QED BY <1>4, <1>5, <1>6 DEF EndsAtMostLast, m, n

\* What goes on of a frame.
LEMMA FrameEnds ==
    ASSUME NEW frame \in Seq(Pieces)
    PROVE  LET F == SubSeq(frame, 1, Whole(frame))
               m == Len(frame) \div 2
           IN  /\ F \in Seq(Pieces) /\ Len(F) = 2 * m /\ m \in Nat
               /\ \A i \in 1..m : F[2 * i] = frame[2 * i]
               /\ (\A i \in 1..m : Plain(frame[2 * i])) => EndsNot(F)
               /\ (\A i \in 1..(m - 1) : Plain(frame[2 * i])) => EndsAtMostLast(F)
<1> DEFINE F == SubSeq(frame, 1, Whole(frame))
           m == Len(frame) \div 2
           n == Whole(frame)
<1>1. F \in Seq(Pieces)
  BY FrameCut
<1>2. m \in Nat /\ n = 2 * m /\ n \in 0..Len(frame) /\ Len(frame) \in Nat
  BY DEF Whole
<1> HIDE DEF m, n
<1>3. Len(F) = n /\ \A i \in 1..n : F[i] = frame[i]
  BY <1>2 DEF n
<1>4. \A i \in 1..m : 2 * i \in 1..n
  BY <1>2
<1>5. \A i \in 1..m : F[2 * i] = frame[2 * i]
  BY <1>3, <1>4
<1>6. ASSUME NEW i \in 1..n, i % 2 = 0
      PROVE  \E j \in 1..m : i = 2 * j
  <2>1. i \div 2 \in 1..m /\ i = 2 * (i \div 2)
    BY <1>2, <1>6
  <2> QED BY <2>1
<1>7. n % 2 = 0
  BY <1>2
<1> HIDE DEF F
<1>8. ASSUME \A i \in 1..m : Plain(frame[2 * i]) PROVE EndsNot(F)
  <2>1. ASSUME NEW i \in 1..n, i % 2 = 0 PROVE Plain(F[i])
    <3>1. PICK j \in 1..m : i = 2 * j
      BY <1>6, <2>1
    <3> QED BY <1>5, <1>8, <3>1
  <2> QED BY <1>3, <1>7, <2>1 DEF EndsNot
<1>9. ASSUME \A i \in 1..(m - 1) : Plain(frame[2 * i]) PROVE EndsAtMostLast(F)
  <2>1. ASSUME NEW i \in 1..n, i % 2 = 0, i < n PROVE Plain(F[i])
    <3>1. PICK j \in 1..m : i = 2 * j
      BY <1>6, <2>1
    <3>2. j \in 1..(m - 1)
      BY <1>2, <2>1, <3>1
    <3> QED BY <1>5, <1>9, <3>1, <3>2
  <2> QED BY <1>3, <1>7, <2>1 DEF EndsAtMostLast
<1> QED BY <1>1, <1>2, <1>3, <1>5, <1>8, <1>9 DEF F, m
-----------------------------------------------------------------------------
(* What a pass of the server loop leaves behind, whatever the entries are. *)

\* What is left over of a frame, and of the entry behind it, when the pass does not panic.
LEMMA PassLeaves ==
    ASSUME RegularReplies, FlowTypeOK, AccsClear, NEW w \in Workers,
           NEW frame \in Seq(Pieces), NEW behind \in Seq(Pieces),
           HandleFrame(w, frame), pc'[w] # "panicked"
    PROVE  /\ pc'[w] \in {"client", "server"} /\ Len(partial'[w]) < 2
           /\ partial'[w] = <<>> => buffer'[w] = <<>> \/ w \notin Logs
           /\ w \notin Logs => buffer'[w] = buffer[w]
           /\ asking[w].com = "Query" /\ acc[w].state # "Complete" /\ EndsNot(buffer[w]) =>
                /\ pc'[w] = "server" => EndsNot(buffer'[w]) /\ acc'[w].state # "Complete"
                /\ EndsAtMostLast(frame \o behind) =>
                     /\ EndsAtMostLast(partial'[w] \o behind)
                     /\ pc'[w] = "client" => partial'[w] \o behind = <<>>
                /\ \A e \in published' \ published : EndsAtMostLast(e.bytes)
<1> DEFINE F == SubSeq(frame, 1, Whole(frame))
           R == SubSeq(frame, Whole(frame) + 1, Len(frame))
           m == Len(frame) \div 2
<1>1. F \in Seq(Pieces) /\ R \in Seq(Pieces) /\ F \o R = frame
  BY FrameCut
<1>2. /\ Len(F) = 2 * m /\ m \in Nat
      /\ \A i \in 1..m : F[2 * i] = frame[2 * i]
      /\ (\A i \in 1..m : Plain(frame[2 * i])) => EndsNot(F)
      /\ (\A i \in 1..(m - 1) : Plain(frame[2 * i])) => EndsAtMostLast(F)
  BY FrameEnds
<1>3. Len(R) < 2
  <2>1. Len(frame) = Len(F) + Len(R) /\ Len(R) \in Nat /\ Len(frame) \in Nat
    <3> HIDE DEF F, R
    <3> QED BY <1>1, JoinIndex
  <2>2. Len(frame) <= 2 * m + 1
    BY <2>1, Halves
  <2> HIDE DEF F, R, m
  <2> QED BY <1>2, <2>1, <2>2
<1>4. PICK step \in Outcomes(w, frame) :
        IF step.panic
        THEN /\ pc' = [pc EXCEPT ![w] = "panicked"]
             /\ UNCHANGED <<partial, acc, got, buffer, published, topic, logged>>
        ELSE /\ pc' = [pc EXCEPT ![w] = IF step.phase = "Command" THEN "client" ELSE "server"]
             /\ partial' = [partial EXCEPT ![w] = R]
             /\ acc' = [acc EXCEPT ![w] = step.acc]
             /\ got' = [got EXCEPT ![w] = @ \o F]
             /\ Push(w, F, R)
  BY DEF HandleFrame
<1> HIDE DEF F, R, m
<1>5. /\ partial \in [Workers -> Seq(Pieces)] /\ DOMAIN acc = Workers
      /\ buffer \in [Workers -> Seq(Pieces)]
      /\ pc \in [Workers -> {"client", "server", "ended", "panicked"}]
  BY DEF FlowTypeOK, AccsClear
<1>6. ~step.panic
  BY <1>4, <1>5
<1>7. /\ pc'[w] = IF step.phase = "Command" THEN "client" ELSE "server"
      /\ partial'[w] = R /\ acc'[w] = step.acc /\ Push(w, F, R)
  BY <1>4, <1>5, <1>6
<1>8. /\ w \notin Logs => buffer'[w] = buffer[w] /\ published' = published
      /\ w \in Logs =>
           /\ buffer'[w] = IF R = <<>> THEN <<>> ELSE buffer[w] \o F
           /\ \A e \in published' \ published : e.bytes = buffer[w] \o F
  <2>1. ASSUME w \notin Logs PROVE buffer'[w] = buffer[w] /\ published' = published
    BY <1>7, <2>1 DEF Push
  <2>2. ASSUME w \in Logs PROVE buffer'[w] = IF R = <<>> THEN <<>> ELSE buffer[w] \o F
    BY <1>5, <1>7, <2>2 DEF Push, KeptBack
  <2>3. ASSUME w \in Logs, NEW e \in published' \ published PROVE e.bytes = buffer[w] \o F
    <3>1. published' \subseteq published \cup {[key |-> asking[w].text, bytes |-> buffer[w] \o F]}
      BY <1>7, <2>3 DEF Push
    <3> QED BY <2>3, <3>1
  <2> QED BY <2>1, <2>2, <2>3
<1>9. ASSUME asking[w].com = "Query", acc[w].state # "Complete", EndsNot(buffer[w])
      PROVE  /\ pc'[w] = "server" => EndsNot(buffer'[w]) /\ acc'[w].state # "Complete"
             /\ EndsAtMostLast(frame \o behind) =>
                  /\ EndsAtMostLast(partial'[w] \o behind)
                  /\ pc'[w] = "client" => partial'[w] \o behind = <<>>
             /\ \A e \in published' \ published : EndsAtMostLast(e.bytes)
  <2>1. IF step.phase = "Command"
        THEN /\ m > 0 /\ ~Plain(frame[2 * m])
             /\ \A i \in 1..(m - 1) : Plain(frame[2 * i])
        ELSE /\ step.acc.state # "Complete"
             /\ \A i \in 1..m : Plain(frame[2 * i])
    <3>1. Typed(frame) /\ Len(frame) \in Nat /\ Clear(acc[w]) /\ DeprecateEof
      BY FrameTyped DEF AccsClear, RegularReplies
    <3>2. QueryGoesOn(frame, step)
      BY <1>6, <1>9, <3>1, WalkQuery
    <3> QED BY <3>2 DEF QueryGoesOn, m
  <2>2. step.phase # "Command" => EndsNot(F)
    BY <1>2, <2>1
  <2>3. EndsAtMostLast(F)
    BY <1>2, <2>1, <2>2, NotIsAtMost
  <2>4. buffer[w] \in Seq(Pieces)
    BY <1>5
  <2>5. pc'[w] = "server" => EndsNot(buffer'[w]) /\ acc'[w].state # "Complete"
    <3>1. step.phase # "Command" => EndsNot(buffer[w] \o F)
      BY <1>1, <1>9, <2>2, <2>4, JoinEnds
    <3> QED BY <1>7, <1>8, <1>9, <2>1, <3>1, NothingEnds
  <2>6. \A e \in published' \ published : EndsAtMostLast(e.bytes)
    <3>1. EndsAtMostLast(buffer[w] \o F)
      BY <1>1, <1>9, <2>3, <2>4, JoinEnds
    <3> QED BY <1>8, <3>1
  <2>7. ASSUME EndsAtMostLast(frame \o behind)
        PROVE  /\ EndsAtMostLast(R \o behind)
               /\ step.phase = "Command" => R \o behind = <<>>
    <3>1. R \o behind \in Seq(Pieces)
      BY <1>1, ConcatProperties
    <3>2. frame \o behind = F \o (R \o behind)
      BY <1>1, Associative
    <3>3. Len(F) % 2 = 0
      BY <1>2
    <3>4. /\ EndsAtMostLast(R \o behind)
          /\ Len(F) > 0 /\ ~Plain(F[Len(F)]) => R \o behind = <<>>
      BY <1>1, <2>7, <3>1, <3>2, <3>3, TailEnds
    <3>5. step.phase = "Command" => Len(F) > 0 /\ ~Plain(F[Len(F)])
      <4>1. ASSUME step.phase = "Command" PROVE m \in 1..m /\ Len(F) > 0 /\ Len(F) = 2 * m
        BY <1>2, <2>1, <4>1
      <4> QED BY <1>2, <2>1, <4>1
    <3> QED BY <3>4, <3>5
  <2> QED BY <1>7, <2>5, <2>6, <2>7
<1>10. /\ pc'[w] \in {"client", "server"} /\ Len(partial'[w]) < 2
       /\ partial'[w] = <<>> => buffer'[w] = <<>> \/ w \notin Logs
       /\ w \notin Logs => buffer'[w] = buffer[w]
  BY <1>3, <1>7, <1>8
<1> QED BY <1>9, <1>10

\* A pass keeps the accumulators' account.
LEMMA PassClear ==
    ASSUME RegularReplies, FlowTypeOK, AccsClear, NEW w \in Workers,
           NEW frame \in Seq(Pieces), HandleFrame(w, frame)
    PROVE  AccsClear'
<1>1. PICK step \in Outcomes(w, frame) :
        IF step.panic THEN acc' = acc ELSE acc' = [acc EXCEPT ![w] = step.acc]
  BY DEF HandleFrame
<1>2. step.panic \/ Clear(step.acc)
  <2>1. Typed(frame) /\ Len(frame) \in Nat /\ Clear(acc[w])
    BY FrameTyped DEF AccsClear
  <2> QED BY <2>1, WalkClear
<1> QED BY <1>1, <1>2 DEF AccsClear

\* A pass of one worker is nothing to the others.
LEMMA PassOthers ==
    ASSUME FlowTypeOK, AccsClear, NEW w \in Workers, NEW frame, HandleFrame(w, frame),
           UNCHANGED <<asking, answer>>,
           \A u \in Workers : u # w => read'[u] = read[u] /\ rest'[u] = rest[u],
           NEW u \in Workers, u # w
    PROVE  Unmoved(u)
<1>1. /\ pc'[u] = pc[u] /\ partial'[u] = partial[u] /\ got'[u] = got[u] /\ buffer'[u] = buffer[u]
  BY HandleFrameOthers
<1>2. acc'[u] = acc[u]
  BY DEF HandleFrame, AccsClear
<1> QED BY <1>1, <1>2 DEF Unmoved

\* What is published in a pass.
LEMMA PassPublishes ==
    ASSUME NEW w, NEW frame, HandleFrame(w, frame)
    PROVE  /\ published \subseteq published'
           /\ \A e \in published' \ published : e.key = asking[w].text
<1> DEFINE F == SubSeq(frame, 1, Whole(frame))
           R == SubSeq(frame, Whole(frame) + 1, Len(frame))
<1>1. published' = published \/ Push(w, F, R)
  BY DEF HandleFrame
<1> HIDE DEF F, R
<1>2. \/ published' = published
      \/ published' = published \cup {[key |-> asking[w].text, bytes |-> buffer[w] \o F]}
  BY <1>1 DEF Push
<1> QED BY <1>2

LEMMA PassEntries ==
    ASSUME RegularReplies, FlowTypeOK, AccsClear, Entries, NEW w \in Workers,
           NEW frame \in Seq(Pieces), asking[w] \in Commands, replies' = replies,
           HandleFrame(w, frame), pc'[w] # "panicked", pc[w] = "server", Tidy(w)
    PROVE  Entries'
<1> SUFFICES ASSUME NEW e \in published', e.key \in QueryTexts PROVE EndsAtMostLast(e.bytes)'
  BY DEF Entries
<1>1. EndsAtMostLast(e.bytes)
  <2>1. CASE e \in published
    BY <2>1 DEF Entries
  <2>2. CASE e \notin published
    <3>1. e.key = asking[w].text
      BY <2>2, PassPublishes
    <3>2. PICK d \in Commands : d.com = "Query" /\ d.text = asking[w].text
      BY <3>1 DEF QueryTexts
    <3>3. asking[w].com = "Query"
      BY <3>2 DEF RegularReplies
    <3>4. EndsNot(buffer[w]) /\ acc[w].state # "Complete"
      BY <3>3 DEF Tidy
    <3>5. <<>> \in Seq(Pieces)
      BY EmptySeq
    <3>6. \A x \in published' \ published : EndsAtMostLast(x.bytes)
      BY <3>3, <3>4, <3>5, PassLeaves
    <3> QED BY <2>2, <3>6
  <2> QED BY <2>1, <2>2
<1> QED BY <1>1 DEF EndsAtMostLast, Plain, PacketOf

\* Behind the last packet of a reply nothing is left over.
LEMMA WholeReply ==
    ASSUME FlowTypeOK, NEW v \in DOMAIN replies, NEW r, r = Size(v)
    PROVE  /\ Stretch(v, 0, 2 * (r \div 2)) = Bytes(v)
           /\ Stretch(v, 2 * (r \div 2), r) = <<>>
<1>1. r \in Nat /\ 2 * (r \div 2) = r
  <2>1. PICK n \in Nat : r = 2 * n
    BY SizeOf DEF Size
  <2>2. (2 * n) \div 2 = n
    OBVIOUS
  <2> QED BY <2>1, <2>2
<1> QED BY <1>1, StretchEnds

LEMMA AtTheEnd ==
    ASSUME FlowTypeOK, NEW w, NEW v, NEW r, At(w, v, r), pc[w] # "server"
    PROVE  /\ partial[w] = <<>> /\ got[w] = Bytes(v)
           /\ v \in DOMAIN replies /\ replies[v].text = asking[w].text /\ r = Size(v)
<1>1. /\ v \in DOMAIN replies /\ r = Size(v) /\ replies[v].text = asking[w].text
      /\ got[w] = Stretch(v, 0, 2 * (r \div 2))
      /\ partial[w] = Stretch(v, 2 * (r \div 2), r)
  BY DEF At
<1> QED BY <1>1, WholeReply

LEMMA PassEnds ==
    ASSUME FlowTypeOK, replies' = replies, NEW w, NEW v, NEW r, At(w, v, r)', pc'[w] # "server"
    PROVE  partial'[w] = <<>> /\ v \in DOMAIN replies /\ r = Size(v)
<1>1. /\ v \in DOMAIN replies /\ r = Size(v)
      /\ partial'[w] = Stretch(v, 2 * (r \div 2), r)
  BY DEF At, Size, Stretch, Bytes
<1> QED BY <1>1, WholeReply

\* A read of the server's answer.
LEMMA ReadKept ==
    ASSUME RegularReplies, ReplayInv, NEW w \in Workers, ReadServer(w), FlowTypeOK'
    PROVE  ReplayInv'
<1>0. FlowTypeOK /\ AccsClear /\ Entries /\ WorkerInv(w) /\ Len(replies) <= MaxAsks
  BY DEF ReplayInv
<1>1. PICK n \in 1..BufSize :
        /\ n <= Len(Unread(w))
        /\ read' = [read EXCEPT ![w] = @ + n]
        /\ UNCHANGED <<replies, map, gone, asking, answer, rest>>
        /\ HandleFrame(w, partial[w] \o SubSeq(Unread(w), 1, n))
  BY DEF ReadServer
<1>2. PICK v, r : v = answer[w] /\ r = read[w]
  OBVIOUS
<1> DEFINE next == SubSeq(Unread(w), 1, n)
           frame == partial[w] \o next
<1>3. /\ v \in DOMAIN replies /\ r \in Nat /\ r + n <= Len(Bytes(v)) /\ next \in Seq(Pieces)
  BY <1>0, <1>1, <1>2, ReadIsNext
<1>4. v # 0 /\ n \in Nat /\ pc[w] = "server" /\ FromServer(w) /\ asking[w] \in Commands
  <2>1. v # 0
    <3>1. Len(replies) \in Nat /\ DOMAIN replies = 1..Len(replies)
      BY <1>0 DEF FlowTypeOK
    <3> QED BY <1>3, <3>1
  <2> QED BY <1>0, <2>1 DEF ReadServer, FlowTypeOK
<1>5. At(w, v, r) /\ rest[w] = <<>> /\ Tidy(w)
  BY <1>0, <1>2, <1>4 DEF WorkerInv, Reading
<1>6. Size(v) \in Nat /\ Len(Bytes(v)) = Size(v)
  BY <1>0, <1>3, SizeOf
<1>7. next = Stretch(v, r, r + n)
  <2>1. Unread(w) = Stretch(v, r, Size(v))
    BY <1>2, <1>4, <1>6 DEF Unread, Stretch
  <2> DEFINE z == 0
  <2>2. z \in Nat /\ z <= n /\ r + z = r /\ z + 1 = 1 /\ r + n <= Size(v) /\ r <= Size(v)
    BY <1>3, <1>4, <1>6
  <2> HIDE DEF z
  <2>3. IsPart(v, r, Size(v), z, n)
    BY <1>0, <1>3, <1>4, <1>6, <2>2, StretchPart
  <2> QED BY <2>1, <2>2, <2>3 DEF IsPart
<1>8. HandleFrame(w, frame) /\ frame = partial[w] \o Stretch(v, r, r + n)
  BY <1>1, <1>7
<1>9. frame \in Seq(Pieces)
  <2>1. partial[w] \in Seq(Pieces)
    BY <1>0 DEF FlowTypeOK
  <2> QED BY <1>3, <2>1, ConcatProperties
<1> HIDE DEF next, frame
<1>10. At(w, v, r + n)'
  <2>1. r + n <= Size(v) /\ HandleFrame(w, partial[w] \o Stretch(v, r, r + n))
    BY <1>3, <1>6, <1>8
  <2> QED BY <1>0, <1>1, <1>4, <1>5, <2>1, PassAlong
<1>11. /\ read'[w] = r + n /\ answer'[w] = v /\ rest'[w] = <<>> /\ asking'[w] = asking[w]
       /\ replies' = replies
  BY <1>0, <1>1, <1>2, <1>5 DEF FlowTypeOK
<1>12. pc'[w] # "panicked"
  BY <1>10 DEF At
<1>13. /\ pc'[w] \in {"client", "server"} /\ Len(partial'[w]) < 2
       /\ partial'[w] = <<>> => buffer'[w] = <<>> \/ w \notin Logs
       /\ w \notin Logs => buffer'[w] = buffer[w]
       /\ asking[w].com = "Query" /\ acc[w].state # "Complete" /\ EndsNot(buffer[w]) =>
            (pc'[w] = "server" => EndsNot(buffer'[w]) /\ acc'[w].state # "Complete")
  <2>1. <<>> \in Seq(Pieces)
    BY EmptySeq
  <2> QED BY <1>0, <1>8, <1>9, <1>12, <2>1, PassLeaves
<1>14. WorkerInv(w)'
  <2>1. Reading(w)'
    BY <1>10, <1>11 DEF Reading
  <2>2. Replaying(w)'
    BY <1>4, <1>11 DEF Replaying
  <2>3. Tidy(w)'
    <3>1. pc'[w] \in {"client", "ended"} => partial'[w] = <<>>
      <4>1. pc'[w] # "server" => partial'[w] = <<>>
        BY <1>0, <1>10, <1>11, PassEnds
      <4> QED BY <4>1
    <3>2. EndsNot(buffer'[w]) => EndsNot(buffer[w])'
      BY <1>11 DEF EndsNot, Plain, PacketOf
    <3> QED BY <1>4, <1>5, <1>11, <1>13, <3>1, <3>2 DEF Tidy
  <2>4. Listening(w)'
    BY <1>4, <1>11 DEF Listening, FromServer, SendCommandToServer
  <2>5. DiesOfEntries(w)'
    BY <1>12 DEF DiesOfEntries
  <2> QED BY <2>1, <2>2, <2>3, <2>4, <2>5 DEF WorkerInv
<1>15. ASSUME NEW u \in Workers, u # w PROVE WorkerInv(u)'
  <2>1. \A x \in Workers : x # w => read'[x] = read[x] /\ rest'[x] = rest[x]
    BY <1>0, <1>1 DEF FlowTypeOK
  <2>2. Unmoved(u)
    BY <1>0, <1>1, <1>8, <1>15, <2>1, PassOthers
  <2>3. RepliesGrow /\ published \subseteq published'
    BY <1>1, <1>8, PassPublishes DEF RepliesGrow
  <2>4. WorkerInv(u)
    BY DEF ReplayInv
  <2> QED BY <1>0, <2>2, <2>3, <2>4, WorkerKept
<1>16. AccsClear'
  BY <1>0, <1>8, <1>9, PassClear
<1>17. Entries'
  BY <1>0, <1>4, <1>5, <1>8, <1>9, <1>11, <1>12, PassEntries
<1> QED BY <1>0, <1>11, <1>14, <1>15, <1>16, <1>17 DEF ReplayInv

\* What a worker waits for is a query.
LEMMA ServedIsQuery ==
    ASSUME NEW w, ~FromServer(w)
    PROVE  asking[w].com = "Query"
BY DEF FromServer, SendCommandToServer

\* While the entries are whole replies, a worker that is served is on its way through one:
\* through the one it has got the start of, or from the start of the entry of the moment.
LEMMA ServedReply ==
    ASSUME RegularReplies, FlowTypeOK, PublishesFullResponses, NEW w \in Workers,
           asking[w] \in Commands, pc[w] = "server", HasEntry(w), Fresh(w) \/ Served(w)
    PROVE  \E v, r : At(w, v, r) /\ ToTransmit(w) = Stretch(v, r, Size(v))
<1>1. CASE Fresh(w)
  <2>1. /\ rest[w] = <<>> /\ acc[w] = NewAccumulator
        /\ got[w] = <<>> /\ partial[w] = <<>>
    BY <1>1 DEF Fresh
  <2>2. [key |-> asking[w].text, bytes |-> map[asking[w].text]] \in published
    BY DEF HasEntry, FlowTypeOK
  <2>3. IsReply(map[asking[w].text], asking[w].text)
    BY <2>2 DEF PublishesFullResponses
  <2>4. PICK v \in DOMAIN replies :
            replies[v].text = asking[w].text /\ map[asking[w].text] = Bytes(v)
    BY <2>3 DEF IsReply
  <2>5. Stretch(v, 0, Size(v)) = Bytes(v) /\ Stretch(v, 0, 0) = <<>>
    BY StretchEnds
  <2>6. /\ Traces(Trail(replies[v].packets, asking[w].com), replies[v].packets, asking[w].com)
        /\ Size(v) > 0 /\ Size(v) \in Nat
    BY <2>4, RegularReply, SizeOf
  <2>7. At(w, v, 0)
    <3>1. 0 \div 2 = 0 /\ 2 * 0 = 0 /\ 0 \in 0..Size(v) /\ 0 < Size(v)
      BY <2>6
    <3>2. Trail(replies[v].packets, asking[w].com)[0] = NewAccumulator
      BY <2>6 DEF Traces
    <3> QED BY <2>1, <2>4, <2>5, <3>1, <3>2 DEF At
  <2>8. ToTransmit(w) = Stretch(v, 0, Size(v))
    BY <2>1, <2>4, <2>5 DEF ToTransmit
  <2> QED BY <2>7, <2>8
<1>2. CASE Served(w)
  <2>1. PICK v \in DOMAIN replies :
            \E r \in 0..Size(v) : At(w, v, r) /\ rest[w] = Stretch(v, r, Size(v))
    BY <1>2 DEF Served
  <2>2. PICK r \in 0..Size(v) : At(w, v, r) /\ rest[w] = Stretch(v, r, Size(v))
    BY <2>1
  <2>3. Size(v) \in Nat /\ r \in Nat /\ r <= Size(v) /\ r < Size(v)
    BY <2>2, SizeOf DEF At
  <2>4. Len(Stretch(v, r, Size(v))) = Size(v) - r
    <3>1. PICK n : n = Size(v)
      OBVIOUS
    <3>2. v \in DOMAIN replies /\ r \in Nat /\ n \in Nat /\ r <= n /\ n <= Size(v)
      BY <2>3, <3>1
    <3>3. Len(Stretch(v, r, n)) = n - r
      BY <3>2, StretchOf
    <3> QED BY <3>1, <3>3
  <2>5. rest[w] # <<>>
    BY <2>2, <2>3, <2>4
  <2> QED BY <2>2, <2>5 DEF ToTransmit
<1> QED BY <1>1, <1>2

\* A chunk of it takes the worker on, and leaves the rest.
GetsOn(w, v, r, all, len) ==
    /\ At(w, v, r + len)' /\ v \in DOMAIN replies /\ r + len \in 0..Size(v)
    /\ SubSeq(all, len + 1, Len(all)) = Stretch(v, r + len, Size(v))

LEMMA ServedOn ==
    ASSUME RegularReplies, FlowTypeOK, AccsClear, NEW w \in Workers, asking[w] \in Commands,
           pc[w] = "server", NEW v, NEW r, At(w, v, r),
           NEW all, all = Stretch(v, r, Size(v)),
           NEW len, len = IF Len(all) < BufSize THEN Len(all) ELSE BufSize,
           HandleFrame(w, partial[w] \o SubSeq(all, 1, len)), UNCHANGED <<replies, asking>>
    PROVE  GetsOn(w, v, r, all, len)
<1>1. v \in DOMAIN replies /\ r \in 0..Size(v)
  BY DEF At
<1>2. Size(v) \in Nat /\ r \in Nat /\ r <= Size(v)
  BY <1>1, SizeOf
<1>3. Len(all) = Size(v) - r
  <2>1. PICK n : n = Size(v)
    OBVIOUS
  <2>2. v \in DOMAIN replies /\ r \in Nat /\ n \in Nat /\ r <= n /\ n <= Size(v)
    BY <1>1, <1>2, <2>1
  <2>3. Len(Stretch(v, r, n)) = n - r
    BY <2>2, StretchOf
  <2> QED BY <2>1, <2>3
<1>4. len \in Nat /\ len <= Size(v) - r
  BY <1>2, <1>3
<1> DEFINE z == 0
           b == Size(v) - r
<1>5. /\ z \in Nat /\ b \in Nat /\ z <= len /\ len <= b /\ r + z = r /\ z + 1 = 1
      /\ r + len <= Size(v) /\ r + b <= Size(v) /\ r + b = Size(v)
  BY <1>2, <1>4
<1> HIDE DEF z, b
<1>6. SubSeq(all, 1, len) = Stretch(v, r, r + len)
  <2>1. IsPart(v, r, Size(v), z, len)
    BY <1>1, <1>2, <1>4, <1>5, StretchPart
  <2> QED BY <1>5, <2>1 DEF IsPart
<1>7. SubSeq(all, len + 1, Len(all)) = Stretch(v, r + len, Size(v))
  <2>1. IsPart(v, r, Size(v), len, b)
    BY <1>1, <1>2, <1>4, <1>5, StretchPart
  <2> QED BY <1>3, <1>5, <2>1 DEF IsPart, b
<1>8. At(w, v, r + len)'
  BY <1>4, <1>5, <1>6, PassAlong
<1>9. r + len \in 0..Size(v)
  BY <1>2, <1>4, <1>5
<1> QED BY <1>1, <1>7, <1>8, <1>9 DEF GetsOn

\* What a served worker has kept back and what it is about to be sent ends where a packet
\* does, whatever the entries are.
LEMMA ServedEnds ==
    ASSUME FlowTypeOK, Entries, NEW w \in Workers, Tidy(w), pc[w] = "server",
           asking[w] \in Commands, asking[w].com = "Query", answer[w] = 0, HasEntry(w)
    PROVE  /\ ToTransmit(w) \in Seq(Pieces)
           /\ EndsAtMostLast(partial[w] \o ToTransmit(w))
<1>1. /\ Len(partial[w]) < 2 /\ EndsAtMostLast(partial[w] \o rest[w])
      /\ partial[w] \in Seq(Pieces) /\ rest[w] \in Seq(Pieces)
  BY DEF Tidy, FlowTypeOK
<1>2. CASE rest[w] # <<>>
  BY <1>1, <1>2 DEF ToTransmit
<1>3. CASE rest[w] = <<>>
  <2>1. partial[w] = <<>>
    <3>1. partial[w] \o rest[w] = partial[w]
      BY <1>1, <1>3, ConcatEmptySeq
    <3>2. Len(partial[w]) % 2 = 0
      BY <1>1, <3>1, Zenon DEF EndsAtMostLast
    <3>3. Len(partial[w]) = 0
      <4>1. PICK n \in Nat : n = Len(partial[w])
        BY <1>1
      <4>2. n % 2 = 0 /\ n < 2
        BY <1>1, <3>2, <4>1
      <4>3. n = 0
        BY <4>2
      <4> QED BY <4>1, <4>3
    <3> QED BY <1>1, <3>3
  <2>2. [key |-> asking[w].text, bytes |-> map[asking[w].text]] \in published
    BY DEF HasEntry, FlowTypeOK
  <2>3. map[asking[w].text] \in Seq(Pieces)
    <3>1. [key |-> asking[w].text, bytes |-> map[asking[w].text]]
            \in [key : Texts, bytes : Seq(Pieces)]
      BY <2>2 DEF FlowTypeOK
    <3> QED BY <3>1
  <2>4. asking[w].text \in QueryTexts
    BY DEF QueryTexts
  <2>5. EndsAtMostLast(map[asking[w].text])
    BY <2>2, <2>4 DEF Entries
  <2>6. partial[w] \o map[asking[w].text] = map[asking[w].text]
    BY <2>1, <2>3, ConcatEmptySeq
  <2> QED BY <1>3, <2>3, <2>5, <2>6 DEF ToTransmit
<1> QED BY <1>2, <1>3

\* A chunk of an entry.
LEMMA ServeKept ==
    ASSUME RegularReplies, ReplayInv, NEW w \in Workers, ServeChunk(w), FlowTypeOK'
    PROVE  ReplayInv'
<1>0. FlowTypeOK /\ AccsClear /\ Entries /\ WorkerInv(w) /\ Len(replies) <= MaxAsks
  BY DEF ReplayInv
<1>1. PICK all : all = ToTransmit(w)
  OBVIOUS
<1>2. PICK len : len = IF Len(all) < BufSize THEN Len(all) ELSE BufSize
  OBVIOUS
<1> DEFINE frame == partial[w] \o SubSeq(all, 1, len)
           behind == SubSeq(all, len + 1, Len(all))
<1>3. /\ pc[w] = "server" /\ ~FromServer(w) /\ HasEntry(w)
      /\ rest' = [rest EXCEPT ![w] = behind]
      /\ UNCHANGED <<replies, map, gone, asking, answer, read>>
      /\ HandleFrame(w, frame)
  BY <1>1, <1>2 DEF ServeChunk
<1>4. asking[w] \in Commands /\ asking[w].com = "Query" /\ answer[w] = 0 /\ Tidy(w)
  BY <1>0, <1>3, ServedIsQuery DEF FlowTypeOK, WorkerInv, Listening
<1>5. all \in Seq(Pieces) /\ EndsAtMostLast(partial[w] \o all)
  BY <1>0, <1>1, <1>3, <1>4, ServedEnds
<1>6. len \in 0..Len(all) /\ Len(all) \in Nat /\ len \in Nat
  BY <1>2, <1>5
<1>7. /\ frame \in Seq(Pieces) /\ behind \in Seq(Pieces)
      /\ frame \o behind = partial[w] \o all
  <2> DEFINE s == SubSeq(all, 1, len)
  <2>1. s \in Seq(Pieces) /\ behind \in Seq(Pieces)
    <3>1. 1 \in Nat \ {0} /\ len + 1 \in Nat \ {0} /\ len <= Len(all) /\ Len(all) <= Len(all)
      BY <1>6
    <3> QED BY <1>5, <1>6, <3>1, PartType
  <2>2. s \o behind = all
    <3>1. SubSeq(all, 1, Len(all)) = all
      BY <1>5, SubSeqFull
    <3>2. /\ 1 \in 1..(Len(all) + 1) /\ len \in (1 - 1)..Len(all)
          /\ Len(all) \in len..Len(all)
      BY <1>6
    <3> QED BY <1>5, <3>1, <3>2, ConcatAdjacentSubSeq
  <2>3. partial[w] \in Seq(Pieces)
    BY <1>0 DEF FlowTypeOK
  <2> HIDE DEF s, behind
  <2>4. (partial[w] \o s) \o behind = partial[w] \o all
    BY <2>1, <2>2, <2>3, Associative
  <2>5. partial[w] \o s \in Seq(Pieces)
    BY <2>1, <2>3, ConcatProperties
  <2> QED BY <2>1, <2>4, <2>5 DEF s
<1>8. rest'[w] = behind /\ answer'[w] = 0 /\ asking'[w] = asking[w] /\ replies' = replies
  BY <1>0, <1>3, <1>4 DEF FlowTypeOK
<1>9. RepliesGrow /\ published \subseteq published'
  BY <1>3, PassPublishes DEF RepliesGrow
<1>10. ASSUME PublishesFullResponses'
       PROVE  \E v, r : /\ At(w, v, r)' /\ v \in DOMAIN replies /\ r \in 0..Size(v)
                        /\ behind = Stretch(v, r, Size(v))
  <2>1. PublishesFullResponses
    BY <1>0, <1>9, <1>10, PublishedKept
  <2>2. Fresh(w) \/ Served(w)
    BY <1>0, <1>3, <1>4, <2>1 DEF WorkerInv, Replaying, Idle
  <2>3. PICK v, r : At(w, v, r) /\ all = Stretch(v, r, Size(v))
    BY <1>0, <1>1, <1>3, <1>4, <2>1, <2>2, ServedReply
  <2>4. /\ HandleFrame(w, partial[w] \o SubSeq(all, 1, len))
        /\ UNCHANGED <<replies, asking>>
    BY <1>3
  <2> HIDE DEF frame, behind
  <2>5. FlowTypeOK /\ AccsClear /\ asking[w] \in Commands /\ pc[w] = "server"
    BY <1>0, <1>3, <1>4
  <2>6. GetsOn(w, v, r, all, len)
    BY <1>2, <2>3, <2>4, <2>5, ServedOn
  <2> QED BY <2>6 DEF behind, GetsOn
<1> HIDE DEF frame, behind
<1>11. Replaying(w)'
  <2>1. ASSUME PublishesFullResponses' PROVE Served(w)'
    <3>1. PICK v, r : /\ At(w, v, r)' /\ v \in DOMAIN replies /\ r \in 0..Size(v)
                      /\ behind = Stretch(v, r, Size(v))
      BY <1>10, <2>1
    <3> QED BY <1>8, <3>1 DEF Served, Size, Stretch, Bytes
  <2> QED BY <2>1 DEF Replaying
<1>12. DiesOfEntries(w)'
  <2>1. PublishesFullResponses' => pc'[w] # "panicked"
    BY <1>10 DEF At
  <2> QED BY <1>8, <2>1 DEF DiesOfEntries
<1>13. Reading(w)' /\ Listening(w)'
  BY <1>3, <1>8 DEF Reading, Listening, FromServer, SendCommandToServer
<1>14. AccsClear'
  BY <1>0, <1>3, <1>7, PassClear
<1>15. ASSUME pc'[w] = "panicked" PROVE Tidy(w)' /\ Entries'
  <2>1. UNCHANGED <<partial, buffer, published>>
    <3>1. pc \in [Workers -> {"client", "server", "ended", "panicked"}]
      BY <1>0 DEF FlowTypeOK
    <3> QED BY <1>3, <1>15, <3>1 DEF HandleFrame
  <2>2. Tidy(w)'
    BY <1>4, <1>15, <2>1 DEF Tidy
  <2>3. Entries'
    BY <1>0, <1>8, <2>1 DEF Entries, EndsAtMostLast, Plain, PacketOf
  <2> QED BY <2>2, <2>3
<1>16. ASSUME pc'[w] # "panicked" PROVE Tidy(w)' /\ Entries'
  <2>1. acc[w].state # "Complete" /\ EndsNot(buffer[w])
    BY <1>3, <1>4 DEF Tidy
  <2>2. EndsAtMostLast(frame \o behind)
    BY <1>5, <1>7
  <2>3. /\ pc'[w] \in {"client", "server"} /\ Len(partial'[w]) < 2
        /\ partial'[w] = <<>> => buffer'[w] = <<>> \/ w \notin Logs
        /\ w \notin Logs => buffer'[w] = buffer[w]
        /\ pc'[w] = "server" => EndsNot(buffer'[w]) /\ acc'[w].state # "Complete"
        /\ EndsAtMostLast(partial'[w] \o behind)
        /\ pc'[w] = "client" => partial'[w] \o behind = <<>>
    BY <1>0, <1>3, <1>4, <1>7, <1>16, <2>1, <2>2, PassLeaves
  <2>4. pc'[w] = "client" => partial'[w] = <<>> /\ behind = <<>>
    <3>1. PICK p \in Seq(Pieces) : p = partial'[w]
      <4>1. HandleFrame(w, frame) /\ frame \in Seq(Pieces)
        BY <1>3, <1>7
      <4>2. partial' \in [Workers -> Seq(Pieces)]
        BY <1>0, <1>4, <4>1, HandleFrameType
      <4> QED BY <4>2
    <3>2. /\ Len(p \o behind) = Len(p) + Len(behind)
          /\ Len(p) \in Nat /\ Len(behind) \in Nat
      BY <1>7, JoinIndex
    <3>3. p \o behind = <<>> => p = <<>> /\ behind = <<>>
      BY <1>7, <3>2
    <3> QED BY <2>3, <3>1, <3>3
  <2>5. /\ EndsNot(buffer'[w]) => EndsNot(buffer[w])'
        /\ EndsAtMostLast(partial'[w] \o behind) => EndsAtMostLast(partial[w] \o rest[w])'
    BY <1>8 DEF EndsNot, EndsAtMostLast, Plain, PacketOf
  <2>6. Tidy(w)'
    BY <1>4, <1>8, <2>3, <2>4, <2>5 DEF Tidy
  <2>7. Entries'
    BY <1>0, <1>3, <1>4, <1>7, <1>8, <1>16, PassEntries
  <2> QED BY <2>6, <2>7
<1>17. WorkerInv(w)'
  BY <1>11, <1>12, <1>13, <1>15, <1>16 DEF WorkerInv
<1>18. ASSUME NEW u \in Workers, u # w PROVE WorkerInv(u)'
  <2>1. \A x \in Workers : x # w => read'[x] = read[x] /\ rest'[x] = rest[x]
    BY <1>0, <1>3 DEF FlowTypeOK
  <2>2. Unmoved(u)
    BY <1>0, <1>3, <1>18, <2>1, PassOthers
  <2>3. WorkerInv(u)
    BY DEF ReplayInv
  <2> QED BY <1>0, <1>9, <2>2, <2>3, WorkerKept
<1> QED BY <1>0, <1>8, <1>14, <1>15, <1>16, <1>17, <1>18 DEF ReplayInv

\* A command: the worker is at the start of the server's reply, or waits for an entry.
LEMMA AskKept ==
    ASSUME RegularReplies, ReplayInv, NEW w \in Workers, Ask(w), FlowTypeOK'
    PROVE  ReplayInv'
<1>0. FlowTypeOK /\ AccsClear /\ Entries /\ WorkerInv(w) /\ Len(replies) <= MaxAsks
  BY DEF ReplayInv
<1>1. PICK c \in Commands :
        /\ asking' = [asking EXCEPT ![w] = c]
        /\ IF SendCommandToServer(w, c)
           THEN /\ Len(replies) < MaxAsks
                /\ \E reply \in ServerReplies(c) :
                    replies' = Append(replies, [text |-> c.text, packets |-> reply])
                /\ answer' = [answer EXCEPT ![w] = Len(replies) + 1]
           ELSE /\ answer' = [answer EXCEPT ![w] = 0]
                /\ UNCHANGED replies
  BY DEF Ask
<1>2. /\ pc[w] = "client" /\ pc' = [pc EXCEPT ![w] = "server"]
      /\ read' = [read EXCEPT ![w] = 0] /\ acc' = [acc EXCEPT ![w] = NewAccumulator]
      /\ got' = [got EXCEPT ![w] = <<>>] /\ buffer' = [buffer EXCEPT ![w] = <<>>]
      /\ UNCHANGED <<published, partial, rest>>
  BY DEF Ask
<1>3. partial[w] = <<>> /\ rest[w] = <<>>
  BY <1>0, <1>2 DEF WorkerInv, Tidy
<1>4. /\ pc'[w] = "server" /\ read'[w] = 0 /\ acc'[w] = NewAccumulator
      /\ got'[w] = <<>> /\ buffer'[w] = <<>> /\ partial'[w] = <<>> /\ rest'[w] = <<>>
      /\ asking'[w] = c
      /\ answer'[w] = IF SendCommandToServer(w, c) THEN Len(replies) + 1 ELSE 0
  BY <1>0, <1>1, <1>2, <1>3 DEF FlowTypeOK, AccsClear
<1>5. Len(replies) \in Nat /\ replies \in Seq(Given)
  BY <1>0 DEF FlowTypeOK
<1>6. RepliesGrow /\ Len(replies') <= MaxAsks
  <2>1. CASE SendCommandToServer(w, c)
    <3>1. PICK reply \in ServerReplies(c) :
            replies' = Append(replies, [text |-> c.text, packets |-> reply])
      BY <1>1, <2>1
    <3>2. [text |-> c.text, packets |-> reply] \in Given
      BY DEF Given
    <3>3. Len(replies') = Len(replies) + 1 /\ Len(replies) < MaxAsks
      BY <1>1, <1>5, <2>1, <3>1
    <3> QED BY <1>5, <3>1, <3>2, <3>3, ReplayAssumption DEF RepliesGrow
  <2>2. CASE ~SendCommandToServer(w, c)
    BY <1>0, <1>1, <2>2 DEF RepliesGrow
  <2> QED BY <2>1, <2>2
<1>7. Reading(w)'
  <2> SUFFICES ASSUME SendCommandToServer(w, c)
               PROVE  At(w, answer[w], read[w])' /\ rest'[w] = <<>>
    BY <1>4 DEF Reading
  <2>1. PICK reply \in ServerReplies(c) :
          replies' = Append(replies, [text |-> c.text, packets |-> reply])
    BY <1>1
  <2>2. PICK v : v = Len(replies) + 1
    OBVIOUS
  <2>3. replies'[v] = [text |-> c.text, packets |-> reply] /\ v \in DOMAIN replies'
    BY <1>5, <2>1, <2>2
  <2>4. Regular(reply, c.com) /\ Len(reply) \in Nat
    BY ReplayAssumption DEF RegularReplies
  <2>5. Traces(Trail(reply, c.com), reply, c.com) /\ Len(reply) > 0
    <3>1. Traces(Trail(reply, c.com), reply, c.com)
      BY <2>4 DEF Regular
    <3>2. Len(reply) > 0
      BY <2>4 DEF Regular
    <3> QED BY <3>1, <3>2
  <2>6. Trail(reply, c.com)[0] = NewAccumulator
    BY <2>5 DEF Traces
  <2>7. replies'[v].packets = reply /\ replies'[v].text = c.text
    BY <2>3
  <2>8. Size(v)' = 2 * Len(reply) /\ 0 \in 0..Size(v)' /\ 0 < Size(v)'
    BY <2>4, <2>5, <2>7 DEF Size
  <2>9. Stretch(v, 0, 0)' = <<>>
    <3>1. \A s : SubSeq(s, 1, 0) = <<>>
      BY SubSeqEmpty
    <3> QED BY <3>1 DEF Stretch
  <2>10. 0 \div 2 = 0 /\ 2 * 0 = 0
    OBVIOUS
  <2>11. At(w, v, 0)'
    BY <1>4, <2>3, <2>6, <2>7, <2>8, <2>9, <2>10 DEF At
  <2>12. answer'[w] = v /\ read'[w] = 0
    BY <1>4, <2>2
  <2> QED BY <1>4, <2>11, <2>12
<1>8. Replaying(w)'
  BY <1>4 DEF Replaying, Fresh
<1>9. Tidy(w)'
  <2>1. EndsNot(<<>>)' /\ EndsAtMostLast(<<>> \o <<>>)'
    <3>1. <<>> \o <<>> = <<>> /\ Len(<<>>) = 0
      BY ConcatEmptySeq, EmptySeq
    <3> QED BY <3>1 DEF EndsNot, EndsAtMostLast
  <2>2. NewAccumulator.state # "Complete" /\ Len(<<>>) < 2
    BY DEF NewAccumulator
  <2>3. EndsNot(buffer[w])' /\ EndsAtMostLast(partial[w] \o rest[w])'
    BY <1>4, <2>1 DEF EndsNot, EndsAtMostLast
  <2> QED BY <1>4, <2>2, <2>3 DEF Tidy
<1>10. Listening(w)'
  <2>1. FromServer(w)' <=> SendCommandToServer(w, c)
    BY <1>4 DEF FromServer, SendCommandToServer
  <2>2. Len(replies) + 1 # 0
    BY <1>5
  <2> QED BY <1>4, <2>1, <2>2 DEF Listening
<1>11. DiesOfEntries(w)'
  BY <1>4 DEF DiesOfEntries
<1>12. ASSUME NEW u \in Workers, u # w PROVE WorkerInv(u)'
  <2>1. Unmoved(u)
    <3>1. /\ DOMAIN asking = Workers /\ DOMAIN answer = Workers /\ DOMAIN read = Workers
          /\ DOMAIN got = Workers /\ DOMAIN buffer = Workers /\ DOMAIN pc = Workers
          /\ DOMAIN acc = Workers
      BY <1>0 DEF FlowTypeOK, AccsClear
    <3>2. asking'[u] = asking[u] /\ answer'[u] = answer[u]
      BY <1>1, <1>12, <3>1
    <3> QED BY <1>2, <1>12, <3>1, <3>2 DEF Unmoved
  <2>2. WorkerInv(u)
    BY DEF ReplayInv
  <2> QED BY <1>0, <1>2, <1>6, <2>1, <2>2, WorkerKept
<1>13. AccsClear'
  <2>1. Clear(NewAccumulator)
    BY DEF Clear, Sane, NewAccumulator, Fields, AccStates
  <2> QED BY <1>0, <1>2, <2>1 DEF AccsClear
<1>14. Entries'
  <2> SUFFICES ASSUME NEW e \in published, e.key \in QueryTexts PROVE EndsAtMostLast(e.bytes)'
    BY <1>2 DEF Entries
  <2>1. e.bytes \in Seq(Pieces) /\ EndsAtMostLast(e.bytes)
    BY <1>0 DEF FlowTypeOK, Entries
  <2> QED BY <1>0, <1>6, <2>1, PlainKept
<1> QED BY <1>0, <1>6, <1>7, <1>8, <1>9, <1>10, <1>11, <1>12, <1>13, <1>14
        DEF ReplayInv, WorkerInv

\* A step that is nothing to any worker.
LEMMA QuietKept ==
    ASSUME RegularReplies, ReplayInv, FlowTypeOK', UNCHANGED <<replies, published, acc>>,
           \A w \in Workers : Unmoved(w)
    PROVE  ReplayInv'
<1>1. FlowTypeOK /\ RepliesGrow /\ published \subseteq published'
  BY DEF ReplayInv, RepliesGrow
<1>2. ASSUME NEW w \in Workers PROVE WorkerInv(w)'
  <2>1. WorkerInv(w) /\ Unmoved(w)
    BY DEF ReplayInv
  <2> QED BY <1>1, <2>1, WorkerKept
<1>3. Entries'
  BY DEF ReplayInv, Entries, EndsAtMostLast, Plain, PacketOf
<1>4. AccsClear' /\ Len(replies') <= MaxAsks
  BY DEF ReplayInv, AccsClear
<1> QED BY <1>2, <1>3, <1>4 DEF ReplayInv

LEMMA ReplayInit ==
    ASSUME Init, FlowTypeOK
    PROVE  ReplayInv
<1>1. /\ replies = <<>> /\ published = {} /\ Len(<<>>) = 0
  BY DEF Init
<1>2. AccsClear
  BY DEF Init, AccsClear, Clear, Sane, NewAccumulator, Fields, AccStates
<1>3. Entries /\ Len(replies) <= MaxAsks
  BY <1>1, ReplayAssumption DEF Entries
<1>4. ASSUME NEW w \in Workers PROVE WorkerInv(w)
  <2>1. /\ pc[w] = "client" /\ asking[w] = NotAsked /\ answer[w] = 0
        /\ partial[w] = <<>> /\ rest[w] = <<>> /\ got[w] = <<>> /\ buffer[w] = <<>>
    BY DEF Init
  <2>2. Len(<<>>) < 2
    OBVIOUS
  <2> QED BY <2>1, <2>2 DEF WorkerInv, Reading, Replaying, Idle, Tidy, Listening, DiesOfEntries
<1> QED BY <1>2, <1>3, <1>4 DEF ReplayInv

LEMMA ReplayStep ==
    ASSUME RegularReplies, ReplayInv, FlowTypeOK', [Next]_vars
    PROVE  ReplayInv'
<1>1. ASSUME NEW w \in Workers, Ask(w) PROVE ReplayInv'
  BY <1>1, AskKept
<1>2. ASSUME NEW w \in Workers, ClientCloses(w) PROVE ReplayInv'
  <2>1. \A u \in Workers : Unmoved(u)
    BY <1>2 DEF ClientCloses, Unmoved
  <2> QED BY <1>2, <2>1, QuietKept DEF ClientCloses, shared
<1>3. ASSUME NEW w \in Workers, WorkerEnds(w) PROVE ReplayInv'
  <2>1. DOMAIN pc = Workers
    BY DEF ReplayInv, FlowTypeOK
  <2>2. \A u \in Workers : Unmoved(u)
    BY <1>3, <2>1 DEF WorkerEnds, Unmoved
  <2> QED BY <1>3, <2>2, QuietKept DEF WorkerEnds, shared
<1>4. ASSUME NEW w \in Workers, ReadServer(w) PROVE ReplayInv'
  BY <1>4, ReadKept
<1>5. ASSUME NEW w \in Workers, ServeChunk(w) PROVE ReplayInv'
  BY <1>5, ServeKept
<1>6. ASSUME ReceiveEntry PROVE ReplayInv'
  <2>1. UNCHANGED <<replies, published, session>>
    BY <1>6 DEF ReceiveEntry
  <2>2. \A u \in Workers : Unmoved(u)
    BY <2>1 DEF session, Unmoved
  <2> QED BY <2>1, <2>2, QuietKept DEF session
<1>7. ASSUME NEW k \in Texts, ExpireEntry(k) PROVE ReplayInv'
  <2>1. UNCHANGED <<replies, published, session>>
    BY <1>7 DEF ExpireEntry
  <2>2. \A u \in Workers : Unmoved(u)
    BY <2>1 DEF session, Unmoved
  <2> QED BY <2>1, <2>2, QuietKept DEF session
<1>8. CASE UNCHANGED vars
  <2>1. \A u \in Workers : Unmoved(u)
    BY <1>8 DEF vars, session, Unmoved
  <2> QED BY <1>8, <2>1, QuietKept DEF vars, shared, session
<1> QED BY <1>1, <1>2, <1>3, <1>4, <1>5, <1>6, <1>7, <1>8 DEF Next, Worker

\* The invariant holds of every session whose replies the accumulator follows.
THEOREM Followed == ASSUME RegularReplies PROVE Spec => []ReplayInv
<1>1. Init /\ FlowTypeOK => ReplayInv
  BY ReplayInit
<1>2. ReplayInv /\ FlowTypeOK' /\ [Next]_vars => ReplayInv'
  BY ReplayStep
<1> QED BY <1>1, <1>2, FlowTypeCorrect, PTL DEF Spec
-----------------------------------------------------------------------------
(* The properties.                                                         *)

\* The variables have their types, and no more than one piece of a packet waits for the
\* other (TypeOK).
THEOREM TypeCorrect == ASSUME RegularReplies PROVE Spec => []TypeOK
<1>1. ReplayInv => TypeOK
  BY DEF ReplayInv, WorkerInv, Tidy, AccsClear, Clear, Sane, TypeOK
<1> QED BY <1>1, Followed, PTL

\* Where the end of each answer is recognised, the log has all of it.
LEMMA EndIsComplete ==
    ASSUME ReplayInv, LogCoversAnswer
    PROVE  LogComplete
<1> SUFFICES ASSUME NEW w \in Logs, pc[w] \in {"client", "ended"}
             PROVE  /\ buffer[w] = <<>> /\ partial[w] = <<>>
                    /\ answer[w] # 0 => logged[w] = Bytes(answer[w])
  BY DEF LogComplete
<1>1. w \in Workers /\ FlowTypeOK
  BY ReplayAssumption DEF ReplayInv
<1>2. WorkerInv(w)
  BY <1>1 DEF ReplayInv
<1>3. buffer[w] = <<>> /\ partial[w] = <<>>
  BY <1>2 DEF WorkerInv, Tidy
<1>4. ASSUME answer[w] # 0 PROVE logged[w] = Bytes(answer[w])
  <2>1. At(w, answer[w], read[w])
    BY <1>2, <1>4 DEF WorkerInv, Reading
  <2>2. got[w] = Bytes(answer[w])
    BY <1>1, <2>1, AtTheEnd
  <2>3. logged[w] \o buffer[w] = got[w] /\ logged[w] \in Seq(Pieces)
    BY <1>1 DEF LogCoversAnswer, FlowTypeOK
  <2> QED BY <1>3, <2>2, <2>3, ConcatEmptySeq
<1> QED BY <1>3, <1>4

\* Nothing the server says is missing from the log or in it twice, whatever the reads cut
\* it into, for every number of workers and size of buffer
\* (push_to_kafka_if_logging_enabled).
THEOREM LogCovers == ASSUME RegularReplies PROVE Spec => []LogCoversAnswer
<1> DEFINE I == LogCoversAnswer /\ AskedIfListening
<1>1. Init => I
  BY FlowInit
<1>2. FlowTypeOK /\ FlowTypeOK' /\ ReplayInv /\ I /\ [Next]_vars => I'
  BY EndIsComplete, FlowKept
<1>3. I => LogCoversAnswer
  OBVIOUS
<1> QED BY <1>1, <1>2, <1>3, FlowTypeCorrect, Followed, PTL DEF Spec

\* Once the answer is over all of it is published, and nothing of it is left over for the
\* next one (push_to_kafka_if_logging_enabled).
THEOREM LogIsComplete == ASSUME RegularReplies PROVE Spec => []LogComplete
<1>1. ReplayInv /\ LogCoversAnswer => LogComplete
  BY EndIsComplete
<1> QED BY <1>1, Followed, LogCovers, PTL

\* No worker dies while the entries are whole replies
\* (get_response_from_cache_if_replay_enabled, process_incoming_frame).
THEOREM NeverPanicsOfWholeEntries ==
    ASSUME RegularReplies PROVE Spec => []WholeEntriesNeverPanic
<1>1. ReplayInv => WholeEntriesNeverPanic
  BY DEF ReplayInv, WorkerInv, DiesOfEntries, WholeEntriesNeverPanic
<1> QED BY <1>1, Followed, PTL

\* A worker never waits for a server that has nothing to say: the two uses of
\* send_command_to_server, one per loop, agree, and the end of each reply is recognised.
THEOREM NeverWaitsInVain ==
    ASSUME RegularReplies PROVE Spec => []WaitsForServerOnlyIfAsked
<1>1. ASSUME ReplayInv, NEW w \in Workers, pc[w] = "server", FromServer(w)
      PROVE  Unread(w) # <<>>
  <2>1. FlowTypeOK /\ WorkerInv(w)
    BY <1>1 DEF ReplayInv
  <2>2. answer[w] # 0 /\ At(w, answer[w], read[w])
    BY <1>1, <2>1 DEF WorkerInv, Listening, Reading
  <2>3. PICK v, r : v = answer[w] /\ r = read[w]
    OBVIOUS
  <2>4. v \in DOMAIN replies /\ r \in 0..Size(v) /\ r < Size(v)
    BY <1>1, <2>2, <2>3 DEF At
  <2>5. Size(v) \in Nat /\ Len(Bytes(v)) = Size(v)
    BY <2>1, <2>4, SizeOf
  <2>6. Unread(w) = Stretch(v, r, Size(v))
    BY <2>2, <2>3, <2>5 DEF Unread, Stretch
  <2>7. Len(Stretch(v, r, Size(v))) = Size(v) - r
    <3>1. PICK n : n = Size(v)
      OBVIOUS
    <3>2. r \in Nat /\ n \in Nat /\ r <= n /\ n <= Size(v)
      BY <2>4, <2>5, <3>1
    <3>3. Len(Stretch(v, r, n)) = n - r
      BY <2>1, <2>4, <3>2, StretchOf
    <3> QED BY <3>1, <3>3
  <2> QED BY <2>4, <2>5, <2>6, <2>7
<1>2. ReplayInv => WaitsForServerOnlyIfAsked
  BY <1>1 DEF WaitsForServerOnlyIfAsked
<1> QED BY <1>2, Followed, PTL

\* A part of a reply from its start is a prefix of it.
LEMMA PrefixOfReply ==
    ASSUME FlowTypeOK, NEW v \in DOMAIN replies, NEW r \in 0..Size(v)
    PROVE  Seqs!IsPrefix(Stretch(v, 0, r), Bytes(v))
<1>1. Size(v) \in Nat /\ Len(Bytes(v)) = Size(v) /\ r \in Nat /\ r <= Size(v)
  BY SizeOf
<1>2. Stretch(v, 0, r) \in Seq(Pieces) /\ Len(Stretch(v, 0, r)) = r
  <2>1. 0 \in Nat /\ 0 <= r
    BY <1>1
  <2> QED BY <1>1, <2>1, StretchOf
<1>3. SubSeq(Stretch(v, 0, r), 1, r) = Stretch(v, 0, r)
  BY <1>2, SubSeqFull
<1>4. SubSeq(Bytes(v), 1, r) = Stretch(v, 0, r)
  BY DEF Stretch
<1> QED BY <1>1, <1>2, <1>3, <1>4 DEF Seqs!IsPrefix

\* What a worker on its way through a reply has got and kept back.
LEMMA AtGot ==
    ASSUME FlowTypeOK, NEW w, NEW v, NEW r, At(w, v, r)
    PROVE  /\ v \in DOMAIN replies /\ r \in 0..Size(v) /\ r \in Nat /\ Size(v) \in Nat
           /\ got[w] \o partial[w] = Stretch(v, 0, r)
<1>1. /\ v \in DOMAIN replies /\ r \in 0..Size(v)
      /\ got[w] = Stretch(v, 0, 2 * (r \div 2))
      /\ partial[w] = Stretch(v, 2 * (r \div 2), r)
  BY DEF At
<1>2. Size(v) \in Nat /\ r \in Nat /\ r <= Size(v)
  BY <1>1, SizeOf
<1> DEFINE z == 0
           k == 2 * (r \div 2)
<1>3. z \in Nat /\ k \in Nat /\ z <= k /\ k <= r
  BY <1>2
<1> HIDE DEF z, k
<1>4. Stretch(v, z, k) \o Stretch(v, k, r) = Stretch(v, z, r)
  <2>1. v \in DOMAIN replies /\ r \in Nat /\ r <= Size(v)
    BY <1>1, <1>2, Zenon
  <2> QED BY <1>3, <2>1, StretchJoin
<1> QED BY <1>1, <1>2, <1>4 DEF z, k

\* While the entries are whole replies, the answer to a replayed query is one reply to it,
\* from its start to where the worker is, though the entry is replaced or expires between
\* two chunks (partial_replay_bytes).
THEOREM OneReplyAtATime == ASSUME RegularReplies PROVE Spec => []AnswerIsOneReply
<1>1. ASSUME ReplayInv, PublishesFullResponses, NEW w \in Workers, pc[w] # "panicked"
      PROVE  \/ /\ got[w] \o partial[w] \o rest[w] = <<>>
                /\ pc[w] = "server" \/ asking[w] = NotAsked
             \/ \E v \in DOMAIN replies :
                  /\ replies[v].text = asking[w].text
                  /\ Seqs!IsPrefix(got[w] \o partial[w] \o rest[w], Bytes(v))
                  /\ pc[w] \in {"client", "ended"} => got[w] = Bytes(v)
  <2>1. FlowTypeOK /\ WorkerInv(w)
    BY <1>1 DEF ReplayInv
  <2>2. <<>> \o <<>> \o <<>> = <<>>
    BY ConcatEmptySeq, EmptySeq
  <2>3. CASE answer[w] # 0
    <3>1. At(w, answer[w], read[w]) /\ rest[w] = <<>>
      BY <2>1, <2>3 DEF WorkerInv, Reading
    <3>2. PICK v, r : At(w, v, r)
      BY <3>1
    <3>3. /\ v \in DOMAIN replies /\ r \in 0..Size(v) /\ r \in Nat
          /\ got[w] \o partial[w] = Stretch(v, 0, r)
      BY <2>1, <3>2, AtGot
    <3>4. Seqs!IsPrefix(Stretch(v, 0, r), Bytes(v))
      BY <2>1, <3>3, PrefixOfReply
    <3>5. got[w] \o partial[w] \o rest[w] = got[w] \o partial[w]
      <4>1. got[w] \in Seq(Pieces) /\ partial[w] \in Seq(Pieces)
        BY <2>1 DEF FlowTypeOK
      <4>2. got[w] \o partial[w] \in Seq(Pieces)
        BY <4>1, ConcatProperties
      <4> QED BY <3>1, <4>2, ConcatEmptySeq
    <3>6. replies[v].text = asking[w].text
      BY <3>2 DEF At
    <3>7. pc[w] \in {"client", "ended"} => got[w] = Bytes(v)
      BY <2>1, <3>2, AtTheEnd
    <3> QED BY <3>3, <3>4, <3>5, <3>6, <3>7
  <2>4. CASE answer[w] = 0 /\ (Idle(w) \/ Fresh(w))
    BY <2>2, <2>4 DEF Idle, Fresh
  <2>5. CASE Served(w)
    <3>1. PICK v \in DOMAIN replies :
            \E r \in 0..Size(v) : At(w, v, r) /\ rest[w] = Stretch(v, r, Size(v))
      BY <2>5 DEF Served
    <3>2. PICK r \in 0..Size(v) : At(w, v, r) /\ rest[w] = Stretch(v, r, Size(v))
      BY <3>1
    <3>3. r \in Nat /\ Size(v) \in Nat /\ got[w] \o partial[w] = Stretch(v, 0, r)
      BY <2>1, <3>2, AtGot
    <3>4. got[w] \o partial[w] \o rest[w] = Stretch(v, 0, Size(v))
      <4>1. PICK n, z : n = Size(v) /\ z = 0
        OBVIOUS
      <4>2. z \in Nat /\ n \in Nat /\ z <= r /\ r <= n /\ n <= Size(v)
        BY <3>3, <4>1
      <4>3. Stretch(v, z, r) \o Stretch(v, r, n) = Stretch(v, z, n)
        BY <2>1, <3>3, <4>2, StretchJoin
      <4> QED BY <3>2, <3>3, <4>1, <4>3
    <3>5. Seqs!IsPrefix(Stretch(v, 0, Size(v)), Bytes(v))
      <4>1. Size(v) \in 0..Size(v)
        BY <3>3
      <4> QED BY <2>1, <4>1, PrefixOfReply
    <3>6. replies[v].text = asking[w].text
      BY <3>2 DEF At
    <3>7. pc[w] \in {"client", "ended"} => got[w] = Bytes(v)
      BY <2>1, <3>2, AtTheEnd
    <3> QED BY <3>4, <3>5, <3>6, <3>7
  <2> QED BY <1>1, <2>1, <2>3, <2>4, <2>5 DEF WorkerInv, Replaying
<1>2. ReplayInv => AnswerIsOneReply
  BY <1>1, ReplayAssumption DEF AnswerIsOneReply
<1> QED BY <1>2, Followed, PTL
=============================================================================
