---------------------------- MODULE ResultSetProofs ----------------------------
(***************************************************************************)
(* Lemmas about the accumulator of ResultSet and the replies of MySqlWire  *)
(* that the proofs about sessions and about single replies rest on: what   *)
(* one packet does to the accumulator, and what packets a reply has.       *)
(***************************************************************************)
EXTENDS ResultSet, TLAPS, SequenceTheorems

USE WireAssumption

-----------------------------------------------------------------------------
(* Numbers.                                                                *)

\* A remainder is below the modulus, and a whole quotient away.
LEMMA Remainder ==
    ASSUME NEW m \in Nat \ {0}, NEW x \in Int
    PROVE  x % m \in 0..(m - 1) /\ x = m * (x \div m) + (x % m) /\ x \div m \in Int
OBVIOUS

\* Numbers below the modulus that differ by a multiple of it are one.
LEMMA OneRemainder ==
    ASSUME NEW m \in Nat \ {0}, NEW r \in 0..(m - 1), NEW s \in 0..(m - 1), NEW k \in Int,
           r = s + m * k
    PROVE  r = s
<1>1. CASE k = 0
  BY <1>1
<1>2. CASE k >= 1
  <2>1. m * k >= m
    BY <1>2
  <2> QED BY <2>1
<1>3. CASE k <= -1
  <2>1. m * k <= -m
    BY <1>3
  <2> QED BY <2>1
<1> QED BY <1>1, <1>2, <1>3

\* Subtracting before or after the wrap makes no difference.
LEMMA WrapsAlike ==
    ASSUME NEW m \in Nat \ {0}, NEW x \in Int, NEW d \in Int
    PROVE  ((x % m) - d) % m = (x - d) % m
<1> DEFINE a == x \div m
           y == (x % m) - d
           b == y \div m
           c == (x - d) \div m
           r == y % m
           s == (x - d) % m
<1>1. x = m * a + (x % m) /\ a \in Int /\ x % m \in Int
  BY Remainder
<1>2. y \in Int /\ y = m * b + r /\ b \in Int /\ r \in 0..(m - 1)
  BY <1>1, Remainder
<1>3. x - d = m * c + s /\ c \in Int /\ s \in 0..(m - 1)
  <2> DEFINE z == x - d
  <2>1. z \in Int
    OBVIOUS
  <2> HIDE DEF z
  <2>2. z \div m \in Int /\ z % m \in 0..(m - 1) /\ z = m * (z \div m) + (z % m)
    BY <2>1, Remainder
  <2> QED BY <2>2 DEF z
<1> HIDE DEF a, b, c, r, s
<1>4. r = s + m * ((c - a) - b)
  BY <1>1, <1>2, <1>3
<1>5. r = s
  BY <1>2, <1>3, <1>4, <1>1, OneRemainder, (c - a) - b \in Int
<1> QED BY <1>5 DEF r, s

LEMMA SmallRemainder ==
    ASSUME NEW m \in Nat \ {0}, NEW x \in 0..(m - 1)
    PROVE  x % m = x
<1> DEFINE q == x \div m
           r == x % m
<1>1. x = m * q + r /\ q \in Int /\ r \in 0..(m - 1)
  BY Remainder
<1> HIDE DEF q, r
<1>2. r = x + m * (-q) /\ -q \in Int
  BY <1>1
<1>3. r = x
  BY <1>1, <1>2, OneRemainder
<1> QED BY <1>3 DEF r
-----------------------------------------------------------------------------
(* The accumulator.                                                        *)

Fields == {"state", "columnCount", "columns", "paramCount", "params", "skipped"}

Sane(a) == DOMAIN a = Fields /\ a.state \in AccStates

PacketFields ==
    {"role", "first", "size", "seq", "val", "more", "okLike", "metadata", "type",
     "skip"}

\* The phases a reply leaves the connection in.
ReplyPhases == {"PendingResponse", "Command"}

\* Commands whose reply process_result_set handles.
TextCom(c) == c \notin {"StmtPrepare", "StmtReset", "StmtExecute"}

\* The packet is passed on as it came.
Kept(a, pkt, step) ==
    /\ Sane(step.acc) /\ step.acc.skipped = a.skipped
    /\ step.pkt = pkt /\ step.phase \in ReplyPhases

\* The packet has been to HydrateRows: it is renumbered, and skipped and counted if it is
\* a row and was filtered.
Rowed(a, pkt, filtered, step) ==
    /\ Sane(step.acc) /\ step.phase \in ReplyPhases
    /\ step.pkt.skip \in BOOLEAN /\ (step.pkt.skip => filtered)
    /\ step.pkt.skip => TypeOf(pkt) = "Other" /\ step.phase = "PendingResponse"
    /\ step.acc.skipped = a.skipped + (IF step.pkt.skip THEN 1 ELSE 0)
    /\ step.pkt = [pkt EXCEPT !.seq = (pkt.seq - step.acc.skipped) % SeqMod,
                              !.skip = step.pkt.skip]
    /\ step.phase = "Command" \/ step.acc.state = "HydrateRows"

LEMMA PendingFields ==
    ASSUME NEW a, NEW pkt
    PROVE  /\ Pending(a, pkt).acc = a /\ Pending(a, pkt).pkt = pkt
           /\ Pending(a, pkt).phase = "PendingResponse" /\ ~Pending(a, pkt).panic
BY DEF Pending

LEMMA FinishedFields ==
    ASSUME NEW a, NEW pkt, DOMAIN a = Fields
    PROVE  /\ Finished(a, pkt).pkt = pkt /\ Finished(a, pkt).phase = "Command"
           /\ Sane(Finished(a, pkt).acc) /\ ~Finished(a, pkt).panic
           /\ Finished(a, pkt).acc.skipped = a.skipped
BY DEF Finished, Fields, Sane, AccStates

LEMMA RowsStep ==
    ASSUME NEW a, Sane(a), a.skipped \in Nat, NEW pkt, DOMAIN pkt = PacketFields,
           NEW filtered \in BOOLEAN, ~HydrateRows(a, pkt, filtered).panic
    PROVE  Rowed(a, pkt, filtered, HydrateRows(a, pkt, filtered))
<1> DEFINE isRow   == TypeOf(pkt) = "Other"
           b       == isRow /\ filtered
           skipped == a.skipped + (IF b THEN 1 ELSE 0)
           acc2    == [a EXCEPT !.state = "HydrateRows", !.skipped = skipped]
           pkt2    == [Renumber(pkt, skipped) EXCEPT !.skip = b]
           step    == HydrateRows(a, pkt, filtered)
<1>1. step = Pending(acc2, pkt2) \/ (~isRow /\ step = Finished(acc2, pkt2))
  <2> DEFINE panics == \/ isRow /\ a.columns = 0
                       \/ TypeOf(pkt) = "Eof" /\ ~EofParses(pkt)
                       \/ Underflows(pkt, skipped)
                       \/ TypeOf(pkt) = "Eof" /\ pkt.more
  <2>1. step = IF panics THEN Panic(a, pkt)
               ELSE IF isRow THEN Pending(acc2, pkt2) ELSE Finished(acc2, pkt2)
    BY DEF HydrateRows
  <2>2. Panic(a, pkt).panic /\ ~step.panic
    BY DEF Panic
  <2> HIDE DEF step, acc2, pkt2, isRow, panics
  <2> QED BY <2>1, <2>2
<1>2. b \in BOOLEAN /\ (b => filtered /\ isRow) /\ skipped \in Nat
  OBVIOUS
<1>3. skipped = a.skipped + (IF b THEN 1 ELSE 0)
  OBVIOUS
<1> SUFFICES Rowed(a, pkt, filtered, step)
  OBVIOUS
<1> HIDE DEF b, skipped, step
<1>4. Sane(acc2) /\ acc2.skipped = skipped /\ acc2.state = "HydrateRows"
  BY DEF Sane, Fields, AccStates
<1>5. pkt2 = [pkt EXCEPT !.seq = (pkt.seq - skipped) % SeqMod, !.skip = b] /\ pkt2.skip = b
  <2> DEFINE n == (pkt.seq - skipped) % SeqMod
  <2>1. Renumber(pkt, skipped) = [pkt EXCEPT !.seq = n]
    BY DEF Renumber
  <2> HIDE DEF n
  <2>2. [[pkt EXCEPT !.seq = n] EXCEPT !.skip = b] = [pkt EXCEPT !.seq = n, !.skip = b]
    OBVIOUS
  <2>3. [[pkt EXCEPT !.seq = n] EXCEPT !.skip = b].skip = b
    BY DEF PacketFields
  <2> QED BY <2>1, <2>2, <2>3 DEF n
<1> HIDE DEF acc2, pkt2
<1>6. ASSUME step.pkt = pkt2, step.acc.skipped = skipped
      PROVE  step.pkt = [pkt EXCEPT !.seq = (pkt.seq - step.acc.skipped) % SeqMod,
                                    !.skip = step.pkt.skip]
  <2>1. step.pkt.skip = b
    BY <1>5, <1>6
  <2> QED BY <1>5, <1>6, <2>1, Zenon
<1>7. CASE step = Pending(acc2, pkt2)
  <2>1. /\ step.pkt = pkt2 /\ step.acc = acc2 /\ step.acc.skipped = skipped
        /\ step.phase = "PendingResponse"
    BY <1>4, <1>7, PendingFields
  <2>2. step.pkt.skip = b
    BY <1>5, <2>1
  <2> QED BY <1>2, <1>3, <1>4, <1>6, <2>1, <2>2 DEF Rowed, ReplyPhases
<1>8. CASE ~isRow /\ step = Finished(acc2, pkt2)
  <2>1. /\ step.pkt = pkt2 /\ Sane(step.acc) /\ step.acc.skipped = skipped
        /\ step.phase = "Command"
    BY <1>4, <1>8, FinishedFields DEF Sane
  <2>2. step.pkt.skip = FALSE /\ step.acc.skipped = a.skipped + (IF step.pkt.skip THEN 1 ELSE 0)
    <3>1. step.pkt.skip = b /\ ~b
      BY <1>2, <1>5, <1>8, <2>1
    <3> QED BY <1>2, <1>3, <2>1, <3>1
  <2>3. step.pkt = [pkt EXCEPT !.seq = (pkt.seq - step.acc.skipped) % SeqMod,
                               !.skip = step.pkt.skip]
    BY <1>6, <2>1
  <2> QED BY <2>1, <2>2, <2>3 DEF Rowed, ReplyPhases
<1> QED BY <1>1, <1>7, <1>8
-----------------------------------------------------------------------------
(* What one packet does.                                                   *)

\* The packet was renumbered, or it came when there was nothing to renumber for, or
\* it ends the reply by its type alone.
Accounted(a, pkt, c, filtered, step) ==
    \/ TextCom(c) /\ Rowed(a, pkt, filtered, step)
    \/ Kept(a, pkt, step) /\ a.skipped = 0
    \/ Kept(a, pkt, step) /\ TypeOf(pkt) \in {"Ok", "Error"} /\ step.phase = "Command"

\* A packet handed on with an accumulator that counts as many skipped rows is kept.
LEMMA PlainStep ==
    ASSUME NEW a, NEW pkt, NEW a2, Sane(a2), a2.skipped = a.skipped
    PROVE  Kept(a, pkt, Pending(a2, pkt)) /\ Kept(a, pkt, Finished(a2, pkt))
BY PendingFields, FinishedFields DEF Kept, Sane, ReplyPhases

LEMMA ColumnsHydratedStep ==
    ASSUME NEW a, Sane(a), a.skipped \in Nat, NEW pkt, DOMAIN pkt = PacketFields,
           NEW filtered \in BOOLEAN, ~ColumnsHydrated(a, pkt, filtered).panic
    PROVE  \/ Rowed(a, pkt, filtered, ColumnsHydrated(a, pkt, filtered))
           \/ Kept(a, pkt, ColumnsHydrated(a, pkt, filtered))
<1> DEFINE a2   == [a EXCEPT !.state = "HydrateRows"]
           step == ColumnsHydrated(a, pkt, filtered)
<1>1. step = HydrateRows(a, pkt, filtered) \/ step = Pending(a2, pkt)
  <2>1. step = IF DeprecateEof THEN HydrateRows(a, pkt, filtered)
               ELSE IF TypeOf(pkt) = "Eof" THEN Pending(a2, pkt)
               ELSE Panic(a, pkt)
    BY DEF ColumnsHydrated
  <2>2. Panic(a, pkt).panic /\ ~step.panic
    BY DEF Panic
  <2> HIDE DEF a2, step
  <2> QED BY <2>1, <2>2
<1>2. Sane(a2) /\ a2.skipped = a.skipped
  BY DEF Sane, Fields, AccStates
<1> HIDE DEF a2, step
<1>3. CASE step = HydrateRows(a, pkt, filtered)
  <2>1. ~HydrateRows(a, pkt, filtered).panic
    BY <1>3 DEF step
  <2> QED BY <1>3, <2>1, RowsStep DEF step
<1>4. CASE step = Pending(a2, pkt)
  BY <1>2, <1>4, PlainStep DEF step
<1> QED BY <1>1, <1>3, <1>4

LEMMA HydrateColumnsStep ==
    ASSUME NEW a, Sane(a), a.skipped \in Nat, NEW pkt, DOMAIN pkt = PacketFields,
           NEW c, NEW filtered \in BOOLEAN, ~HydrateColumns(a, pkt, c, filtered).panic
    PROVE  \/ Rowed(a, pkt, filtered, HydrateColumns(a, pkt, c, filtered))
           \/ Kept(a, pkt, HydrateColumns(a, pkt, c, filtered))
<1> DEFINE n    == a.columns + 1
           s    == IF n = a.columnCount THEN "ColumnsHydrated" ELSE "HydrateColumns"
           a2   == [a EXCEPT !.columns = n, !.state = s]
           step == HydrateColumns(a, pkt, c, filtered)
<1>1. step = ColumnsHydrated(a, pkt, filtered) \/ step = Pending(a2, pkt)
  <2>1. step = IF c = "FieldList" /\ TypeOf(pkt) = "Eof" THEN ColumnsHydrated(a, pkt, filtered)
               ELSE IF IsColumn(pkt) THEN Pending(a2, pkt)
               ELSE Panic(a, pkt)
    BY DEF HydrateColumns
  <2>2. Panic(a, pkt).panic /\ ~step.panic
    BY DEF Panic
  <2> HIDE DEF a2, step
  <2> QED BY <2>1, <2>2
<1>2. Sane(a2) /\ a2.skipped = a.skipped
  <2>1. s \in {"ColumnsHydrated", "HydrateColumns"}
    OBVIOUS
  <2> HIDE DEF n, s
  <2> QED BY <2>1 DEF Sane, Fields, AccStates
<1> HIDE DEF a2, step
<1>3. CASE step = ColumnsHydrated(a, pkt, filtered)
  <2>1. ~ColumnsHydrated(a, pkt, filtered).panic
    BY <1>3 DEF step
  <2> QED BY <1>3, <2>1, ColumnsHydratedStep DEF step
<1>4. CASE step = Pending(a2, pkt)
  BY <1>2, <1>4, PlainStep DEF step
<1> QED BY <1>1, <1>3, <1>4

LEMMA ColumnCountStep ==
    ASSUME NEW a, Sane(a), NEW pkt, ~ColumnCount(a, pkt).panic
    PROVE  Kept(a, pkt, ColumnCount(a, pkt))
<1> DEFINE a2 == [a EXCEPT !.columnCount = pkt.val, !.state = "HydrateColumns"]
<1>1. ColumnCount(a, pkt) = Pending(a2, pkt)
  <2>1. Panic(a, pkt).panic
    BY DEF Panic
  <2> QED BY <2>1, ZenonT(30) DEF ColumnCount
<1>2. Sane(a2) /\ a2.skipped = a.skipped
  BY DEF Sane, Fields, AccStates
<1> HIDE DEF a2
<1> QED BY <1>1, <1>2, PlainStep

LEMMA InitiatedStep ==
    ASSUME NEW a, Sane(a), a.skipped \in Nat, NEW pkt, DOMAIN pkt = PacketFields,
           NEW c, NEW filtered \in BOOLEAN, ~Initiated(a, pkt, c, filtered).panic
    PROVE  \/ Rowed(a, pkt, filtered, Initiated(a, pkt, c, filtered))
           \/ Kept(a, pkt, Initiated(a, pkt, c, filtered))
<1> DEFINE step == Initiated(a, pkt, c, filtered)
<1>1. \/ step = ColumnCount(a, pkt)
      \/ step = HydrateColumns(a, pkt, c, filtered)
      \/ step = Finished(a, pkt)
  <2>1. step = CASE c = "Query"     -> (IF OptionalMetadata THEN Panic(a, pkt) ELSE ColumnCount(a, pkt))
                 [] c = "FieldList" -> HydrateColumns(a, pkt, c, filtered)
                 [] OTHER           -> Finished(a, pkt)
    BY DEF Initiated
  <2>2. Panic(a, pkt).panic /\ ~step.panic
    BY DEF Panic
  <2> HIDE DEF step
  <2> QED BY <2>1, <2>2
<1> HIDE DEF step
<1>2. CASE step = ColumnCount(a, pkt)
  <2>1. ~ColumnCount(a, pkt).panic
    BY <1>2 DEF step
  <2> QED BY <1>2, <2>1, ColumnCountStep DEF step
<1>3. CASE step = HydrateColumns(a, pkt, c, filtered)
  <2>1. ~HydrateColumns(a, pkt, c, filtered).panic
    BY <1>3 DEF step
  <2> QED BY <1>3, <2>1, HydrateColumnsStep DEF step
<1>4. CASE step = Finished(a, pkt)
  BY <1>4, PlainStep DEF step
<1> QED BY <1>1, <1>2, <1>3, <1>4

LEMMA TextStep ==
    ASSUME NEW a, Sane(a), a.skipped \in Nat, NEW pkt, DOMAIN pkt = PacketFields,
           NEW c, NEW filtered \in BOOLEAN, ~TextResultSet(a, pkt, c, filtered).panic,
           a.skipped > 0 => a.state = "HydrateRows"
    PROVE  \/ Rowed(a, pkt, filtered, TextResultSet(a, pkt, c, filtered))
           \/ Kept(a, pkt, TextResultSet(a, pkt, c, filtered)) /\ a.skipped = 0
<1> DEFINE step == TextResultSet(a, pkt, c, filtered)
<1>1. \/ a.state = "HydrateRows" /\ step = HydrateRows(a, pkt, filtered)
      \/ a.state = "Initiated" /\ step = Initiated(a, pkt, c, filtered)
      \/ a.state = "ColumnCount" /\ step = ColumnCount(a, pkt)
      \/ a.state = "HydrateColumns" /\ step = HydrateColumns(a, pkt, c, filtered)
      \/ a.state = "ColumnsHydrated" /\ step = ColumnsHydrated(a, pkt, filtered)
      \/ a.state = "Complete" /\ step = Finished(a, pkt)
  <2>1. step = CASE a.state = "Initiated"       -> Initiated(a, pkt, c, filtered)
                 [] a.state = "ColumnCount"     -> ColumnCount(a, pkt)
                 [] a.state = "HydrateColumns"  -> HydrateColumns(a, pkt, c, filtered)
                 [] a.state = "ColumnsHydrated" -> ColumnsHydrated(a, pkt, filtered)
                 [] a.state = "HydrateRows"     -> HydrateRows(a, pkt, filtered)
                 [] a.state = "Complete"        -> Finished(a, pkt)
                 [] OTHER                       -> Panic(a, pkt)
    BY DEF TextResultSet
  <2>2. Panic(a, pkt).panic /\ ~step.panic
    BY DEF Panic
  <2> HIDE DEF step
  <2> QED BY <2>1, <2>2
<1> HIDE DEF step
<1>2. CASE a.state = "HydrateRows" /\ step = HydrateRows(a, pkt, filtered)
  <2>1. ~HydrateRows(a, pkt, filtered).panic
    BY <1>2 DEF step
  <2> QED BY <1>2, <2>1, RowsStep DEF step
<1>3. CASE a.state # "HydrateRows" /\ (Rowed(a, pkt, filtered, step) \/ Kept(a, pkt, step))
  <2>1. a.skipped = 0
    BY <1>3
  <2> QED BY <1>3, <2>1 DEF step
<1>4. CASE a.state = "Initiated" /\ step = Initiated(a, pkt, c, filtered)
  <2>1. ~Initiated(a, pkt, c, filtered).panic
    BY <1>4 DEF step
  <2> QED BY <1>3, <1>4, <2>1, InitiatedStep
<1>5. CASE a.state = "ColumnCount" /\ step = ColumnCount(a, pkt)
  <2>1. ~ColumnCount(a, pkt).panic
    BY <1>5 DEF step
  <2> QED BY <1>3, <1>5, <2>1, ColumnCountStep
<1>6. CASE a.state = "HydrateColumns" /\ step = HydrateColumns(a, pkt, c, filtered)
  <2>1. ~HydrateColumns(a, pkt, c, filtered).panic
    BY <1>6 DEF step
  <2> QED BY <1>3, <1>6, <2>1, HydrateColumnsStep
<1>7. CASE a.state = "ColumnsHydrated" /\ step = ColumnsHydrated(a, pkt, filtered)
  <2>1. ~ColumnsHydrated(a, pkt, filtered).panic
    BY <1>7 DEF step
  <2> QED BY <1>3, <1>7, <2>1, ColumnsHydratedStep
<1>8. CASE a.state = "Complete" /\ step = Finished(a, pkt)
  BY <1>3, <1>8, PlainStep
<1> QED BY <1>1, <1>2, <1>4, <1>5, <1>6, <1>7, <1>8

LEMMA PreparedStep ==
    ASSUME NEW a, Sane(a), NEW pkt, ~StmtPrepare(a, pkt).panic
    PROVE  Kept(a, pkt, StmtPrepare(a, pkt))
<1> DEFINE step == StmtPrepare(a, pkt)
           Plain(s) == \E a2 : /\ Sane(a2) /\ a2.skipped = a.skipped
                               /\ s = Pending(a2, pkt) \/ s = Finished(a2, pkt)
<1>1. Panic(a, pkt).panic
  BY DEF Panic
<1>2. ASSUME ~PreparedParam(a, pkt).panic
      PROVE  Plain(PreparedParam(a, pkt))
  <2> DEFINE n  == a.params + 1
             b  == [a EXCEPT !.params = n]
             b1 == [b EXCEPT !.state = "HydrateParams"]
             b2 == [b EXCEPT !.state = "HydrateColumns"]
             s  == PreparedParam(a, pkt)
  <2>1. s = IF ~IsColumn(pkt) THEN Panic(a, pkt)
            ELSE IF n < a.paramCount THEN Pending(b1, pkt)
            ELSE IF a.columnCount > 0 THEN Pending(b2, pkt)
            ELSE Finished(b, pkt)
    BY DEF PreparedParam
  <2>2. /\ Sane(b) /\ b.skipped = a.skipped
        /\ Sane(b1) /\ b1.skipped = a.skipped
        /\ Sane(b2) /\ b2.skipped = a.skipped
    <3> HIDE DEF n
    <3> QED BY DEF Sane, Fields, AccStates
  <2>3. ~s.panic
    BY <1>2
  <2> HIDE DEF n, b, b1, b2, s
  <2>4. s = Pending(b1, pkt) \/ s = Pending(b2, pkt) \/ s = Finished(b, pkt)
    BY <1>1, <2>1, <2>3
  <2>5. Plain(s)
    BY <2>2, <2>4
  <2> QED BY <2>5 DEF s
<1>3. ASSUME ~PreparedColumn(a, pkt).panic
      PROVE  Plain(PreparedColumn(a, pkt))
  <2> DEFINE n == a.columns + 1
             b == [a EXCEPT !.columns = n, !.state = "HydrateColumns"]
             s == PreparedColumn(a, pkt)
  <2>1. s = IF ~IsColumn(pkt) THEN Panic(a, pkt)
            ELSE IF n = a.columnCount THEN Finished(b, pkt)
            ELSE Pending(b, pkt)
    BY DEF PreparedColumn
  <2>2. Sane(b) /\ b.skipped = a.skipped
    <3> HIDE DEF n
    <3> QED BY DEF Sane, Fields, AccStates
  <2>3. ~s.panic
    BY <1>3
  <2> HIDE DEF n, b, s
  <2>4. s = Pending(b, pkt) \/ s = Finished(b, pkt)
    BY <1>1, <2>1, <2>3
  <2>5. Plain(s)
    BY <2>2, <2>4
  <2> QED BY <2>5 DEF s
<1>4. Plain(step)
  <2> DEFINE b  == [a EXCEPT !.paramCount = pkt.val[1], !.columnCount = pkt.val[2]]
             b2 == [b EXCEPT !.state = "MetaExchange"]
             first == IF pkt.first # 0
                      THEN Panic(a, pkt)
                      ELSE IF OptionalMetadata /\ ~MetadataFollows(pkt)
                      THEN Finished(b, pkt)
                      ELSE Pending(b2, pkt)
             meta  == IF a.paramCount > 0 THEN PreparedParam(a, pkt) ELSE Panic(a, pkt)
  <2>1. step = CASE a.state = "Initiated"      -> first
                 [] a.state = "MetaExchange"   -> meta
                 [] a.state = "HydrateParams"  -> PreparedParam(a, pkt)
                 [] a.state = "HydrateColumns" -> PreparedColumn(a, pkt)
                 [] a.state = "Complete"       -> Finished(a, pkt)
                 [] OTHER                      -> Panic(a, pkt)
    BY DEF StmtPrepare
  <2>2. /\ Sane(b) /\ b.skipped = a.skipped
        /\ Sane(b2) /\ b2.skipped = a.skipped
    BY DEF Sane, Fields, AccStates
  <2>3. ~step.panic
    OBVIOUS
  <2> HIDE DEF b, b2, step
  <2>4. \/ step = first \/ step = meta \/ step = PreparedParam(a, pkt)
        \/ step = PreparedColumn(a, pkt) \/ step = Finished(a, pkt)
    <3> HIDE DEF first, meta
    <3> QED BY <1>1, <2>1, <2>3
  <2>5. \/ step = Finished(b, pkt) \/ step = Pending(b2, pkt) \/ step = PreparedParam(a, pkt)
        \/ step = PreparedColumn(a, pkt) \/ step = Finished(a, pkt)
    BY <1>1, <2>3, <2>4
  <2> HIDE DEF first, meta, Plain
  <2>6. CASE step = PreparedParam(a, pkt)
    BY <1>2, <2>3, <2>6
  <2>7. CASE step = PreparedColumn(a, pkt)
    BY <1>3, <2>3, <2>7
  <2>8. CASE step = Finished(b, pkt) \/ step = Pending(b2, pkt) \/ step = Finished(a, pkt)
    BY <2>2, <2>8 DEF Plain
  <2> QED BY <2>5, <2>6, <2>7, <2>8
<1> HIDE DEF step
<1>5. Kept(a, pkt, step)
  BY <1>4, PlainStep
<1> QED BY <1>5 DEF step

LEMMA ConsumeStep ==
    ASSUME NEW a, Sane(a), a.skipped \in Nat, NEW pkt, DOMAIN pkt = PacketFields,
           NEW c, NEW filtered \in BOOLEAN, ~Consume(a, pkt, c, filtered).panic,
           a.skipped > 0 => TextCom(c) /\ a.state = "HydrateRows"
    PROVE  Accounted(a, pkt, c, filtered, Consume(a, pkt, c, filtered))
<1> DEFINE ends == TypeOf(pkt) \in {"Ok", "Error"}
           fin  == [a EXCEPT !.state = "Complete"]
           a2   == IF ends THEN fin ELSE a
           kept == [Finished(a, pkt) EXCEPT !.acc = a]
           step == Consume(a, pkt, c, filtered)
<1>1. step = CASE c = "StmtPrepare" -> StmtPrepare(a, pkt)
               [] c = "StmtReset"   -> kept
               [] OTHER ->
                    (IF TypeOf(pkt) = "Ok" /\ ~OkParses(pkt) THEN Panic(a, pkt)
                     ELSE IF c = "StmtExecute" THEN BinaryResultSet(a2, pkt)
                     ELSE TextResultSet(a2, pkt, c, filtered))
  BY DEF Consume
<1>2. Panic(a, pkt).panic /\ ~step.panic
  BY DEF Panic
<1>3. /\ Sane(fin) /\ fin.skipped = a.skipped /\ fin.state = "Complete"
      /\ Sane(a2) /\ a2.skipped = a.skipped
  BY DEF Sane, Fields, AccStates
<1>4. Kept(a, pkt, kept)
  BY DEF Kept, Finished, Sane, ReplyPhases
<1>5. ASSUME Kept(a, pkt, step), ~TextCom(c)
      PROVE  Accounted(a, pkt, c, filtered, step)
  BY <1>5 DEF Accounted
<1> SUFFICES Accounted(a, pkt, c, filtered, step)
  OBVIOUS
<1> HIDE DEF step, kept, fin, ends
<1>6. \/ c = "StmtPrepare" /\ step = StmtPrepare(a, pkt)
      \/ c = "StmtReset" /\ step = kept
      \/ c = "StmtExecute" /\ step = BinaryResultSet(a2, pkt)
      \/ TextCom(c) /\ step = TextResultSet(a2, pkt, c, filtered)
  <2> HIDE DEF a2
  <2>1. \/ c = "StmtPrepare" /\ step = StmtPrepare(a, pkt)
        \/ c = "StmtReset" /\ step = kept
        \/ c = "StmtExecute" /\ step = BinaryResultSet(a2, pkt)
        \/ /\ c # "StmtPrepare" /\ c # "StmtReset" /\ c # "StmtExecute"
           /\ step = TextResultSet(a2, pkt, c, filtered)
    BY <1>1, <1>2
  <2> QED BY <2>1 DEF TextCom
<1>7. CASE c = "StmtPrepare" /\ step = StmtPrepare(a, pkt)
  BY <1>2, <1>5, <1>7, PreparedStep DEF TextCom
<1>8. CASE c = "StmtReset" /\ step = kept
  BY <1>4, <1>5, <1>8 DEF TextCom
<1>9. CASE c = "StmtExecute" /\ step = BinaryResultSet(a2, pkt)
  <2> DEFINE k2 == [Finished(a2, pkt) EXCEPT !.acc = a2]
  <2>1. step = k2 \/ step = Pending(a2, pkt)
    <3> HIDE DEF a2
    <3> QED BY <1>9 DEF BinaryResultSet
  <2>2. Kept(a, pkt, k2)
    <3> HIDE DEF a2
    <3> QED BY <1>3 DEF Kept, Finished, Sane, ReplyPhases
  <2>3. Kept(a, pkt, Pending(a2, pkt))
    <3> HIDE DEF a2
    <3> QED BY <1>3, PlainStep
  <2> QED BY <1>5, <1>9, <2>1, <2>2, <2>3 DEF TextCom
<1>10. CASE TextCom(c) /\ step = TextResultSet(a2, pkt, c, filtered) /\ ends
  <2>1. a2 = fin
    BY <1>10
  <2>2. step = Finished(fin, pkt)
    BY <1>3, <1>10, <2>1, ZenonT(30) DEF TextResultSet
  <2>3. Kept(a, pkt, step) /\ step.phase = "Command"
    BY <1>3, <2>2, PlainStep, FinishedFields DEF Sane
  <2> QED BY <1>10, <2>3 DEF Accounted, ends
<1>11. CASE TextCom(c) /\ step = TextResultSet(a2, pkt, c, filtered) /\ ~ends
  <2>1. step = TextResultSet(a, pkt, c, filtered)
    BY <1>11
  <2>2. Rowed(a, pkt, filtered, step) \/ (Kept(a, pkt, step) /\ a.skipped = 0)
    BY <1>2, <2>1, TextStep
  <2> QED BY <1>11, <2>2 DEF Accounted
<1> QED BY <1>6, <1>7, <1>8, <1>9, <1>10, <1>11

LEMMA AccountedPacket ==
    ASSUME NEW a, a.skipped \in Nat, NEW pkt \in Packets, ~pkt.skip, NEW c,
           NEW filtered \in BOOLEAN, NEW step, Accounted(a, pkt, c, filtered, step)
    PROVE  /\ step.pkt \in Packets /\ step.pkt.role = pkt.role
           /\ Sane(step.acc) /\ step.phase \in ReplyPhases
           /\ step.acc.skipped = a.skipped + (IF step.pkt.skip THEN 1 ELSE 0)
           /\ step.pkt.skip => filtered
<1>1. CASE Kept(a, pkt, step)
  BY <1>1 DEF Kept
<1>2. CASE Rowed(a, pkt, filtered, step)
  <2> DEFINE s == (pkt.seq - step.acc.skipped) % SeqMod
             k == step.pkt.skip
  <2>1. s \in Int
    <3>1. pkt.seq - step.acc.skipped \in Int
      BY <1>2 DEF Rowed, Packets
    <3> QED BY <3>1, Remainder
  <2>2. k \in BOOLEAN /\ step.pkt = [pkt EXCEPT !.seq = s, !.skip = k]
    BY <1>2 DEF Rowed
  <2> HIDE DEF s, k
  <2>3. step.pkt \in Packets /\ step.pkt.role = pkt.role
    BY <2>1, <2>2 DEF Packets
  <2> QED BY <1>2, <2>3 DEF Rowed
<1> QED BY <1>1, <1>2 DEF Accounted
-----------------------------------------------------------------------------
(* Text result sets: a packet of no special type ends nothing.             *)

\* More packets are to come, and the accumulator knows.
Open(step) == step.phase = "PendingResponse" /\ step.acc.state # "Complete"

TextRow(pkt) == TypeOf(pkt) = "Other"

LEMMA PendingOpen ==
    ASSUME NEW a, NEW pkt, a.state # "Complete"
    PROVE  Open(Pending(a, pkt))
BY DEF Open, Pending

LEMMA RowsOpen ==
    ASSUME NEW a, DOMAIN a = Fields, NEW pkt, TextRow(pkt), NEW filtered,
           ~HydrateRows(a, pkt, filtered).panic
    PROVE  Open(HydrateRows(a, pkt, filtered))
<1> DEFINE isRow   == TypeOf(pkt) = "Other"
           skipped == a.skipped + (IF isRow /\ filtered THEN 1 ELSE 0)
           acc2    == [a EXCEPT !.state = "HydrateRows", !.skipped = skipped]
           pkt2    == [Renumber(pkt, skipped) EXCEPT !.skip = isRow /\ filtered]
           step    == HydrateRows(a, pkt, filtered)
           panics  == \/ isRow /\ a.columns = 0
                      \/ TypeOf(pkt) = "Eof" /\ ~EofParses(pkt)
                      \/ Underflows(pkt, skipped)
                      \/ TypeOf(pkt) = "Eof" /\ pkt.more
<1>1. step = IF panics THEN Panic(a, pkt)
             ELSE IF isRow THEN Pending(acc2, pkt2) ELSE Finished(acc2, pkt2)
  BY DEF HydrateRows
<1>2. Panic(a, pkt).panic /\ ~step.panic /\ isRow
  BY DEF Panic, TextRow
<1>3. acc2.state # "Complete"
  <2> HIDE DEF skipped
  <2> QED BY DEF Fields
<1> HIDE DEF step, acc2, pkt2, isRow, panics
<1>4. step = Pending(acc2, pkt2)
  BY <1>1, <1>2
<1>5. Open(step)
  BY <1>3, <1>4, PendingOpen
<1> QED BY <1>5 DEF step

LEMMA ColumnsHydratedOpen ==
    ASSUME DeprecateEof, NEW a, DOMAIN a = Fields, NEW pkt, TextRow(pkt), NEW filtered,
           ~ColumnsHydrated(a, pkt, filtered).panic
    PROVE  Open(ColumnsHydrated(a, pkt, filtered))
<1>1. ColumnsHydrated(a, pkt, filtered) = HydrateRows(a, pkt, filtered)
  BY DEF ColumnsHydrated
<1> QED BY <1>1, RowsOpen

LEMMA HydrateColumnsOpen ==
    ASSUME NEW a, DOMAIN a = Fields, NEW pkt, TextRow(pkt), NEW c, NEW filtered,
           ~HydrateColumns(a, pkt, c, filtered).panic
    PROVE  Open(HydrateColumns(a, pkt, c, filtered))
<1> DEFINE n    == a.columns + 1
           s    == IF n = a.columnCount THEN "ColumnsHydrated" ELSE "HydrateColumns"
           a2   == [a EXCEPT !.columns = n, !.state = s]
           step == HydrateColumns(a, pkt, c, filtered)
           isEnd == c = "FieldList" /\ TypeOf(pkt) = "Eof"
<1>1. step = IF isEnd THEN ColumnsHydrated(a, pkt, filtered)
             ELSE IF IsColumn(pkt) THEN Pending(a2, pkt)
             ELSE Panic(a, pkt)
  BY DEF HydrateColumns
<1>2. Panic(a, pkt).panic /\ ~step.panic /\ ~isEnd
  BY DEF Panic, TextRow
<1>3. a2.state # "Complete"
  <2>1. s # "Complete"
    OBVIOUS
  <2> HIDE DEF n, s
  <2> QED BY <2>1 DEF Fields
<1> HIDE DEF step, a2, isEnd
<1>4. step = Pending(a2, pkt)
  BY <1>1, <1>2
<1>5. Open(step)
  BY <1>3, <1>4, PendingOpen
<1> QED BY <1>5 DEF step

LEMMA ColumnCountOpen ==
    ASSUME NEW a, DOMAIN a = Fields, NEW pkt, ~ColumnCount(a, pkt).panic
    PROVE  Open(ColumnCount(a, pkt))
<1> DEFINE a2 == [a EXCEPT !.columnCount = pkt.val, !.state = "HydrateColumns"]
<1>1. ColumnCount(a, pkt) = Pending(a2, pkt)
  <2>1. Panic(a, pkt).panic
    BY DEF Panic
  <2> QED BY <2>1, ZenonT(30) DEF ColumnCount
<1>2. a2.state # "Complete"
  BY DEF Fields
<1> HIDE DEF a2
<1> QED BY <1>1, <1>2, PendingOpen

LEMMA TextOpen ==
    ASSUME DeprecateEof, NEW a, DOMAIN a = Fields, a.state # "Complete",
           NEW pkt, TextRow(pkt), NEW c \in {"Query", "FieldList"}, NEW filtered,
           ~TextResultSet(a, pkt, c, filtered).panic
    PROVE  Open(TextResultSet(a, pkt, c, filtered))
<1> DEFINE step == TextResultSet(a, pkt, c, filtered)
           init == Initiated(a, pkt, c, filtered)
<1>0. Panic(a, pkt).panic /\ ~step.panic
  BY DEF Panic
<1>1. step = CASE a.state = "Initiated"       -> init
               [] a.state = "ColumnCount"     -> ColumnCount(a, pkt)
               [] a.state = "HydrateColumns"  -> HydrateColumns(a, pkt, c, filtered)
               [] a.state = "ColumnsHydrated" -> ColumnsHydrated(a, pkt, filtered)
               [] a.state = "HydrateRows"     -> HydrateRows(a, pkt, filtered)
               [] a.state = "Complete"        -> Finished(a, pkt)
               [] OTHER                       -> Panic(a, pkt)
  BY DEF TextResultSet
<1>2. init = CASE c = "Query"     -> (IF OptionalMetadata THEN Panic(a, pkt) ELSE ColumnCount(a, pkt))
               [] c = "FieldList" -> HydrateColumns(a, pkt, c, filtered)
               [] OTHER           -> Finished(a, pkt)
  BY DEF Initiated
<1> HIDE DEF step, init
<1>3. \/ init = Panic(a, pkt)
      \/ init = ColumnCount(a, pkt)
      \/ init = HydrateColumns(a, pkt, c, filtered)
  <2>1. c = "Query" \/ c = "FieldList"
    OBVIOUS
  <2> QED BY <1>2, <2>1
<1>4. \/ step = init
      \/ step = ColumnCount(a, pkt)
      \/ step = HydrateColumns(a, pkt, c, filtered)
      \/ step = ColumnsHydrated(a, pkt, filtered)
      \/ step = HydrateRows(a, pkt, filtered)
  BY <1>0, <1>1
<1>5. \/ step = ColumnCount(a, pkt)
      \/ step = HydrateColumns(a, pkt, c, filtered)
      \/ step = ColumnsHydrated(a, pkt, filtered)
      \/ step = HydrateRows(a, pkt, filtered)
  BY <1>0, <1>3, <1>4
<1>6. Open(step)
  BY <1>0, <1>5, ColumnCountOpen, HydrateColumnsOpen, ColumnsHydratedOpen, RowsOpen
<1> QED BY <1>6 DEF step

LEMMA ConsumeOpen ==
    ASSUME DeprecateEof, NEW a, DOMAIN a = Fields, a.state # "Complete",
           NEW pkt, TextRow(pkt), NEW c \in {"Query", "FieldList"}, NEW filtered,
           ~Consume(a, pkt, c, filtered).panic
    PROVE  Open(Consume(a, pkt, c, filtered))
<1> DEFINE ends == TypeOf(pkt) \in {"Ok", "Error"}
           fin  == [a EXCEPT !.state = "Complete"]
           a2   == IF ends THEN fin ELSE a
           kept == [Finished(a, pkt) EXCEPT !.acc = a]
           step == Consume(a, pkt, c, filtered)
<1>1. step = CASE c = "StmtPrepare" -> StmtPrepare(a, pkt)
               [] c = "StmtReset"   -> kept
               [] OTHER ->
                    (IF TypeOf(pkt) = "Ok" /\ ~OkParses(pkt) THEN Panic(a, pkt)
                     ELSE IF c = "StmtExecute" THEN BinaryResultSet(a2, pkt)
                     ELSE TextResultSet(a2, pkt, c, filtered))
  BY DEF Consume
<1>2. /\ c # "StmtPrepare" /\ c # "StmtReset" /\ c # "StmtExecute"
      /\ TypeOf(pkt) # "Ok" /\ a2 = a
  BY DEF TextRow
<1> HIDE DEF step, kept, a2
<1>3. step = TextResultSet(a, pkt, c, filtered)
  BY <1>1, <1>2
<1>4. ~step.panic
  BY DEF step
<1>5. Open(step)
  BY <1>3, <1>4, TextOpen
<1> QED BY <1>5 DEF step
\* The accumulators a count and a column leave.
Counting(a, pkt) == [a EXCEPT !.columnCount = pkt.val, !.state = "HydrateColumns"]

OneColumnMore(a) ==
    [a EXCEPT !.columns = a.columns + 1,
              !.state = IF a.columns + 1 = a.columnCount
                        THEN "ColumnsHydrated" ELSE "HydrateColumns"]

\* What a packet does that leaves a text reply open: it is the count, a column, or a row.
Continues(a, pkt, c, filtered, step) ==
    /\ TypeOf(pkt) \notin {"Ok", "Error"}
    /\ \/ /\ \/ c = "Query" /\ a.state = "Initiated"
             \/ a.state = "ColumnCount"
          /\ step = Pending(Counting(a, pkt), pkt) /\ TypeOf(pkt) # "Eof"
       \/ /\ \/ c = "FieldList" /\ a.state = "Initiated"
             \/ a.state = "HydrateColumns"
          /\ step = Pending(OneColumnMore(a), pkt) /\ IsColumn(pkt)
       \/ /\ \/ a.state \in {"ColumnsHydrated", "HydrateRows"}
             \/ c = "FieldList" /\ TypeOf(pkt) = "Eof"
          /\ step = HydrateRows(a, pkt, filtered)

LEMMA StaysOpen ==
    ASSUME DeprecateEof, NEW a, Sane(a), NEW pkt, NEW c, TextCom(c), NEW filtered,
           ~Consume(a, pkt, c, filtered).panic,
           Consume(a, pkt, c, filtered).phase = "PendingResponse"
    PROVE  Continues(a, pkt, c, filtered, Consume(a, pkt, c, filtered))
<1> DEFINE ends == TypeOf(pkt) \in {"Ok", "Error"}
           fin  == [a EXCEPT !.state = "Complete"]
           a2   == IF ends THEN fin ELSE a
           kept == [Finished(a, pkt) EXCEPT !.acc = a]
           bin  == BinaryResultSet(a2, pkt)
           text == TextResultSet(a2, pkt, c, filtered)
           step == Consume(a, pkt, c, filtered)
<1>1. step = CASE c = "StmtPrepare" -> StmtPrepare(a, pkt)
               [] c = "StmtReset"   -> kept
               [] OTHER ->
                    (IF TypeOf(pkt) = "Ok" /\ ~OkParses(pkt) THEN Panic(a, pkt)
                     ELSE IF c = "StmtExecute" THEN bin
                     ELSE text)
  BY DEF Consume
<1>2. Panic(a, pkt).panic /\ ~step.panic
  BY DEF Panic
<1>3. step.phase = "PendingResponse"
  OBVIOUS
<1>4. step = text
  <2> HIDE DEF step, kept, text, bin
  <2> QED BY <1>1, <1>2 DEF TextCom
<1>5. \A b : Finished(b, pkt).phase # step.phase
  BY <1>3 DEF Finished
<1>6. ~ends
  <2> SUFFICES ASSUME ends PROVE FALSE
    OBVIOUS
  <2>1. fin.state = "Complete"
    BY DEF Sane, Fields
  <2>2. text = TextResultSet(fin, pkt, c, filtered)
    OBVIOUS
  <2>3. TextResultSet(fin, pkt, c, filtered) = Finished(fin, pkt)
    BY <2>1, ZenonT(30) DEF TextResultSet
  <2> HIDE DEF step, text, fin
  <2> QED BY <1>4, <1>5, <2>2, <2>3
<1>7. step = TextResultSet(a, pkt, c, filtered)
  <2>1. a2 = a
    BY <1>6
  <2> QED BY <1>4, <2>1
<1> DEFINE init == Initiated(a, pkt, c, filtered)
           cnt  == ColumnCount(a, pkt)
           cols == HydrateColumns(a, pkt, c, filtered)
           ready == ColumnsHydrated(a, pkt, filtered)
           rows == HydrateRows(a, pkt, filtered)
<1>8. step = CASE a.state = "Initiated"       -> init
               [] a.state = "ColumnCount"     -> cnt
               [] a.state = "HydrateColumns"  -> cols
               [] a.state = "ColumnsHydrated" -> ready
               [] a.state = "HydrateRows"     -> rows
               [] a.state = "Complete"        -> Finished(a, pkt)
               [] OTHER                       -> Panic(a, pkt)
  BY <1>7 DEF TextResultSet
<1>9. init = CASE c = "Query"     -> (IF OptionalMetadata THEN Panic(a, pkt) ELSE cnt)
               [] c = "FieldList" -> cols
               [] OTHER           -> Finished(a, pkt)
  BY DEF Initiated
<1>10. cnt = IF TypeOf(pkt) = "Eof" THEN Panic(a, pkt) ELSE Pending(Counting(a, pkt), pkt)
  BY DEF ColumnCount, Counting
<1>11. cols = IF c = "FieldList" /\ TypeOf(pkt) = "Eof" THEN ready
              ELSE IF IsColumn(pkt) THEN Pending(OneColumnMore(a), pkt)
              ELSE Panic(a, pkt)
  BY DEF HydrateColumns, OneColumnMore
<1>12. ready = rows
  BY DEF ColumnsHydrated
<1>13. step # Finished(a, pkt) /\ step # Panic(a, pkt)
  <2> HIDE DEF step
  <2> QED BY <1>2, <1>5
<1> HIDE DEF step, init, cnt, cols, ready, rows
<1>14. \/ a.state = "Initiated" /\ step = init
       \/ a.state = "ColumnCount" /\ step = cnt
       \/ a.state = "HydrateColumns" /\ step = cols
       \/ a.state \in {"ColumnsHydrated", "HydrateRows"} /\ step = rows
  BY <1>8, <1>12, <1>13
<1>15. a.state = "Initiated" /\ step = init =>
         \/ c = "Query" /\ step = cnt
         \/ c = "FieldList" /\ step = cols
  BY <1>9, <1>13
<1>16. step = cnt => step = Pending(Counting(a, pkt), pkt) /\ TypeOf(pkt) # "Eof"
  BY <1>10, <1>13
<1>17. step = cols =>
         \/ c = "FieldList" /\ TypeOf(pkt) = "Eof" /\ step = rows
         \/ step = Pending(OneColumnMore(a), pkt) /\ IsColumn(pkt)
  BY <1>11, <1>12, <1>13
<1>18. \/ /\ \/ c = "Query" /\ a.state = "Initiated"
             \/ a.state = "ColumnCount"
          /\ step = Pending(Counting(a, pkt), pkt) /\ TypeOf(pkt) # "Eof"
       \/ /\ \/ c = "FieldList" /\ a.state = "Initiated"
             \/ a.state = "HydrateColumns"
          /\ step = Pending(OneColumnMore(a), pkt) /\ IsColumn(pkt)
       \/ /\ \/ a.state \in {"ColumnsHydrated", "HydrateRows"}
             \/ c = "FieldList" /\ TypeOf(pkt) = "Eof"
          /\ step = rows
  BY <1>14, <1>15, <1>16, <1>17
<1>19. Continues(a, pkt, c, filtered, step)
  BY <1>6, <1>18 DEF rows, Continues
<1> QED BY <1>19 DEF step

\* A row that is kept or skipped, and nothing else, leaves the rows open.
LEMMA OpenRow ==
    ASSUME NEW a, Sane(a), NEW pkt, DOMAIN pkt = PacketFields, NEW filtered \in BOOLEAN,
           ~HydrateRows(a, pkt, filtered).panic
    PROVE  /\ HydrateRows(a, pkt, filtered).phase = "PendingResponse" <=> TypeOf(pkt) = "Other"
           /\ HydrateRows(a, pkt, filtered).pkt.skip => TypeOf(pkt) = "Other"
           /\ TypeOf(pkt) = "Other" => HydrateRows(a, pkt, filtered).acc.state = "HydrateRows"
<1> DEFINE isRow   == TypeOf(pkt) = "Other"
           b       == isRow /\ filtered
           skipped == a.skipped + (IF b THEN 1 ELSE 0)
           acc2    == [a EXCEPT !.state = "HydrateRows", !.skipped = skipped]
           n       == (pkt.seq - skipped) % SeqMod
           pkt2    == [[pkt EXCEPT !.seq = n] EXCEPT !.skip = b]
           step    == HydrateRows(a, pkt, filtered)
           panics  == \/ isRow /\ a.columns = 0
                      \/ TypeOf(pkt) = "Eof" /\ ~EofParses(pkt)
                      \/ Underflows(pkt, skipped)
                      \/ TypeOf(pkt) = "Eof" /\ pkt.more
<1>1. step = IF panics THEN Panic(a, pkt)
             ELSE IF isRow THEN Pending(acc2, pkt2) ELSE Finished(acc2, pkt2)
  BY DEF HydrateRows, Renumber
<1>2. Panic(a, pkt).panic /\ ~step.panic
  BY DEF Panic
<1>3. acc2.state = "HydrateRows"
  <2> HIDE DEF skipped
  <2> QED BY DEF Sane, Fields
<1>4. pkt2.skip = b
  <2> HIDE DEF n, b
  <2> QED BY DEF PacketFields
<1>5. b => isRow
  OBVIOUS
<1>6. /\ Pending(acc2, pkt2).phase = "PendingResponse"
      /\ Pending(acc2, pkt2).acc = acc2 /\ Pending(acc2, pkt2).pkt = pkt2
  <2> HIDE DEF acc2, pkt2
  <2> QED BY DEF Pending
<1>7. Finished(acc2, pkt2).phase = "Command" /\ Finished(acc2, pkt2).pkt = pkt2
  <2> HIDE DEF acc2, pkt2
  <2> QED BY DEF Finished
<1>8. "Command" # "PendingResponse"
  OBVIOUS
<1> SUFFICES /\ step.phase = "PendingResponse" <=> isRow
             /\ step.pkt.skip => isRow
             /\ isRow => step.acc.state = "HydrateRows"
  OBVIOUS
<1> HIDE DEF step, acc2, pkt2, isRow, panics, b
<1> QED BY <1>1, <1>2, <1>3, <1>4, <1>5, <1>6, <1>7, <1>8

\* Nothing has been skipped.
Clear(a) == Sane(a) /\ a.skipped = 0

\* Where no row is filtered none is skipped.
LEMMA ClearStep ==
    ASSUME NEW a, Clear(a), NEW pkt, DOMAIN pkt = PacketFields, NEW c,
           ~Consume(a, pkt, c, FALSE).panic
    PROVE  /\ Clear(Consume(a, pkt, c, FALSE).acc)
           /\ Consume(a, pkt, c, FALSE).phase \in ReplyPhases
<1> DEFINE step == Consume(a, pkt, c, FALSE)
<1>1. Accounted(a, pkt, c, FALSE, step)
  <2>1. Sane(a) /\ a.skipped \in Nat /\ ~(a.skipped > 0) /\ FALSE \in BOOLEAN
    BY DEF Clear
  <2> QED BY <2>1, ConsumeStep
<1> HIDE DEF step
<1>2. Clear(step.acc) /\ step.phase \in ReplyPhases
  BY <1>1 DEF Accounted, Rowed, Kept, Clear
<1> QED BY <1>2 DEF step

\* The reply to a query ends with the first packet that is of a special type.
LEMMA QueryStep ==
    ASSUME DeprecateEof, NEW a, Clear(a), a.state # "Complete",
           NEW pkt, DOMAIN pkt = PacketFields, IsColumn(pkt) => TypeOf(pkt) = "Other",
           ~Consume(a, pkt, "Query", FALSE).panic
    PROVE  IF TypeOf(pkt) = "Other" THEN Open(Consume(a, pkt, "Query", FALSE))
           ELSE Consume(a, pkt, "Query", FALSE).phase = "Command"
<1> DEFINE step == Consume(a, pkt, "Query", FALSE)
<1>1. Sane(a) /\ TextCom("Query") /\ step.phase \in ReplyPhases
  BY ClearStep DEF Clear, TextCom
<1>2. CASE TypeOf(pkt) = "Other"
  BY <1>1, <1>2, ConsumeOpen DEF TextRow, Sane
<1>3. CASE TypeOf(pkt) # "Other"
  <2> SUFFICES ASSUME step.phase = "PendingResponse" PROVE FALSE
    BY <1>1, <1>3 DEF ReplyPhases
  <2>1. Continues(a, pkt, "Query", FALSE, step)
    BY <1>1, StaysOpen
  <2>2. TypeOf(pkt) \in {"Ok", "Eof", "Error", "Other"}
    BY DEF TypeOf, PacketType
  <2>3. ~step.panic
    OBVIOUS
  <2> HIDE DEF step
  <2>4. step = HydrateRows(a, pkt, FALSE)
    BY <1>3, <2>1, <2>2 DEF Continues
  <2>5. FALSE \in BOOLEAN
    OBVIOUS
  <2> QED BY <1>1, <1>3, <2>3, <2>4, <2>5, OpenRow
<1> QED BY <1>2, <1>3

-----------------------------------------------------------------------------
(* Binary result sets.                                                     *)

LEMMA BinaryOpen ==
    ASSUME NEW a, NEW pkt, NEW filtered, TypeOf(pkt) # "Eof",
           ~(pkt.seq = 1 /\ TypeOf(pkt) = "Ok"),
           ~Consume(a, pkt, "StmtExecute", filtered).panic
    PROVE  Consume(a, pkt, "StmtExecute", filtered).phase = "PendingResponse"
<1> DEFINE ends == TypeOf(pkt) \in {"Ok", "Error"}
           a2   == IF ends THEN [a EXCEPT !.state = "Complete"] ELSE a
           kept == [Finished(a, pkt) EXCEPT !.acc = a]
           last == [Finished(a2, pkt) EXCEPT !.acc = a2]
           c    == "StmtExecute"
           text == TextResultSet(a2, pkt, c, filtered)
           step == Consume(a, pkt, c, filtered)
<1>1. step = CASE c = "StmtPrepare" -> StmtPrepare(a, pkt)
               [] c = "StmtReset"   -> kept
               [] OTHER ->
                    (IF TypeOf(pkt) = "Ok" /\ ~OkParses(pkt) THEN Panic(a, pkt)
                     ELSE IF c = "StmtExecute" THEN BinaryResultSet(a2, pkt)
                     ELSE text)
  BY DEF Consume
<1>2. Panic(a, pkt).panic /\ ~step.panic
  BY DEF Panic
<1>3. BinaryResultSet(a2, pkt) = Pending(a2, pkt)
  <2>1. BinaryResultSet(a2, pkt) =
          IF TypeOf(pkt) = "Eof" \/ (pkt.seq = 1 /\ TypeOf(pkt) = "Ok")
          THEN last ELSE Pending(a2, pkt)
    BY DEF BinaryResultSet
  <2> HIDE DEF last, a2
  <2> QED BY <2>1
<1>4. Pending(a2, pkt).phase = "PendingResponse"
  BY DEF Pending
<1> HIDE DEF step, kept, a2, text
<1>5. step = BinaryResultSet(a2, pkt)
  BY <1>1, <1>2
<1>6. step.phase = "PendingResponse"
  BY <1>3, <1>4, <1>5
<1> QED BY <1>6 DEF step
-----------------------------------------------------------------------------
(* Prepared statements.                                                    *)

\* Where the accumulator is after n packets of the answer to a prepare that announces p
\* parameters and c columns.
Progress(a, n, p, c) ==
    \/ /\ a.state = "Initiated" /\ n = 0
       /\ a.params = 0 /\ a.columns = 0
    \/ /\ a.paramCount = p /\ a.columnCount = c
       /\ \/ a.state = "MetaExchange" /\ n = 1 /\ a.params = 0 /\ a.columns = 0
          \/ a.state = "HydrateParams" /\ n > 1 /\ a.params = n - 1 /\ n - 1 < p /\ a.columns = 0
          \/ a.state = "HydrateColumns" /\ n > p /\ a.columns = n - 1 - p /\ a.columns < c

LEMMA ParamProgress ==
    ASSUME NEW a, DOMAIN a = Fields, NEW n \in Nat \ {0}, NEW p \in Nat, NEW c \in Nat, NEW pkt,
           a.paramCount = p, a.columnCount = c, a.params = n - 1, a.columns = 0, n - 1 < p,
           n < p + c, ~PreparedParam(a, pkt).panic
    PROVE  /\ PreparedParam(a, pkt).phase = "PendingResponse"
           /\ Progress(PreparedParam(a, pkt).acc, n + 1, p, c)
<1> DEFINE m  == a.params + 1
           b  == [a EXCEPT !.params = m]
           b1 == [b EXCEPT !.state = "HydrateParams"]
           b2 == [b EXCEPT !.state = "HydrateColumns"]
           s  == PreparedParam(a, pkt)
<1>1. s = IF ~IsColumn(pkt) THEN Panic(a, pkt)
          ELSE IF m < a.paramCount THEN Pending(b1, pkt)
          ELSE IF a.columnCount > 0 THEN Pending(b2, pkt)
          ELSE Finished(b, pkt)
  BY DEF PreparedParam
<1>2. Panic(a, pkt).panic /\ ~s.panic
  BY DEF Panic
<1>3. m = n
  OBVIOUS
<1>4. /\ b1.state = "HydrateParams" /\ b1.params = n
      /\ b1.paramCount = p /\ b1.columnCount = c /\ b1.columns = 0
      /\ b2.state = "HydrateColumns"
      /\ b2.paramCount = p /\ b2.columnCount = c /\ b2.columns = 0
  <2> HIDE DEF m
  <2> QED BY <1>3 DEF Fields
<1> HIDE DEF s, b, b1, b2, m
<1>5. (s = Pending(b1, pkt) /\ n < p) \/ (s = Pending(b2, pkt) /\ n = p /\ c > 0)
  <2>1. CASE n < p
    <3>1. m < a.paramCount
      BY <1>3, <2>1
    <3> QED BY <1>1, <1>2, <2>1, <3>1
  <2>2. CASE ~(n < p)
    <3>1. ~(m < a.paramCount) /\ a.columnCount > 0 /\ n = p /\ c > 0
      BY <1>3, <2>2
    <3> QED BY <1>1, <1>2, <3>1
  <2> QED BY <2>1, <2>2
<1>6. CASE s = Pending(b1, pkt) /\ n < p
  <2>1. s.acc = b1 /\ s.phase = "PendingResponse"
    BY <1>6 DEF Pending
  <2>2. Progress(b1, n + 1, p, c)
    BY <1>4, <1>6 DEF Progress
  <2> QED BY <2>1, <2>2 DEF s
<1>7. CASE s = Pending(b2, pkt) /\ n = p /\ c > 0
  <2>1. s.acc = b2 /\ s.phase = "PendingResponse"
    BY <1>7 DEF Pending
  <2>2. Progress(b2, n + 1, p, c)
    BY <1>4, <1>7 DEF Progress
  <2> QED BY <2>1, <2>2 DEF s
<1> QED BY <1>5, <1>6, <1>7

LEMMA ColumnProgress ==
    ASSUME NEW a, DOMAIN a = Fields, NEW n \in Nat \ {0}, NEW p \in Nat, NEW c \in Nat, NEW pkt,
           a.paramCount = p, a.columnCount = c, n > p, a.columns = n - 1 - p, a.columns < c,
           n < p + c, ~PreparedColumn(a, pkt).panic
    PROVE  /\ PreparedColumn(a, pkt).phase = "PendingResponse"
           /\ Progress(PreparedColumn(a, pkt).acc, n + 1, p, c)
<1> DEFINE m == a.columns + 1
           b == [a EXCEPT !.columns = m, !.state = "HydrateColumns"]
           s == PreparedColumn(a, pkt)
<1>1. s = IF ~IsColumn(pkt) THEN Panic(a, pkt)
          ELSE IF m = a.columnCount THEN Finished(b, pkt)
          ELSE Pending(b, pkt)
  BY DEF PreparedColumn
<1>2. Panic(a, pkt).panic /\ ~s.panic
  BY DEF Panic
<1>3. m = n - p /\ m # a.columnCount
  OBVIOUS
<1>4. /\ b.state = "HydrateColumns" /\ b.columns = n - p
      /\ b.paramCount = p /\ b.columnCount = c
  <2> HIDE DEF m
  <2> QED BY <1>3 DEF Fields
<1> HIDE DEF s, b, m
<1>5. s = Pending(b, pkt)
  BY <1>1, <1>2, <1>3
<1>6. s.acc = b /\ s.phase = "PendingResponse"
  BY <1>5 DEF Pending
<1>7. Progress(b, n + 1, p, c)
  BY <1>4 DEF Progress
<1> QED BY <1>6, <1>7 DEF s

LEMMA PrepareProgress ==
    ASSUME ~OptionalMetadata, NEW a, DOMAIN a = Fields, NEW n \in Nat,
           NEW p \in Nat, NEW c \in Nat, NEW pkt, n = 0 => pkt.val = <<p, c>>,
           Progress(a, n, p, c), n < p + c, ~StmtPrepare(a, pkt).panic
    PROVE  /\ StmtPrepare(a, pkt).phase = "PendingResponse"
           /\ Progress(StmtPrepare(a, pkt).acc, n + 1, p, c)
<1> DEFINE v1 == pkt.val[1]
           v2 == pkt.val[2]
           b  == [a EXCEPT !.paramCount = v1, !.columnCount = v2]
           b2 == [b EXCEPT !.state = "MetaExchange"]
           first == IF pkt.first # 0
                    THEN Panic(a, pkt)
                    ELSE IF OptionalMetadata /\ ~MetadataFollows(pkt)
                    THEN Finished(b, pkt)
                    ELSE Pending(b2, pkt)
           meta  == IF a.paramCount > 0 THEN PreparedParam(a, pkt) ELSE Panic(a, pkt)
           step  == StmtPrepare(a, pkt)
<1>1. step = CASE a.state = "Initiated"      -> first
               [] a.state = "MetaExchange"   -> meta
               [] a.state = "HydrateParams"  -> PreparedParam(a, pkt)
               [] a.state = "HydrateColumns" -> PreparedColumn(a, pkt)
               [] a.state = "Complete"       -> Finished(a, pkt)
               [] OTHER                      -> Panic(a, pkt)
  BY DEF StmtPrepare
<1>2. Panic(a, pkt).panic /\ ~step.panic
  BY DEF Panic
<1>3. /\ b2.state = "MetaExchange" /\ b2.paramCount = v1 /\ b2.columnCount = v2
      /\ b2.params = a.params /\ b2.columns = a.columns
  <2> HIDE DEF v1, v2
  <2> QED BY DEF Fields
<1>4. n = 0 => v1 = p /\ v2 = c
  OBVIOUS
<1> SUFFICES step.phase = "PendingResponse" /\ Progress(step.acc, n + 1, p, c)
  OBVIOUS
<1> HIDE DEF step, b, b2, v1, v2
<1>5. CASE a.state = "Initiated"
  <2>1. step = first /\ n = 0 /\ a.params = 0 /\ a.columns = 0
    <3> HIDE DEF first
    <3>1. step = first
      BY <1>1, <1>5
    <3> QED BY <1>5, <3>1 DEF Progress
  <2>2. step = Pending(b2, pkt)
    BY <1>2, <2>1
  <2>3. step.acc = b2 /\ step.phase = "PendingResponse"
    BY <2>2 DEF Pending
  <2>4. Progress(b2, n + 1, p, c)
    BY <1>3, <1>4, <2>1 DEF Progress
  <2> QED BY <2>3, <2>4
<1> HIDE DEF first
<1>6. CASE a.state = "MetaExchange"
  <2>1. /\ n = 1 /\ a.paramCount = p /\ a.columnCount = c
        /\ a.params = 0 /\ a.columns = 0
    BY <1>6 DEF Progress
  <2>2. step = meta
    <3> HIDE DEF meta
    <3> QED BY <1>1, <1>6
  <2>3. step = PreparedParam(a, pkt) /\ p > 0
    BY <1>2, <2>1, <2>2
  <2> QED BY <1>2, <2>1, <2>3, ParamProgress
<1> HIDE DEF meta
<1>7. CASE a.state = "HydrateParams"
  <2>1. /\ a.paramCount = p /\ a.columnCount = c /\ n > 1
        /\ a.params = n - 1 /\ n - 1 < p /\ a.columns = 0
    BY <1>7 DEF Progress
  <2>2. step = PreparedParam(a, pkt)
    BY <1>1, <1>7
  <2> QED BY <1>2, <2>1, <2>2, ParamProgress
<1>8. CASE a.state = "HydrateColumns"
  <2>1. /\ a.paramCount = p /\ a.columnCount = c
        /\ n > p /\ a.columns = n - 1 - p /\ a.columns < c
    BY <1>8 DEF Progress
  <2>2. step = PreparedColumn(a, pkt)
    BY <1>1, <1>8
  <2>3. n \in Nat \ {0} /\ ~PreparedColumn(a, pkt).panic
    BY <1>2, <2>1, <2>2
  <2>4. /\ PreparedColumn(a, pkt).phase = "PendingResponse"
        /\ Progress(PreparedColumn(a, pkt).acc, n + 1, p, c)
    BY <2>1, <2>3, ColumnProgress
  <2> QED BY <2>2, <2>4
<1> QED BY <1>5, <1>6, <1>7, <1>8 DEF Progress
-----------------------------------------------------------------------------
(* What a server sends.                                                    *)

\* Packets as a server makes them; those that are no OK packet's, and an error's only
\* where the reply fails.
Unskipped == {p \in Packets : ~p.skip}
Sound == {p \in Unskipped : TypeOf(p) \in {"Ok", "Error"} => p.role = "err"}

LEMMA NewPacket ==
    ASSUME NEW role \in Roles, NEW first \in Int, NEW size \in Sizes
    PROVE  /\ Packet(role, first, size) \in Unskipped
           /\ Packet(role, first, size).role = role
           /\ Packet(role, first, size).first = first
           /\ Packet(role, first, size).size = size
BY DEF Packet, Packets, Unskipped, Types

LEMMA Kinds ==
    /\ {OkPacket, ErrPacket, ColumnPacket, EofPacket, Terminator} \subseteq Unskipped
    /\ {ErrPacket, ColumnPacket, EofPacket, Terminator} \subseteq Sound
    /\ \A n \in 1..250 : CountPacket(n) \in Unskipped /\ CountPacket(n) \in Sound
    /\ \A p \in Nat, c \in Nat : PrepareOk(p, c) \in Unskipped
<1>1. {"short", "mid", "long"} = Sizes /\ {"ok", "err", "prepared", "count", "col", "eof"} \subseteq Roles
  BY DEF Sizes, Roles
<1>2. OkPacket \in Unskipped
  BY <1>1, NewPacket DEF OkPacket
<1>3. ErrPacket \in Unskipped /\ ErrPacket \in Sound
  <2>1. ErrPacket \in Unskipped /\ ErrPacket.role = "err"
    BY <1>1, NewPacket DEF ErrPacket
  <2> QED BY <2>1 DEF Sound
<1>4. ColumnPacket \in Unskipped /\ ColumnPacket \in Sound
  <2>1. ColumnPacket \in Unskipped /\ ColumnPacket.first = 3
    BY <1>1, NewPacket DEF ColumnPacket
  <2>2. TypeOf(ColumnPacket) = "Other"
    BY <2>1 DEF TypeOf, PacketType
  <2> QED BY <2>1, <2>2 DEF Sound
<1>5. ASSUME NEW size \in {"short", "mid"}
      PROVE  Packet("eof", 254, size) \in Unskipped /\ Packet("eof", 254, size) \in Sound
  <2> DEFINE p == Packet("eof", 254, size)
  <2>1. p \in Unskipped /\ p.first = 254 /\ p.size = size
    BY <1>1, NewPacket
  <2> HIDE DEF p
  <2>2. TypeOf(p) = "Eof"
    BY <2>1 DEF TypeOf, PacketType
  <2>3. p \in Sound
    BY <2>1, <2>2 DEF Sound
  <2> QED BY <2>1, <2>3 DEF p
<1>6. EofPacket \in Unskipped /\ EofPacket \in Sound
  BY <1>5 DEF EofPacket
<1>7. Terminator \in Unskipped /\ Terminator \in Sound
  BY <1>5, <1>6 DEF Terminator
<1>8. ASSUME NEW n \in 1..250
      PROVE  CountPacket(n) \in Unskipped /\ CountPacket(n) \in Sound
  <2> DEFINE p == CountPacket(n)
  <2>1. p \in Unskipped /\ p.first = n /\ n # 0 /\ n # 254 /\ n # 255
    BY <1>1, NewPacket DEF CountPacket
  <2> HIDE DEF p
  <2>2. TypeOf(p) = "Other"
    BY <2>1 DEF TypeOf, PacketType
  <2>3. p \in Sound
    BY <2>1, <2>2 DEF Sound
  <2> QED BY <2>1, <2>3 DEF p
<1>9. ASSUME NEW p \in Nat, NEW c \in Nat
      PROVE  PrepareOk(p, c) \in Unskipped
  <2>1. Packet("prepared", 0, "long") \in Unskipped
    BY <1>1, NewPacket
  <2>2. <<p, c>> \in Int \cup (Int \X Int)
    OBVIOUS
  <2> QED BY <2>1, <2>2 DEF PrepareOk, Unskipped, Packets
<1> QED BY <1>2, <1>3, <1>4, <1>6, <1>7, <1>8, <1>9

\* Of whatever kinds the packets of a result set are, it is a sequence of them.
LEMMA ResultSetOf ==
    ASSUME NEW S, {ErrPacket, ColumnPacket, Terminator} \subseteq S, EofIfKept \in Seq(S),
           NEW n \in 1..250, CountPacket(n) \in S,
           NEW kinds, kinds \subseteq S, NEW max \in Nat, NEW r \in ResultSets(n, kinds, max)
    PROVE  r \in Seq(S)
<1>1. PICK rows \in Rows(kinds, max), end \in {Terminator, ErrPacket} :
        r = <<CountPacket(n)>> \o Columns(n) \o EofIfKept \o rows \o <<end>>
  BY DEF ResultSets
<1>2. rows \in Seq(S)
  <2>1. PICK k \in 0..max : rows \in [1..k -> kinds]
    BY <1>1 DEF Rows
  <2> QED BY <2>1
<1>3. Columns(n) \in Seq(S)
  BY DEF Columns
<1>4. EofIfKept \in Seq(S)
  OBVIOUS
<1>5. <<CountPacket(n)>> \in Seq(S) /\ <<end>> \in Seq(S)
  BY <1>1
<1> HIDE DEF Columns
<1>6. <<CountPacket(n)>> \o Columns(n) \in Seq(S)
  BY <1>3, <1>5, ConcatProperties
<1>7. <<CountPacket(n)>> \o Columns(n) \o EofIfKept \in Seq(S)
  BY <1>4, <1>6, ConcatProperties
<1>8. <<CountPacket(n)>> \o Columns(n) \o EofIfKept \o rows \in Seq(S)
  BY <1>2, <1>7, ConcatProperties
<1> QED BY <1>1, <1>5, <1>8, ConcatProperties

\* The replies, case by case.
Prepared(p, c) ==
    <<PrepareOk(p, c)>>
        \o (IF p > 0 THEN Columns(p) \o EofIfKept ELSE <<>>)
        \o (IF c > 0 THEN Columns(c) \o EofIfKept ELSE <<>>)

LEMMA ReplyCases ==
    ASSUME NEW cm, NEW n, NEW texts, NEW binaries, NEW max,
           NEW r \in Replies(cm, n, texts, binaries, max)
    PROVE  \/ r = <<OkPacket>> /\ cm \notin {"StmtPrepare", "FieldList"}
           \/ r = <<ErrPacket>>
           \/ cm = "Query" /\ r \in ResultSets(n, texts, max)
           \/ cm = "StmtExecute" /\ r \in ResultSets(n, binaries, max)
           \/ cm = "StmtPrepare" /\ \E c \in 0..n : \E p \in 0..n : r = Prepared(p, c)
           \/ cm = "FieldList" /\ r = Columns(n) \o <<Terminator>>
<1> DEFINE prepares == UNION {{Prepared(p, c) : p \in 0..n} : c \in 0..n}
           simple   == {<<OkPacket>>, <<ErrPacket>>}
<1>1. r \in CASE cm = "Query"       -> simple \cup ResultSets(n, texts, max)
              [] cm = "StmtExecute" -> simple \cup ResultSets(n, binaries, max)
              [] cm = "StmtPrepare" -> {<<ErrPacket>>} \cup prepares
              [] cm = "FieldList"   -> {<<ErrPacket>>, Columns(n) \o <<Terminator>>}
              [] OTHER              -> simple
  BY DEF Replies, Prepared
<1>2. r \in prepares => \E c \in 0..n : \E p \in 0..n : r = Prepared(p, c)
  <2> HIDE DEF Prepared
  <2> QED OBVIOUS
<1>3. r \in simple => r = <<OkPacket>> \/ r = <<ErrPacket>>
  OBVIOUS
<1> HIDE DEF prepares, simple
<1>4. \/ r \in simple /\ cm # "StmtPrepare" /\ cm # "FieldList"
      \/ r = <<ErrPacket>>
      \/ cm = "Query" /\ r \in ResultSets(n, texts, max)
      \/ cm = "StmtExecute" /\ r \in ResultSets(n, binaries, max)
      \/ cm = "StmtPrepare" /\ r \in prepares
      \/ cm = "FieldList" /\ r = Columns(n) \o <<Terminator>>
  BY <1>1
<1> QED BY <1>2, <1>3, <1>4

LEMMA PreparedOf ==
    ASSUME NEW S, ColumnPacket \in S, EofIfKept \in Seq(S), NEW p \in Nat, NEW c \in Nat,
           PrepareOk(p, c) \in S
    PROVE  Prepared(p, c) \in Seq(S)
<1>1. ASSUME NEW j \in Nat
      PROVE  (IF j > 0 THEN Columns(j) \o EofIfKept ELSE <<>>) \in Seq(S)
  <2>1. EofIfKept \in Seq(S)
    OBVIOUS
  <2>2. Columns(j) \in Seq(S)
    BY DEF Columns
  <2>3. Columns(j) \o EofIfKept \in Seq(S)
    BY <2>1, <2>2, ConcatProperties
  <2> QED BY <2>3
<1>2. <<PrepareOk(p, c)>> \in Seq(S)
  OBVIOUS
<1> QED BY <1>1, <1>2, ConcatProperties DEF Prepared

\* Whatever the reply, it is a sequence of its packets.
LEMMA RepliesOf ==
    ASSUME NEW S, {OkPacket, ErrPacket, ColumnPacket, Terminator} \subseteq S,
           EofIfKept \in Seq(S),
           NEW n \in 1..250, CountPacket(n) \in S,
           \A p \in Nat, c \in Nat : PrepareOk(p, c) \in S,
           NEW texts, texts \subseteq S, NEW binaries, binaries \subseteq S, NEW max \in Nat,
           NEW cm, NEW r \in Replies(cm, n, texts, binaries, max)
    PROVE  r \in Seq(S)
<1>1. ASSUME NEW kinds, kinds \subseteq S, r \in ResultSets(n, kinds, max)
      PROVE  r \in Seq(S)
  BY <1>1, ResultSetOf
<1>2. ASSUME r = Columns(n) \o <<Terminator>>
      PROVE  r \in Seq(S)
  <2>1. Columns(n) \in Seq(S) /\ <<Terminator>> \in Seq(S)
    BY DEF Columns
  <2> QED BY <1>2, <2>1, ConcatProperties
<1>3. ASSUME NEW c \in 0..n, NEW p \in 0..n, r = Prepared(p, c)
      PROVE  r \in Seq(S)
  <2>1. p \in Nat /\ c \in Nat
    OBVIOUS
  <2> QED BY <1>3, <2>1, PreparedOf
<1>4. r = <<OkPacket>> \/ r = <<ErrPacket>> => r \in Seq(S)
  <2>1. OkPacket \in S /\ ErrPacket \in S
    OBVIOUS
  <2>2. <<OkPacket>> \in Seq(S) /\ <<ErrPacket>> \in Seq(S)
    BY <2>1
  <2> QED BY <2>2
<1> QED BY <1>1, <1>2, <1>3, <1>4, ReplyCases

\* Only an error, or an OK packet that is all of the reply, has the type of one where the
\* rows have not.
LEMMA RepliesAreSound ==
    ASSUME NEW n \in 1..250, NEW texts, texts \subseteq Unskipped, NEW binaries,
           binaries \subseteq Unskipped, NEW max \in Nat,
           NEW cm, NEW r \in Replies(cm, n, texts, binaries, max)
    PROVE  /\ r \in Seq(Unskipped)
           /\ texts \subseteq Sound /\ TextCom(cm) => r = <<OkPacket>> \/ r \in Seq(Sound)
<1>0. EofIfKept \in Seq(Unskipped) /\ EofIfKept \in Seq(Sound)
  BY Kinds DEF EofIfKept
<1>1. r \in Seq(Unskipped)
  BY <1>0, Kinds, RepliesOf
<1>2. ASSUME texts \subseteq Sound, TextCom(cm), r # <<OkPacket>>
      PROVE  r \in Seq(Sound)
  <2>1. r \in ResultSets(n, texts, max) => r \in Seq(Sound)
    BY <1>0, <1>2, Kinds, ResultSetOf
  <2>2. r = Columns(n) \o <<Terminator>> => r \in Seq(Sound)
    <3>1. Columns(n) \in Seq(Sound) /\ <<Terminator>> \in Seq(Sound)
      BY Kinds DEF Columns
    <3> QED BY <3>1, ConcatProperties
  <2>3. r = <<ErrPacket>> => r \in Seq(Sound)
    BY Kinds
  <2> QED BY <1>2, <2>1, <2>2, <2>3, ReplyCases DEF TextCom
<1> QED BY <1>1, <1>2

LEMMA TypesOf ==
    /\ TextRow(ColumnPacket)
    /\ \A n \in 1..250 : TextRow(CountPacket(n))
<1>1. {"short", "long"} \subseteq Sizes /\ {"count", "col"} \subseteq Roles
  BY DEF Sizes, Roles
<1>2. TextRow(ColumnPacket)
  <2>1. ColumnPacket.first = 3
    BY <1>1, NewPacket DEF ColumnPacket
  <2> QED BY <2>1 DEF TextRow, TypeOf, PacketType
<1>3. ASSUME NEW n \in 1..250 PROVE TextRow(CountPacket(n))
  <2> DEFINE p == CountPacket(n)
  <2>1. p.first = n /\ n # 0 /\ n # 254 /\ n # 255
    BY <1>1, NewPacket DEF CountPacket
  <2> HIDE DEF p
  <2>2. TextRow(p)
    BY <2>1 DEF TextRow, TypeOf, PacketType
  <2> QED BY <2>2 DEF p
<1> QED BY <1>2, <1>3

\* What comes before the last packet of a sequence.
LEMMA ButLast ==
    ASSUME NEW S, NEW s \in Seq(S), NEW e
    PROVE  /\ Len(s \o <<e>>) = Len(s) + 1
           /\ \A i \in 1..(Len(s \o <<e>>) - 1) : (s \o <<e>>)[i] \in S /\ (s \o <<e>>)[i] = s[i]
<1>1. s \in Seq(S \cup {e}) /\ <<e>> \in Seq(S \cup {e})
  OBVIOUS
<1> QED BY <1>1, ConcatProperties

\* What is put behind a sequence leaves its first packet where it is.
LEMMA FirstStays ==
    ASSUME NEW S, NEW s \in Seq(S), NEW t \in Seq(S), Len(s) >= 1
    PROVE  s \o t \in Seq(S) /\ Len(s \o t) = Len(s) + Len(t) /\ (s \o t)[1] = s[1]
BY ConcatProperties

LEMMA ResultSetShape ==
    ASSUME DeprecateEof, NEW S, NEW n \in 1..250, ColumnPacket \in S, CountPacket(n) \in S,
           NEW kinds, kinds \subseteq S, NEW max \in Nat, NEW r \in ResultSets(n, kinds, max)
    PROVE  /\ Len(r) \in Nat /\ Len(r) > 1 /\ r[1] = CountPacket(n)
           /\ \A i \in 1..(Len(r) - 1) : r[i] \in S
<1>1. PICK rows \in Rows(kinds, max), end \in {Terminator, ErrPacket} :
        r = <<CountPacket(n)>> \o Columns(n) \o EofIfKept \o rows \o <<end>>
  BY DEF ResultSets
<1>2. rows \in Seq(S)
  <2>1. PICK k \in 0..max : rows \in [1..k -> kinds]
    BY <1>1 DEF Rows
  <2> QED BY <2>1
<1>3. Columns(n) \in Seq(S)
  BY DEF Columns
<1>4. EofIfKept \in Seq(S)
  BY DEF EofIfKept
<1>5. <<CountPacket(n)>> \in Seq(S)
  OBVIOUS
<1> HIDE DEF Columns
<1> DEFINE s1 == <<CountPacket(n)>> \o Columns(n)
           s2 == s1 \o EofIfKept
           s  == s2 \o rows
<1>6. s1 \in Seq(S) /\ Len(s1) >= 1 /\ s1[1] = CountPacket(n)
  BY <1>3, <1>5, FirstStays
<1> HIDE DEF s1
<1>7. s2 \in Seq(S) /\ Len(s2) >= 1 /\ s2[1] = CountPacket(n)
  BY <1>4, <1>6, FirstStays
<1> HIDE DEF s2
<1>8. s \in Seq(S) /\ Len(s) >= 1 /\ s[1] = CountPacket(n)
  BY <1>2, <1>7, FirstStays
<1>9. r = s \o <<end>>
  BY <1>1 DEF s1, s2
<1> HIDE DEF s
<1>10. /\ Len(r) = Len(s) + 1
       /\ \A i \in 1..(Len(r) - 1) : r[i] \in S /\ r[i] = s[i]
  BY <1>8, <1>9, ButLast
<1> QED BY <1>8, <1>10

\* A reply of several packets, by the command it is for.
Shape(c, r) ==
    \/ Len(r) = 1
    \/ /\ c \in {"Query", "FieldList"}
       /\ \A i \in 1..(Len(r) - 1) : TextRow(r[i])
    \/ /\ c = "StmtExecute" /\ Len(r) > 1 /\ TextRow(r[1])
       /\ \A i \in 1..(Len(r) - 1) : TypeOf(r[i]) # "Eof"
    \/ /\ c = "StmtPrepare"
       /\ \E p \in Nat, k \in Nat : Len(r) = 1 + p + k /\ r[1].val = <<p, k>>

LEMMA RepliesHaveShape ==
    ASSUME DeprecateEof, NEW n \in 1..250, NEW texts, NEW binaries, NEW max \in Nat,
           \A row \in texts : TypeOf(row) = "Other",
           \A row \in binaries : TypeOf(row) # "Eof",
           NEW cm, NEW r \in Replies(cm, n, texts, binaries, max)
    PROVE  Shape(cm, r)
<1>4. CASE r = <<OkPacket>> \/ r = <<ErrPacket>>
  BY <1>4 DEF Shape
<1>5. CASE cm = "Query" /\ r \in ResultSets(n, texts, max)
  <2> DEFINE S == {p \in {ColumnPacket, CountPacket(n)} \cup texts : TextRow(p)}
  <2>1. ColumnPacket \in S /\ CountPacket(n) \in S /\ texts \subseteq S
    BY TypesOf DEF TextRow
  <2>2. \A p \in S : TextRow(p)
    OBVIOUS
  <2> HIDE DEF S
  <2>3. \A i \in 1..(Len(r) - 1) : r[i] \in S
    BY <1>5, <2>1, ResultSetShape
  <2> QED BY <1>5, <2>2, <2>3 DEF Shape
<1>6. CASE cm = "StmtExecute" /\ r \in ResultSets(n, binaries, max)
  <2> DEFINE S == {p \in {ColumnPacket, CountPacket(n)} \cup binaries : TypeOf(p) # "Eof"}
  <2>1. ColumnPacket \in S /\ CountPacket(n) \in S /\ binaries \subseteq S
    BY TypesOf DEF TextRow
  <2>2. \A p \in S : TypeOf(p) # "Eof"
    OBVIOUS
  <2> HIDE DEF S
  <2>3. Len(r) > 1 /\ r[1] = CountPacket(n) /\ \A i \in 1..(Len(r) - 1) : r[i] \in S
    <3>1. r \in ResultSets(n, binaries, max) /\ n \in 1..250
      BY <1>6
    <3>2. /\ Len(r) \in Nat /\ Len(r) > 1 /\ r[1] = CountPacket(n)
          /\ \A i \in 1..(Len(r) - 1) : r[i] \in S
      BY <2>1, <3>1, ResultSetShape
    <3> QED BY <3>2
  <2>4. TextRow(r[1])
    BY <2>3, TypesOf
  <2> QED BY <1>6, <2>2, <2>3, <2>4 DEF Shape
<1>7. CASE cm = "FieldList" /\ r = Columns(n) \o <<Terminator>>
  <2>1. Columns(n) \in Seq({ColumnPacket})
    BY DEF Columns
  <2>2. \A i \in 1..(Len(r) - 1) : r[i] \in {ColumnPacket}
    BY <1>7, <2>1, ButLast
  <2> QED BY <1>7, <2>2, TypesOf DEF Shape
<1>8. ASSUME cm = "StmtPrepare", NEW c \in 0..n, NEW p \in 0..n, r = Prepared(p, c)
      PROVE  Shape(cm, r)
  <2> DEFINE cols(k) == IF k > 0 THEN Columns(k) \o EofIfKept ELSE <<>>
             s1 == <<PrepareOk(p, c)>>
             s2 == s1 \o cols(p)
  <2>1. ASSUME NEW k \in Nat
        PROVE  cols(k) \in Seq({ColumnPacket}) /\ Len(cols(k)) = k
    <3>1. Columns(k) \in Seq({ColumnPacket}) /\ Len(Columns(k)) = k
      BY DEF Columns
    <3>2. EofIfKept = <<>>
      BY DEF EofIfKept
    <3>3. Columns(k) \o EofIfKept = Columns(k)
      BY <3>1, <3>2, ConcatEmptySeq
    <3> QED BY <3>1, <3>3
  <2> DEFINE S == {ColumnPacket, PrepareOk(p, c)}
  <2>2. /\ s1 \in Seq(S) /\ Len(s1) = 1 /\ s1[1] = PrepareOk(p, c)
        /\ cols(p) \in Seq(S) /\ Len(cols(p)) = p
        /\ cols(c) \in Seq(S) /\ Len(cols(c)) = c
    <3> HIDE DEF cols
    <3> QED BY <2>1
  <2>3. r = s2 \o cols(c)
    BY <1>8 DEF Prepared
  <2> HIDE DEF cols, s1, S
  <2>4. s2 \in Seq(S) /\ Len(s2) = 1 + p /\ s2[1] = PrepareOk(p, c)
    <3>1. Len(s1) >= 1
      BY <2>2
    <3>2. s2 \in Seq(S) /\ Len(s2) = Len(s1) + Len(cols(p)) /\ s2[1] = s1[1]
      BY <2>2, <3>1, FirstStays
    <3> QED BY <2>2, <3>2
  <2> HIDE DEF s2
  <2>5. Len(r) = 1 + p + c /\ r[1] = PrepareOk(p, c)
    <3>1. Len(s2) >= 1
      BY <2>4
    <3>2. Len(r) = Len(s2) + Len(cols(c)) /\ r[1] = s2[1]
      BY <2>2, <2>3, <2>4, <3>1, FirstStays
    <3> QED BY <2>2, <2>4, <3>2
  <2>6. PrepareOk(p, c).val = <<p, c>>
    BY DEF PrepareOk, Packet
  <2>7. p \in Nat /\ c \in Nat
    OBVIOUS
  <2> QED BY <1>8, <2>5, <2>6, <2>7 DEF Shape
<1> QED BY <1>4, <1>5, <1>6, <1>7, <1>8, ReplyCases

\* Numbering the packets changes nothing else of them.
LEMMA NumberedReply ==
    ASSUME NEW r \in Seq(Unskipped)
    PROVE  /\ Numbered(r) \in Seq(Packets) /\ Len(Numbered(r)) = Len(r)
           /\ \A i \in 1..Len(r) :
                /\ ~Numbered(r)[i].skip /\ Numbered(r)[i].seq = i % SeqMod
                /\ TypeOf(Numbered(r)[i]) = TypeOf(r[i])
                /\ Numbered(r)[i].role = r[i].role /\ Numbered(r)[i].val = r[i].val
                /\ Numbered(r)[i].first = r[i].first /\ Numbered(r)[i].size = r[i].size
                /\ Numbered(r)[i].okLike = r[i].okLike /\ Numbered(r)[i].more = r[i].more
<1> DEFINE q(i) == [r[i] EXCEPT !.seq = i % SeqMod]
<1>1. /\ DOMAIN r = 1..Len(r) /\ Len(r) \in Nat
      /\ \A i \in 1..Len(r) : r[i] \in Unskipped
  OBVIOUS
<1>2. ASSUME NEW i \in 1..Len(r)
      PROVE  /\ q(i) \in Packets /\ ~q(i).skip /\ q(i).seq = i % SeqMod
             /\ TypeOf(q(i)) = TypeOf(r[i]) /\ q(i).role = r[i].role /\ q(i).val = r[i].val
             /\ q(i).first = r[i].first /\ q(i).size = r[i].size
             /\ q(i).okLike = r[i].okLike /\ q(i).more = r[i].more
  <2> DEFINE s == i % SeqMod
             p == [r[i] EXCEPT !.seq = s]
  <2>1. s \in Int
    BY Remainder
  <2> HIDE DEF s
  <2>2. /\ p \in Packets /\ ~p.skip /\ p.seq = s /\ p.role = r[i].role /\ p.val = r[i].val
        /\ p.first = r[i].first /\ p.size = r[i].size
        /\ p.okLike = r[i].okLike /\ p.more = r[i].more
    BY <1>1, <2>1 DEF Unskipped, Packets
  <2>3. TypeOf(p) = TypeOf(r[i])
    <3> HIDE DEF p
    <3> QED BY <2>2, Zenon DEF TypeOf, PacketType
  <2> QED BY <2>2, <2>3 DEF s
<1>3. Numbered(r) = [i \in 1..Len(r) |-> q(i)]
  BY <1>1 DEF Numbered
<1>4. \A i \in 1..Len(r) : q(i) \in Packets
  BY <1>2
<1> HIDE DEF q
<1>5. Numbered(r) \in Seq(Packets) /\ Len(Numbered(r)) = Len(r)
  BY <1>1, <1>3, <1>4
<1>6. \A i \in 1..Len(r) : Numbered(r)[i] = q(i)
  BY <1>3
<1> QED BY <1>2, <1>5, <1>6
=============================================================================
