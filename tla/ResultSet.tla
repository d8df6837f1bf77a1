------------------------------ MODULE ResultSet ------------------------------
(***************************************************************************)
(* ResponseAccumulator of accumulator/result_set.rs: what consume does with *)
(* one packet of the server's reply to a command.  consume calls itself    *)
(* after some changes of state; the calls are unfolded here, each state's  *)
(* operator naming the one it hands the packet on to.                      *)
(*                                                                         *)
(* The result of a step is the accumulator and packet it leaves, the phase *)
(* of the connection, and whether it panicked.                             *)
(***************************************************************************)
EXTENDS MySqlWire

AccStates == {"Initiated", "MetaExchange", "ColumnCount", "HydrateParams", "ParamsHydrated",
              "HydrateColumns", "ColumnsHydrated", "HydrateRows", "Complete"}

\* ResponseAccumulator::default(), set by each command.
NewAccumulator ==
    [state |-> "Initiated", columnCount |-> 0, columns |-> 0, paramCount |-> 0,
     params |-> 0, skipped |-> 0]

Pending(acc, pkt)  == [acc |-> acc, pkt |-> pkt, phase |-> "PendingResponse", panic |-> FALSE]
Finished(acc, pkt) == [acc |-> [acc EXCEPT !.state = "Complete"], pkt |-> pkt,
                       phase |-> "Command", panic |-> FALSE]
Panic(acc, pkt)    == [acc |-> acc, pkt |-> pkt, phase |-> "PendingResponse", panic |-> TRUE]

TypeOf(pkt) == PacketType(pkt, "PendingResponse")

\* A faulty form of Renumber: the sequence number is left as the server set it.
KeepsNumber(pkt, skipped) == pkt

\* packet.header.seq -= skipped_packets as u8: wraps, or panics where overflow is
\* checked.
Underflows(pkt, skipped) == OverflowChecks /\ pkt.seq < skipped % SeqMod
Renumber(pkt, skipped) == [pkt EXCEPT !.seq = (pkt.seq - skipped) % SeqMod]

\* ColumnDefinition::from_packet panics on any packet but a column's.
IsColumn(pkt) == pkt.role = "col"

\* OkData::from_packet panics on what has no OK packet's fields.
OkParses(pkt) == pkt.okLike

\* EofData::from_packet's assertion wants two bytes after the status flags.
EofParses(pkt) == pkt.size = "mid"

\* Faulty forms of HydrateRows: the packet after the rows counts as skipped; a skipped
\* row is counted and still forwarded; a row ends the result set.
CountsTerminator(acc, pkt, filtered) ==
    LET skipped == acc.skipped + (IF filtered THEN 1 ELSE 0)
        acc2    == [acc EXCEPT !.state = "HydrateRows", !.skipped = skipped]
        pkt2    == [Renumber(pkt, skipped) EXCEPT !.skip = filtered]
    IN
    IF TypeOf(pkt) = "Other" THEN Pending(acc2, pkt2) ELSE Finished(acc2, pkt2)

ForwardsSkipped(acc, pkt, filtered) ==
    LET isRow   == TypeOf(pkt) = "Other"
        skipped == acc.skipped + (IF isRow /\ filtered THEN 1 ELSE 0)
        acc2    == [acc EXCEPT !.state = "HydrateRows", !.skipped = skipped]
        pkt2    == Renumber(pkt, skipped)
    IN
    IF isRow THEN Pending(acc2, pkt2) ELSE Finished(acc2, pkt2)

RowEnds(acc, pkt, filtered) == Finished(acc, pkt)
-----------------------------------------------------------------------------
(* A row, or the packet that ends the rows.  filtered says that the row is *)
(* of a table with recorded differences and that the query's WHERE does    *)
(* not hold of what they make of it: override_row then skips it.           *)
HydrateRows(acc, pkt, filtered) ==
    LET isRow   == TypeOf(pkt) = "Other"
        skipped == acc.skipped + (IF isRow /\ filtered THEN 1 ELSE 0)
        acc2    == [acc EXCEPT !.state = "HydrateRows", !.skipped = skipped]
        pkt2    == [Renumber(pkt, skipped) EXCEPT !.skip = isRow /\ filtered]
        panics  == \/ isRow /\ acc.columns = 0
                   \/ TypeOf(pkt) = "Eof" /\ ~EofParses(pkt)
                   \/ Underflows(pkt, skipped)
                   \* Another result set is announced: the state is Initiated again and
                   \* the same packet is consumed as its first, whose column count it is
                   \* too short for.
                   \/ TypeOf(pkt) = "Eof" /\ pkt.more
    IN
    IF panics THEN Panic(acc, pkt)
    ELSE IF isRow THEN Pending(acc2, pkt2) ELSE Finished(acc2, pkt2)

ColumnsHydrated(acc, pkt, filtered) ==
    IF DeprecateEof THEN HydrateRows(acc, pkt, filtered)
    ELSE IF TypeOf(pkt) = "Eof" THEN Pending([acc EXCEPT !.state = "HydrateRows"], pkt)
    ELSE Panic(acc, pkt)

HydrateColumns(acc, pkt, com, filtered) ==
    LET columns == acc.columns + 1
        acc2    == [acc EXCEPT !.columns = columns,
                      !.state = IF columns = acc.columnCount
                                THEN "ColumnsHydrated" ELSE "HydrateColumns"]
    IN
    IF com = "FieldList" /\ TypeOf(pkt) = "Eof" THEN ColumnsHydrated(acc, pkt, filtered)
    ELSE IF IsColumn(pkt) THEN Pending(acc2, pkt)
    ELSE Panic(acc, pkt)

\* The LOCAL INFILE request's first byte 0xFB counts as 251 columns.
ColumnCount(acc, pkt) ==
    IF TypeOf(pkt) = "Eof"
    THEN Panic(acc, pkt)
    ELSE Pending([acc EXCEPT !.columnCount = pkt.val, !.state = "HydrateColumns"], pkt)

Initiated(acc, pkt, com, filtered) ==
    CASE com = "Query"     -> IF OptionalMetadata
                              THEN Panic(acc, pkt)  \* IntLenEnc given a length
                              ELSE ColumnCount(acc, pkt)
      [] com = "FieldList" -> HydrateColumns(acc, pkt, com, filtered)
      [] OTHER             -> Finished(acc, pkt)

\* process_result_set
TextResultSet(acc, pkt, com, filtered) ==
    CASE acc.state = "Initiated"       -> Initiated(acc, pkt, com, filtered)
      [] acc.state = "ColumnCount"     -> ColumnCount(acc, pkt)
      [] acc.state = "HydrateColumns"  -> HydrateColumns(acc, pkt, com, filtered)
      [] acc.state = "ColumnsHydrated" -> ColumnsHydrated(acc, pkt, filtered)
      [] acc.state = "HydrateRows"     -> HydrateRows(acc, pkt, filtered)
      [] acc.state = "Complete"        -> Finished(acc, pkt)
      [] OTHER                         -> Panic(acc, pkt)

\* process_binary_result_set
BinaryResultSet(acc, pkt) ==
    IF \/ TypeOf(pkt) = "Eof"
       \/ pkt.seq = 1 /\ TypeOf(pkt) = "Ok"
    THEN [Finished(acc, pkt) EXCEPT !.acc = acc]
    ELSE Pending(acc, pkt)
-----------------------------------------------------------------------------
(* process_stmt_prepare.                                                   *)
PreparedColumn(acc, pkt) ==
    LET columns == acc.columns + 1
        acc2    == [acc EXCEPT !.columns = columns, !.state = "HydrateColumns"]
    IN
    IF ~IsColumn(pkt) THEN Panic(acc, pkt)
    ELSE IF columns = acc.columnCount THEN Finished(acc2, pkt)
    ELSE Pending(acc2, pkt)

\* A faulty form of PreparedParam: one parameter too many is expected.
OneParamMore(acc, pkt) ==
    LET params == acc.params + 1
        acc2   == [acc EXCEPT !.params = params]
    IN
    IF ~IsColumn(pkt) THEN Panic(acc, pkt)
    ELSE IF params <= acc.paramCount THEN Pending([acc2 EXCEPT !.state = "HydrateParams"], pkt)
    ELSE IF acc.columnCount > 0 THEN Pending([acc2 EXCEPT !.state = "HydrateColumns"], pkt)
    ELSE Finished(acc2, pkt)

PreparedParam(acc, pkt) ==
    LET params == acc.params + 1
        acc2   == [acc EXCEPT !.params = params]
    IN
    IF ~IsColumn(pkt) THEN Panic(acc, pkt)
    ELSE IF params < acc.paramCount THEN Pending([acc2 EXCEPT !.state = "HydrateParams"], pkt)
    ELSE IF acc.columnCount > 0 THEN Pending([acc2 EXCEPT !.state = "HydrateColumns"], pkt)
    ELSE Finished(acc2, pkt)

\* metadata_follows is read from body[11], in a packet of more than 12 bytes: the upper
\* half of the server's warning count, 1 only for 256 to 511 warnings.
MetadataFollows(pkt) == pkt.metadata

StmtPrepare(acc, pkt) ==
    CASE acc.state = "Initiated" ->
            IF pkt.first # 0
            THEN Panic(acc, pkt)
            ELSE LET acc2 == [acc EXCEPT !.paramCount = pkt.val[1], !.columnCount = pkt.val[2]]
                 IN  IF OptionalMetadata /\ ~MetadataFollows(pkt)
                     THEN Finished(acc2, pkt)
                     ELSE Pending([acc2 EXCEPT !.state = "MetaExchange"], pkt)
      [] acc.state = "MetaExchange" ->
            IF acc.paramCount > 0 THEN PreparedParam(acc, pkt) ELSE Panic(acc, pkt)
      [] acc.state = "HydrateParams"  -> PreparedParam(acc, pkt)
      [] acc.state = "HydrateColumns" -> PreparedColumn(acc, pkt)
      [] acc.state = "Complete"       -> Finished(acc, pkt)
      [] OTHER                        -> Panic(acc, pkt)
-----------------------------------------------------------------------------
\* consume: an error or an OK packet ends the reply of anything but a prepare.
Consume(acc, pkt, com, filtered) ==
    LET ends == TypeOf(pkt) \in {"Ok", "Error"}
        acc2 == IF ends THEN [acc EXCEPT !.state = "Complete"] ELSE acc
    IN
    CASE com = "StmtPrepare" -> StmtPrepare(acc, pkt)
      [] com = "StmtReset"   -> [Finished(acc, pkt) EXCEPT !.acc = acc]
      [] OTHER ->
            IF TypeOf(pkt) = "Ok" /\ ~OkParses(pkt) THEN Panic(acc, pkt)
            ELSE IF com = "StmtExecute" THEN BinaryResultSet(acc2, pkt)
            ELSE TextResultSet(acc2, pkt, com, filtered)
=============================================================================
