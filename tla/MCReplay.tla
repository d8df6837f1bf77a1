------------------------------- MODULE MCReplay -------------------------------
(* Small instances of Replay.                                              *)
EXTENDS Replay

Select   == [text |-> "a", com |-> "Query", parsed |-> TRUE, ast |-> <<"selectFrom">>]
Probe    == [text |-> "b", com |-> "Query", parsed |-> TRUE, ast |-> <<"selectBare">>]

SelectAndProbe == {Select, Probe}
JustSelect     == {Select}

\* A select is answered by a result set without rows, a probe by OK.
Answers(c) ==
    { Numbered(IF c = Select THEN <<CountPacket(1), ColumnPacket, Terminator>> ELSE <<OkPacket>>) }

\* Rows that start with a NULL, a short and a long text.
TextRows == {Packet("row", 251, "long"), Packet("row", 3, "short"), Packet("row", 252, "long")}

\* Every reply to a command of a kind, with up to two columns and two rows.
OrdinaryReplies(com) == {Numbered(reply) : reply \in Replies(com, 2, TextRows, {}, 2)}

\* The premise of the theorems about Replay holds of the replies of the runs, and the
\* accumulator follows every other one to a command that is of no prepared statement.
ASSUME AnswersAreRegular ==
    /\ RegularReplies
    /\ \A com \in {"Query", "FieldList", "Ping"} :
         \A reply \in OrdinaryReplies(com) : Regular(reply, com)
=============================================================================
