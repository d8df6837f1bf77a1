----------------------------- MODULE MCExchange -----------------------------
(* Small instances of Exchange.                                            *)
EXTENDS Exchange

Select     == [com |-> "Query", prefix |-> FALSE, writes |-> FALSE]
Update     == [com |-> "Query", prefix |-> TRUE, writes |-> TRUE]
Ping       == [com |-> "Ping", prefix |-> FALSE, writes |-> FALSE]
StmtClose  == [com |-> "StmtClose", prefix |-> FALSE, writes |-> FALSE]
Quit       == [com |-> "Quit", prefix |-> FALSE, writes |-> FALSE]

Conversation == {Select, Update, Ping, Quit}
WithClose    == {Select, Update, StmtClose}
JustSelect   == {Select}

PlainRows == {Packet("row", 1, "mid")}
=============================================================================
