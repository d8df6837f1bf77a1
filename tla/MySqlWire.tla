------------------------------ MODULE MySqlWire ------------------------------
(***************************************************************************)
(* The packets MocksySQL forwards, as far as its decoders tell them apart, *)
(* and the replies a MySQL server makes of them.                           *)
(*                                                                         *)
(* A packet is its first body byte, the class its body length falls in for *)
(* get_packet_type (up to 6 bytes, 7 to 9, 10 and more), its sequence      *)
(* number, the count it announces (its first byte, where it is read as     *)
(* one), the MORE_RESULTS flag, what it is (role), whether its bytes would  *)
(* pass as an OK packet, and the byte read as metadata_follows (metadata).  *)
(***************************************************************************)
EXTENDS Integers, Sequences

CONSTANTS
    SeqMod,            \* sequence numbers are u8: 256 in the code
    DeprecateEof,      \* the client set CLIENT_DEPRECATE_EOF
    OptionalMetadata,  \* the client set CLIENT_OPTIONAL_RESULTSET_METADATA
    OverflowChecks     \* the build panics on u8 overflow (the dev profile)

ASSUME WireAssumption ==
    /\ SeqMod \in Nat \ {0, 1}
    /\ DeprecateEof \in BOOLEAN
    /\ OptionalMetadata \in BOOLEAN
    /\ OverflowChecks \in BOOLEAN

Sizes == {"short", "mid", "long"}

Packet(role, first, size) ==
    [role |-> role, first |-> first, size |-> size, seq |-> 0, val |-> first,
     more |-> FALSE, okLike |-> TRUE, metadata |-> FALSE, type |-> "Other", skip |-> FALSE]

Roles == {"ok", "err", "prepared", "count", "col", "row", "eof"}
Types == {"Ok", "Eof", "Error", "Command", "Other"}

\* The packets of a reply to a command.
Packets ==
    [role : Roles, first : Int, size : Sizes, seq : Int, val : Int \cup (Int \X Int),
     more : BOOLEAN, okLike : BOOLEAN, metadata : BOOLEAN, type : Types, skip : BOOLEAN]

\* A faulty form of PacketType: 0x00 is an OK packet's first byte whatever the size.
OkWhateverSize(pkt, phase) ==
    CASE pkt.first = 0                      -> "Ok"
      [] pkt.first = 254 /\ pkt.size # "long" -> "Eof"
      [] pkt.first = 255                    -> "Error"
      [] OTHER -> IF phase = "Command" THEN "Command" ELSE "Other"

\* Packet::get_packet_type, decided by the phase the frame was read in.
PacketType(pkt, phase) ==
    CASE pkt.first = 0 /\ pkt.size # "short"  -> "Ok"
      [] pkt.first = 254 /\ pkt.size # "long" -> "Eof"
      [] pkt.first = 255                      -> "Error"
      [] OTHER -> IF phase = "Command" THEN "Command" ELSE "Other"
-----------------------------------------------------------------------------
(* What a server sends (MySQL's client/server protocol).                   *)

OkPacket      == Packet("ok", 0, "mid")
ErrPacket     == Packet("err", 255, "long")
ColumnPacket  == Packet("col", 3, "long")
CountPacket(n) == Packet("count", n, "short")
PrepareOk(p, c) == [Packet("prepared", 0, "long") EXCEPT !.val = <<p, c>>]

\* The EOF packet of 5 bytes that a client without DEPRECATE_EOF gets, and the
\* OK packet of 7 bytes with an EOF header that the others get.
EofPacket  == Packet("eof", 254, "short")
Terminator == IF DeprecateEof THEN Packet("eof", 254, "mid") ELSE EofPacket
EofIfKept  == IF DeprecateEof THEN <<>> ELSE <<EofPacket>>

Rows(kinds, max) == UNION { [1..n -> kinds] : n \in 0..max }

Columns(n) == [i \in 1..n |-> ColumnPacket]

\* A result set, ended by its terminator or by an error in the middle.
ResultSets(columns, kinds, max) ==
    UNION { { <<CountPacket(columns)>> \o Columns(columns) \o EofIfKept \o rows \o <<end>> :
                rows \in Rows(kinds, max) } : end \in {Terminator, ErrPacket} }

\* Every reply to a command of each kind.
Replies(com, columns, textRows, binaryRows, max) ==
    CASE com = "Query"       -> {<<OkPacket>>, <<ErrPacket>>} \cup ResultSets(columns, textRows, max)
      [] com = "StmtExecute" -> {<<OkPacket>>, <<ErrPacket>>} \cup ResultSets(columns, binaryRows, max)
      [] com = "StmtPrepare" ->
            {<<ErrPacket>>} \cup
            UNION { { <<PrepareOk(p, c)>>
                        \o (IF p > 0 THEN Columns(p) \o EofIfKept ELSE <<>>)
                        \o (IF c > 0 THEN Columns(c) \o EofIfKept ELSE <<>>) :
                        p \in 0..columns } : c \in 0..columns }
      [] com = "FieldList"   -> {<<ErrPacket>>, Columns(columns) \o <<Terminator>>}
      [] OTHER               -> {<<OkPacket>>, <<ErrPacket>>}

\* A reply is numbered from 1: the command was number 0.
Numbered(reply) == [i \in DOMAIN reply |-> [reply[i] EXCEPT !.seq = i % SeqMod]]
=============================================================================
