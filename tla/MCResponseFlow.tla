--------------------------- MODULE MCResponseFlow ---------------------------
(* Small instances of ResponseFlow.                                        *)
EXTENDS ResponseFlow

\* Rows whose first column has text, or is NULL, or is empty in a short row.
PlainRow  == Packet("row", 1, "mid")
NullRow   == Packet("row", 251, "short")
EmptyRow  == Packet("row", 0, "short")
SafeRows  == {PlainRow, NullRow, EmptyRow}

\* A row of seven bytes or more whose first column is the empty string: its bytes
\* may or may not decode as an OK packet's.
EmptyFirst     == Packet("row", 0, "mid")
EmptyFirstRows == {PlainRow, EmptyFirst, [EmptyFirst EXCEPT !.okLike = FALSE]}

\* A binary row starts with 0x00.
BinaryRow  == Packet("row", 0, "long")
BinaryOnes == {BinaryRow}

PlainRows == {PlainRow}
None == {}
=============================================================================
