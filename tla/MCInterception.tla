---------------------------- MODULE MCInterception ----------------------------
(* Small instances of Interception.                                        *)
EXTENDS Interception

\* Both workers update the old table; only the first one updates the new one.
OneCreator == [w \in Workers |-> IF w = 1 THEN Tables ELSE Existing]

\* Both update the new table.
TwoCreators == [w \in Workers |-> Tables]
=============================================================================
