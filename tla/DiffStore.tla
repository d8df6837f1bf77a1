------------------------------ MODULE DiffStore ------------------------------
(***************************************************************************)
(* What the difference log promises the sessions that share it: a          *)
(* difference recorded for a table stays, after those recorded before it,  *)
(* until it expires, the oldest first.                                     *)
(***************************************************************************)
EXTENDS Naturals, Sequences

CONSTANTS Tables, Diffs

VARIABLES
    live,     \* for each table, its differences in the order of recording
    expired   \* the differences whose time is over

svars == <<live, expired>>

Init ==
    /\ live \in [Tables -> Seq(Diffs)]
    /\ expired = {}

Record ==
    /\ \E t \in Tables, d \in Diffs : live' = [live EXCEPT ![t] = Append(@, d)]
    /\ UNCHANGED expired

Expire ==
    \E t \in Tables :
        /\ live[t] # <<>>
        /\ live' = [live EXCEPT ![t] = Tail(@)]
        /\ expired' = expired \cup {Head(live[t])}

Next == Record \/ Expire

Spec == Init /\ [][Next]_svars
=============================================================================
