----------------------------- MODULE QueryProxy -----------------------------
(***************************************************************************)
(* What a session through MocksySQL looks like from outside: the commands  *)
(* a client asks reach the server in their order and once, but for those   *)
(* the proxy keeps to itself, and a command is answered after it was        *)
(* executed, or in the server's place by the proxy.                        *)
(***************************************************************************)
EXTENDS Integers, Sequences

CONSTANTS
    Commands,      \* what a client may ask
    Kept(_)        \* the commands the proxy answers itself

VARIABLES
    asked,         \* the commands asked
    executed,      \* the commands the server has received, by index in asked
    answered,      \* the commands up to this one are settled
    over           \* the server's session has ended

qvars == <<asked, executed, answered, over>>

Init ==
    /\ asked = <<>>
    /\ executed = <<>>
    /\ answered = 0
    /\ over = FALSE

Ask ==
    /\ \E c \in Commands : asked' = Append(asked, c)
    /\ UNCHANGED <<executed, answered, over>>

\* The command after the last one executed, but for those kept.
IsNext(i) ==
    LET last == IF executed = <<>> THEN 0 ELSE executed[Len(executed)] IN
    /\ i \in (last + 1)..Len(asked)
    /\ ~Kept(asked[i])
    /\ \A j \in (last + 1)..(i - 1) : Kept(asked[j])

\* The server gets a command; the command may end its session.
Execute ==
    /\ ~over
    /\ \E i \in DOMAIN asked : IsNext(i) /\ executed' = Append(executed, i)
    /\ over' \in BOOLEAN
    /\ UNCHANGED <<asked, answered>>

\* The last command is answered: by the server, by the proxy, or by an error that
\* says that the session has ended.
Answer ==
    /\ answered < Len(asked)
    /\ \/ \E k \in DOMAIN executed : executed[k] = Len(asked)
       \/ Kept(asked[Len(asked)])
       \/ over
    /\ answered' = Len(asked)
    /\ UNCHANGED <<asked, executed, over>>

End ==
    /\ over' = TRUE
    /\ UNCHANGED <<asked, executed, answered>>

Next == Ask \/ Execute \/ Answer \/ End

Spec == Init /\ [][Next]_qvars
=============================================================================
