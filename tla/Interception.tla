----------------------------- MODULE Interception -----------------------------
(***************************************************************************)
(* The state all workers share when they intercept writes: the log of      *)
(* table differences (get_diff and update_diff_log of materialization/     *)
(* mod.rs, on a DashMap from table to TtlCache) and the counter the made-up *)
(* ids come from (GLOBAL_COUNTER and get_write_response of                 *)
(* connection_handler.rs).  Each access to the map locks it for itself;    *)
(* update_diff_log makes three of them for one difference, and other       *)
(* workers run between.                                                    *)
(***************************************************************************)
EXTENDS Integers, Sequences

CONSTANTS
    Workers,       \* worker threads of the connections
    Tables,        \* tables updated
    Existing,      \* tables that have an entry already
    MayUpdate,     \* for each worker, the tables its client updates
    MaxDiffs,      \* bound on the differences of a run
    MaxStatements, \* bound on the statements of one command
    MaxWrites,     \* bound on the commands intercepted in a run
    CounterMod,    \* values of the counter: 256 in the code
    FirstId        \* its first value: 100 in the code

Unsupported == "unsupported"
Other == "other"

ASSUME InterceptionAssumption ==
    /\ MayUpdate \in [Workers -> SUBSET Tables]
    /\ {Unsupported, Other} \cap Tables = {}
    /\ Existing \subseteq Tables
    /\ MaxDiffs \in Nat /\ MaxStatements \in Nat /\ MaxWrites \in Nat
    /\ CounterMod \in Nat \ {0}
    /\ FirstId \in 0..(CounterMod - 1)

\* A statement of a command, to get_diff: an UPDATE of a table; an UPDATE with an
\* assignment that process_assignments does not support; any other statement.
Statements(w) == MayUpdate[w] \cup {Unsupported, Other}

VARIABLES
    present,   \* the DashMap: the tables that have an entry
    log,       \* and each table's TtlCache in its order, empty if it has none
    counter,   \* GLOBAL_COUNTER
    pc,        \* of each worker: "idle", "scan", "check", "create", "record", "respond"
    todo,      \* statements of the worker's command it has not done yet
    insert,    \* of each worker: its command's text starts with "insert "
    recorded,  \* the table of each difference recorded so far (history)
    expired,   \* the differences whose time is over (history)
    ids        \* of each answer: the value taken and the last_insert_id sent (history)

vars == <<present, log, counter, pc, todo, insert, recorded, expired, ids>>

LogTypeOK ==
    /\ present \subseteq Tables
    /\ log \in [Tables -> Seq(DOMAIN recorded)]
    /\ \A t \in Tables \ present : log[t] = <<>>
    /\ recorded \in Seq(Tables) /\ Len(recorded) <= MaxDiffs
    /\ expired \subseteq DOMAIN recorded

WorkerTypeOK ==
    /\ pc \in [Workers -> {"idle", "scan", "check", "create", "record", "respond"}]
    /\ insert \in [Workers -> BOOLEAN]
    /\ todo \in [Workers -> Seq(Tables \cup {Unsupported, Other})]
    /\ \A w \in Workers :
        /\ todo[w] \in Seq(Statements(w)) /\ Len(todo[w]) <= MaxStatements
        /\ pc[w] \in {"idle", "respond"} => todo[w] = <<>>
        /\ pc[w] \in {"check", "create", "record"} => todo[w] # <<>> /\ Head(todo[w]) \in MayUpdate[w]

IdsTypeOK ==
    /\ counter \in 0..(CounterMod - 1)
    /\ ids \in Seq([value : 0..(CounterMod - 1), insert : BOOLEAN,
                    lastInsertId : 0..(CounterMod - 1)])
    /\ Len(ids) <= MaxWrites

TypeOK == LogTypeOK /\ WorkerTypeOK /\ IdsTypeOK

Init ==
    /\ present = Existing
    /\ log = [t \in Tables |-> <<>>]
    /\ counter = FirstId
    /\ pc = [w \in Workers |-> "idle"]
    /\ todo = [w \in Workers |-> <<>>]
    /\ insert = [w \in Workers |-> FALSE]
    /\ recorded = <<>>
    /\ expired = {}
    /\ ids = <<>>
-----------------------------------------------------------------------------
\* is_write_query calls get_diff on the statements of the command, none if it did not
\* parse.  A text that starts with "insert " starts with another statement than an UPDATE.
GetDiff(w) ==
    /\ pc[w] = "idle"
    /\ \E n \in 0..MaxStatements : \E statements \in [1..n -> Statements(w)], b \in BOOLEAN :
        /\ (b /\ n > 0) => statements[1] = Other
        /\ todo' = [todo EXCEPT ![w] = statements]
        /\ insert' = [insert EXCEPT ![w] = b]
    /\ pc' = [pc EXCEPT ![w] = "scan"]
    /\ UNCHANGED <<present, log, counter, recorded, expired, ids>>

AtEnd(w) == todo[w] # <<>> => Head(todo[w]) = Unsupported

\* A faulty form of ScanEnds: an unsupported statement leaves the rest of the command.
KeepsRest(w) ==
    /\ pc[w] = "scan"
    /\ AtEnd(w)
    /\ pc' = [pc EXCEPT ![w] = "respond"]
    /\ UNCHANGED <<present, log, counter, todo, insert, recorded, expired, ids>>

\* get_diff returns at the end of the command or at an unsupported statement: the
\* statements before that one stay recorded.
ScanEnds(w) ==
    /\ pc[w] = "scan"
    /\ AtEnd(w)
    /\ pc' = [pc EXCEPT ![w] = "respond"]
    /\ todo' = [todo EXCEPT ![w] = <<>>]
    /\ UNCHANGED <<present, log, counter, insert, recorded, expired, ids>>

\* The next statement, an UPDATE to record or one to pass over.
Scan(w) ==
    /\ pc[w] = "scan"
    /\ ~AtEnd(w)
    /\ IF Head(todo[w]) = Other
       THEN /\ todo' = [todo EXCEPT ![w] = Tail(@)]
            /\ UNCHANGED pc
       ELSE /\ pc' = [pc EXCEPT ![w] = "check"]
            /\ UNCHANGED todo
    /\ UNCHANGED <<present, log, counter, insert, recorded, expired, ids>>

TableOf(w) == Head(todo[w])

\* Faulty forms of CheckTable: the table is taken to be there; it is always created.
NeverCreates(w) ==
    /\ pc[w] = "check"
    /\ pc' = [pc EXCEPT ![w] = "record"]
    /\ UNCHANGED <<present, log, counter, todo, insert, recorded, expired, ids>>

AlwaysCreates(w) ==
    /\ pc[w] = "check"
    /\ pc' = [pc EXCEPT ![w] = "create"]
    /\ UNCHANGED <<present, log, counter, todo, insert, recorded, expired, ids>>

\* contains_key
CheckTable(w) ==
    /\ pc[w] = "check"
    /\ pc' = [pc EXCEPT ![w] = IF TableOf(w) \in present THEN "record" ELSE "create"]
    /\ UNCHANGED <<present, log, counter, todo, insert, recorded, expired, ids>>

\* insert of an empty TtlCache, whatever is there by now.
CreateTable(w) ==
    /\ pc[w] = "create"
    /\ present' = present \cup {TableOf(w)}
    /\ log' = [log EXCEPT ![TableOf(w)] = <<>>]
    /\ pc' = [pc EXCEPT ![w] = "record"]
    /\ UNCHANGED <<counter, todo, insert, recorded, expired, ids>>

\* Where a difference goes in its table's cache, and faulty forms of that: it becomes
\* the first; it takes the place of all others.
Prepended(cache, diff) == <<diff>> \o cache
Replacing(cache, diff) == <<diff>>
Inserted(cache, diff)  == Append(cache, diff)

\* get_mut and insert under a fresh key.
RecordDiff(w) ==
    /\ pc[w] = "record"
    /\ Len(recorded) < MaxDiffs
    /\ TableOf(w) \in present
    /\ log' = [log EXCEPT ![TableOf(w)] = Inserted(@, Len(recorded) + 1)]
    /\ recorded' = Append(recorded, TableOf(w))
    /\ todo' = [todo EXCEPT ![w] = Tail(@)]
    /\ pc' = [pc EXCEPT ![w] = "scan"]
    /\ UNCHANGED <<present, counter, insert, expired, ids>>

\* Every difference lives as long (DIFF_TTL): the first in the cache is the first to
\* expire.
Expire(t) ==
    /\ log[t] # <<>>
    /\ log' = [log EXCEPT ![t] = Tail(@)]
    /\ expired' = expired \cup {Head(log[t])}
    /\ UNCHANGED <<present, counter, pc, todo, insert, recorded, ids>>

\* A faulty form of AfterFetch: the counter stops at its last value.
Saturates(value) == IF value = CounterMod - 1 THEN value ELSE value + 1

\* fetch_add on a u8 wraps, in any build.
AfterFetch(value) == (value + 1) % CounterMod

\* is_write_query's answer for a text of another kind: intercept_command leaves the
\* command to the server.
PassOn(w) ==
    /\ pc[w] = "respond"
    /\ ~insert[w]
    /\ pc' = [pc EXCEPT ![w] = "idle"]
    /\ UNCHANGED <<present, log, counter, todo, insert, recorded, expired, ids>>

\* get_write_response: every write takes a value, an INSERT reports it.  The worker is
\* back at its client.
Respond(w) ==
    /\ pc[w] = "respond"
    /\ Len(ids) < MaxWrites
    /\ ids' = Append(ids, [value |-> counter, insert |-> insert[w],
                           lastInsertId |-> IF insert[w] THEN counter ELSE 0])
    /\ counter' = AfterFetch(counter)
    /\ pc' = [pc EXCEPT ![w] = "idle"]
    /\ insert' = [insert EXCEPT ![w] = FALSE]
    /\ UNCHANGED <<present, log, todo, recorded, expired>>

Next ==
    \/ \E w \in Workers :
        \/ GetDiff(w) \/ Scan(w) \/ ScanEnds(w)
        \/ CheckTable(w) \/ CreateTable(w) \/ RecordDiff(w)
        \/ PassOn(w) \/ Respond(w)
    \/ \E t \in Tables : Expire(t)

Spec == Init /\ [][Next]_vars
-----------------------------------------------------------------------------
(* Properties.                                                             *)

\* get_mut(table).unwrap() never panics: a worker gets to it only with the table in
\* the map (update_diff_log).
EntryExists == \A w \in Workers : pc[w] = "record" => TableOf(w) \in present

\* A table's differences stand in the order they were recorded in, which is the order
\* override_row applies them in; and each is the table's own.
InRecordingOrder ==
    \A t \in Tables :
        /\ \A i, j \in DOMAIN log[t] : i < j => log[t][i] < log[t][j]
        /\ \A i \in DOMAIN log[t] : recorded[log[t][i]] = t

\* A difference that was recorded is in the log until its time is over
\* (materialization/mod.rs: "Divergence from the state of the original table will be
\* stored as follows").
NoDiffLost ==
    \A d \in DOMAIN recorded :
        d \in expired \/ \E i \in DOMAIN log[recorded[d]] : log[recorded[d]][i] = d

\* Two writes among any CounterMod in a row never share a value, whichever workers they
\* belong to (fetch_add in get_write_response).
ValuesDistinct ==
    \A i, j \in DOMAIN ids : (i < j /\ j - i < CounterMod) => ids[i].value # ids[j].value

\* To the sessions that read it the log is a store that keeps what it is given, in
\* order (update_diff_log).
Store == INSTANCE DiffStore WITH
    Diffs <- 1..MaxDiffs, live <- log

ImplementsDiffStore == Store!Spec
=============================================================================
