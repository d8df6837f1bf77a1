-------------------------- MODULE InterceptionProofs --------------------------
(***************************************************************************)
(* Proofs about Interception, for every number of workers, tables,         *)
(* differences and values of the counter.                                  *)
(***************************************************************************)
EXTENDS Interception, TLAPS, SequenceTheorems

USE InterceptionAssumption

\* The table a worker is about to record for.
LEMMA TableKnown ==
    ASSUME WorkerTypeOK, NEW w \in Workers, pc[w] \in {"check", "create", "record"}
    PROVE  TableOf(w) \in Tables /\ TableOf(w) \in MayUpdate[w]
BY DEF WorkerTypeOK, TableOf

\* What is left of a command once its first statement is done.
LEMMA RestKnown ==
    ASSUME WorkerTypeOK, NEW w \in Workers, todo[w] # <<>>
    PROVE  /\ Head(todo[w]) \in Statements(w)
           /\ Tail(todo[w]) \in Seq(Statements(w))
           /\ Tail(todo[w]) \in Seq(Tables \cup {Unsupported, Other})
           /\ Len(Tail(todo[w])) <= MaxStatements
<1>1. /\ todo[w] \in Seq(Statements(w))
      /\ todo[w] \in Seq(Tables \cup {Unsupported, Other})
      /\ Len(todo[w]) <= MaxStatements
  BY DEF WorkerTypeOK
<1>2. Len(Tail(todo[w])) = Len(todo[w]) - 1 /\ Len(todo[w]) \in Nat
  BY <1>1, HeadTailProperties
<1> QED BY <1>1, <1>2, HeadTailProperties

LEMMA WorkerStep == WorkerTypeOK /\ [Next]_vars => WorkerTypeOK'
<1> SUFFICES ASSUME WorkerTypeOK, [Next]_vars PROVE WorkerTypeOK'
  OBVIOUS
<1>1. ASSUME NEW w \in Workers, GetDiff(w) PROVE WorkerTypeOK'
  <2>1. PICK n \in 0..MaxStatements : \E statements \in [1..n -> Statements(w)] :
            todo' = [todo EXCEPT ![w] = statements]
    BY <1>1 DEF GetDiff
  <2>2. PICK statements \in [1..n -> Statements(w)] : todo' = [todo EXCEPT ![w] = statements]
    BY <2>1
  <2>3. statements \in Seq(Statements(w)) /\ Len(statements) = n
    OBVIOUS
  <2>4. statements \in Seq(Tables \cup {Unsupported, Other})
    BY <2>3 DEF Statements
  <2>5. pc' = [pc EXCEPT ![w] = "scan"] /\ \E b \in BOOLEAN : insert' = [insert EXCEPT ![w] = b]
    BY <1>1 DEF GetDiff
  <2> QED BY <2>2, <2>3, <2>4, <2>5 DEF WorkerTypeOK
<1>2. ASSUME NEW w \in Workers, Scan(w) PROVE WorkerTypeOK'
  <2>1. todo[w] # <<>> /\ Head(todo[w]) # Unsupported /\ pc[w] = "scan"
    BY <1>2 DEF Scan, AtEnd
  <2>2. CASE Head(todo[w]) = Other
    BY <1>2, <2>1, <2>2, RestKnown DEF Scan, WorkerTypeOK
  <2>3. CASE Head(todo[w]) # Other
    <3>1. Head(todo[w]) \in MayUpdate[w]
      BY <2>1, <2>3, RestKnown DEF Statements
    <3> QED BY <1>2, <2>1, <2>3, <3>1 DEF Scan, WorkerTypeOK
  <2> QED BY <2>2, <2>3
<1>3. ASSUME NEW w \in Workers, ScanEnds(w) PROVE WorkerTypeOK'
  BY <1>3 DEF ScanEnds, WorkerTypeOK
<1>4. ASSUME NEW w \in Workers, CheckTable(w) PROVE WorkerTypeOK'
  BY <1>4 DEF CheckTable, WorkerTypeOK
<1>5. ASSUME NEW w \in Workers, CreateTable(w) PROVE WorkerTypeOK'
  BY <1>5 DEF CreateTable, WorkerTypeOK
<1>6. ASSUME NEW w \in Workers, RecordDiff(w) PROVE WorkerTypeOK'
  <2>1. todo[w] # <<>> /\ pc[w] = "record"
    BY <1>6 DEF RecordDiff, WorkerTypeOK
  <2> QED BY <1>6, <2>1, RestKnown DEF RecordDiff, WorkerTypeOK
<1>7. ASSUME NEW w \in Workers, PassOn(w) PROVE WorkerTypeOK'
  BY <1>7 DEF PassOn, WorkerTypeOK
<1>8. ASSUME NEW w \in Workers, Respond(w) PROVE WorkerTypeOK'
  BY <1>8 DEF Respond, WorkerTypeOK
<1>9. ASSUME NEW t \in Tables, Expire(t) PROVE WorkerTypeOK'
  BY <1>9 DEF Expire, WorkerTypeOK
<1>10. CASE UNCHANGED vars
  BY <1>10 DEF vars, WorkerTypeOK
<1> QED BY <1>1, <1>2, <1>3, <1>4, <1>5, <1>6, <1>7, <1>8, <1>9, <1>10 DEF Next

LEMMA LogStep == LogTypeOK /\ WorkerTypeOK /\ [Next]_vars => LogTypeOK'
<1> SUFFICES ASSUME LogTypeOK, WorkerTypeOK, [Next]_vars PROVE LogTypeOK'
  OBVIOUS
<1>1. ASSUME NEW w \in Workers, CreateTable(w) PROVE LogTypeOK'
  BY <1>1, TableKnown DEF CreateTable, LogTypeOK
<1>2. ASSUME NEW w \in Workers, RecordDiff(w) PROVE LogTypeOK'
  <2> DEFINE T == TableOf(w)
             d == Len(recorded) + 1
  <2>1. T \in Tables
    BY <1>2, TableKnown DEF RecordDiff
  <2>2. /\ recorded' = Append(recorded, T)
        /\ log' = [log EXCEPT ![T] = Append(log[T], d)]
        /\ T \in present /\ Len(recorded) < MaxDiffs
        /\ present' = present /\ expired' = expired
    BY <1>2 DEF RecordDiff, Inserted
  <2>3. /\ recorded' \in Seq(Tables) /\ Len(recorded') = d
        /\ DOMAIN recorded = 1..Len(recorded) /\ DOMAIN recorded' = 1..d
        /\ Len(recorded) \in Nat
    BY <2>1, <2>2 DEF LogTypeOK
  <2>4. \A t \in Tables : log[t] \in Seq(DOMAIN recorded')
    BY <2>3 DEF LogTypeOK
  <2>5. Append(log[T], d) \in Seq(DOMAIN recorded')
    BY <2>1, <2>3, <2>4, AppendProperties
  <2> QED BY <2>1, <2>2, <2>3, <2>4, <2>5 DEF LogTypeOK
<1>3. ASSUME NEW t \in Tables, Expire(t) PROVE LogTypeOK'
  <2>1. log[t] \in Seq(DOMAIN recorded) /\ log[t] # <<>>
    BY <1>3 DEF Expire, LogTypeOK
  <2>2. Tail(log[t]) \in Seq(DOMAIN recorded) /\ Head(log[t]) \in DOMAIN recorded
    BY <2>1, HeadTailProperties
  <2> QED BY <1>3, <2>1, <2>2 DEF Expire, LogTypeOK
<1>4. ASSUME NEW w \in Workers,
             GetDiff(w) \/ Scan(w) \/ ScanEnds(w) \/ CheckTable(w) \/ PassOn(w) \/ Respond(w)
      PROVE  LogTypeOK'
  BY <1>4 DEF GetDiff, Scan, ScanEnds, CheckTable, PassOn, Respond, LogTypeOK
<1>5. CASE UNCHANGED vars
  BY <1>5 DEF vars, LogTypeOK
<1> QED BY <1>1, <1>2, <1>3, <1>4, <1>5 DEF Next

\* The counter stays below CounterMod: it goes up by one, or back to 0.
LEMMA NextValue ==
    ASSUME NEW v \in 0..(CounterMod - 1)
    PROVE  /\ AfterFetch(v) \in 0..(CounterMod - 1)
           /\ AfterFetch(v) = IF v = CounterMod - 1 THEN 0 ELSE v + 1
<1>1. CASE v = CounterMod - 1
  BY <1>1 DEF AfterFetch
<1>2. CASE v # CounterMod - 1
  BY <1>2 DEF AfterFetch
<1> QED BY <1>1, <1>2

LEMMA IdsStep == IdsTypeOK /\ WorkerTypeOK /\ [Next]_vars => IdsTypeOK'
<1> SUFFICES ASSUME IdsTypeOK, WorkerTypeOK, [Next]_vars PROVE IdsTypeOK'
  OBVIOUS
<1>1. ASSUME NEW w \in Workers, Respond(w) PROVE IdsTypeOK'
  <2> DEFINE answer == [value |-> counter, insert |-> insert[w],
                        lastInsertId |-> IF insert[w] THEN counter ELSE 0]
  <2>1. counter \in 0..(CounterMod - 1) /\ insert[w] \in BOOLEAN
    BY DEF IdsTypeOK, WorkerTypeOK
  <2>2. answer \in [value : 0..(CounterMod - 1), insert : BOOLEAN,
                    lastInsertId : 0..(CounterMod - 1)]
    BY <2>1
  <2>3. ids' = Append(ids, answer) /\ counter' = AfterFetch(counter) /\ Len(ids) < MaxWrites
    BY <1>1 DEF Respond
  <2> QED BY <2>1, <2>2, <2>3, NextValue DEF IdsTypeOK
<1>2. CASE UNCHANGED <<counter, ids>>
  BY <1>2 DEF IdsTypeOK
<1> QED
  BY <1>1, <1>2 DEF Next, GetDiff, Scan, ScanEnds, CheckTable, CreateTable, RecordDiff,
                    PassOn, Expire, vars

LEMMA TypeInit == Init => TypeOK
BY DEF Init, TypeOK, LogTypeOK, WorkerTypeOK, IdsTypeOK, Statements

\* Every variable keeps its type: a worker at the shared map has a table its client may
\* update, and the log holds differences that were recorded (update_diff_log).
THEOREM TypeCorrect == Spec => []TypeOK
<1>1. TypeOK /\ [Next]_vars => TypeOK'
  BY WorkerStep, LogStep, IdsStep DEF TypeOK
<1> QED BY <1>1, TypeInit, PTL DEF Spec
-----------------------------------------------------------------------------
\* What the log and the workers at it have in common, whoever creates tables.
LEMMA EntryStep == TypeOK /\ EntryExists /\ [Next]_vars => EntryExists'
<1> SUFFICES ASSUME TypeOK, EntryExists, [Next]_vars PROVE EntryExists'
  OBVIOUS
<1> USE DEF TypeOK
<1>1. ASSUME NEW w \in Workers, CheckTable(w) PROVE EntryExists'
  BY <1>1 DEF CheckTable, EntryExists, TableOf, WorkerTypeOK
<1>2. ASSUME NEW w \in Workers, CreateTable(w) PROVE EntryExists'
  BY <1>2 DEF CreateTable, EntryExists, TableOf, WorkerTypeOK
<1>3. ASSUME NEW w \in Workers, GetDiff(w) PROVE EntryExists'
  BY <1>3 DEF GetDiff, EntryExists, TableOf, WorkerTypeOK
<1>4. ASSUME NEW w \in Workers, Scan(w) PROVE EntryExists'
  BY <1>4 DEF Scan, EntryExists, TableOf, WorkerTypeOK
<1>5. ASSUME NEW w \in Workers, ScanEnds(w) PROVE EntryExists'
  BY <1>5 DEF ScanEnds, EntryExists, TableOf, WorkerTypeOK
<1>6. ASSUME NEW w \in Workers, RecordDiff(w) PROVE EntryExists'
  BY <1>6 DEF RecordDiff, EntryExists, TableOf, WorkerTypeOK
<1>7. ASSUME NEW w \in Workers, PassOn(w) \/ Respond(w) PROVE EntryExists'
  BY <1>7 DEF PassOn, Respond, EntryExists, TableOf, WorkerTypeOK
<1>8. ASSUME NEW t \in Tables, Expire(t) PROVE EntryExists'
  BY <1>8 DEF Expire, EntryExists, TableOf
<1>9. CASE UNCHANGED vars
  BY <1>9 DEF vars, EntryExists, TableOf
<1> QED BY <1>1, <1>2, <1>3, <1>4, <1>5, <1>6, <1>7, <1>8, <1>9 DEF Next

\* A worker never gets to the entry of a table that has none (get_mut(..).unwrap() of
\* update_diff_log): entries are created before they are used and never removed.
THEOREM EntryFound == Spec => []EntryExists
<1>1. Init => EntryExists
  BY DEF Init, EntryExists
<1> QED BY <1>1, EntryStep, TypeCorrect, PTL DEF Spec

LEMMA OrderStep == TypeOK /\ InRecordingOrder /\ [Next]_vars => InRecordingOrder'
<1> SUFFICES ASSUME TypeOK, InRecordingOrder, [Next]_vars PROVE InRecordingOrder'
  OBVIOUS
<1>0. \A t \in Tables : log[t] \in Seq(DOMAIN recorded)
  BY DEF TypeOK, LogTypeOK
<1>1. ASSUME NEW w \in Workers, CreateTable(w) PROVE InRecordingOrder'
  BY <1>1 DEF CreateTable, InRecordingOrder, TypeOK, LogTypeOK
<1>2. ASSUME NEW w \in Workers, RecordDiff(w) PROVE InRecordingOrder'
  <2> DEFINE T == TableOf(w)
             d == Len(recorded) + 1
  <2>1. /\ recorded' = Append(recorded, T)
        /\ log' = [log EXCEPT ![T] = Append(log[T], d)]
    BY <1>2 DEF RecordDiff, Inserted
  <2>2. /\ recorded \in Seq(Tables) /\ DOMAIN recorded = 1..Len(recorded) /\ Len(recorded) \in Nat
        /\ log \in [Tables -> Seq(DOMAIN recorded)] /\ T \in Tables
    BY <1>2, TableKnown DEF TypeOK, LogTypeOK, RecordDiff
  <2>3. \A e \in DOMAIN recorded : recorded'[e] = recorded[e]
    BY <2>1, <2>2, AppendProperties
  <2>4. recorded'[d] = T
    BY <2>1, <2>2, AppendProperties
  <2>5. ASSUME NEW t \in Tables, t # T
        PROVE  /\ \A i, j \in DOMAIN log'[t] : i < j => log'[t][i] < log'[t][j]
               /\ \A i \in DOMAIN log'[t] : recorded'[log'[t][i]] = t
    <3>1. log'[t] = log[t] /\ \A i \in DOMAIN log[t] : log[t][i] \in DOMAIN recorded
      BY <1>0, <2>1, <2>2, <2>5
    <3> QED BY <2>3, <3>1 DEF InRecordingOrder
  <2>6. /\ \A i, j \in DOMAIN log'[T] : i < j => log'[T][i] < log'[T][j]
        /\ \A i \in DOMAIN log'[T] : recorded'[log'[T][i]] = T
    <3> DEFINE old == log[T]
    <3>1. /\ old \in Seq(DOMAIN recorded) /\ log'[T] = Append(old, d)
          /\ DOMAIN old = 1..Len(old) /\ Len(old) \in Nat
      BY <1>0, <2>1, <2>2
    <3>2. /\ DOMAIN log'[T] = 1..(Len(old) + 1)
          /\ log'[T][Len(old) + 1] = d
          /\ \A i \in 1..Len(old) : log'[T][i] = old[i]
      BY <3>1, AppendProperties
    <3>3. \A i \in 1..Len(old) : old[i] \in DOMAIN recorded /\ old[i] < d
      BY <2>2, <3>1
    <3>4. /\ \A i, j \in 1..Len(old) : i < j => old[i] < old[j]
          /\ \A i \in 1..Len(old) : recorded[old[i]] = T
      BY <2>2, <3>1 DEF InRecordingOrder
    <3>5. \A i \in 1..(Len(old) + 1) : i \in 1..Len(old) \/ i = Len(old) + 1
      BY <3>1
    <3>6. ASSUME NEW i \in DOMAIN log'[T], NEW j \in DOMAIN log'[T], i < j
          PROVE  log'[T][i] < log'[T][j]
      <4>1. i \in 1..Len(old)
        BY <3>1, <3>2, <3>6
      <4> QED BY <3>2, <3>3, <3>4, <3>5, <3>6, <4>1
    <3>7. \A i \in DOMAIN log'[T] : recorded'[log'[T][i]] = T
      BY <2>3, <2>4, <3>2, <3>3, <3>4, <3>5
    <3> QED BY <3>6, <3>7
  <2> QED BY <2>5, <2>6 DEF InRecordingOrder
<1>3. ASSUME NEW u \in Tables, Expire(u) PROVE InRecordingOrder'
  <2>1. /\ log' = [log EXCEPT ![u] = Tail(log[u])] /\ recorded' = recorded
        /\ log[u] # <<>> /\ log \in [Tables -> Seq(DOMAIN recorded)]
    BY <1>3 DEF Expire, TypeOK, LogTypeOK
  <2>2. /\ Len(log[u]) \in Nat /\ DOMAIN log[u] = 1..Len(log[u])
        /\ DOMAIN log'[u] = 1..(Len(log[u]) - 1)
        /\ \A i \in DOMAIN log'[u] : log'[u][i] = log[u][i + 1]
    BY <1>0, <2>1, HeadTailProperties
  <2>3. ASSUME NEW t \in Tables, t # u
        PROVE  log'[t] = log[t]
    BY <2>1, <2>3
  <2>4. /\ \A i, j \in DOMAIN log'[u] : i < j => log'[u][i] < log'[u][j]
        /\ \A i \in DOMAIN log'[u] : recorded'[log'[u][i]] = u
    <3>1. \A i \in DOMAIN log'[u] : i + 1 \in DOMAIN log[u] /\ i \in Nat
      BY <2>2
    <3>2. /\ \A i, j \in DOMAIN log[u] : i < j => log[u][i] < log[u][j]
          /\ \A i \in DOMAIN log[u] : recorded[log[u][i]] = u
      BY DEF InRecordingOrder
    <3>3. \A i \in DOMAIN log'[u] : recorded'[log'[u][i]] = u
      BY <2>1, <2>2, <3>1, <3>2
    <3>4. ASSUME NEW i \in DOMAIN log'[u], NEW j \in DOMAIN log'[u], i < j
          PROVE  log'[u][i] < log'[u][j]
      <4>1. /\ i + 1 \in DOMAIN log[u] /\ j + 1 \in DOMAIN log[u] /\ i + 1 < j + 1
            /\ log'[u][i] = log[u][i + 1] /\ log'[u][j] = log[u][j + 1]
        BY <2>2, <3>1, <3>4
      <4> QED BY <3>2, <4>1, Zenon
    <3> QED BY <3>3, <3>4
  <2> QED BY <2>1, <2>3, <2>4 DEF InRecordingOrder
<1>4. CASE UNCHANGED <<log, recorded>>
  BY <1>4 DEF InRecordingOrder
<1> QED
  BY <1>1, <1>2, <1>3, <1>4 DEF Next, GetDiff, Scan, ScanEnds, CheckTable, PassOn, Respond, vars

\* The differences of a table stand in the order in which they were recorded
\* (update_diff_log), which override_row relies on.
THEOREM RecordingOrder == Spec => []InRecordingOrder
<1>1. Init => InRecordingOrder
  BY DEF Init, InRecordingOrder
<1> QED BY <1>1, OrderStep, TypeCorrect, PTL DEF Spec
-----------------------------------------------------------------------------
(* The values of the counter.                                              *)

\* The value the i-th write took; the one behind the last is still in the counter.
Value(i) == IF i = Len(ids) + 1 THEN counter ELSE ids[i].value

\* From one write to a later one, less than a round away, the value goes up by their
\* distance, or by that less a round.
InRound ==
    \A i, j \in 1..(Len(ids) + 1) :
        (i <= j /\ j - i < CounterMod) =>
            Value(j) = Value(i) + (j - i) \/ Value(j) = Value(i) + (j - i) - CounterMod

LEMMA ValueType ==
    ASSUME IdsTypeOK, NEW i \in 1..(Len(ids) + 1)
    PROVE  Value(i) \in 0..(CounterMod - 1) /\ Len(ids) \in Nat
<1>1. /\ Len(ids) \in Nat /\ counter \in 0..(CounterMod - 1)
      /\ \A k \in 1..Len(ids) : ids[k].value \in 0..(CounterMod - 1)
  <2> DEFINE A == [value : 0..(CounterMod - 1), insert : BOOLEAN,
                   lastInsertId : 0..(CounterMod - 1)]
  <2>1. ids \in Seq(A) /\ counter \in 0..(CounterMod - 1)
    BY DEF IdsTypeOK
  <2>2. \A a \in A : a.value \in 0..(CounterMod - 1)
    OBVIOUS
  <2> HIDE DEF A
  <2>3. \A k \in 1..Len(ids) : ids[k] \in A
    BY <2>1
  <2> QED BY <2>1, <2>2, <2>3
<1>2. CASE i = Len(ids) + 1
  BY <1>1, <1>2 DEF Value
<1>3. CASE i # Len(ids) + 1
  <2>1. i \in 1..Len(ids)
    BY <1>1, <1>3
  <2> QED BY <1>1, <1>3, <2>1 DEF Value
<1> QED BY <1>2, <1>3, <1>1

LEMMA RoundStep == TypeOK /\ InRound /\ [Next]_vars => InRound'
<1> SUFFICES ASSUME TypeOK, InRound, [Next]_vars PROVE InRound'
  OBVIOUS
<1>0. IdsTypeOK /\ IdsTypeOK'
  BY IdsStep DEF TypeOK
<1>1. ASSUME NEW w \in Workers, Respond(w) PROVE InRound'
  <2>0. PICK n \in Nat \ {0} : n = Len(ids) + 1
    BY <1>0 DEF IdsTypeOK
  <2>1. /\ n \in Nat /\ Len(ids') = n
        /\ \A i \in 1..Len(ids) : ids'[i] = ids[i]
        /\ ids'[n].value = counter
        /\ counter' = AfterFetch(counter)
    <3> DEFINE answer == [value |-> counter, insert |-> insert[w],
                          lastInsertId |-> IF insert[w] THEN counter ELSE 0]
    <3>1. ids' = Append(ids, answer) /\ counter' = AfterFetch(counter)
      BY <1>1 DEF Respond
    <3>2. ids \in Seq([value : 0..(CounterMod - 1), insert : BOOLEAN,
                       lastInsertId : 0..(CounterMod - 1)])
      BY <1>0 DEF IdsTypeOK
    <3> HIDE DEF answer
    <3>3. Len(ids') = n /\ ids'[n] = answer /\ n \in Nat
      BY <2>0, <3>1, <3>2
    <3>4. \A i \in 1..Len(ids) : ids'[i] = ids[i]
      BY <3>1, <3>2
    <3> QED BY <3>1, <3>3, <3>4 DEF answer
  <2>2. ASSUME NEW i \in 1..n PROVE Value(i)' = Value(i)
    <3>1. CASE i = n
      BY <2>0, <2>1, <3>1 DEF Value
    <3>2. CASE i # n
      <4>1. i \in 1..Len(ids) /\ i # Len(ids) + 1 /\ i # Len(ids') + 1
        BY <2>0, <2>1, <3>2
      <4> QED BY <2>1, <4>1 DEF Value
    <3> QED BY <3>1, <3>2
  <2>3. Value(n + 1)' = AfterFetch(Value(n))
    BY <2>0, <2>1 DEF Value
  <2>4. \A i \in 1..n : Value(i) \in 0..(CounterMod - 1)
    BY <1>0, <2>0, ValueType
  <2>5. Value(n + 1)' = IF Value(n) = CounterMod - 1 THEN 0 ELSE Value(n) + 1
    <3>1. Value(n) \in 0..(CounterMod - 1)
      BY <2>0, <2>4
    <3> QED BY <2>3, <3>1, NextValue
  <2>6. ASSUME NEW i \in 1..(n + 1), NEW j \in 1..(n + 1), i <= j, j - i < CounterMod
        PROVE  Value(j)' = Value(i)' + (j - i) \/ Value(j)' = Value(i)' + (j - i) - CounterMod
    <3>1. CASE j <= n
      <4>1. i \in 1..n /\ j \in 1..n
        BY <2>1, <2>6, <3>1
      <4>2. Value(j) = Value(i) + (j - i) \/ Value(j) = Value(i) + (j - i) - CounterMod
        BY <2>0, <2>6, <4>1 DEF InRound
      <4>3. Value(i)' = Value(i) /\ Value(j)' = Value(j)
        BY <2>2, <4>1
      <4> QED BY <4>2, <4>3
    <3>2. CASE j = n + 1 /\ i <= n
      <4>1. i \in 1..n /\ n \in 1..n /\ i <= n /\ n - i < CounterMod
        BY <2>1, <2>6, <3>2
      <4>2. Value(n) = Value(i) + (n - i) \/ Value(n) = Value(i) + (n - i) - CounterMod
        BY <2>0, <4>1 DEF InRound
      <4>3. Value(i) \in 0..(CounterMod - 1) /\ Value(n) \in 0..(CounterMod - 1)
        BY <2>4, <4>1
      <4>4. Value(i)' = Value(i)
        BY <2>2, <4>1
      <4> QED BY <2>1, <2>5, <2>6, <3>2, <4>1, <4>2, <4>3, <4>4
    <3>3. CASE i = n + 1
      <4>1. j = i
        BY <2>1, <2>6, <3>3
      <4>2. Value(i)' = counter' /\ counter' \in Int
        BY <1>0, <2>1, <3>3 DEF Value, IdsTypeOK
      <4> QED BY <2>1, <4>1, <4>2
    <3> QED BY <2>1, <2>6, <3>1, <3>2, <3>3
  <2> QED BY <2>0, <2>1, <2>6 DEF InRound
<1>2. CASE UNCHANGED <<counter, ids>>
  BY <1>2 DEF InRound, Value
<1> QED
  BY <1>1, <1>2 DEF Next, GetDiff, Scan, ScanEnds, CheckTable, CreateTable, RecordDiff,
                    PassOn, Expire, vars

LEMMA RoundDistinct == TypeOK /\ InRound => ValuesDistinct
<1> SUFFICES ASSUME TypeOK, InRound,
                    NEW i \in DOMAIN ids, NEW j \in DOMAIN ids, i < j, j - i < CounterMod
             PROVE  ids[i].value # ids[j].value
  BY DEF ValuesDistinct
<1>1. IdsTypeOK /\ DOMAIN ids = 1..Len(ids) /\ Len(ids) \in Nat
  BY DEF TypeOK, IdsTypeOK
<1>2. Value(i) = ids[i].value /\ Value(j) = ids[j].value
  BY <1>1 DEF Value
<1>3. Value(j) = Value(i) + (j - i) \/ Value(j) = Value(i) + (j - i) - CounterMod
  BY <1>1 DEF InRound
<1>4. Value(i) \in 0..(CounterMod - 1) /\ Value(j) \in 0..(CounterMod - 1)
  BY <1>1, ValueType
<1> QED BY <1>1, <1>2, <1>3, <1>4

\* No two of any CounterMod writes in a row share a value, for any number of workers and
\* of values of the counter (fetch_add in get_write_response).
THEOREM DistinctValues == Spec => []ValuesDistinct
<1>1. Init => InRound
  BY DEF Init, InRound, Value
<1> QED BY <1>1, RoundStep, RoundDistinct, TypeCorrect, PTL DEF Spec
-----------------------------------------------------------------------------
(* Nothing is lost, if each new table has one creator.                     *)

OneCreatorPerTable ==
    \A t \in Tables \ Existing, v, w \in Workers :
        t \in MayUpdate[v] /\ t \in MayUpdate[w] => v = w

\* Then a table that a worker is about to create is not there.
CreatesNew ==
    /\ Existing \subseteq present
    /\ \A w \in Workers : pc[w] = "create" => TableOf(w) \notin present

LEMMA NewStep ==
    ASSUME OneCreatorPerTable
    PROVE  TypeOK /\ CreatesNew /\ [Next]_vars => CreatesNew'
<1> SUFFICES ASSUME TypeOK, CreatesNew, [Next]_vars PROVE CreatesNew'
  OBVIOUS
<1>0. WorkerTypeOK
  BY DEF TypeOK
<1>1. ASSUME NEW w \in Workers, CheckTable(w) PROVE CreatesNew'
  BY <1>0, <1>1 DEF CheckTable, CreatesNew, TableOf, WorkerTypeOK
<1>2. ASSUME NEW w \in Workers, CreateTable(w) PROVE CreatesNew'
  <2>1. /\ pc[w] = "create" /\ pc' = [pc EXCEPT ![w] = "record"]
        /\ present' = present \cup {TableOf(w)} /\ todo' = todo
    BY <1>2 DEF CreateTable
  <2>2. ASSUME NEW v \in Workers, pc'[v] = "create" PROVE TableOf(v)' \notin present'
    <3>1. v # w /\ pc[v] = "create"
      BY <1>0, <2>1, <2>2 DEF WorkerTypeOK
    <3>2. /\ TableOf(v) \in Tables /\ TableOf(v) \in MayUpdate[v]
          /\ TableOf(w) \in MayUpdate[w] /\ TableOf(v) \notin present
      BY <1>0, <2>1, <3>1, TableKnown DEF CreatesNew
    <3>3. TableOf(v) # TableOf(w)
      BY <3>1, <3>2 DEF OneCreatorPerTable, CreatesNew
    <3> QED BY <2>1, <3>2, <3>3 DEF TableOf
  <2> QED BY <2>1, <2>2 DEF CreatesNew
<1>3. ASSUME NEW w \in Workers, GetDiff(w) PROVE CreatesNew'
  BY <1>0, <1>3 DEF GetDiff, CreatesNew, TableOf, WorkerTypeOK
<1>4. ASSUME NEW w \in Workers, Scan(w) PROVE CreatesNew'
  BY <1>0, <1>4 DEF Scan, CreatesNew, TableOf, WorkerTypeOK
<1>5. ASSUME NEW w \in Workers, ScanEnds(w) PROVE CreatesNew'
  BY <1>0, <1>5 DEF ScanEnds, CreatesNew, TableOf, WorkerTypeOK
<1>6. ASSUME NEW w \in Workers, RecordDiff(w) PROVE CreatesNew'
  BY <1>0, <1>6 DEF RecordDiff, CreatesNew, TableOf, WorkerTypeOK
<1>7. ASSUME NEW w \in Workers, PassOn(w) \/ Respond(w) PROVE CreatesNew'
  BY <1>0, <1>7 DEF PassOn, Respond, CreatesNew, TableOf, WorkerTypeOK
<1>8. ASSUME NEW t \in Tables, Expire(t) PROVE CreatesNew'
  BY <1>8 DEF Expire, CreatesNew, TableOf
<1>9. CASE UNCHANGED vars
  BY <1>9 DEF vars, CreatesNew, TableOf
<1> QED BY <1>1, <1>2, <1>3, <1>4, <1>5, <1>6, <1>7, <1>8, <1>9 DEF Next

LEMMA KeptStep ==
    TypeOK /\ CreatesNew /\ NoDiffLost /\ [Next]_vars => NoDiffLost'
<1> SUFFICES ASSUME TypeOK, CreatesNew, NoDiffLost, [Next]_vars PROVE NoDiffLost'
  OBVIOUS
<1>0. /\ recorded \in Seq(Tables) /\ DOMAIN recorded = 1..Len(recorded) /\ Len(recorded) \in Nat
      /\ log \in [Tables -> Seq(DOMAIN recorded)] /\ WorkerTypeOK
      /\ \A t \in Tables \ present : log[t] = <<>>
  BY DEF TypeOK, LogTypeOK
<1>1. ASSUME NEW w \in Workers, CreateTable(w) PROVE NoDiffLost'
  <2>1. TableOf(w) \in Tables \ present
    BY <1>0, <1>1, TableKnown DEF CreateTable, CreatesNew
  <2>2. log' = log
    BY <1>0, <1>1, <2>1 DEF CreateTable
  <2> QED BY <1>1, <2>2 DEF CreateTable, NoDiffLost
<1>2. ASSUME NEW w \in Workers, RecordDiff(w) PROVE NoDiffLost'
  <2> DEFINE T == TableOf(w)
  <2>0. PICK d \in Nat : d = Len(recorded) + 1
    BY <1>0
  <2>1. /\ T \in Tables /\ expired' = expired
        /\ recorded' = Append(recorded, T)
        /\ log' = [log EXCEPT ![T] = Append(log[T], d)]
    BY <1>0, <1>2, <2>0, TableKnown DEF RecordDiff, Inserted
  <2> HIDE DEF T
  <2>2. /\ DOMAIN recorded' = 1..d /\ recorded'[d] = T
        /\ \A e \in DOMAIN recorded : recorded'[e] = recorded[e] /\ recorded[e] \in Tables
    BY <1>0, <2>0, <2>1
  <2>3. \A t \in Tables : log[t] \in Seq(DOMAIN recorded) /\ Len(log[t]) \in Nat
    BY <1>0
  <2>4. /\ Len(log[T]) + 1 \in DOMAIN log'[T]
        /\ log'[T][Len(log[T]) + 1] = d
    BY <1>0, <2>1, <2>3
  <2>5. ASSUME NEW t \in Tables, NEW i \in DOMAIN log[t]
        PROVE  i \in DOMAIN log'[t] /\ log'[t][i] = log[t][i]
    BY <1>0, <2>1, <2>3
  <2>6. ASSUME NEW e \in DOMAIN recorded'
        PROVE  e \in expired' \/ \E i \in DOMAIN log'[recorded'[e]] : log'[recorded'[e]][i] = e
    <3>1. CASE e = d
      BY <2>2, <2>4, <3>1
    <3>2. CASE e # d
      <4>1. e \in DOMAIN recorded
        BY <1>0, <2>0, <2>2, <3>2
      <4>2. recorded'[e] = recorded[e] /\ recorded[e] \in Tables
        BY <2>2, <4>1
      <4>3. e \in expired \/ \E i \in DOMAIN log[recorded[e]] : log[recorded[e]][i] = e
        BY <4>1 DEF NoDiffLost
      <4>4. CASE e \in expired
        BY <2>1, <4>4
      <4>5. CASE \E i \in DOMAIN log[recorded[e]] : log[recorded[e]][i] = e
        BY <2>5, <4>2, <4>5
      <4> QED BY <4>3, <4>4, <4>5
    <3> QED BY <3>1, <3>2
  <2> QED BY <2>6 DEF NoDiffLost
<1>3. ASSUME NEW u \in Tables, Expire(u) PROVE NoDiffLost'
  <2>1. /\ log' = [log EXCEPT ![u] = Tail(log[u])] /\ recorded' = recorded
        /\ log[u] # <<>> /\ expired' = expired \cup {Head(log[u])}
    BY <1>3 DEF Expire
  <2>2. /\ log[u] \in Seq(DOMAIN recorded) /\ Len(log[u]) \in Nat
        /\ DOMAIN log[u] = 1..Len(log[u]) /\ Head(log[u]) = log[u][1]
        /\ DOMAIN log'[u] = 1..(Len(log[u]) - 1)
        /\ \A i \in DOMAIN log'[u] : log'[u][i] = log[u][i + 1]
    BY <1>0, <2>1, HeadTailProperties
  <2>3. ASSUME NEW e \in DOMAIN recorded
        PROVE  e \in expired' \/ \E i \in DOMAIN log'[recorded[e]] : log'[recorded[e]][i] = e
    <3>0. recorded[e] \in Tables
      BY <1>0
    <3>1. CASE e \in expired
      BY <2>1, <3>1
    <3>2. CASE e \notin expired /\ recorded[e] # u
      <4>1. log'[recorded[e]] = log[recorded[e]]
        BY <1>0, <2>1, <3>0, <3>2
      <4> QED BY <3>2, <4>1 DEF NoDiffLost
    <3>3. CASE e \notin expired /\ recorded[e] = u
      <4>1. PICK i \in DOMAIN log[u] : log[u][i] = e
        BY <3>3 DEF NoDiffLost
      <4>2. CASE i = 1
        BY <2>1, <2>2, <4>1, <4>2
      <4>3. CASE i # 1
        <5>1. i - 1 \in DOMAIN log'[u] /\ (i - 1) + 1 = i
          BY <2>2, <4>3
        <5>2. log'[u][i - 1] = e
          BY <2>2, <4>1, <5>1
        <5> QED BY <3>3, <5>1, <5>2
      <4> QED BY <4>2, <4>3
    <3> QED BY <3>1, <3>2, <3>3
  <2> QED BY <2>1, <2>3 DEF NoDiffLost
<1>4. CASE UNCHANGED <<log, recorded, expired>>
  BY <1>4 DEF NoDiffLost
<1> QED
  BY <1>1, <1>2, <1>3, <1>4 DEF Next, GetDiff, Scan, ScanEnds, CheckTable, PassOn, Respond, vars

LEMMA NewInit == Init => CreatesNew /\ NoDiffLost
BY DEF Init, CreatesNew, NoDiffLost

\* A recorded difference is in the log until its time is over, for any number of workers
\* and tables, as long as no two workers make the first update of one table: the race of
\* update_diff_log on a new table is the only way to lose one.
THEOREM NothingLost ==
    ASSUME OneCreatorPerTable
    PROVE  Spec => []NoDiffLost
<1>1. Init => CreatesNew /\ NoDiffLost
  BY NewInit
<1>2. TypeOK /\ CreatesNew /\ [Next]_vars => CreatesNew'
  BY NewStep
<1>3. TypeOK /\ CreatesNew /\ NoDiffLost /\ [Next]_vars => NoDiffLost'
  BY KeptStep
<1> QED BY <1>1, <1>2, <1>3, TypeCorrect, PTL DEF Spec
-----------------------------------------------------------------------------
(* Refinement.                                                             *)

LEMMA StoreStep ==
    TypeOK /\ CreatesNew /\ [Next]_vars => [Store!Next]_Store!svars
<1> SUFFICES ASSUME TypeOK, CreatesNew, [Next]_vars PROVE [Store!Next]_Store!svars
  OBVIOUS
<1> USE DEF Store!Next, Store!svars
<1>0. /\ recorded \in Seq(Tables) /\ DOMAIN recorded = 1..Len(recorded) /\ Len(recorded) \in Nat
      /\ log \in [Tables -> Seq(DOMAIN recorded)] /\ WorkerTypeOK
      /\ \A t \in Tables \ present : log[t] = <<>>
  BY DEF TypeOK, LogTypeOK
<1>1. ASSUME NEW w \in Workers, CreateTable(w) PROVE UNCHANGED <<log, expired>>
  <2>1. TableOf(w) \in Tables \ present
    BY <1>0, <1>1, TableKnown DEF CreateTable, CreatesNew
  <2> QED BY <1>0, <1>1, <2>1 DEF CreateTable
<1>2. ASSUME NEW w \in Workers, RecordDiff(w) PROVE Store!Record
  <2>1. TableOf(w) \in Tables /\ Len(recorded) + 1 \in 1..MaxDiffs
    BY <1>0, <1>2, TableKnown DEF RecordDiff
  <2> QED BY <1>2, <2>1 DEF RecordDiff, Inserted, Store!Record
<1>3. ASSUME NEW t \in Tables, Expire(t) PROVE Store!Expire
  BY <1>3 DEF Expire, Store!Expire
<1>4. ASSUME NEW w \in Workers,
             GetDiff(w) \/ Scan(w) \/ ScanEnds(w) \/ CheckTable(w) \/ PassOn(w) \/ Respond(w)
      PROVE  UNCHANGED <<log, expired>>
  BY <1>4 DEF GetDiff, Scan, ScanEnds, CheckTable, PassOn, Respond
<1>5. CASE UNCHANGED vars
  BY <1>5 DEF vars
<1> QED BY <1>1, <1>2, <1>3, <1>4, <1>5 DEF Next

\* With one creator per table the workers' three accesses to the map are as good as one:
\* the log implements a store that keeps what it is given, in order.
THEOREM Refinement ==
    ASSUME OneCreatorPerTable
    PROVE  Spec => ImplementsDiffStore
<1>1. Init => Store!Init
  BY DEF Init, Store!Init
<1>2. Init => CreatesNew
  BY NewInit
<1>3. TypeOK /\ CreatesNew /\ [Next]_vars => CreatesNew'
  BY NewStep
<1> QED
  BY <1>1, <1>2, <1>3, StoreStep, TypeCorrect, PTL DEF Spec, ImplementsDiffStore, Store!Spec
=============================================================================
