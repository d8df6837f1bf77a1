------------------------------ MODULE RowOverride ------------------------------
(***************************************************************************)
(* The rewriting of a result set's rows by the differences recorded for its *)
(* table: parse_row and override_row of mysql/accumulator/result_set.rs, on *)
(* the differences get_diff of materialization/mod.rs has left.  One worker *)
(* passes a query's rows on while others record updates and these expire.   *)
(***************************************************************************)
EXTENDS TableRows, WireTypes, FiniteSets

Sets == INSTANCE FiniteSetsExt

CONSTANTS
    Updates,     \* UPDATEs to record: [table, quoted, set, where]
    Wheres,      \* the WHEREs of the queries: <<>> or <<expression>>
    ColumnLists, \* the queries' result columns: sequences of [name, table]
    Values,      \* what the server's columns hold
    MaxUpdates   \* bound on the differences recorded in a run

\* An UPDATE names its table with or without quotes.
Key(table, quoted) == [table |-> table, quoted |-> quoted]

\* A text is part of a packet, whose length takes three bytes.
IsText(text)   == text \in Seq(Byte) /\ Len(text) < 16777216
IsWhere(where) == where = <<>> \/ (where = <<where[1]>> /\ IsExpression(where[1]))

ASSUME RowOverrideAssumption ==
    /\ \A u \in Updates :
        /\ u.quoted \in BOOLEAN /\ IsWhere(u.where)
        /\ \A c \in DOMAIN u.set : IsLiteral(u.set[c]) /\ IsText(u.set[c].text)
    /\ \A w \in Wheres : IsWhere(w)
    /\ \A cols \in ColumnLists : Len(cols) \in Nat \ {0} /\ DOMAIN cols = 1..Len(cols)
    /\ \A v \in Values : v = Null \/ (v = Some(v[1]) /\ IsText(v[1]))
    /\ MaxUpdates \in Nat

VARIABLES
    entries,  \* the tables that have an entry in the difference log, by their keys
    live,     \* the updates whose differences have not expired, the oldest first
    recorded, \* how many there were (history)
    columns,  \* ResponseAccumulator.columns; none if no result set is under way
    where,    \* the WHERE of last_command
    shown     \* the row being handled and what became of it; one or none

vars == <<entries, live, recorded, columns, where, shown>>

TypeOK ==
    /\ entries \subseteq {Key(u.table, q) : u \in Updates, q \in BOOLEAN}
    /\ live \in Seq(Updates) /\ Len(live) <= recorded /\ recorded <= MaxUpdates
    /\ columns \in ColumnLists \cup {<<>>}
    /\ where \in Wheres \cup {<<>>}
    /\ Len(shown) <= 1
    /\ \A i \in DOMAIN shown :
        /\ shown[i].values \in [DOMAIN columns -> Values]
        /\ shown[i].panic \in BOOLEAN /\ shown[i].skip \in BOOLEAN
        /\ \A k \in DOMAIN shown[i].body : shown[i].body[k] \in Byte

Init ==
    /\ entries = {} /\ live = <<>> /\ recorded = 0
    /\ columns = <<>> /\ where = <<>> /\ shown = <<>>
-----------------------------------------------------------------------------
(* Recording.                                                              *)

\* The name of the table is kept as it was written, quotes included.
KeyOf(u) == Key(u.table, u.quoted)

\* update_diff_log; what it does between other workers' steps is in Interception.  The
\* entry is locked while a row is handled.
RecordUpdate ==
    /\ shown = <<>> /\ recorded < MaxUpdates
    /\ \E u \in Updates :
        /\ entries' = entries \cup {KeyOf(u)}
        /\ live' = Append(live, u)
    /\ recorded' = recorded + 1
    /\ UNCHANGED <<columns, where, shown>>

\* All differences live equally long.  The entry of their table stays.
ExpireOldest ==
    /\ shown = <<>> /\ live # <<>>
    /\ live' = Tail(live)
    /\ UNCHANGED <<entries, recorded, columns, where, shown>>

\* process_assignments keeps Value::into_string, which is None for all but texts.
Assigned(literal) == IF literal.kind = "string" THEN Some(literal.text) ELSE Null
-----------------------------------------------------------------------------
(* Rows.                                                                   *)

Names(cols) == {cols[i].name : i \in DOMAIN cols}

EncodeField(value) == IF value = Null THEN <<251>> ELSE StringLenEncode(value[1])

\* Whether the bytes of a text's length are there, and those of the text.
Fits(bytes) ==
    LET header == CASE bytes[1] = 252 -> 3 [] bytes[1] = 253 -> 4
                    [] bytes[1] = 254 -> 9 [] OTHER -> 1
    IN  Len(bytes) >= header /\ Len(bytes) >= header + IntLenDecode(bytes).result

\* A field that is not to be decoded: neither NULL nor a text.
Undecodable == <<<<>>, <<>>>>

\* One pass of the loop: a field more, and what is behind it.
NextField(read) ==
    LET rest  == read.rest
        field == StringLenDecode(rest)
    IN  IF rest = <<>> THEN read
        ELSE IF rest[1] = 251
        THEN [fields |-> Append(read.fields, Null), rest |-> Tail(rest)]
        ELSE IF Fits(rest)
        THEN [fields |-> Append(read.fields, Some(field.result)),
              rest   |-> SubSeq(rest, field.used + 1, Len(rest))]
        ELSE [fields |-> Append(read.fields, Undecodable), rest |-> <<>>]

\* The fields of a row, or those up to the first for which there is no column.
Fields(bytes) ==
    LET read[n \in 0..(Len(columns) + 1)] ==
            IF n = 0 THEN [fields |-> <<>>, rest |-> bytes] ELSE NextField(read[n - 1])
    IN  read[Len(columns) + 1].fields

\* parse_row looks up a column for each field, and panics if it finds none or cannot
\* decode the field.
ParsePanics(fields) ==
    Len(fields) > Len(columns) \/ \E i \in DOMAIN fields : fields[i] = Undecodable

\* The row is a map: of two columns with one name the last one's value stays.
ParseRow(fields) ==
    LET named(n) == {i \in DOMAIN fields : columns[i].name = n} IN
    [n \in {columns[i].name : i \in DOMAIN fields} |-> fields[Sets!Max(named(n))]]

\* The differences a row is checked against: those of the first column's table.
Found == {i \in DOMAIN live : KeyOf(live[i]) = Key(columns[1].table, FALSE)}

\* Those that match it.
Matching(row) ==
    {i \in Found : live[i].where = <<>> \/ IsTrue(Evaluate(row, live[i].where[1]))}

\* A faulty form of Applied: the first of those that match.
FirstApplied(row) == IF Matching(row) = {} THEN <<>> ELSE live[Sets!Min(Matching(row))].set

\* What is put in the row: the assignments of the last difference that matches it.
Applied(row) == IF Matching(row) = {} THEN <<>> ELSE live[Sets!Max(Matching(row))].set

\* The rewritten row: one field for each entry of the map, under the names of the first
\* columns.
Rewritten(row) ==
    LET new     == Applied(row)
        visited == {columns[i].name : i \in 1..Cardinality(DOMAIN row)}
    IN  [n \in DOMAIN row |-> IF n \in visited \cap DOMAIN new THEN Assigned(new[n]) ELSE row[n]]

RowBytes(values) == Seqs!FlattenSeq([i \in DOMAIN values |-> EncodeField(values[i])])

Body(row) == RowBytes([i \in 1..Cardinality(DOMAIN row) |-> row[columns[i].name]])

EvaluatePanics(row) ==
    \/ \E i \in Found :
        live[i].where # <<>> /\ Evaluate(row, live[i].where[1]) = Panics
    \/ where # <<>> /\ Evaluate(Rewritten(row), where[1]) = Panics

\* A faulty form of Skips: the row is judged as it came.
SkipsOriginal(row) == where # <<>> /\ IsFalse(Evaluate(row, where[1]))

\* The query's WHERE is evaluated once more, on the rewritten row.
Skips(row) == where # <<>> /\ IsFalse(Evaluate(Rewritten(row), where[1]))

Unchanged(bytes) == [panic |-> FALSE, body |-> bytes, skip |-> FALSE]
Panicking        == [panic |-> TRUE, body |-> <<>>, skip |-> FALSE]

OverrideRow(bytes) ==
    LET fields == Fields(bytes) IN
    IF ParsePanics(fields) THEN Panicking
    ELSE LET row == ParseRow(fields) IN
         IF EvaluatePanics(row) THEN Panicking
         ELSE [panic |-> FALSE, body |-> Body(Rewritten(row)), skip |-> Skips(row)]
-----------------------------------------------------------------------------
(* A query.                                                                *)

\* A faulty form of Ask: the accumulator is not reset.
AskAgain ==
    /\ shown = <<>>
    /\ \E cols \in ColumnLists : columns' = columns \o cols
    /\ where' \in Wheres
    /\ UNCHANGED <<entries, live, recorded, shown>>

\* The client's next query; its column definitions have come.
Ask ==
    /\ shown = <<>>
    /\ columns' \in ColumnLists
    /\ where' \in Wheres
    /\ UNCHANGED <<entries, live, recorded, shown>>

\* The columns in an expression.
Mentions(expr) == {expr[i].name : i \in {j \in DOMAIN expr : expr[j].op = "column"}}

IsCondition(node) == node.op \in Conjunctions \cup Comparisons \cup Tests \cup {"nested"}

\* Conditions on columns and literals, combined by AND and OR.
Supported(expr) ==
    /\ IsCondition(expr[Len(expr)])
    /\ \A i \in DOMAIN expr : LET node == expr[i] IN
        /\ node.op \in Conjunctions => IsCondition(expr[node.left]) /\ IsCondition(expr[node.right])
        /\ node.op = "nested" => IsCondition(expr[node.expr])
        /\ node.op \in Tests => expr[node.expr].op = "column"
        /\ node.op \in Comparisons =>
               {expr[node.left].op, expr[node.right].op} \subseteq {"column", "value"}

Distinct == Cardinality(Names(columns)) = Len(columns)

\* The column's names with the row's values.
Original(values) ==
    [n \in Names(columns) |-> values[CHOOSE i \in DOMAIN columns : columns[i].name = n]]

\* An expression whose value follows from the columns selected.
Judged(expr) == Supported(expr) /\ Mentions(expr) \subseteq Names(columns)

\* The server sends a row its WHERE holds on, as far as that can be told from the row.
ServerSends(values) ==
    (Distinct /\ \A i \in DOMAIN where : Judged(where[i])) => Holds(Original(values), where)

\* get_packet_type: a row of seven bytes and more whose first text is empty passes for an
\* OK packet, and for none of the other types: it starts with a length or a NULL.
TakenForOk(bytes) == Len(bytes) >= 7 /\ bytes[1] = 0

\* consume on a row.  One that is taken for an OK packet never gets to override_row: its
\* reply is complete.  OkData::from_packet does not panic on it, since in UTF-8 only a
\* length starts a number of several bytes, and enough text follows that.
Handled(values) ==
    LET bytes   == RowBytes(values)
        outcome == IF ~TakenForOk(bytes) /\ Key(columns[1].table, FALSE) \in entries
                   THEN OverrideRow(bytes) ELSE Unchanged(bytes)
    IN  [values |-> values, panic |-> outcome.panic, body |-> outcome.body, skip |-> outcome.skip]

NextRow ==
    /\ columns # <<>> /\ shown = <<>>
    /\ \E values \in [DOMAIN columns -> Values] :
        ServerSends(values) /\ shown' = <<Handled(values)>>
    /\ UNCHANGED <<entries, live, recorded, columns, where>>

\* The row is over, passed on or skipped; and the reply with it, if it was taken for an OK
\* packet.
RowDone ==
    /\ shown # <<>> /\ ~shown[1].panic
    /\ shown' = <<>>
    /\ columns' = IF TakenForOk(RowBytes(shown[1].values)) THEN <<>> ELSE columns
    /\ UNCHANGED <<entries, live, recorded, where>>

Next == RecordUpdate \/ ExpireOldest \/ Ask \/ NextRow \/ RowDone

Spec == Init /\ [][Next]_vars
-----------------------------------------------------------------------------
(* Properties.                                                             *)

IsNumber(node) == node.op = "value" /\ node.kind = "number"

\* What evaluation and SQL agree on: = of two NULLs and <> of one are true in the one and
\* unknown in the other, texts are put in order as texts even if one stands for a number,
\* and a boolean literal is no text.
SameInSql(row, expr) ==
    \A i \in DOMAIN expr :
        LET node  == expr[i]
            left  == SqlValue(row, expr[node.left])
            right == SqlValue(row, expr[node.right])
        IN  /\ node.op = "="  => left # Null \/ right # Null
            /\ node.op = "<>" => left # Null /\ right # Null
            /\ node.op \in Comparisons \ {"=", "<>"} =>
                   ~IsNumber(expr[node.left]) /\ ~IsNumber(expr[node.right])
            /\ node.op = "value" => node.kind # "boolean"

Ascii(value) == value = Null \/ \A i \in DOMAIN value[1] : value[1][i] < 128

\* The live updates of the table, whatever key they are under.
OfTable == {i \in DOMAIN live : live[i].table = columns[1].table}

\* Updates whose merged effect the last one that matches can have: none tests what an
\* earlier one sets, and each sets all that an earlier one does.
Independent ==
    \A i, j \in OfTable :
        i < j => /\ live[j].where # <<>> =>
                        Mentions(live[j].where[1]) \cap DOMAIN live[i].set = {}
                 /\ DOMAIN live[i].set \subseteq DOMAIN live[j].set

\* An update as it reaches the log whole: under its table's name, with texts and NULLs.
Recordable(u) ==
    ~u.quoted /\ \A c \in DOMAIN u.set : u.set[c].kind \in {"string", "null"}

\* The row after the live updates.
Current(values) == AfterUpdates(Original(values), columns[1].table, live)

Simple(values) ==
    /\ Distinct /\ Independent
    /\ ~TakenForOk(RowBytes(values))
    /\ \A i \in DOMAIN columns : columns[i].table = columns[1].table /\ Ascii(values[i])
    /\ \A i \in OfTable :
        /\ Recordable(live[i])
        /\ \A k \in DOMAIN live[i].where :
              Judged(live[i].where[k]) /\ SameInSql(Original(values), live[i].where[k])
    /\ \A i \in DOMAIN where : Judged(where[i]) /\ SameInSql(Current(values), where[i])

\* A row the server sends reaches the client with what an SQL server would hold in it
\* after the live updates, byte for byte, or not at all if the query's WHERE does not hold
\* on that any more; the premise, Simple, names all the code does not do (override_row).
RowsFollowTable ==
    \A i \in DOMAIN shown :
        Simple(shown[i].values) =>
            LET after == Current(shown[i].values) IN
            /\ ~shown[i].panic
            /\ shown[i].body = Body(after)
            /\ shown[i].skip = ~Holds(after, where)

\* A worker panics on a row only for an expression over columns the query does not
\* select, or one that is not made of conditions; whatever the row holds (parse_row,
\* Parse::evaluate).
PanicsOnlyIfUnsupported ==
    \A i \in DOMAIN shown :
        shown[i].panic =>
            \/ \E k \in DOMAIN where : ~Judged(where[k])
            \/ \E u \in Found : \E k \in DOMAIN live[u].where : ~Judged(live[u].where[k])

\* A row that is passed on has a field for each column announced, if their names differ,
\* whatever its texts, its updates and its WHERE hold (StringLenEnc::encode).
FieldsAsAnnounced ==
    \A i \in DOMAIN shown :
        (Distinct /\ ~shown[i].panic) =>
            LET fields == Fields(shown[i].body) IN
            Len(fields) = Len(columns) /\ \A k \in DOMAIN fields : fields[k] # Undecodable

\* A row shows what the last live update that holds on it has set (materialization/mod.rs:
\* "Divergence from the state of the original table will be stored as follows: (Expr,
\* HashMap<column_name, updated_value>)").
UpdatedValuesShown ==
    \A i \in DOMAIN shown :
        LET row  == Original(shown[i].values)
            last == live[Sets!Max(OfTable)]
        IN  (/\ Distinct /\ ~TakenForOk(RowBytes(shown[i].values)) /\ ~shown[i].panic
             /\ OfTable # {} /\ last.where = <<>> /\ ~last.quoted) =>
                \A k \in DOMAIN columns :
                    columns[k].name \in DOMAIN last.set =>
                        Fields(shown[i].body)[k] = SqlValue(row, last.set[columns[k].name])
=============================================================================
