------------------------------- MODULE TableRows -------------------------------
(***************************************************************************)
(* The reference for the rewriting of rows: what an SQL server would       *)
(* answer had it executed the UPDATEs, in their order, on the row.         *)
(***************************************************************************)
EXTENDS Evaluator

\* A comparison with NULL is unknown, and so is what it decides.
SqlNot(t) == CASE t = "true" -> "false" [] t = "false" -> "true" [] OTHER -> "unknown"
SqlAnd(s, t) ==
    IF "false" \in {s, t} THEN "false"
    ELSE IF "unknown" \in {s, t} THEN "unknown"
    ELSE "true"
SqlOr(s, t) == SqlNot(SqlAnd(SqlNot(s), SqlNot(t)))
Truth(b) == IF b THEN "true" ELSE "false"

\* A column's or a literal's value; texts compare by their characters.
SqlValue(row, node) ==
    IF node.op = "column" THEN row[node.name]
    ELSE IF node.kind = "null" THEN Null ELSE Some(node.text)

SqlCompare(op, left, right) ==
    IF left = Null \/ right = Null THEN "unknown"
    ELSE CASE op = "="  -> Truth(left[1] = right[1])
           [] op = "<>" -> Truth(left[1] # right[1])
           [] OTHER     -> Truth(Ordered(op, left[1], right[1]))

\* The truth of a condition, given that of those in front of it.
NodeTruth(row, expr, node, truth) ==
    CASE node.op = "and"       -> SqlAnd(truth[node.left], truth[node.right])
      [] node.op = "or"        -> SqlOr(truth[node.left], truth[node.right])
      [] node.op = "nested"    -> truth[node.expr]
      [] node.op = "isNull"    -> Truth(SqlValue(row, expr[node.expr]) = Null)
      [] node.op = "isNotNull" -> Truth(SqlValue(row, expr[node.expr]) # Null)
      [] node.op \in Comparisons ->
            SqlCompare(node.op, SqlValue(row, expr[node.left]), SqlValue(row, expr[node.right]))
      [] OTHER                 -> "operand"

SqlTruth(row, expr) ==
    LET truth[i \in 1..Len(expr)] == NodeTruth(row, expr, expr[i], truth) IN truth[Len(expr)]

\* A WHERE is no expression or one.
Holds(row, where) == \A i \in DOMAIN where : SqlTruth(row, where[i]) = "true"

\* An update of the row's table sets columns to literals where its WHERE holds.
Updated(row, table, update) ==
    IF update.table = table /\ Holds(row, update.where)
    THEN [c \in DOMAIN row |-> IF c \in DOMAIN update.set
                               THEN SqlValue(row, update.set[c]) ELSE row[c]]
    ELSE row

AfterUpdates(row, table, updates) ==
    LET after[i \in 0..Len(updates)] ==
            IF i = 0 THEN row ELSE Updated(after[i - 1], table, updates[i])
    IN  after[Len(updates)]
=============================================================================
