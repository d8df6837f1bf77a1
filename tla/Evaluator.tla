------------------------------- MODULE Evaluator -------------------------------
(***************************************************************************)
(* Parse::evaluate of materialization/evaluator.rs: what MocksySQL makes    *)
(* of the WHERE of an UPDATE or a query on one row.                        *)
(*                                                                         *)
(* A row maps the names of its columns to a value: <<>> for NULL, <<t>> for *)
(* the text t, a sequence of code points.  An expression is the sequence   *)
(* of its nodes, each behind its operands, which it names by their places; *)
(* the last node is the root.  A node is a record with its kind in op.     *)
(***************************************************************************)
EXTENDS Integers, Sequences

Null       == <<>>
Some(text) == <<text>>

\* Nodes without operands.
Column(name)        == [op |-> "column", name |-> name]
Literal(kind, text) == [op |-> "value", kind |-> kind, text |-> text]

\* Expressions, of a node and of others; nodes that move keep their operands.
Leaf(node)  == <<node>>
Moved(expr, n) ==
    [i \in DOMAIN expr |->
        [f \in DOMAIN expr[i] |-> IF f \in {"left", "right", "expr"} THEN expr[i][f] + n
                                  ELSE expr[i][f]]]
Binary(op, left, right) ==
    left \o Moved(right, Len(left))
         \o <<[op |-> op, left |-> Len(left), right |-> Len(left) + Len(right)]>>
Unary(op, expr) == expr \o <<[op |-> op, expr |-> Len(expr)]>>

Conjunctions == {"and", "or"}
Comparisons  == {"=", "<>", "<", "<=", ">", ">="}
Tests        == {"isNull", "isNotNull"}

IsLiteral(node) == node.op = "value" /\ node.kind \in {"boolean", "null", "string", "number"}

IsNode(node, place) ==
    \/ node.op \in Conjunctions \cup Comparisons /\ {node.left, node.right} \subseteq 1..(place - 1)
    \/ node.op \in Tests \cup {"nested"} /\ node.expr \in 1..(place - 1)
    \/ node.op \in {"column", "arithmetic", "other"}
    \/ IsLiteral(node)

IsExpression(expr) ==
    /\ Len(expr) \in Nat \ {0} /\ DOMAIN expr = 1..Len(expr)
    /\ \A i \in 1..Len(expr) : IsNode(expr[i], i)

\* What evaluate returns: Ok(Boolean), Ok(String), Err, or nothing, as it panics.
Boolean(b)  == [type |-> "boolean", value |-> b]
Text(value) == [type |-> "text", value |-> value]
Err         == [type |-> "err"]
Panics      == [type |-> "panic"]

Fails(r)    == r.type \in {"err", "panic"}
IsTrue(r)   == r.type = "boolean" /\ r.value
IsFalse(r)  == r.type = "boolean" /\ ~r.value

\* Rust's order of strings is that of their characters.
Before(s, t) ==
    \/ Len(s) < Len(t) /\ s = SubSeq(t, 1, Len(s))
    \/ \E i \in DOMAIN s \cap DOMAIN t :
        s[i] < t[i] /\ \A j \in 1..(i - 1) : s[j] = t[j]

\* EvaluateConjunction: the left side may decide, else the right side does.
Conjunction(op, left, right) ==
    IF Fails(left) THEN left
    ELSE IF op = "and" /\ IsFalse(left) THEN Boolean(FALSE)
    ELSE IF op = "or" /\ IsTrue(left) THEN Boolean(TRUE)
    ELSE IF Fails(right) \/ right.type = "boolean" THEN right
    ELSE Panics

Ordered(op, s, t) ==
    CASE op = "<"  -> Before(s, t)
      [] op = "<=" -> ~Before(t, s)
      [] op = ">"  -> Before(t, s)
      [] op = ">=" -> ~Before(s, t)

\* EvaluateCondition.  NULL equals NULL and differs from every text.
Condition(op, left, right) ==
    LET same == left.type = right.type IN
    IF Fails(left) THEN left
    ELSE IF Fails(right) THEN right
    ELSE CASE op = "="  -> Boolean(IF same THEN left.value = right.value ELSE FALSE)
           [] op = "<>" -> Boolean(IF same THEN left.value # right.value ELSE TRUE)
           [] OTHER     ->
                IF left.type = "text" /\ same
                THEN Boolean(IF left.value = Null \/ right.value = Null THEN FALSE
                             ELSE Ordered(op, left.value[1], right.value[1]))
                ELSE Boolean(FALSE)

Value(node) ==
    CASE node.kind = "boolean"           -> Boolean(node.text = "true")
      [] node.kind = "null"              -> Text(Null)
      [] node.kind \in {"string", "number"} -> Text(Some(node.text))

\* What a node is worth, given what the nodes in front of it are.
NodeValue(row, node, value) ==
    CASE node.op \in Conjunctions -> Conjunction(node.op, value[node.left], value[node.right])
      [] node.op \in Comparisons  -> Condition(node.op, value[node.left], value[node.right])
      [] node.op = "arithmetic"   -> Panics
      [] node.op = "value"        -> Value(node)
      [] node.op = "column"       ->
            IF node.name \in DOMAIN row THEN Text(row[node.name]) ELSE Panics
      [] node.op \in Tests        ->
            LET r == value[node.expr] IN
            IF Fails(r) THEN r
            ELSE IF r.type = "boolean" THEN Boolean(FALSE)
            ELSE Boolean((r.value = Null) = (node.op = "isNull"))
      [] node.op = "nested"       -> value[node.expr]
      [] node.op = "other"        -> Err

Evaluate(row, expr) ==
    LET value[i \in 1..Len(expr)] == NodeValue(row, expr[i], value) IN value[Len(expr)]
=============================================================================
