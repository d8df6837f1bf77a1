---------------------------- MODULE MCRowOverride ----------------------------
(* Small instances of RowOverride.                                         *)
EXTENDS RowOverride

A == Leaf(Column("a"))
B == Leaf(Column("b"))
X == <<120>>
Y == <<121>>
Str(text) == Literal("string", text)
Five == Literal("number", <<53>>)

\* A text whose length takes three bytes, and a letter UTF-8 writes in two.
Long  == [i \in 1..251 |-> 120]
Umlaut == <<228>>

\* With the empty text in its first column a row is taken for an OK packet if it is long.
MCValues == {Null, Some(<<>>), Some(X), Some(Y), Some(Long), Some(Umlaut)}

On(table, quoted, set, cond) ==
    [table |-> table, quoted |-> quoted, set |-> set, where |-> cond]
SetB(value) == [c \in {"b"} |-> value]

MCUpdates == {
    On("t", FALSE, SetB(Str(Y)), <<Binary("=", A, Leaf(Str(X)))>>),
    On("t", FALSE, SetB(Str(Umlaut)), <<Binary("<", A, Leaf(Str(Y)))>>),
    On("t", FALSE, SetB(Literal("null", <<>>)), <<Binary("<>", B, Leaf(Str(Y)))>>),
    On("t", FALSE, [c \in {"a", "b"} |-> IF c = "a" THEN Five ELSE Str(Long)], <<>>),
    On("t", FALSE, [c \in {"a"} |-> Str(X)], <<Unary("isNull", B)>>),
    On("t", FALSE, SetB(Str(X)), <<Leaf([op |-> "arithmetic"])>>),
    On("t", TRUE, SetB(Str(X)), <<>>),
    On("s", FALSE, SetB(Str(X)), <<>>) }

Col(table, name) == [name |-> name, table |-> table]

MCColumnLists == {
    <<Col("t", "a"), Col("t", "b")>>, <<Col("t", "b")>>,
    <<Col("t", "a"), Col("t", "a")>>, <<Col("s", "a"), Col("t", "b")>> }

MCWheres == {
    <<>>,
    <<Binary("<>", B, Leaf(Str(Y)))>>,
    <<Binary("or", Unary("nested", Unary("isNotNull", B)), Binary(">=", A, Leaf(Str(X))))>>,
    <<Binary("and", Binary("=", A, Leaf(Str(X))), B)>>,
    <<Leaf([op |-> "other"])>> }

\* The instance of the violation: numbers.
NumberUpdates == {On("t", FALSE, SetB(Five), <<>>), On("t", FALSE, SetB(Str(Y)), <<>>)}
NumberColumns == {<<Col("t", "a"), Col("t", "b")>>}
NumberValues  == {Some(X)}
NoWhere       == {<<>>}
=============================================================================
