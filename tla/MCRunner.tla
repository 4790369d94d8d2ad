------------------------------ MODULE MCRunner ------------------------------
(* A small plan and the keys of its caller, on which TLC checks Runner. *)
EXTENDS Runner

\* Node 1 has a Required One input, node 2 a Required Many input.
First  == [input |-> <<1, 1>>, binding |-> 2, type |-> "int", required |-> TRUE, many |-> FALSE]
Second == [input |-> <<2, 1>>, binding |-> 3, type |-> "int", required |-> TRUE, many |-> TRUE]
TwoInputs == {First, Second}
OneInput  == {First}

Key(node, binding) == [input |-> <<node, 1>>, binding |-> binding, type |-> "int"]

\* The keys of the two inputs, and one for the first input that went stale when
\* the input was exposed again.
PlanKeys == {Key(1, 2), Key(2, 3), Key(1, 1)}
\* The key of an input, and one of a node of another graph (node 9).
ForeignKeys == {Key(1, 2), Key(9, 2)}
=============================================================================
