--------------------------- MODULE MCSlotHandles ---------------------------
(* Small schemas on which TLC checks GraphEdit and SlotHandles. *)
EXTENDS SlotHandles

In(id, name, type, many, required, auto) ==
    [id |-> id, name |-> name, type |-> type, many |-> many, required |-> required,
     auto |-> auto]
Out(id, name, type) == [id |-> id, name |-> name, type |-> type]

\* Two outputs of one type.
Source == [layout |-> 1, inputs |-> <<>>, outputs |-> <<Out(1, "a", "int"), Out(2, "b", "int")>>]
\* A One input that matches by name or by type.
Step == [layout |-> 2, inputs |-> <<In(1, "a", "int", FALSE, TRUE, FALSE)>>,
         outputs |-> <<Out(1, "a", "int")>>]
\* The same input as a collecting Many input.
Collector == [layout |-> 3, inputs |-> <<In(1, "a", "int", TRUE, TRUE, TRUE)>>, outputs |-> <<>>]
\* The same slots with another type.
Other == [layout |-> 4, inputs |-> <<In(1, "a", "text", FALSE, TRUE, FALSE)>>,
          outputs |-> <<Out(1, "a", "text")>>]

\* Not a schema a node may have: two outputs with one identity.
Twins == [layout |-> 5, inputs |-> <<>>, outputs |-> <<Out(1, "a", "int"), Out(1, "b", "text")>>]

AllSchemas == {Source, Step, Collector, Other, Twins}

\* Names are interchangeable, but for the empty one.
NameSymmetry == Permutations(Names \ {NoName})

\* Only compilation looks at the active marks; here no node has one.
NoTargets == \A n \in LiveNodes : ~nodes[n].active
=============================================================================
