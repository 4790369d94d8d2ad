------------------------------- MODULE Schema -------------------------------
(***************************************************************************)
(* The declarations of a node (Schema, BoundSchema in src/schema.rs) and   *)
(* the keys a task resolves on them before it runs (src/handles.rs).       *)
(*                                                                         *)
(* A schema is a BoundSchema: a layout identity, which Schema::bind draws  *)
(* afresh and only clones share, and the ordered slots of each direction.  *)
(* A slot has an identity, a name and a value type; an input has also a    *)
(* cardinality (many), a presence (required) and auto_collect (auto).      *)
(***************************************************************************)
EXTENDS Naturals, Sequences, FiniteSets, SequencesExt

NoName == ""

\* validate_inputs and validate_outputs, as far as they agree.
ValidSlots(slots) ==
    \A i, j \in DOMAIN slots :
        /\ slots[i].name # NoName
        /\ slots[i].name = slots[j].name \/ slots[i].id = slots[j].id => i = j

ValidSchema(s) ==
    /\ ValidSlots(s.inputs) /\ ValidSlots(s.outputs)
    /\ \A i \in DOMAIN s.inputs : s.inputs[i].auto => s.inputs[i].many

\* BoundSchema::input and ::output: the key of the slot of that name, none if
\* the schema is invalid, has no such slot, or has it with another type.
KeysOf(s, slots, name, type) ==
    {[layout |-> s.layout, index |-> i, type |-> type] :
        i \in {j \in DOMAIN slots : /\ ValidSchema(s)
                                    /\ slots[j].name = name /\ slots[j].type = type}}

NamesOf(slots) == {slots[i].name : i \in DOMAIN slots}
KeysIssued(s, slots, types) ==
    UNION {KeysOf(s, slots, name, type) : name \in NamesOf(slots), type \in types}
=============================================================================
