----------------------------- MODULE RunInputs -----------------------------
(***************************************************************************)
(* The values a caller supplies for the exposed inputs of one run:         *)
(* RunInputs::insert and ::extend fill a bag, validate_run_inputs_into     *)
(* checks it against the bindings that a compiled plan froze               *)
(* (src/runtime.rs).                                                       *)
(*                                                                         *)
(* A key names an input (node and slot) and the binding it was exposed     *)
(* under.  Bindings are numbered per graph: an input that was exposed      *)
(* again has a new number, inputs of two graphs may have the same one.     *)
(***************************************************************************)
EXTENDS Naturals, Sequences, FiniteSets, SequencesExt

CONSTANTS Bound,   \* inputs the plan binds: [input, binding, type, required, many]
          Keys     \* keys the caller holds: [input, binding, type]

ASSUME BindingAssumption ==
    \A b, c \in Bound : b.input = c.input \/ b.binding = c.binding => b = c

\* insert and extend differ in the shape; a supply under a binding that the
\* bag already holds is refused.
Taken(bag, key) == \E i \in DOMAIN bag : bag[i].binding = key.binding
Entry(key, shape, values) ==
    [input |-> key.input, binding |-> key.binding, type |-> key.type,
     shape |-> shape, values |-> values]

\* Slip: the binding of the key is not looked at.
BindsSlot(e) == {b \in Bound : b.input = e.input}

\* The bound input that an entry is for: at most one.
Binds(e) == {b \in Bound : b.input = e.input /\ b.binding = e.binding}

ShapeFits(e, b) ==
    /\ e.shape = (IF b.many THEN "Many" ELSE "One")
    /\ ~b.many => Len(e.values) = 1

EntryError(e) ==
    IF Binds(e) = {} THEN "UnexpectedRunInput"
    ELSE IF \E b \in Binds(e) : ~ShapeFits(e, b) THEN "RunInputCardinality"
    ELSE IF e.values # <<>> /\ \E b \in Binds(e) : e.type # b.type THEN "RunInputTypeMismatch"
    ELSE "none"

\* An empty collection supplies nothing.
Supplied(bag, b) ==
    \E i \in DOMAIN bag :
        bag[i].input[1] = b.input[1] /\ bag[i].binding = b.binding /\ bag[i].values # <<>>

\* The first error the validation of the bag meets, "none" if it passes.
StartError(bag) ==
    LET wrong == {i \in DOMAIN bag : EntryError(bag[i]) # "none"}
    IN  IF wrong # {} THEN EntryError(bag[CHOOSE i \in wrong : \A j \in wrong : i <= j])
        ELSE IF \E b \in Bound : b.required /\ ~Supplied(bag, b) THEN "MissingRunInput"
        ELSE "none"

\* The values moved into storage, per bound input, once the bag passed.
Moved(bag, b) ==
    FlattenSeq([i \in DOMAIN bag |-> IF b \in Binds(bag[i]) THEN bag[i].values ELSE <<>>])
=============================================================================
