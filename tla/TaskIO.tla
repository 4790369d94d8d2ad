------------------------------- MODULE TaskIO -------------------------------
(***************************************************************************)
(* What a task exchanges with the run: the bag of outputs it returns and   *)
(* how it is validated (NodeOutputs in src/value.rs, validate_outputs in   *)
(* src/runtime.rs), the snapshot of inputs it reads and the accessors that *)
(* read it (NodeInputs in src/value.rs).                                   *)
(*                                                                         *)
(* A value is a record with its type; an address is a name, or a layout    *)
(* and an index taken from a key (layout 0 stands for "by name").          *)
(***************************************************************************)
EXTENDS Schema

Named(name) == [layout |-> 0, index |-> 0, name |-> name]
Keyed(key)  == [layout |-> key.layout, index |-> key.index, name |-> NoName]

NoValue == [type |-> "none"]
Rejected == [ok |-> FALSE, values |-> <<>>]

-----------------------------------------------------------------------------
(* Outputs. *)

\* Slip: a key of any layout is good for the output at its index.
AddressedByIndex(schema, address) ==
    {k \in DOMAIN schema.outputs :
        IF address.layout = 0 THEN schema.outputs[k].name = address.name
        ELSE k = address.index}

\* The output that an address names, if any.
Addressed(schema, address) ==
    {k \in DOMAIN schema.outputs :
        IF address.layout = 0 THEN schema.outputs[k].name = address.name
        ELSE address.layout = schema.layout /\ k = address.index}

\* One entry of the bag is resolved: addressed to an output of the type of its
\* value, which no earlier entry supplied.
Place(schema, resolved, entry) ==
    IF resolved.ok /\ \E k \in Addressed(schema, entry.address) :
          resolved.values[k] = NoValue /\ schema.outputs[k].type = entry.value.type
    THEN [resolved EXCEPT !.values = [k \in DOMAIN @ |->
             IF k \in Addressed(schema, entry.address) THEN entry.value ELSE @[k]]]
    ELSE Rejected

\* What is resolved after each entry of the bag.
Placed(schema, bag) ==
    LET after[p \in 0..Len(bag)] ==
            IF p = 0 THEN [ok |-> TRUE, values |-> [k \in DOMAIN schema.outputs |-> NoValue]]
            ELSE Place(schema, after[p - 1], bag[p])
    IN  after

\* validate_outputs: the values in the order of the declarations, or a refusal.
ValidateOutputs(schema, bag) ==
    LET all == Placed(schema, bag)[Len(bag)]
    IN  IF all.ok /\ \E k \in DOMAIN schema.outputs : all.values[k] = NoValue
        THEN Rejected ELSE all

-----------------------------------------------------------------------------
(* Inputs. *)

\* NodeInputs: all values in one sequence, and the range of each input in it.
Extended(snapshot, group) ==
    LET before == Len(snapshot.values)
    IN  [values |-> snapshot.values \o group,
         ranges |-> Append(snapshot.ranges, <<before + 1, before + Len(group)>>)]
Extensions(groups) ==
    LET upto[k \in 0..Len(groups)] == IF k = 0 THEN [values |-> <<>>, ranges |-> <<>>]
                                      ELSE Extended(upto[k - 1], groups[k])
    IN  upto
Snapshot(groups) == Extensions(groups)[Len(groups)]

Slice(snapshot, i) ==
    SubSeq(snapshot.values, snapshot.ranges[i][1], snapshot.ranges[i][2])

\* named_index and key_index.
InputAt(schema, address) ==
    {i \in DOMAIN schema.inputs :
        IF address.layout = 0 THEN schema.inputs[i].name = address.name
        ELSE address.layout = schema.layout /\ i = address.index}

\* The accessors are made for one shape each.
Accessors == {"required", "optional", "many"}
MadeFor(accessor, in) ==
    IF accessor = "many" THEN in.many ELSE ~in.many /\ in.required = (accessor = "required")

\* required, optional, many and their keyed forms, for a value type.
Read(schema, snapshot, accessor, address, type) ==
    LET good == {i \in InputAt(schema, address) :
                    /\ schema.inputs[i].type = type /\ MadeFor(accessor, schema.inputs[i])
                    /\ accessor # "many" => Len(Slice(snapshot, i)) <= 1
                    /\ accessor = "required" => Slice(snapshot, i) # <<>>
                    /\ \A v \in ToSet(Slice(snapshot, i)) : v.type = type}
    IN  IF good = {} THEN Rejected
        ELSE [ok |-> TRUE, values |-> Slice(snapshot, CHOOSE i \in good : TRUE)]
=============================================================================
