----------------------------- MODULE GraphEdit -----------------------------
(***************************************************************************)
(* The declaration graph and its edits (Graph in src/graph.rs).  An edit   *)
(* takes &mut self, so edits do not interleave: what can go wrong is a     *)
(* long sequence of edits that leaves edges, names, external bindings and  *)
(* schemas in disagreement, or an edit that fails half way.                *)
(*                                                                         *)
(* A NodeId or EdgeId is the position of its record: next_node and         *)
(* next_edge start at 1 and are bumped by every push, and a removal leaves *)
(* a hole.  An edit that is refused before it writes is not a step; the    *)
(* two that validate while or after they plan report their result.         *)
(***************************************************************************)
EXTENDS Schema

CONSTANTS Names,     \* node names
          Schemas,   \* the schemas clients declare
          MaxNodes, MaxEdges, MaxGeneration, MaxBindings   \* bounds of the check

VARIABLES nodes,     \* [live, name, schema, generation, active] per NodeId
          names,     \* the name index: a set of <<name, NodeId>>
          edges,     \* [live, source, output, target, input] per EdgeId
          exposed,   \* bindings [node, input, type, required, many], in order
          bindings,  \* number of bindings ever made (next_binding)
          result     \* "ok", or "error" if the last edit failed

declaration == <<nodes, names, edges, exposed, bindings>>
vars == <<declaration, result>>

ASSUME SchemaAssumption ==
    \A s \in Schemas :
        /\ s.inputs \in Seq(ToSet(s.inputs)) /\ s.outputs \in Seq(ToSet(s.outputs))
        /\ \A in \in ToSet(s.inputs) : {in.many, in.required, in.auto} \subseteq BOOLEAN
ASSUME BoundAssumption == MaxNodes \in Nat

LiveNodes == {n \in DOMAIN nodes : nodes[n].live}
LiveEdges == {e \in DOMAIN edges : edges[e].live}
Inputs(n)  == ToSet(nodes[n].schema.inputs)
Outputs(n) == ToSet(nodes[n].schema.outputs)

Init ==
    /\ nodes = <<>> /\ names = {} /\ edges = <<>> /\ exposed = <<>>
    /\ bindings = 0 /\ result = "ok"

Done == result' = "ok"
Gone == [live |-> FALSE]

\* Vec::retain and Iterator::filter: the elements of s that are in S, in order.
Kept(s, S) == FlattenSeq([i \in DOMAIN s |-> IF s[i] \in S THEN <<s[i]>> ELSE <<>>])
BindingsOf(n) == {b \in ToSet(exposed) : b.node = n}

-----------------------------------------------------------------------------
(* Nodes. *)

\* validate_node_name: not empty, and free or already the name of node n.
ValidNodeName(name, n) ==
    /\ name # NoName
    /\ \A p \in names : p[1] = name => p[2] = n

\* Slip: a new node takes the place of a removed one.
AddNodeReusing(name, schema) ==
    /\ ValidNodeName(name, 0) /\ ValidSchema(schema)
    /\ LET n == IF \E k \in DOMAIN nodes : ~nodes[k].live
                THEN CHOOSE k \in DOMAIN nodes : ~nodes[k].live ELSE Len(nodes) + 1
       IN  /\ n <= MaxNodes
           /\ names' = names \cup {<<name, n>>}
           /\ nodes' = [k \in DOMAIN nodes \cup {n} |-> IF k # n THEN nodes[k] ELSE
                           [live |-> TRUE, name |-> name, schema |-> schema,
                            generation |-> 1, active |-> FALSE]]
    /\ Done /\ UNCHANGED <<edges, exposed, bindings>>

AddNode(name, schema) ==
    /\ Len(nodes) < MaxNodes
    /\ ValidNodeName(name, 0) /\ ValidSchema(schema)
    /\ names' = names \cup {<<name, Len(nodes) + 1>>}
    /\ nodes' = Append(nodes, [live |-> TRUE, name |-> name, schema |-> schema,
                               generation |-> 1, active |-> FALSE])
    /\ Done /\ UNCHANGED <<edges, exposed, bindings>>

\* Slip: the edges into the removed node stay.
RemoveNodeSources(n) ==
    /\ edges' = [e \in DOMAIN edges |->
                    IF edges[e].live /\ n = edges[e].source THEN Gone ELSE edges[e]]
    /\ exposed' = Kept(exposed, ToSet(exposed) \ BindingsOf(n))
    /\ names' = {p \in names : p[1] # nodes[n].name}
    /\ nodes' = [nodes EXCEPT ![n] = Gone]
    /\ Done /\ UNCHANGED bindings

RemoveNode(n) ==
    /\ edges' = [e \in DOMAIN edges |->
                    IF edges[e].live /\ n \in {edges[e].source, edges[e].target}
                    THEN Gone ELSE edges[e]]
    /\ exposed' = Kept(exposed, ToSet(exposed) \ BindingsOf(n))
    /\ names' = {p \in names : p[1] # nodes[n].name}
    /\ nodes' = [nodes EXCEPT ![n] = Gone]
    /\ Done /\ UNCHANGED bindings

\* Slip: the old name stays in the index.
RenameNodeKeeping(n, name) ==
    /\ ValidNodeName(name, n)
    /\ names' = names \cup {<<name, n>>}
    /\ nodes' = [nodes EXCEPT ![n].name = name]
    /\ Done /\ UNCHANGED <<edges, exposed, bindings>>

RenameNode(n, name) ==
    /\ ValidNodeName(name, n)
    /\ names' = {p \in names : p[1] # nodes[n].name} \cup {<<name, n>>}
    /\ nodes' = [nodes EXCEPT ![n].name = name]
    /\ Done /\ UNCHANGED <<edges, exposed, bindings>>

SetActive(n, active) ==
    /\ nodes' = [nodes EXCEPT ![n].active = active]
    /\ Done /\ UNCHANGED <<names, edges, exposed, bindings>>

-----------------------------------------------------------------------------
(* Edges. *)

IsExposed(n, slot) == \E b \in ToSet(exposed) : b.node = n /\ b.input = slot
Incoming(n, slot)  == {e \in LiveEdges : edges[e].target = n /\ edges[e].input = slot}
Connection(m, out, n, in) ==
    {e \in Incoming(n, in) : edges[e].source = m /\ edges[e].output = out}

\* validate_connection; excluding is the edge being moved, 0 for none.
ValidConnection(m, out, n, in, excluding) ==
    /\ out.type = in.type
    /\ ~IsExposed(n, in.id)
    /\ Connection(m, out.id, n, in.id) \subseteq {excluding}
    /\ ~in.many => Incoming(n, in.id) \subseteq {excluding}

Edge(m, out, n, in) ==
    [live |-> TRUE, source |-> m, output |-> out, target |-> n, input |-> in]

\* Slots are resolved by name or by a handle of the current schema generation.
Connect(m, out, n, in) ==
    /\ ValidConnection(m, out, n, in, 0)
    /\ Len(edges) < MaxEdges
    /\ edges' = Append(edges, Edge(m, out.id, n, in.id))
    /\ Done /\ UNCHANGED <<nodes, names, exposed, bindings>>

Disconnect(e) ==
    /\ edges' = [edges EXCEPT ![e] = Gone]
    /\ Done /\ UNCHANGED <<nodes, names, exposed, bindings>>

Reconnect(e, m, out) ==
    /\ \E in \in Inputs(edges[e].target) :
          /\ in.id = edges[e].input
          /\ ValidConnection(m, out, edges[e].target, in, e)
    /\ edges' = [edges EXCEPT ![e].source = m, ![e].output = out.id]
    /\ Done /\ UNCHANGED <<nodes, names, exposed, bindings>>

\* The outputs connect_nodes considers for one input of n: for a One input
\* without producer the matches by type and name or else by type, for an
\* auto_collect input every output of the type that is not connected yet.
OfType(m, in) == Kept(nodes[m].schema.outputs, {o \in Outputs(m) : o.type = in.type})
Fresh(m, n, in) ==
    Kept(OfType(m, in), {o \in Outputs(m) : Connection(m, o.id, n, in.id) = {}})

\* Slip: an auto_collect input plans outputs that it already reads.
MatchesConnected(m, n, in) ==
    IF in.many THEN (IF in.auto THEN OfType(m, in) ELSE <<>>)
    ELSE IF Incoming(n, in.id) # {} \/ IsExposed(n, in.id) THEN <<>> ELSE OfType(m, in)

Matches(m, n, in) ==
    LET exact == Kept(OfType(m, in), {o \in Outputs(m) : o.name = in.name})
    IN  CASE ~in.many /\ (Incoming(n, in.id) # {} \/ IsExposed(n, in.id)) -> <<>>
          [] ~in.many /\ Incoming(n, in.id) = {} /\ ~IsExposed(n, in.id) ->
                IF exact # <<>> THEN exact ELSE OfType(m, in)
          [] in.many /\ in.auto -> Fresh(m, n, in)
          [] OTHER -> <<>>

\* Refused before anything is written: an ambiguous One input, or an exposed
\* input that wants to collect.
Plannable(m, n) ==
    \A in \in Inputs(n) :
        /\ ~in.many => Len(Matches(m, n, in)) <= 1
        /\ in.many /\ in.auto => ~IsExposed(n, in.id)

Plan(m, n) ==
    FlattenSeq([i \in DOMAIN nodes[n].schema.inputs |->
        LET in == nodes[n].schema.inputs[i]
        IN  [j \in DOMAIN Matches(m, n, in) |-> <<Matches(m, n, in)[j], in>>]])

\* Each planned edge is validated again as it is pushed; the first one that is
\* refused ends the edit, after the edges before it were pushed.
Conflict(m, n, plan, i) ==
    LET out == plan[i][1]  in == plan[i][2]
    IN  \/ ~ValidConnection(m, out, n, in, 0)
        \/ \E j \in 1..(i - 1) :
              plan[j][2].id = in.id /\ (~in.many \/ plan[j][1].id = out.id)

ConnectNodes(m, n) ==
    /\ Plannable(m, n)
    /\ LET plan   == Plan(m, n)
           bad    == {i \in DOMAIN plan : Conflict(m, n, plan, i)}
           pushed == IF bad = {} THEN Len(plan)
                     ELSE (CHOOSE i \in bad : \A j \in bad : i <= j) - 1
       IN  /\ Len(edges) + pushed <= MaxEdges
           /\ edges' = edges \o [i \in 1..pushed |-> Edge(m, plan[i][1].id, n, plan[i][2].id)]
           /\ result' = IF bad = {} THEN "ok" ELSE "error"
    /\ UNCHANGED <<nodes, names, exposed, bindings>>

\* collect_into: every not yet connected output of the type, of each source in
\* turn, into one Many input.  A repeated source adds nothing.
CollectInto(sources, n, in) ==
    /\ in.many /\ ~IsExposed(n, in.id)
    /\ LET new == FlattenSeq([k \in DOMAIN sources |->
                     IF \E l \in 1..(k - 1) : sources[l] = sources[k] THEN <<>>
                     ELSE [j \in DOMAIN Fresh(sources[k], n, in) |->
                              Edge(sources[k], Fresh(sources[k], n, in)[j].id, n, in.id)]])
       IN  /\ Len(edges) + Len(new) <= MaxEdges
           /\ edges' = edges \o new
    /\ Done /\ UNCHANGED <<nodes, names, exposed, bindings>>

-----------------------------------------------------------------------------
(* External inputs and schema replacement. *)

ExposeInput(n, in) ==
    /\ bindings < MaxBindings
    /\ Incoming(n, in.id) = {} /\ ~IsExposed(n, in.id)
    /\ exposed' = Append(exposed, [node |-> n, input |-> in.id, type |-> in.type,
                                   required |-> in.required, many |-> in.many])
    /\ bindings' = bindings + 1
    /\ Done /\ UNCHANGED <<nodes, names, edges>>

\* An edge survives if its slots on n keep identity and value type.
TypeOf(slots, id) == {s.type : s \in {x \in slots : x.id = id}}
Compatible(old, new, id) == TypeOf(ToSet(old), id) \cap TypeOf(ToSet(new), id) # {}

Retained(e, n, schema) ==
    /\ edges[e].target = n => Compatible(nodes[n].schema.inputs, schema.inputs, edges[e].input)
    /\ edges[e].source = n => Compatible(nodes[n].schema.outputs, schema.outputs, edges[e].output)

\* A binding survives if the new schema has the same input definition.
BindingKept(b, schema) ==
    \E in \in ToSet(schema.inputs) :
        /\ in.id = b.input /\ in.type = b.type
        /\ in.required = b.required /\ in.many = b.many

ReplaceKeeping(n, schema, kept, kept_bindings) ==
    /\ nodes[n].generation < MaxGeneration
    /\ edges' = [e \in DOMAIN edges |-> IF e \in kept THEN edges[e] ELSE Gone]
    /\ exposed' = Kept(exposed, (ToSet(exposed) \ BindingsOf(n)) \cup kept_bindings)
    /\ nodes' = [nodes EXCEPT ![n].schema = schema, ![n].generation = @ + 1]
    /\ Done /\ UNCHANGED <<names, bindings>>

\* Slips: the producers an input keeps are not counted; every binding is kept.
ReplaceSchemaUncounted(n, schema) ==
    ReplaceKeeping(n, schema, {e \in LiveEdges : Retained(e, n, schema)},
                   {b \in ToSet(exposed) : BindingKept(b, schema)})
ReplaceSchemaBound(n, schema) ==
    ReplaceKeeping(n, schema, {e \in LiveEdges : Retained(e, n, schema)}, ToSet(exposed))

\* Fails, before anything is written, if the schema is invalid or a One input
\* would keep two edges.
ReplaceSchema(n, schema) ==
    LET kept == {e \in LiveEdges : Retained(e, n, schema)}
        overflow == \E in \in ToSet(schema.inputs) :
                       ~in.many /\ Cardinality(kept \cap Incoming(n, in.id)) > 1
    IN  IF ~ValidSchema(schema) \/ overflow THEN result' = "error" /\ UNCHANGED declaration
        ELSE /\ nodes[n].generation < MaxGeneration
             /\ edges' = [e \in DOMAIN edges |-> IF e \in kept THEN edges[e] ELSE Gone]
             /\ exposed' = Kept(exposed, (ToSet(exposed) \ BindingsOf(n))
                                           \cup {b \in BindingsOf(n) : BindingKept(b, schema)})
             /\ nodes' = [nodes EXCEPT ![n].schema = schema,
                                       ![n].generation = @ + 1]
             /\ Done /\ UNCHANGED <<names, bindings>>

-----------------------------------------------------------------------------

Next ==
    \/ \E name \in Names, schema \in Schemas : AddNode(name, schema)
    \/ \E n \in LiveNodes :
          \/ RemoveNode(n)
          \/ \E name \in Names : RenameNode(n, name)
          \/ \E active \in BOOLEAN : SetActive(n, active)
          \/ \E schema \in Schemas : ReplaceSchema(n, schema)
          \/ \E in \in Inputs(n) : ExposeInput(n, in)
          \/ \E m \in LiveNodes : ConnectNodes(m, n)
          \/ \E m \in LiveNodes : \E out \in Outputs(m), in \in Inputs(n) : Connect(m, out, n, in)
          \/ \E sources \in SeqOf(LiveNodes, MaxNodes), in \in Inputs(n) :
                CollectInto(sources, n, in)
    \/ \E e \in LiveEdges :
          \/ Disconnect(e)
          \/ \E m \in LiveNodes : \E out \in Outputs(m) : Reconnect(e, m, out)

Spec == Init /\ [][Next]_vars

-----------------------------------------------------------------------------
(* Safety. *)

\* The name index holds each live node under its current name and nothing
\* else; each has a name that is not empty, and no two share one.
NamesExact ==
    /\ names = {<<nodes[n].name, n>> : n \in LiveNodes}
    /\ \A n \in LiveNodes : nodes[n].name # NoName
    /\ \A m, n \in LiveNodes : nodes[m].name = nodes[n].name => m = n

\* Every live edge joins live nodes, through slots that exist in their current
\* schemas and have the same value type.
EdgesTyped ==
    \A e \in LiveEdges :
        /\ {edges[e].source, edges[e].target} \subseteq LiveNodes
        /\ \E out \in Outputs(edges[e].source), in \in Inputs(edges[e].target) :
              out.id = edges[e].output /\ in.id = edges[e].input /\ out.type = in.type

\* No output feeds the same input twice, and a One input has one producer at
\* most, whichever edit made the edges or changed the schema under them.
ProducersUnique ==
    /\ \A d, e \in LiveEdges : edges[d] = edges[e] => d = e
    /\ \A n \in LiveNodes : \A in \in Inputs(n) :
          ~in.many => Cardinality(Incoming(n, in.id)) <= 1

\* An exposed input has one binding and no producer, and its binding still
\* describes the input of the current schema.
BindingsSound ==
    /\ \A b \in ToSet(exposed) :
          /\ b.node \in LiveNodes
          /\ Incoming(b.node, b.input) = {}
          /\ BindingKept(b, nodes[b.node].schema)
    /\ \A i, j \in DOMAIN exposed :
          exposed[i].node = exposed[j].node /\ exposed[i].input = exposed[j].input => i = j

\* An edit that fails changes nothing, however far it got.
FailureIsAtomicStep == result' = "error" => UNCHANGED declaration
FailureIsAtomic == [][FailureIsAtomicStep]_vars

=============================================================================
