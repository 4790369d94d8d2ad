---------------------------- MODULE Graph_proof ----------------------------
(***************************************************************************)
(* Proofs about the declaration graph, for any schemas, names and types    *)
(* and any number of edits: what every edit keeps, what the handles mean   *)
(* that its clients hold, and what compile makes of it.                    *)
(***************************************************************************)
EXTENDS SlotHandles, Compile, Flatten_proof, FiniteSetTheorems, FunctionTheorems

LEMMA KeptFacts ==
    ASSUME NEW T, NEW s \in Seq(T), NEW S
    PROVE  /\ Kept(s, S) \in Seq(T)
           /\ ToSet(Kept(s, S)) = ToSet(s) \cap S
           /\ IsInjective(s) => IsInjective(Kept(s, S))
<1> DEFINE parts == [i \in DOMAIN s |-> IF s[i] \in S THEN <<s[i]>> ELSE <<>>]
<1>1. DOMAIN s = 1..Len(s) /\ Len(s) \in Nat /\ \A i \in DOMAIN s : s[i] \in T
  BY LenProperties, ElementOfSeq
<1>2. DOMAIN parts = 1..Len(s)
  BY <1>1
<1>3. ASSUME NEW i \in DOMAIN s
      PROVE  /\ parts[i] \in Seq(T) /\ ToSet(parts[i]) = {s[i]} \cap S
             /\ IsInjective(parts[i])
  <2>1. CASE s[i] \in S
    <3>1. parts[i] = <<s[i]>> /\ s[i] \in T /\ DOMAIN <<s[i]>> = {1}
      BY <1>1, <2>1
    <3>2. ToSet(parts[i]) = {s[i]}
      BY <3>1 DEF ToSet
    <3>. QED BY <2>1, <3>1, <3>2 DEF IsInjective
  <2>2. CASE s[i] \notin S
    <3>1. parts[i] = <<>> /\ DOMAIN parts[i] = {}
      BY <2>2
    <3>2. ToSet(parts[i]) = {}
      BY <3>1 DEF ToSet
    <3>. QED BY <2>2, <3>1, <3>2 DEF IsInjective
  <2>. QED BY <2>1, <2>2
<1>4. parts \in Seq(Seq(T))
  <2>1. parts \in [1..Len(s) -> Seq(T)]
    BY <1>1, <1>3
  <2> HIDE DEF parts
  <2>. QED BY <1>1, <2>1
<1>5. Kept(s, S) = FlattenSeq(parts)
  BY DEF Kept
<1> HIDE DEF parts
<1>6. FlattenSeq(parts) \in Seq(T)
  BY <1>4, FlattenType
<1>7. ToSet(FlattenSeq(parts)) = UNION {ToSet(parts[i]) : i \in DOMAIN parts}
  BY <1>4, FlattenElements
<1>8. UNION {ToSet(parts[i]) : i \in DOMAIN parts} = ToSet(s) \cap S
  BY <1>1, <1>2, <1>3 DEF ToSet
<1>9. ASSUME IsInjective(s) PROVE IsInjective(FlattenSeq(parts))
  <2>1. \A i \in DOMAIN parts : IsInjective(parts[i])
    BY <1>1, <1>2, <1>3
  <2>2. \A i, j \in DOMAIN parts : i # j => ToSet(parts[i]) \cap ToSet(parts[j]) = {}
    BY <1>1, <1>2, <1>3, <1>9 DEF IsInjective
  <2>. QED BY <1>4, <2>1, <2>2, FlattenInjective
<1>. QED BY <1>5, <1>6, <1>7, <1>8, <1>9

-----------------------------------------------------------------------------
(* The records of the declaration. *)

ValidSchemas == {s \in Schemas : ValidSchema(s)}
Slots   == UNION {ToSet(s.inputs) \cup ToSet(s.outputs) : s \in Schemas}
SlotIds == {s.id : s \in Slots}

LiveNode == [live : {TRUE}, name : Names, schema : ValidSchemas, generation : Nat,
             active : BOOLEAN]
LiveEdge == [live : {TRUE}, source : Nat, output : SlotIds, target : Nat, input : SlotIds]
Binding  == [node : Nat, input : SlotIds, type : {s.type : s \in Slots},
             required : BOOLEAN, many : BOOLEAN]

RecordsTyped ==
    /\ nodes \in Seq(LiveNode \cup {Gone})
    /\ edges \in Seq(LiveEdge \cup {Gone})
    /\ exposed \in Seq(Binding)
    /\ result \in {"ok", "error"}

EditInv == RecordsTyped /\ NamesExact /\ EdgesTyped /\ ProducersUnique /\ BindingsSound

\* The slots of a valid schema differ in identity and in name.
LEMMA SchemaFacts ==
    ASSUME NEW s \in ValidSchemas
    PROVE  /\ s.inputs \in Seq(ToSet(s.inputs)) /\ s.outputs \in Seq(ToSet(s.outputs))
           /\ IsInjective(s.inputs) /\ IsInjective(s.outputs)
           /\ \A a, b \in ToSet(s.inputs) : a.id = b.id => a = b
           /\ \A a, b \in ToSet(s.outputs) : a.id = b.id => a = b
           /\ \A in \in ToSet(s.inputs) :
                 {in.many, in.required, in.auto} \subseteq BOOLEAN /\ in \in Slots
           /\ \A out \in ToSet(s.outputs) : out \in Slots
<1>1. s \in Schemas /\ ValidSlots(s.inputs) /\ ValidSlots(s.outputs)
  BY DEF ValidSchemas, ValidSchema
<1>2. ASSUME NEW slots, ValidSlots(slots)
      PROVE  IsInjective(slots) /\ \A a, b \in ToSet(slots) : a.id = b.id => a = b
  BY <1>2 DEF ValidSlots, IsInjective, ToSet
<1>3. ToSet(s.inputs) \subseteq Slots /\ ToSet(s.outputs) \subseteq Slots
  BY <1>1 DEF Slots
<1>. QED BY <1>1, <1>2, <1>3, SchemaAssumption

LEMMA NodeFacts ==
    ASSUME RecordsTyped
    PROVE  /\ Len(nodes) \in Nat /\ DOMAIN nodes = 1..Len(nodes)
           /\ LiveNodes \subseteq 1..Len(nodes)
           /\ \A n \in LiveNodes : nodes[n] \in LiveNode
           /\ \A n \in LiveNodes : nodes[n].schema \in ValidSchemas
           /\ \A n \in DOMAIN nodes : n \notin LiveNodes => nodes[n] = Gone
<1>1. nodes \in Seq(LiveNode \cup {Gone})
  BY DEF RecordsTyped
<1>2. /\ Len(nodes) \in Nat /\ DOMAIN nodes = 1..Len(nodes)
      /\ \A n \in DOMAIN nodes : nodes[n] \in LiveNode \cup {Gone}
  BY <1>1, LenProperties, ElementOfSeq
<1>3. ASSUME NEW n \in LiveNodes
      PROVE  nodes[n] \in LiveNode /\ nodes[n].schema \in ValidSchemas
  <2>1. nodes[n] \in LiveNode \cup {Gone} /\ nodes[n].live
    BY <1>2 DEF LiveNodes
  <2>2. ~Gone.live
    BY DEF Gone
  <2>3. nodes[n] \in LiveNode
    BY <2>1, <2>2
  <2>. QED BY <2>3 DEF LiveNode
<1>4. ASSUME NEW n \in DOMAIN nodes, n \notin LiveNodes PROVE nodes[n] = Gone
  BY <1>2, <1>4 DEF LiveNodes, LiveNode
<1>. QED BY <1>2, <1>3, <1>4 DEF LiveNodes

LEMMA EdgeFacts ==
    ASSUME RecordsTyped
    PROVE  /\ Len(edges) \in Nat /\ DOMAIN edges = 1..Len(edges)
           /\ LiveEdges \subseteq 1..Len(edges) /\ 0 \notin LiveEdges
           /\ IsFiniteSet(LiveEdges)
           /\ \A e \in LiveEdges : edges[e] \in LiveEdge
           /\ \A e \in DOMAIN edges : e \notin LiveEdges => edges[e] = Gone
<1>1. edges \in Seq(LiveEdge \cup {Gone})
  BY DEF RecordsTyped
<1>2. /\ Len(edges) \in Nat /\ DOMAIN edges = 1..Len(edges)
      /\ \A e \in DOMAIN edges : edges[e] \in LiveEdge \cup {Gone}
  BY <1>1, LenProperties, ElementOfSeq
<1>3. ASSUME NEW e \in LiveEdges PROVE edges[e] \in LiveEdge
  <2>1. edges[e] \in LiveEdge \cup {Gone} /\ edges[e].live
    BY <1>2 DEF LiveEdges
  <2>2. ~Gone.live
    BY DEF Gone
  <2>. QED BY <2>1, <2>2
<1>4. ASSUME NEW e \in DOMAIN edges, e \notin LiveEdges PROVE edges[e] = Gone
  BY <1>2, <1>4 DEF LiveEdges, LiveEdge
<1>5. LiveEdges \subseteq 1..Len(edges) /\ 0 \notin LiveEdges
  BY <1>2 DEF LiveEdges
<1>6. IsFiniteSet(1..Len(edges))
  BY <1>2, FS_Interval
<1>. QED BY <1>2, <1>3, <1>4, <1>5, <1>6, FS_Subset

\* The slots of a live node.
LEMMA SlotFacts ==
    ASSUME RecordsTyped, NEW n \in LiveNodes
    PROVE  /\ \A a, b \in Inputs(n) : a.id = b.id => a = b
           /\ \A a, b \in Outputs(n) : a.id = b.id => a = b
           /\ \A in \in Inputs(n) : /\ {in.many, in.required, in.auto} \subseteq BOOLEAN
                                    /\ in.id \in SlotIds /\ in \in Slots
           /\ \A out \in Outputs(n) : out.id \in SlotIds
           /\ nodes[n].schema.inputs \in Seq(Inputs(n))
           /\ nodes[n].schema.outputs \in Seq(Outputs(n))
           /\ IsInjective(nodes[n].schema.inputs) /\ IsInjective(nodes[n].schema.outputs)
<1>1. nodes[n].schema \in ValidSchemas
  BY NodeFacts
<1>. QED BY <1>1, SchemaFacts DEF Inputs, Outputs, SlotIds

\* At most one is what the code counts.
LEMMA AtMostOne ==
    ASSUME NEW S, IsFiniteSet(S)
    PROVE  Cardinality(S) <= 1 <=> \A x, y \in S : x = y
<1>1. CASE S = {}
  BY <1>1, FS_EmptySet
<1>2. CASE S # {}
  <2>1. PICK x \in S : TRUE
    BY <1>2
  <2>2. Cardinality({x}) = 1 /\ IsFiniteSet({x})
    BY FS_Singleton
  <2>3. ASSUME \A a, b \in S : a = b PROVE Cardinality(S) <= 1
    <3>1. S = {x}
      BY <2>1, <2>3
    <3>. QED BY <2>2, <3>1
  <2>4. ASSUME Cardinality(S) <= 1, NEW y \in S PROVE x = y
    <3>1. SUFFICES ASSUME x # y PROVE FALSE
      OBVIOUS
    <3>2. Cardinality({x, y}) = 2
      <4>1. {x, y} = {x} \cup {y}
        OBVIOUS
      <4>. QED BY <2>2, <3>1, <4>1, FS_AddElement
    <3>3. {x, y} \subseteq S
      BY <2>1
    <3>4. Cardinality({x, y}) <= Cardinality(S) /\ Cardinality(S) \in Nat
      BY <3>3, FS_Subset, FS_CardinalityType
    <3>. QED BY <2>4, <3>2, <3>4
  <2>. QED BY <2>3, <2>4
<1>. QED BY <1>1, <1>2

LEMMA OneProducer ==
    ASSUME RecordsTyped, ProducersUnique, NEW n \in LiveNodes, NEW in \in Inputs(n), ~in.many
    PROVE  \A d, e \in Incoming(n, in.id) : d = e
<1>1. Incoming(n, in.id) \subseteq LiveEdges /\ IsFiniteSet(LiveEdges)
  BY EdgeFacts DEF Incoming
<1>2. Cardinality(Incoming(n, in.id)) <= 1
  BY DEF ProducersUnique
<1>3. IsFiniteSet(Incoming(n, in.id))
  BY <1>1, FS_Subset
<1>. QED BY <1>2, <1>3, AtMostOne

\* What a step has to show for ProducersUnique.
LEMMA NewProducers ==
    ASSUME RecordsTyped',
           \A d, e \in LiveEdges' : edges'[d] = edges'[e] => d = e,
           \A n \in LiveNodes' : \A in \in Inputs(n)' :
              ~in.many => \A d, e \in Incoming(n, in.id)' : d = e
    PROVE  ProducersUnique'
<1>1. edges' \in Seq(LiveEdge \cup {Gone})
  BY DEF RecordsTyped
<1>2. DOMAIN edges' = 1..Len(edges') /\ Len(edges') \in Nat
  BY <1>1, LenProperties
<1>3. IsFiniteSet(DOMAIN edges')
  BY <1>2, FS_Interval
<1>4. ASSUME NEW n, NEW slot PROVE IsFiniteSet(Incoming(n, slot)')
  <2>1. Incoming(n, slot)' \subseteq DOMAIN edges'
    BY DEF Incoming, LiveEdges
  <2>. QED BY <1>3, <2>1, FS_Subset
<1>5. ASSUME NEW n \in LiveNodes', NEW in \in Inputs(n)', ~in.many
      PROVE  Cardinality(Incoming(n, in.id)') <= 1
  BY <1>4, <1>5, AtMostOne
<1>. QED BY <1>5 DEF ProducersUnique

\* No edit that leaves the nodes alone changes what they declare.
LEMMA SameNodes ==
    ASSUME nodes' = nodes
    PROVE  /\ LiveNodes' = LiveNodes
           /\ \A n : Inputs(n)' = Inputs(n) /\ Outputs(n)' = Outputs(n)
BY DEF LiveNodes, Inputs, Outputs

\* EdgesTyped, of one edge.
Ends(f) ==
    /\ {f.source, f.target} \subseteq LiveNodes
    /\ \E out \in Outputs(f.source), in \in Inputs(f.target) :
          out.id = f.output /\ in.id = f.input /\ out.type = in.type

LEMMA EndsTyped == EdgesTyped <=> \A e \in LiveEdges : Ends(edges[e])
BY DEF EdgesTyped, Ends

LEMMA SameEnds ==
    ASSUME nodes' = nodes, \A e \in LiveEdges' : Ends(edges'[e]) PROVE EdgesTyped'
<1>1. ASSUME NEW e \in LiveEdges' PROVE Ends(edges[e])'
  <2>1. Ends(edges'[e])
    OBVIOUS
  <2>. QED BY <2>1 DEF Ends, LiveNodes, Inputs, Outputs
<1>. QED BY <1>1 DEF EdgesTyped, Ends

-----------------------------------------------------------------------------
(* Identities: what no step of an edit does to one. *)

\* A node that lives on has its schema, or a later generation.
Aged(n) ==
    nodes'[n].live =>
        /\ nodes[n].live
        /\ \/ nodes'[n].generation = nodes[n].generation /\ nodes'[n].schema = nodes[n].schema
           \/ nodes'[n].generation > nodes[n].generation
NodesAge == \A n \in DOMAIN nodes : n \in DOMAIN nodes' /\ Aged(n)

EdgesAge ==
    \A e \in DOMAIN edges :
        /\ e \in DOMAIN edges'
        /\ edges'[e].live => edges[e].live /\ edges'[e].target = edges[e].target
                                           /\ edges'[e].input = edges[e].input

LEMMA SameNodesAge == nodes' = nodes => NodesAge
BY DEF NodesAge, Aged

LEMMA SameEdgesAge == edges' = edges => EdgesAge
BY DEF EdgesAge

\* What every edit does.
Keeps ==
    /\ EditInv' /\ (result' = "ok" \/ UNCHANGED declaration)
    /\ NodesAge /\ EdgesAge

-----------------------------------------------------------------------------
(* Edits that add edges: connect, connect_nodes, collect_into. *)

\* What justifies one of the new edges.
Joins(f) ==
    /\ f \in LiveEdge /\ Ends(f)
    /\ ~IsExposed(f.target, f.input)
    /\ Connection(f.source, f.output, f.target, f.input) = {}

Alone(new, i) ==
    \A in \in Inputs(new[i].target) : in.id = new[i].input /\ ~in.many =>
        /\ Incoming(new[i].target, in.id) = {}
        /\ \A j \in DOMAIN new : new[j].target = new[i].target /\ new[j].input = in.id => j = i

LEMMA PushKeeps ==
    ASSUME EditInv, UNCHANGED <<nodes, names, exposed>>, result' \in {"ok", "error"},
           NEW new \in Seq(LiveEdge), edges' = edges \o new,
           \A i \in DOMAIN new : Joins(new[i]) /\ Alone(new, i),
           IsInjective(new)
    PROVE  EditInv' /\ NodesAge /\ EdgesAge
<1>1. /\ Len(edges) \in Nat /\ DOMAIN edges = 1..Len(edges)
      /\ Len(new) \in Nat /\ DOMAIN new = 1..Len(new)
      /\ edges \in Seq(LiveEdge \cup {Gone})
  BY EdgeFacts, LenProperties DEF EditInv, RecordsTyped
<1>2. /\ DOMAIN edges' = 1..(Len(edges) + Len(new))
      /\ edges' \in Seq(LiveEdge \cup {Gone})
      /\ \A e \in DOMAIN edges : edges'[e] = edges[e]
      /\ \A e \in DOMAIN edges' : e \notin DOMAIN edges =>
            e - Len(edges) \in DOMAIN new /\ edges'[e] = new[e - Len(edges)]
  <2>1. new \in Seq(LiveEdge \cup {Gone})
    BY SeqMonotonic, Zenon
  <2>. QED BY <1>1, <2>1
<1>3. ASSUME NEW e \in LiveEdges'
      PROVE  \/ e \in LiveEdges /\ edges'[e] = edges[e]
             \/ /\ e - Len(edges) \in DOMAIN new /\ e \in Nat
                /\ edges'[e] = new[e - Len(edges)]
  BY <1>1, <1>2 DEF LiveEdges
<1>4. RecordsTyped'
  BY <1>2 DEF EditInv, RecordsTyped
<1>5. NamesExact'
  BY SameNodes DEF EditInv, NamesExact
<1>6. EdgesTyped'
  <2>1. ASSUME NEW e \in LiveEdges' PROVE Ends(edges'[e])
    <3>1. CASE e \in LiveEdges /\ edges'[e] = edges[e]
      BY <3>1, EndsTyped DEF EditInv
    <3>2. CASE e - Len(edges) \in DOMAIN new /\ edges'[e] = new[e - Len(edges)]
      BY <3>2 DEF Joins
    <3>. QED BY <1>3, <3>1, <3>2
  <2>. QED BY <2>1, SameEnds
<1>7. ProducersUnique'
  <2>1. ASSUME NEW e \in LiveEdges, NEW i \in DOMAIN new PROVE edges[e] # new[i]
    <3>1. e \notin Connection(new[i].source, new[i].output, new[i].target, new[i].input)
      BY DEF Joins
    <3>. QED BY <3>1 DEF Connection, Incoming
  <2>2. ASSUME NEW d \in LiveEdges', NEW e \in LiveEdges', edges'[d] = edges'[e] PROVE d = e
    <3>1. CASE d \in LiveEdges /\ edges'[d] = edges[d]
      <4>1. e \in LiveEdges /\ edges'[e] = edges[e]
        BY <1>3, <2>1, <2>2, <3>1
      <4>. QED BY <2>2, <3>1, <4>1 DEF EditInv, ProducersUnique
    <3>2. CASE d - Len(edges) \in DOMAIN new /\ d \in Nat /\ edges'[d] = new[d - Len(edges)]
      <4>1. e - Len(edges) \in DOMAIN new /\ e \in Nat /\ edges'[e] = new[e - Len(edges)]
        BY <1>3, <2>1, <2>2, <3>2
      <4>2. d - Len(edges) = e - Len(edges)
        BY <2>2, <3>2, <4>1 DEF IsInjective
      <4>. QED BY <1>1, <3>2, <4>1, <4>2
    <3>. QED BY <1>3, <3>1, <3>2
  <2>3. ASSUME NEW n \in LiveNodes', NEW in \in Inputs(n)', ~in.many,
               NEW d \in Incoming(n, in.id)', NEW e \in Incoming(n, in.id)'
        PROVE  d = e
    <3>1. n \in LiveNodes /\ in \in Inputs(n)
      BY SameNodes
    <3>2. /\ d \in LiveEdges' /\ edges'[d].target = n /\ edges'[d].input = in.id
          /\ e \in LiveEdges' /\ edges'[e].target = n /\ edges'[e].input = in.id
      BY DEF Incoming
    <3>3. ASSUME NEW i \in DOMAIN new, new[i].target = n, new[i].input = in.id
          PROVE  /\ Incoming(n, in.id) = {}
                 /\ \A j \in DOMAIN new : new[j].target = n /\ new[j].input = in.id => j = i
      BY <2>3, <3>1, <3>3 DEF Alone
    <3>4. CASE d \in LiveEdges /\ edges'[d] = edges[d]
      <4>1. d \in Incoming(n, in.id)
        BY <3>2, <3>4 DEF Incoming
      <4>2. e \in LiveEdges /\ edges'[e] = edges[e]
        BY <1>3, <3>2, <3>3, <4>1
      <4>3. e \in Incoming(n, in.id)
        BY <3>2, <4>2 DEF Incoming
      <4>. QED BY <2>3, <3>1, <4>1, <4>3, OneProducer DEF EditInv
    <3>5. CASE d - Len(edges) \in DOMAIN new /\ d \in Nat /\ edges'[d] = new[d - Len(edges)]
      <4>1. Incoming(n, in.id) = {}
        BY <3>2, <3>3, <3>5
      <4>2. e \notin LiveEdges \/ edges'[e] # edges[e]
        BY <3>2, <4>1 DEF Incoming
      <4>3. e - Len(edges) \in DOMAIN new /\ e \in Nat /\ edges'[e] = new[e - Len(edges)]
        BY <1>3, <3>2, <4>2
      <4>4. d - Len(edges) = e - Len(edges)
        BY <3>2, <3>3, <3>5, <4>3
      <4>. QED BY <1>1, <3>5, <4>3, <4>4
    <3>. QED BY <1>3, <3>2, <3>4, <3>5
  <2>. QED BY <1>4, <2>2, <2>3, NewProducers
<1>8. BindingsSound'
  <2>1. ASSUME NEW b \in ToSet(exposed), NEW e \in Incoming(b.node, b.input)' PROVE FALSE
    <3>1. e \in LiveEdges' /\ edges'[e].target = b.node /\ edges'[e].input = b.input
      BY DEF Incoming
    <3>2. Incoming(b.node, b.input) = {}
      BY DEF EditInv, BindingsSound
    <3>3. ASSUME NEW i \in DOMAIN new PROVE ~(new[i].target = b.node /\ new[i].input = b.input)
      BY DEF Joins, IsExposed
    <3>. QED BY <1>3, <3>1, <3>2, <3>3 DEF Incoming
  <2>2. ASSUME NEW b \in ToSet(exposed)
        PROVE  /\ b.node \in LiveNodes' /\ Incoming(b.node, b.input)' = {}
               /\ BindingKept(b, nodes'[b.node].schema)
    BY <2>1, SameNodes DEF EditInv, BindingsSound
  <2>. QED BY <2>2 DEF EditInv, BindingsSound, BindingKept
<1>9. NodesAge /\ EdgesAge
  BY <1>1, <1>2, SameNodesAge DEF EdgesAge
<1>. QED BY <1>4, <1>5, <1>6, <1>7, <1>8, <1>9 DEF EditInv

LEMMA JoinsEdge ==
    ASSUME EditInv, NEW m \in LiveNodes, NEW n \in LiveNodes,
           NEW out \in Outputs(m), NEW in \in Inputs(n), out.type = in.type,
           ~IsExposed(n, in.id), Connection(m, out.id, n, in.id) = {}
    PROVE  Joins(Edge(m, out.id, n, in.id))
<1> DEFINE f == Edge(m, out.id, n, in.id)
<1>1. m \in Nat /\ n \in Nat /\ out.id \in SlotIds /\ in.id \in SlotIds
  BY NodeFacts, SlotFacts DEF EditInv
<1>2. f \in LiveEdge /\ f.source = m /\ f.target = n /\ f.output = out.id /\ f.input = in.id
  BY <1>1 DEF Edge, LiveEdge
<1> HIDE DEF f
<1>3. Ends(f)
  BY <1>2 DEF Ends
<1>4. Joins(f)
  BY <1>2, <1>3 DEF Joins
<1>. QED BY <1>4 DEF f

LEMMA ConnectKeeps ==
    ASSUME EditInv, NEW m \in LiveNodes, NEW n \in LiveNodes,
           NEW out \in Outputs(m), NEW in \in Inputs(n), Connect(m, out, n, in)
    PROVE  Keeps
<1> DEFINE f == Edge(m, out.id, n, in.id)
<1>1. /\ ValidConnection(m, out, n, in, 0) /\ edges' = Append(edges, f) /\ result' = "ok"
      /\ UNCHANGED <<nodes, names, exposed>>
  BY DEF Connect, Done
<1>2. /\ 0 \notin LiveEdges /\ edges \in Seq(LiveEdge \cup {Gone})
  BY EdgeFacts DEF EditInv, RecordsTyped
<1>3. /\ out.type = in.type /\ ~IsExposed(n, in.id)
      /\ Connection(m, out.id, n, in.id) = {} /\ (~in.many => Incoming(n, in.id) = {})
  BY <1>1, <1>2 DEF ValidConnection, Connection, Incoming
<1>4. Joins(f)
  BY <1>3, JoinsEdge
<1>5. f.target = n /\ f.input = in.id
  BY DEF Edge
<1> HIDE DEF f
<1>6. f \in LiveEdge
  BY <1>4 DEF Joins
<1>7. <<f>> \in Seq(LiveEdge) /\ DOMAIN <<f>> = {1} /\ <<f>>[1] = f
  BY <1>6
<1>8. edges' = edges \o <<f>>
  BY <1>1, <1>2, <1>6
<1>9. ASSUME NEW i \in DOMAIN <<f>> PROVE Joins(<<f>>[i]) /\ Alone(<<f>>, i)
  <2>1. i = 1
    BY <1>7
  <2>2. Alone(<<f>>, 1)
    <3>1. \A a \in Inputs(n) : a.id = in.id => a = in
      BY SlotFacts DEF EditInv
    <3>. QED BY <1>3, <1>5, <1>7, <3>1 DEF Alone
  <2>. QED BY <1>4, <1>7, <2>1, <2>2
<1>10. IsInjective(<<f>>)
  BY <1>7 DEF IsInjective
<1>. QED BY <1>1, <1>7, <1>8, <1>9, <1>10, PushKeeps DEF Keeps

\* The outputs of m that have the type of in, and those not connected to it yet.
LEMMA FreshFacts ==
    ASSUME EditInv, NEW m \in LiveNodes, NEW n, NEW in
    PROVE  /\ OfType(m, in) \in Seq(Outputs(m)) /\ IsInjective(OfType(m, in))
           /\ \A out \in ToSet(OfType(m, in)) : out \in Outputs(m) /\ out.type = in.type
           /\ Fresh(m, n, in) \in Seq(Outputs(m)) /\ IsInjective(Fresh(m, n, in))
           /\ \A out \in ToSet(Fresh(m, n, in)) :
                 out \in Outputs(m) /\ out.type = in.type
                    /\ Connection(m, out.id, n, in.id) = {}
<1>1. /\ nodes[m].schema.outputs \in Seq(Outputs(m)) /\ IsInjective(nodes[m].schema.outputs)
      /\ ToSet(nodes[m].schema.outputs) = Outputs(m)
  BY SlotFacts DEF EditInv, Outputs
<1>2. /\ OfType(m, in) \in Seq(Outputs(m)) /\ IsInjective(OfType(m, in))
      /\ ToSet(OfType(m, in)) = Outputs(m) \cap {o \in Outputs(m) : o.type = in.type}
  BY <1>1, KeptFacts DEF OfType
<1>3. /\ Fresh(m, n, in) \in Seq(Outputs(m)) /\ IsInjective(Fresh(m, n, in))
      /\ ToSet(Fresh(m, n, in))
            = ToSet(OfType(m, in)) \cap {o \in Outputs(m) : Connection(m, o.id, n, in.id) = {}}
  BY <1>2, KeptFacts DEF Fresh
<1>. QED BY <1>2, <1>3

LEMMA MatchesFacts ==
    ASSUME EditInv, NEW m \in LiveNodes, NEW n \in LiveNodes, NEW in \in Inputs(n)
    PROVE  /\ Matches(m, n, in) \in Seq(Outputs(m)) /\ IsInjective(Matches(m, n, in))
           /\ \A out \in ToSet(Matches(m, n, in)) :
                 /\ out \in Outputs(m) /\ out.type = in.type
                 /\ Connection(m, out.id, n, in.id) = {}
                 /\ in.many => in.auto
                 /\ ~in.many => Incoming(n, in.id) = {} /\ ~IsExposed(n, in.id)
<1> DEFINE exact == Kept(OfType(m, in), {o \in Outputs(m) : o.name = in.name})
           M == Matches(m, n, in)
<1>1. in.many \in BOOLEAN /\ in.auto \in BOOLEAN
  BY SlotFacts DEF EditInv
<1>2. /\ exact \in Seq(Outputs(m)) /\ IsInjective(exact)
      /\ ToSet(exact) \subseteq ToSet(OfType(m, in))
  <2>1. OfType(m, in) \in Seq(Outputs(m)) /\ IsInjective(OfType(m, in))
    BY FreshFacts
  <2>. QED BY <2>1, KeptFacts
<1>3. CASE ~in.many /\ Incoming(n, in.id) = {} /\ ~IsExposed(n, in.id)
  <2>1. M \in {exact, OfType(m, in)}
    BY <1>1, <1>3 DEF Matches
  <2>3. M \in Seq(Outputs(m)) /\ IsInjective(M) /\ ToSet(M) \subseteq ToSet(OfType(m, in))
    BY <1>2, <2>1, FreshFacts
  <2> HIDE DEF M, exact
  <2>4. \A out \in ToSet(M) : out \in Outputs(m) /\ out.type = in.type
    BY <2>3, FreshFacts
  <2>5. \A out : Connection(m, out.id, n, in.id) = {}
    BY <1>3 DEF Connection
  <2>. QED BY <1>3, <2>3, <2>4, <2>5 DEF M
<1>4. CASE in.many /\ in.auto
  <2>1. M = Fresh(m, n, in)
    BY <1>1, <1>4 DEF Matches
  <2> HIDE DEF M
  <2>2. /\ M \in Seq(Outputs(m)) /\ IsInjective(M)
        /\ \A out \in ToSet(M) : /\ out \in Outputs(m) /\ out.type = in.type
                                  /\ Connection(m, out.id, n, in.id) = {}
    BY <2>1, FreshFacts
  <2>. QED BY <1>4, <2>2 DEF M
<1>5. CASE ~(~in.many /\ Incoming(n, in.id) = {} /\ ~IsExposed(n, in.id)) /\ ~(in.many /\ in.auto)
  <2>1. M = <<>>
    BY <1>1, <1>5 DEF Matches
  <2>2. ToSet(M) = {} /\ M \in Seq(Outputs(m)) /\ IsInjective(M)
    BY <2>1 DEF ToSet, IsInjective
  <2>. QED BY <2>2
<1>. QED BY <1>1, <1>3, <1>4, <1>5

LEMMA PlanFacts ==
    ASSUME EditInv, NEW m \in LiveNodes, NEW n \in LiveNodes
    PROVE  /\ Plan(m, n) \in Seq(Outputs(m) \X Inputs(n)) /\ IsInjective(Plan(m, n))
           /\ \A x \in ToSet(Plan(m, n)) :
                 x[2] \in Inputs(n) /\ x[1] \in ToSet(Matches(m, n, x[2]))
<1> DEFINE ins == nodes[n].schema.inputs
           T == Outputs(m) \X Inputs(n)
           Part(i) == [j \in DOMAIN Matches(m, n, ins[i]) |-> <<Matches(m, n, ins[i])[j], ins[i]>>]
           parts == [i \in DOMAIN ins |-> Part(i)]
<1>1. /\ ins \in Seq(Inputs(n)) /\ IsInjective(ins) /\ ToSet(ins) = Inputs(n)
      /\ DOMAIN ins = 1..Len(ins) /\ Len(ins) \in Nat
      /\ \A i \in DOMAIN ins : ins[i] \in Inputs(n)
  <2>1. ins \in Seq(Inputs(n)) /\ IsInjective(ins)
    BY SlotFacts DEF EditInv
  <2>. QED BY <2>1, LenProperties, ElementOfSeq DEF Inputs
<1> HIDE DEF ins
<1>2. ASSUME NEW i \in DOMAIN ins
      PROVE  /\ Part(i) \in Seq(T) /\ IsInjective(Part(i))
             /\ \A x \in ToSet(Part(i)) : x[2] = ins[i] /\ x[1] \in ToSet(Matches(m, n, ins[i]))
  <2> DEFINE M == Matches(m, n, ins[i])
  <2>1. M \in Seq(Outputs(m)) /\ IsInjective(M) /\ ins[i] \in Inputs(n)
    BY <1>1, MatchesFacts
  <2>2. /\ DOMAIN M = 1..Len(M) /\ Len(M) \in Nat
        /\ \A j \in DOMAIN M : M[j] \in Outputs(m) /\ M[j] \in ToSet(M)
    BY <2>1, LenProperties, ElementOfSeq DEF ToSet
  <2> HIDE DEF M
  <2> DEFINE f == [j \in DOMAIN M |-> <<M[j], ins[i]>>]
  <2>3. f \in Seq(T)
    <3>1. f \in [1..Len(M) -> T]
      BY <2>1, <2>2
    <3> HIDE DEF f, T
    <3>. QED BY <2>2, <3>1
  <2>4. IsInjective(f)
    BY <2>1 DEF IsInjective
  <2>5. \A x \in ToSet(f) : x[2] = ins[i] /\ x[1] \in ToSet(M)
    BY <2>2 DEF ToSet
  <2>6. f = Part(i)
    BY DEF M
  <2> HIDE DEF f, Part, T
  <2>. QED BY <2>3, <2>4, <2>5, <2>6 DEF M
<1>3. Plan(m, n) = FlattenSeq(parts)
  BY DEF Plan, ins
<1> HIDE DEF Part, T
<1>4. parts \in Seq(Seq(T)) /\ DOMAIN parts = DOMAIN ins
  <2>1. parts \in [1..Len(ins) -> Seq(T)]
    BY <1>1, <1>2
  <2>. QED BY <1>1, <2>1
<1>5. \A i \in DOMAIN parts : parts[i] = Part(i)
  BY <1>4
<1> HIDE DEF parts
<1>6. Plan(m, n) \in Seq(T)
  BY <1>3, <1>4, FlattenType
<1>7. ToSet(Plan(m, n)) = UNION {ToSet(parts[i]) : i \in DOMAIN parts}
  BY <1>3, <1>4, FlattenElements
<1>8. ASSUME NEW x \in ToSet(Plan(m, n))
      PROVE  x[2] \in Inputs(n) /\ x[1] \in ToSet(Matches(m, n, x[2]))
  <2>1. PICK i \in DOMAIN ins : x \in ToSet(Part(i))
    BY <1>4, <1>5, <1>7
  <2>. QED BY <1>1, <1>2, <2>1
<1>9. IsInjective(Plan(m, n))
  <2>1. ASSUME NEW i \in DOMAIN parts, NEW j \in DOMAIN parts, i # j
        PROVE  ToSet(parts[i]) \cap ToSet(parts[j]) = {}
    <3>1. ins[i] # ins[j]
      BY <1>1, <1>4, <2>1 DEF IsInjective
    <3>. QED BY <1>2, <1>4, <1>5, <3>1
  <2>2. \A i \in DOMAIN parts : IsInjective(parts[i])
    BY <1>2, <1>4, <1>5
  <2>3. IsInjective(FlattenSeq(parts))
    BY <1>4, <2>1, <2>2, FlattenInjective
  <2>. QED BY <1>3, <2>3
<1>. QED BY <1>6, <1>8, <1>9 DEF T

\* Validated again as they are pushed, no planned edge is refused.
LEMMA PlanHasNoConflict ==
    ASSUME EditInv, NEW m \in LiveNodes, NEW n \in LiveNodes, Plannable(m, n),
           NEW i \in DOMAIN Plan(m, n)
    PROVE  ~Conflict(m, n, Plan(m, n), i)
<1> DEFINE p == Plan(m, n)
           out == p[i][1]
           in == p[i][2]
<1>1. /\ IsInjective(p) /\ \A j \in DOMAIN p : /\ p[j] \in Outputs(m) \X Inputs(n)
                                              /\ p[j][1] \in ToSet(Matches(m, n, p[j][2]))
      /\ DOMAIN p = 1..Len(p) /\ Len(p) \in Nat
  <2>1. p \in Seq(Outputs(m) \X Inputs(n))
    BY PlanFacts
  <2>2. \A j \in DOMAIN p : p[j] \in ToSet(p)
    BY DEF ToSet
  <2>. QED BY <2>1, <2>2, PlanFacts, LenProperties, ElementOfSeq
<1> HIDE DEF p
<1>2. /\ in \in Inputs(n) /\ in.many \in BOOLEAN
      /\ out \in Outputs(m) /\ out \in ToSet(Matches(m, n, in))
  BY <1>1, SlotFacts DEF EditInv, p
<1>3. ValidConnection(m, out, n, in, 0)
  <2> HIDE DEF out, in
  <2>1. /\ out.type = in.type /\ Connection(m, out.id, n, in.id) = {}
        /\ in.many => in.auto
        /\ ~in.many => Incoming(n, in.id) = {} /\ ~IsExposed(n, in.id)
    BY <1>2, MatchesFacts
  <2>2. ~IsExposed(n, in.id)
    BY <1>2, <2>1 DEF Plannable
  <2>. QED BY <2>1, <2>2 DEF ValidConnection
<1>4. ASSUME NEW j \in 1..(i - 1), p[j][2].id = in.id, ~in.many \/ p[j][1].id = out.id
      PROVE  FALSE
  <2>1. j \in DOMAIN p /\ j # i
    BY <1>1 DEF p
  <2>2. /\ p[j][2] \in Inputs(n) /\ p[j][1] \in Outputs(m)
        /\ p[j] = <<p[j][1], p[j][2]>> /\ p[i] = <<out, in>>
        /\ p[j][1] \in ToSet(Matches(m, n, p[j][2]))
    BY <1>1, <2>1 DEF p
  <2>3. p[j][2] = in
    BY <1>2, <1>4, <2>2, SlotFacts DEF EditInv
  <2>4. p[j][1] = out
    <3>1. CASE ~in.many
      <4>1. Len(Matches(m, n, in)) <= 1 /\ Matches(m, n, in) \in Seq(Outputs(m))
        BY <1>2, <3>1, MatchesFacts DEF Plannable
      <4>2. \A a, b \in DOMAIN Matches(m, n, in) : a = b
        BY <4>1
      <4>. QED BY <1>2, <2>2, <2>3, <4>2 DEF ToSet
    <3>2. CASE p[j][1].id = out.id
      BY <1>2, <2>2, <3>2, SlotFacts DEF EditInv
    <3>. QED BY <1>4, <3>1, <3>2
  <2>5. p[j] = p[i]
    BY <2>2, <2>3, <2>4
  <2>. QED BY <1>1, <2>1, <2>5 DEF IsInjective, p
<1>. QED BY <1>3, <1>4 DEF Conflict, p

LEMMA ConnectNodesKeeps ==
    ASSUME EditInv, NEW m \in LiveNodes, NEW n \in LiveNodes, ConnectNodes(m, n)
    PROVE  Keeps
<1> DEFINE p == Plan(m, n)
           new == [i \in 1..Len(p) |-> Edge(m, p[i][1].id, n, p[i][2].id)]
<1>1. {i \in DOMAIN p : Conflict(m, n, p, i)} = {}
  BY PlanHasNoConflict DEF ConnectNodes
<1>2. /\ edges' = edges \o new /\ result' = "ok" /\ UNCHANGED <<nodes, names, exposed>>
  BY <1>1 DEF ConnectNodes
<1>3. /\ DOMAIN p = 1..Len(p) /\ Len(p) \in Nat /\ IsInjective(p)
      /\ \A i \in DOMAIN p : p[i] \in Outputs(m) \X Inputs(n) /\ ~Conflict(m, n, p, i)
  <2>1. p \in Seq(Outputs(m) \X Inputs(n)) /\ IsInjective(p)
    BY PlanFacts
  <2> HIDE DEF p
  <2>2. /\ DOMAIN p = 1..Len(p) /\ Len(p) \in Nat
        /\ \A i \in DOMAIN p : p[i] \in Outputs(m) \X Inputs(n)
    BY <2>1, LenProperties, ElementOfSeq
  <2>. QED BY <1>1, <2>1, <2>2
<1> HIDE DEF p
<1>4. ASSUME NEW i \in DOMAIN p
      PROVE  /\ p[i][1] \in Outputs(m) /\ p[i][2] \in Inputs(n)
             /\ p[i] = <<p[i][1], p[i][2]>>
             /\ p[i][1].type = p[i][2].type /\ ~IsExposed(n, p[i][2].id)
             /\ Connection(m, p[i][1].id, n, p[i][2].id) = {}
             /\ ~p[i][2].many => Incoming(n, p[i][2].id) = {}
             /\ \A j \in 1..(i - 1) :
                   p[j][2].id = p[i][2].id => p[i][2].many /\ p[j][1].id # p[i][1].id
  <2>1. 0 \notin LiveEdges
    BY EdgeFacts DEF EditInv
  <2>2. p[i] \in Outputs(m) \X Inputs(n)
    BY <1>3
  <2>3. ValidConnection(m, p[i][1], n, p[i][2], 0)
    BY <1>3 DEF Conflict
  <2>. QED BY <1>3, <2>1, <2>2, <2>3 DEF Conflict, ValidConnection, Connection, Incoming
<1>5. ASSUME NEW i \in DOMAIN new
      PROVE  /\ i \in DOMAIN p /\ new[i] = Edge(m, p[i][1].id, n, p[i][2].id)
             /\ new[i].source = m /\ new[i].target = n
             /\ new[i].output = p[i][1].id /\ new[i].input = p[i][2].id
             /\ Joins(new[i])
  <2>1. i \in DOMAIN p /\ new[i] = Edge(m, p[i][1].id, n, p[i][2].id)
    BY <1>3
  <2> HIDE DEF new
  <2>2. Joins(new[i])
    BY <1>4, <2>1, JoinsEdge
  <2>. QED BY <2>1, <2>2 DEF Edge
<1>6. DOMAIN new = DOMAIN p
  BY <1>3
<1>7. new \in Seq(LiveEdge)
  <2>1. \A i \in DOMAIN new : new[i] \in LiveEdge
    BY <1>5 DEF Joins
  <2>2. new \in [1..Len(p) -> LiveEdge]
    BY <1>3, <2>1
  <2> HIDE DEF new
  <2>. QED BY <1>3, <2>2
<1> HIDE DEF new
<1>8. ASSUME NEW i \in DOMAIN new, NEW j \in DOMAIN new, new[j].input = new[i].input
      PROVE  i = j \/ (p[i][2].many /\ new[j].output # new[i].output)
  <2>1. p[i][2] = p[j][2]
    BY <1>4, <1>5, <1>8, SlotFacts DEF EditInv
  <2>2. CASE i < j
    <3>1. i \in 1..(j - 1)
      BY <1>3, <1>6, <2>2
    <3>. QED BY <1>4, <1>5, <1>8, <2>1, <3>1
  <2>3. CASE j < i
    <3>1. j \in 1..(i - 1)
      BY <1>3, <1>6, <2>3
    <3>. QED BY <1>4, <1>5, <1>8, <2>1, <3>1
  <2>. QED BY <1>3, <1>6, <2>2, <2>3
<1>9. IsInjective(new)
  BY <1>8 DEF IsInjective
<1>10. ASSUME NEW i \in DOMAIN new PROVE Alone(new, i)
  <2>1. SUFFICES ASSUME NEW in \in Inputs(n), in.id = new[i].input, ~in.many
                 PROVE  /\ Incoming(n, in.id) = {}
                        /\ \A j \in DOMAIN new : new[j].input = in.id => j = i
    BY <1>5 DEF Alone
  <2>2. in = p[i][2]
    BY <1>4, <1>5, <2>1, SlotFacts DEF EditInv
  <2>. QED BY <1>4, <1>5, <1>8, <2>1, <2>2
<1>. QED BY <1>2, <1>5, <1>7, <1>9, <1>10, PushKeeps DEF Keeps

LEMMA CollectIntoKeeps ==
    ASSUME EditInv, NEW k \in Nat, NEW sources \in [1..k -> LiveNodes],
           NEW n \in LiveNodes, NEW in \in Inputs(n), CollectInto(sources, n, in)
    PROVE  Keeps
<1> DEFINE Out(i) == Fresh(sources[i], n, in)
           Part(i) == IF \E l \in 1..(i - 1) : sources[l] = sources[i] THEN <<>>
                      ELSE [j \in DOMAIN Out(i) |-> Edge(sources[i], Out(i)[j].id, n, in.id)]
           parts == [i \in DOMAIN sources |-> Part(i)]
           new == FlattenSeq(parts)
<1>1. /\ edges' = edges \o new /\ result' = "ok" /\ UNCHANGED <<nodes, names, exposed>>
      /\ in.many /\ ~IsExposed(n, in.id)
  BY DEF CollectInto, Done
<1>2. ASSUME NEW i \in 1..k
      PROVE  /\ Part(i) \in Seq(LiveEdge) /\ IsInjective(Part(i))
             /\ \A f \in ToSet(Part(i)) :
                   /\ Joins(f) /\ f.source = sources[i] /\ f.target = n /\ f.input = in.id
                   /\ \A l \in 1..(i - 1) : sources[l] # sources[i]
  <2> DEFINE m == sources[i]
             O == Fresh(m, n, in)
  <2>1. CASE \E l \in 1..(i - 1) : sources[l] = sources[i]
    <3>1. Part(i) = <<>>
      BY <2>1
    <3>2. ToSet(Part(i)) = {} /\ Part(i) \in Seq(LiveEdge) /\ IsInjective(Part(i))
      BY <3>1 DEF ToSet, IsInjective
    <3>. QED BY <3>2
  <2>2. CASE ~\E l \in 1..(i - 1) : sources[l] = sources[i]
    <3>1. m \in LiveNodes
      OBVIOUS
    <3>2. /\ O \in Seq(Outputs(m)) /\ IsInjective(O)
          /\ \A out \in ToSet(O) : /\ out \in Outputs(m) /\ out.type = in.type
                                   /\ Connection(m, out.id, n, in.id) = {}
      BY <3>1, FreshFacts
    <3>3. DOMAIN O = 1..Len(O) /\ Len(O) \in Nat /\ \A j \in DOMAIN O : O[j] \in ToSet(O)
      BY <3>2, LenProperties DEF ToSet
    <3>4. \A a, b \in Outputs(m) : a.id = b.id => a = b
      BY <3>1, SlotFacts DEF EditInv
    <3> DEFINE f == [j \in DOMAIN O |-> Edge(m, O[j].id, n, in.id)]
    <3>5. Part(i) = f
      BY <2>2
    <3> HIDE DEF O, m, Part
    <3>6. ASSUME NEW j \in DOMAIN f
          PROVE  /\ j \in DOMAIN O /\ f[j] = Edge(m, O[j].id, n, in.id)
                 /\ f[j].source = m /\ f[j].target = n /\ f[j].input = in.id
                 /\ f[j].output = O[j].id /\ Joins(f[j])
      <4>1. j \in DOMAIN O /\ f[j] = Edge(m, O[j].id, n, in.id)
        OBVIOUS
      <4> HIDE DEF f
      <4>2. Joins(f[j])
        BY <1>1, <3>1, <3>2, <3>3, <4>1, JoinsEdge
      <4>. QED BY <4>1, <4>2 DEF Edge
    <3>7. IsInjective(f)
      <4>1. ASSUME NEW a \in DOMAIN f, NEW b \in DOMAIN f, f[a] = f[b] PROVE a = b
        <5>1. O[a].id = O[b].id /\ O[a] \in Outputs(m) /\ O[b] \in Outputs(m)
              /\ a \in DOMAIN O /\ b \in DOMAIN O
          BY <3>2, <3>3, <3>6, <4>1
        <5>2. O[a] = O[b]
          BY <3>4, <5>1
        <5>. QED BY <3>2, <5>1, <5>2 DEF IsInjective
      <4> HIDE DEF f
      <4>. QED BY <4>1 DEF IsInjective
    <3>8. f \in Seq(LiveEdge)
      <4>1. DOMAIN f = 1..Len(O) /\ f = [j \in DOMAIN O |-> f[j]]
        BY <3>3
      <4> HIDE DEF f
      <4>2. \A j \in DOMAIN f : f[j] \in LiveEdge
        BY <3>6 DEF Joins
      <4>3. f \in [1..Len(O) -> LiveEdge]
        BY <3>3, <4>1, <4>2
      <4>. QED BY <3>3, <4>3
    <3> HIDE DEF f
    <3>9. \A x \in ToSet(f) : Joins(x) /\ x.source = m /\ x.target = n /\ x.input = in.id
      BY <3>6 DEF ToSet
    <3>. QED BY <2>2, <3>5, <3>7, <3>8, <3>9 DEF m
  <2>. QED BY <2>1, <2>2
<1> HIDE DEF Part
<1>3. DOMAIN parts = 1..k /\ \A i \in 1..k : parts[i] = Part(i)
  OBVIOUS
<1>4. parts \in Seq(Seq(LiveEdge))
  <2>1. parts \in [1..k -> Seq(LiveEdge)]
    BY <1>2, <1>3
  <2> HIDE DEF parts
  <2>. QED BY <2>1
<1> HIDE DEF parts
<1>5. new \in Seq(LiveEdge) /\ ToSet(new) = UNION {ToSet(parts[i]) : i \in DOMAIN parts}
  BY <1>4, FlattenType, FlattenElements
<1>6. IsInjective(new)
  <2>1. \A i \in DOMAIN parts : IsInjective(parts[i])
    BY <1>2, <1>3
  <2>2. ASSUME NEW i \in DOMAIN parts, NEW j \in DOMAIN parts, i # j
        PROVE  ToSet(parts[i]) \cap ToSet(parts[j]) = {}
    <3>1. SUFFICES ASSUME NEW x \in ToSet(Part(i)) \cap ToSet(Part(j)) PROVE FALSE
      BY <1>3
    <3>2. /\ sources[i] = sources[j]
          /\ \A l \in 1..(i - 1) : sources[l] # sources[i]
          /\ \A l \in 1..(j - 1) : sources[l] # sources[j]
          /\ i \in 1..k /\ j \in 1..k
      BY <1>2, <1>3
    <3>. QED BY <2>2, <3>2
  <2>. QED BY <1>4, <2>1, <2>2, FlattenInjective
<1> HIDE DEF new
<1>7. ASSUME NEW i \in DOMAIN new
      PROVE  Joins(new[i]) /\ new[i].target = n /\ new[i].input = in.id
  <2>1. new[i] \in ToSet(new)
    BY DEF ToSet
  <2>. QED BY <1>2, <1>3, <1>5, <2>1
<1>8. ASSUME NEW i \in DOMAIN new PROVE Alone(new, i)
  <2>1. \A a \in Inputs(n) : a.id = in.id => a = in
    BY SlotFacts DEF EditInv
  <2>. QED BY <1>1, <1>7, <2>1 DEF Alone
<1>. QED BY <1>1, <1>5, <1>6, <1>7, <1>8, PushKeeps DEF Keeps

-----------------------------------------------------------------------------
(* Edits that remove or move edges, with the nodes as they were. *)

\* What no removal of edges can break.
LEMMA FewerEdges ==
    ASSUME EditInv, LiveEdges' \subseteq LiveEdges, \A e \in LiveEdges' : edges'[e] = edges[e]
    PROVE  /\ \A d, e \in LiveEdges' : edges'[d] = edges'[e] => d = e
           /\ \A n, slot : Incoming(n, slot)' \subseteq Incoming(n, slot)
BY DEF EditInv, ProducersUnique, Incoming

LEMMA DisconnectKeeps ==
    ASSUME EditInv, NEW d \in LiveEdges, Disconnect(d) PROVE Keeps
<1>1. /\ edges' = [edges EXCEPT ![d] = Gone] /\ result' = "ok"
      /\ UNCHANGED <<nodes, names, exposed>>
  BY DEF Disconnect, Done
<1>2. edges \in Seq(LiveEdge \cup {Gone}) /\ d \in DOMAIN edges /\ ~Gone.live
  BY DEF EditInv, RecordsTyped, LiveEdges, Gone
<1>3. /\ DOMAIN edges' = DOMAIN edges /\ edges'[d] = Gone
      /\ \A e \in DOMAIN edges : e # d => edges'[e] = edges[e]
      /\ edges' \in Seq(LiveEdge \cup {Gone})
  BY <1>1, <1>2
<1>4. LiveEdges' \subseteq LiveEdges /\ \A e \in LiveEdges' : edges'[e] = edges[e]
  BY <1>2, <1>3 DEF LiveEdges
<1>5. RecordsTyped'
  BY <1>1, <1>3 DEF EditInv, RecordsTyped
<1>6. NamesExact'
  BY <1>1, SameNodes DEF EditInv, NamesExact
<1>7. EdgesTyped'
  BY <1>1, <1>4, EndsTyped, SameEnds DEF EditInv
<1>8. ProducersUnique'
  <2>1. ASSUME NEW n \in LiveNodes', NEW in \in Inputs(n)', ~in.many
        PROVE  \A a, b \in Incoming(n, in.id)' : a = b
    <3>1. \A a, b \in Incoming(n, in.id) : a = b
      BY <1>1, <2>1, SameNodes, OneProducer DEF EditInv
    <3>. QED BY <1>4, <3>1, FewerEdges
  <2>. QED BY <1>4, <1>5, <2>1, FewerEdges, NewProducers
<1>9. BindingsSound'
  <2>1. \A b \in ToSet(exposed) : Incoming(b.node, b.input)' = {}
    BY <1>4, FewerEdges DEF EditInv, BindingsSound
  <2>. QED BY <1>1, <2>1, SameNodes DEF EditInv, BindingsSound, BindingKept
<1>10. NodesAge /\ EdgesAge
  BY <1>1, <1>2, <1>3, SameNodesAge DEF EdgesAge
<1>. QED BY <1>1, <1>5, <1>6, <1>7, <1>8, <1>9, <1>10 DEF EditInv, Keeps

LEMMA ReconnectKeeps ==
    ASSUME EditInv, NEW d \in LiveEdges, NEW m \in LiveNodes, NEW out \in Outputs(m),
           Reconnect(d, m, out)
    PROVE  Keeps
<1> DEFINE n == edges[d].target
           f == [edges[d] EXCEPT !.source = m, !.output = out.id]
<1>1. /\ edges' = [edges EXCEPT ![d].source = m, ![d].output = out.id] /\ result' = "ok"
      /\ UNCHANGED <<nodes, names, exposed>>
  BY DEF Reconnect, Done
<1>2. PICK in \in Inputs(n) : in.id = edges[d].input /\ ValidConnection(m, out, n, in, d)
  BY DEF Reconnect
<1>3. edges \in Seq(LiveEdge \cup {Gone}) /\ d \in DOMAIN edges /\ edges[d] \in LiveEdge
  BY EdgeFacts DEF EditInv, RecordsTyped, LiveEdges
<1>4. /\ f \in LiveEdge /\ f.live /\ f.source = m /\ f.output = out.id
      /\ f.target = n /\ f.input = in.id
  <2>1. m \in Nat /\ out.id \in SlotIds
    BY NodeFacts, SlotFacts DEF EditInv
  <2>. QED BY <1>2, <1>3, <2>1 DEF LiveEdge
<1>5. /\ DOMAIN edges' = DOMAIN edges /\ edges'[d] = f
      /\ \A e \in DOMAIN edges : e # d => edges'[e] = edges[e]
      /\ edges' \in Seq(LiveEdge \cup {Gone})
  <2>1. edges' = [edges EXCEPT ![d] = f]
    BY <1>1, <1>3
  <2>. QED BY <1>3, <1>4, <2>1
<1> HIDE DEF f
<1>6. LiveEdges' = LiveEdges
  BY <1>3, <1>4, <1>5 DEF LiveEdges
<1>7. n \in LiveNodes
  BY DEF EditInv, EdgesTyped
<1>8. \A a, slot : Incoming(a, slot)' = Incoming(a, slot)
  <2>1. \A e \in LiveEdges : edges'[e].target = edges[e].target /\ edges'[e].input = edges[e].input
    BY <1>2, <1>4, <1>5 DEF LiveEdges
  <2>. QED BY <1>6, <2>1 DEF Incoming
<1>9. RecordsTyped'
  BY <1>1, <1>5 DEF EditInv, RecordsTyped
<1>10. NamesExact'
  BY <1>1, SameNodes DEF EditInv, NamesExact
<1>11. EdgesTyped'
  <2>1. Ends(f)
    BY <1>2, <1>4, <1>7 DEF Ends, ValidConnection
  <2>2. \A e \in LiveEdges' : Ends(edges'[e])
    BY <1>5, <1>6, <2>1, EndsTyped DEF EditInv, LiveEdges
  <2>. QED BY <1>1, <2>2, SameEnds
<1>12. ProducersUnique'
  <2>1. ASSUME NEW e \in LiveEdges, e # d PROVE edges[e] # f
    <3>1. e \notin Connection(m, out.id, n, in.id)
      BY <1>2, <2>1 DEF ValidConnection
    <3>. QED BY <1>4, <3>1 DEF Connection, Incoming
  <2>2. \A a, b \in LiveEdges : edges[a] = edges[b] => a = b
    BY DEF EditInv, ProducersUnique
  <2>3. \A a, b \in LiveEdges' : edges'[a] = edges'[b] => a = b
    BY <1>5, <1>6, <2>1, <2>2 DEF LiveEdges
  <2>4. ASSUME NEW a \in LiveNodes', NEW slot \in Inputs(a)', ~slot.many
        PROVE  \A x, y \in Incoming(a, slot.id)' : x = y
    BY <1>1, <1>8, <2>4, SameNodes, OneProducer DEF EditInv
  <2>. QED BY <1>9, <2>3, <2>4, NewProducers
<1>13. BindingsSound'
  BY <1>1, <1>8, SameNodes DEF EditInv, BindingsSound, BindingKept
<1>14. NodesAge /\ EdgesAge
  BY <1>1, <1>2, <1>3, <1>4, <1>5, SameNodesAge DEF EdgesAge, LiveEdge
<1>. QED BY <1>1, <1>9, <1>10, <1>11, <1>12, <1>13, <1>14 DEF EditInv, Keeps

-----------------------------------------------------------------------------
(* Edits that leave the edges alone. *)

\* The nodes with the slots they had, and perhaps more of them.
SlotsKept ==
    /\ LiveNodes \subseteq LiveNodes'
    /\ \A n \in LiveNodes : nodes'[n].schema = nodes[n].schema

LEMMA SlotsKeptKeeps ==
    ASSUME EditInv, SlotsKept, UNCHANGED <<edges, exposed>>, RecordsTyped'
    PROVE  EdgesTyped' /\ ProducersUnique' /\ BindingsSound'
<1>1. /\ LiveEdges' = LiveEdges
      /\ \A n, slot : Incoming(n, slot)' = Incoming(n, slot)
  BY DEF LiveEdges, Incoming
<1>2. \A n \in LiveNodes : Inputs(n)' = Inputs(n) /\ Outputs(n)' = Outputs(n)
  BY DEF SlotsKept, Inputs, Outputs
<1>3. EdgesTyped'
  <2>1. ASSUME NEW e \in LiveEdges PROVE Ends(edges[e])'
    <3>1. Ends(edges[e])
      BY EndsTyped DEF EditInv
    <3>2. edges[e].source \in LiveNodes /\ edges[e].target \in LiveNodes
      BY <3>1 DEF Ends
    <3>. QED BY <1>2, <3>1, <3>2 DEF Ends, SlotsKept
  <2>. QED BY <1>1, <2>1 DEF EdgesTyped, Ends
<1>4. ProducersUnique'
  <2>1. \A a, b \in LiveEdges' : edges'[a] = edges'[b] => a = b
    BY <1>1 DEF EditInv, ProducersUnique
  <2>2. ASSUME NEW n \in LiveNodes', NEW in \in Inputs(n)', ~in.many,
               NEW a \in Incoming(n, in.id)', NEW b \in Incoming(n, in.id)'
        PROVE  a = b
    <3>1. a \in Incoming(n, in.id) /\ b \in Incoming(n, in.id)
      BY <1>1
    <3>2. n \in LiveNodes
      BY <3>1 DEF Incoming, EditInv, EdgesTyped
    <3>. QED BY <1>2, <2>2, <3>1, <3>2, OneProducer DEF EditInv
  <2>. QED BY <2>1, <2>2, NewProducers
<1>5. BindingsSound'
  BY <1>1 DEF EditInv, BindingsSound, SlotsKept, BindingKept
<1>. QED BY <1>3, <1>4, <1>5

\* The name index, by its entries.
LEMMA NamesFacts ==
    ASSUME RecordsTyped, NamesExact
    PROVE  /\ \A n \in LiveNodes : <<nodes[n].name, n>> \in names
           /\ \A p \in names : /\ p[2] \in LiveNodes /\ p = <<nodes[p[2]].name, p[2]>>
                               /\ p[1] = nodes[p[2]].name
           /\ 0 \notin LiveNodes
BY NodeFacts DEF NamesExact

LEMMA AddNodeKeeps ==
    ASSUME EditInv, NEW name \in Names, NEW schema \in Schemas, AddNode(name, schema)
    PROVE  Keeps
<1> DEFINE k == Len(nodes) + 1
           node == [live |-> TRUE, name |-> name, schema |-> schema,
                    generation |-> 1, active |-> FALSE]
<1>1. /\ ValidNodeName(name, 0) /\ ValidSchema(schema) /\ names' = names \cup {<<name, k>>}
      /\ nodes' = Append(nodes, node) /\ result' = "ok" /\ UNCHANGED <<edges, exposed>>
  BY DEF AddNode, Done
<1>2. /\ nodes \in Seq(LiveNode \cup {Gone}) /\ Len(nodes) \in Nat
      /\ DOMAIN nodes = 1..Len(nodes) /\ LiveNodes \subseteq 1..Len(nodes)
  BY NodeFacts DEF EditInv, RecordsTyped
<1>3. node \in LiveNode /\ node.live /\ node.name = name
  BY <1>1 DEF LiveNode, ValidSchemas
<1> HIDE DEF node
<1>4. /\ nodes' \in Seq(LiveNode \cup {Gone}) /\ DOMAIN nodes' = (DOMAIN nodes) \cup {k}
      /\ nodes'[k] = node /\ k \notin DOMAIN nodes
      /\ \A n \in DOMAIN nodes : nodes'[n] = nodes[n]
  BY <1>1, <1>2, <1>3
<1> HIDE DEF k
<1>5. LiveNodes' = LiveNodes \cup {k} /\ \A n \in LiveNodes : nodes'[n] = nodes[n]
  BY <1>3, <1>4 DEF LiveNodes
<1>6. RecordsTyped'
  BY <1>1, <1>4 DEF EditInv, RecordsTyped
<1>7. NamesExact'
  <2>1. \A n \in LiveNodes : nodes[n].name # name
    BY <1>1, NamesFacts DEF EditInv, ValidNodeName
  <2>2. {<<nodes'[n].name, n>> : n \in LiveNodes'}
           = {<<nodes[n].name, n>> : n \in LiveNodes} \cup {<<name, k>>}
    BY <1>3, <1>4, <1>5
  <2>3. \A m, n \in LiveNodes' : nodes'[m].name = nodes'[n].name => m = n
    BY <1>3, <1>4, <1>5, <2>1 DEF EditInv, NamesExact
  <2>4. \A n \in LiveNodes' : nodes'[n].name # NoName
    BY <1>1, <1>3, <1>4, <1>5 DEF EditInv, NamesExact, ValidNodeName
  <2>. QED BY <1>1, <2>2, <2>3, <2>4 DEF EditInv, NamesExact
<1>8. SlotsKept
  BY <1>5 DEF SlotsKept
<1>9. NodesAge /\ EdgesAge
  BY <1>1, <1>4, SameEdgesAge DEF NodesAge, Aged
<1>. QED BY <1>1, <1>6, <1>7, <1>8, <1>9, SlotsKeptKeeps DEF EditInv, Keeps

LEMMA RenameNodeKeeps ==
    ASSUME EditInv, NEW n \in LiveNodes, NEW name \in Names, RenameNode(n, name)
    PROVE  Keeps
<1> DEFINE node == [nodes[n] EXCEPT !.name = name]
<1>1. /\ ValidNodeName(name, n)
      /\ names' = {p \in names : p[1] # nodes[n].name} \cup {<<name, n>>}
      /\ nodes' = [nodes EXCEPT ![n].name = name]
      /\ result' = "ok" /\ UNCHANGED <<edges, exposed>>
  BY DEF RenameNode, Done
<1>2. nodes \in Seq(LiveNode \cup {Gone}) /\ n \in DOMAIN nodes /\ nodes[n] \in LiveNode
  BY NodeFacts DEF EditInv, RecordsTyped, LiveNodes
<1>3. /\ node \in LiveNode /\ node.live /\ node.name = name
      /\ node.schema = nodes[n].schema /\ node.generation = nodes[n].generation
  BY <1>2 DEF LiveNode
<1>4. /\ DOMAIN nodes' = DOMAIN nodes /\ nodes'[n] = node
      /\ \A a \in DOMAIN nodes : a # n => nodes'[a] = nodes[a]
      /\ nodes' \in Seq(LiveNode \cup {Gone})
  <2>1. nodes' = [nodes EXCEPT ![n] = node]
    BY <1>1, <1>2
  <2> HIDE DEF node
  <2>. QED BY <1>2, <1>3, <2>1
<1> HIDE DEF node
<1>5. /\ LiveNodes' = LiveNodes
      /\ \A a \in LiveNodes : a # n => nodes'[a] = nodes[a]
  BY <1>2, <1>3, <1>4 DEF LiveNodes
<1>6. RecordsTyped'
  BY <1>1, <1>4 DEF EditInv, RecordsTyped
<1>7. NamesExact'
  <2>1. \A a \in LiveNodes : nodes[a].name = name => a = n
    BY <1>1, NamesFacts DEF EditInv, ValidNodeName
  <2>2. \A a, b \in LiveNodes : nodes[a].name = nodes[b].name => a = b
    BY DEF EditInv, NamesExact
  <2>3. names = {<<nodes[a].name, a>> : a \in LiveNodes}
    BY DEF EditInv, NamesExact
  <2>4. names' = {<<nodes'[a].name, a>> : a \in LiveNodes}
    <3>1. ASSUME NEW a \in LiveNodes PROVE <<nodes'[a].name, a>> \in names'
      <4>1. CASE a = n
        BY <1>1, <1>3, <1>4, <4>1
      <4>2. CASE a # n
        BY <1>1, <1>5, <2>2, <2>3, <4>2
      <4>. QED BY <4>1, <4>2
    <3>2. ASSUME NEW p \in names' PROVE \E a \in LiveNodes : p = <<nodes'[a].name, a>>
      <4>1. CASE p = <<name, n>>
        BY <1>3, <1>4, <4>1
      <4>2. CASE p \in names /\ p[1] # nodes[n].name
        <5>1. PICK a \in LiveNodes : p = <<nodes[a].name, a>>
          BY <2>3, <4>2
        <5>. QED BY <1>5, <4>2, <5>1
      <4>. QED BY <1>1, <3>2, <4>1, <4>2
    <3>. QED BY <3>1, <3>2
  <2>5. \A a, b \in LiveNodes : nodes'[a].name = nodes'[b].name => a = b
    BY <1>3, <1>4, <1>5, <2>1, <2>2
  <2>6. \A a \in LiveNodes : nodes'[a].name # NoName
    BY <1>1, <1>3, <1>4, <1>5 DEF EditInv, NamesExact, ValidNodeName
  <2>. QED BY <1>5, <2>4, <2>5, <2>6 DEF NamesExact
<1>8. SlotsKept
  BY <1>3, <1>4, <1>5 DEF SlotsKept
<1>9. NodesAge /\ EdgesAge
  BY <1>1, <1>3, <1>4, SameEdgesAge DEF NodesAge, Aged, LiveNodes
<1>. QED BY <1>1, <1>6, <1>7, <1>8, <1>9, SlotsKeptKeeps DEF EditInv, Keeps

LEMMA SetActiveKeeps ==
    ASSUME EditInv, NEW n \in LiveNodes, NEW active \in BOOLEAN, SetActive(n, active)
    PROVE  Keeps
<1> DEFINE node == [nodes[n] EXCEPT !.active = active]
<1>1. /\ nodes' = [nodes EXCEPT ![n].active = active]
      /\ result' = "ok" /\ UNCHANGED <<names, edges, exposed>>
  BY DEF SetActive, Done
<1>2. nodes \in Seq(LiveNode \cup {Gone}) /\ n \in DOMAIN nodes /\ nodes[n] \in LiveNode
  BY NodeFacts DEF EditInv, RecordsTyped, LiveNodes
<1>3. /\ node \in LiveNode /\ node.live /\ node.name = nodes[n].name
      /\ node.schema = nodes[n].schema /\ node.generation = nodes[n].generation
  BY <1>2 DEF LiveNode
<1>4. /\ DOMAIN nodes' = DOMAIN nodes /\ nodes'[n] = node
      /\ \A a \in DOMAIN nodes : a # n => nodes'[a] = nodes[a]
      /\ nodes' \in Seq(LiveNode \cup {Gone})
  <2>1. nodes' = [nodes EXCEPT ![n] = node]
    BY <1>1, <1>2
  <2> HIDE DEF node
  <2>. QED BY <1>2, <1>3, <2>1
<1> HIDE DEF node
<1>5. /\ LiveNodes' = LiveNodes
      /\ \A a \in LiveNodes : nodes'[a].name = nodes[a].name
      /\ \A a \in LiveNodes : nodes'[a].schema = nodes[a].schema
  BY <1>2, <1>3, <1>4 DEF LiveNodes
<1>6. RecordsTyped'
  BY <1>1, <1>4 DEF EditInv, RecordsTyped
<1>7. NamesExact'
  BY <1>1, <1>5 DEF EditInv, NamesExact
<1>8. SlotsKept
  BY <1>5 DEF SlotsKept
<1>9. NodesAge /\ EdgesAge
  BY <1>1, <1>3, <1>4, SameEdgesAge DEF NodesAge, Aged, LiveNodes
<1>. QED BY <1>1, <1>6, <1>7, <1>8, <1>9, SlotsKeptKeeps DEF EditInv, Keeps

LEMMA ExposeInputKeeps ==
    ASSUME EditInv, NEW n \in LiveNodes, NEW in \in Inputs(n), ExposeInput(n, in)
    PROVE  Keeps
<1> DEFINE b == [node |-> n, input |-> in.id, type |-> in.type,
                 required |-> in.required, many |-> in.many]
<1>1. /\ Incoming(n, in.id) = {} /\ ~IsExposed(n, in.id)
      /\ exposed' = Append(exposed, b)
      /\ result' = "ok" /\ UNCHANGED <<nodes, names, edges>>
  BY DEF ExposeInput, Done
<1>2. /\ exposed \in Seq(Binding) /\ DOMAIN exposed = 1..Len(exposed) /\ Len(exposed) \in Nat
  BY LenProperties DEF EditInv, RecordsTyped
<1>3. b \in Binding /\ b.node = n /\ b.input = in.id /\ BindingKept(b, nodes[n].schema)
  <2>1. /\ n \in Nat /\ in.id \in SlotIds /\ in \in Slots
        /\ in.required \in BOOLEAN /\ in.many \in BOOLEAN
    BY NodeFacts, SlotFacts DEF EditInv
  <2>2. b \in Binding
    BY <2>1 DEF Binding
  <2>3. BindingKept(b, nodes[n].schema)
    BY DEF BindingKept, Inputs
  <2>. QED BY <2>2, <2>3
<1> HIDE DEF b
<1>4. /\ exposed' \in Seq(Binding) /\ DOMAIN exposed' = (DOMAIN exposed) \cup {Len(exposed) + 1}
      /\ exposed'[Len(exposed) + 1] = b /\ Len(exposed) + 1 \notin DOMAIN exposed
      /\ \A i \in DOMAIN exposed : exposed'[i] = exposed[i]
  BY <1>1, <1>2, <1>3
<1>5. \A i \in DOMAIN exposed : ~(exposed[i].node = n /\ exposed[i].input = in.id)
  BY <1>1 DEF IsExposed, ToSet
<1>6. RecordsTyped'
  BY <1>1, <1>4 DEF EditInv, RecordsTyped
<1>7. NamesExact'
  BY <1>1, SameNodes DEF EditInv, NamesExact
<1>8. /\ LiveEdges' = LiveEdges /\ \A a, slot : Incoming(a, slot)' = Incoming(a, slot)
  BY <1>1 DEF LiveEdges, Incoming
<1>9. EdgesTyped'
  BY <1>1, <1>8, EndsTyped, SameEnds DEF EditInv
<1>10. ProducersUnique'
  BY <1>1, <1>8, SameNodes DEF EditInv, ProducersUnique
<1>11. BindingsSound'
  <2>1. ASSUME NEW x \in ToSet(exposed')
        PROVE  /\ x.node \in LiveNodes' /\ Incoming(x.node, x.input)' = {}
               /\ BindingKept(x, nodes'[x.node].schema)
    <3>1. x = b \/ x \in ToSet(exposed)
      BY <1>4 DEF ToSet
    <3>2. /\ x.node \in LiveNodes /\ Incoming(x.node, x.input) = {}
          /\ BindingKept(x, nodes[x.node].schema)
      BY <1>1, <1>3, <3>1 DEF EditInv, BindingsSound
    <3>. QED BY <1>1, <1>8, <3>2, SameNodes
  <2>2. ASSUME NEW i \in DOMAIN exposed', NEW j \in DOMAIN exposed',
               exposed'[i].node = exposed'[j].node, exposed'[i].input = exposed'[j].input
        PROVE  i = j
    BY <1>3, <1>4, <1>5, <2>2 DEF EditInv, BindingsSound
  <2>. QED BY <2>1, <2>2 DEF BindingsSound, BindingKept
<1>. QED BY <1>1, <1>6, <1>7, <1>9, <1>10, <1>11, SameNodesAge, SameEdgesAge DEF EditInv, Keeps

-----------------------------------------------------------------------------
(* Edits that change the nodes under the edges. *)

LEMMA KeptBindings ==
    ASSUME EditInv, NEW S, exposed' = Kept(exposed, S)
    PROVE  /\ exposed' \in Seq(Binding) /\ ToSet(exposed') = ToSet(exposed) \cap S
           /\ \A i, j \in DOMAIN exposed' :
                 exposed'[i].node = exposed'[j].node /\ exposed'[i].input = exposed'[j].input
                    => i = j
<1>1. exposed \in Seq(Binding) /\ IsInjective(exposed)
  BY DEF EditInv, RecordsTyped, BindingsSound, IsInjective
<1>2. /\ exposed' \in Seq(Binding) /\ ToSet(exposed') = ToSet(exposed) \cap S
      /\ IsInjective(exposed')
  BY <1>1, KeptFacts
<1>3. \A b, c \in ToSet(exposed) : b.node = c.node /\ b.input = c.input => b = c
  BY DEF EditInv, BindingsSound, ToSet
<1>4. \A i \in DOMAIN exposed' : exposed'[i] \in ToSet(exposed)
  BY <1>2 DEF ToSet
<1>. QED BY <1>2, <1>3, <1>4 DEF IsInjective

LEMMA RemoveNodeKeeps ==
    ASSUME EditInv, NEW n \in LiveNodes, RemoveNode(n) PROVE Keeps
<1>1. /\ edges' = [e \in DOMAIN edges |->
                      IF edges[e].live /\ n \in {edges[e].source, edges[e].target}
                      THEN Gone ELSE edges[e]]
      /\ exposed' = Kept(exposed, ToSet(exposed) \ BindingsOf(n))
      /\ names' = {p \in names : p[1] # nodes[n].name}
      /\ nodes' = [nodes EXCEPT ![n] = Gone] /\ result' = "ok"
  BY DEF RemoveNode, Done
<1>2. /\ nodes \in Seq(LiveNode \cup {Gone}) /\ n \in DOMAIN nodes /\ ~Gone.live
      /\ edges \in Seq(LiveEdge \cup {Gone}) /\ Len(edges) \in Nat /\ DOMAIN edges = 1..Len(edges)
      /\ \A e \in DOMAIN edges : edges[e] \in LiveEdge \cup {Gone}
  BY EdgeFacts DEF EditInv, RecordsTyped, LiveNodes, Gone
<1>3. /\ nodes' \in Seq(LiveNode \cup {Gone}) /\ DOMAIN nodes' = DOMAIN nodes
      /\ nodes'[n] = Gone /\ \A a \in DOMAIN nodes : a # n => nodes'[a] = nodes[a]
  BY <1>1, <1>2
<1>4. LiveNodes' = LiveNodes \ {n} /\ \A a \in LiveNodes' : nodes'[a] = nodes[a]
  BY <1>2, <1>3 DEF LiveNodes
<1>5. /\ edges' \in Seq(LiveEdge \cup {Gone}) /\ DOMAIN edges' = DOMAIN edges
      /\ \A e \in DOMAIN edges :
            edges'[e] = IF edges[e].live /\ n \in {edges[e].source, edges[e].target}
                        THEN Gone ELSE edges[e]
  <2>1. /\ DOMAIN edges' = DOMAIN edges
        /\ \A e \in DOMAIN edges :
              edges'[e] = IF edges[e].live /\ n \in {edges[e].source, edges[e].target}
                          THEN Gone ELSE edges[e]
    BY <1>1
  <2>2. edges' \in [1..Len(edges) -> LiveEdge \cup {Gone}]
    BY <1>1, <1>2
  <2>. QED BY <1>2, <2>1, <2>2
<1>6. /\ LiveEdges' \subseteq LiveEdges
      /\ \A e \in LiveEdges' : /\ edges'[e] = edges[e]
                               /\ n \notin {edges[e].source, edges[e].target}
  BY <1>2, <1>5 DEF LiveEdges
<1>7. /\ exposed' \in Seq(Binding)
      /\ \A b \in ToSet(exposed') : b \in ToSet(exposed) /\ b.node # n
      /\ \A i, j \in DOMAIN exposed' :
            exposed'[i].node = exposed'[j].node /\ exposed'[i].input = exposed'[j].input => i = j
  <2> DEFINE S == ToSet(exposed) \ BindingsOf(n)
  <2>1. exposed' = Kept(exposed, S)
    BY <1>1
  <2>2. \A b \in ToSet(exposed) \cap S : b \in ToSet(exposed) /\ b.node # n
    BY DEF BindingsOf
  <2> HIDE DEF S
  <2>3. exposed' \in Seq(Binding) /\ ToSet(exposed') = ToSet(exposed) \cap S
    BY <2>1, KeptBindings
  <2>4. \A i, j \in DOMAIN exposed' :
           exposed'[i].node = exposed'[j].node /\ exposed'[i].input = exposed'[j].input => i = j
    BY <2>1, KeptBindings
  <2>. QED BY <2>2, <2>3, <2>4
<1>8. RecordsTyped'
  BY <1>1, <1>3, <1>5, <1>7 DEF EditInv, RecordsTyped
<1>9. NamesExact'
  <2>1. /\ names = {<<nodes[a].name, a>> : a \in LiveNodes}
        /\ \A a \in LiveNodes : nodes[a].name # NoName
        /\ \A a, b \in LiveNodes : nodes[a].name = nodes[b].name => a = b
    BY DEF EditInv, NamesExact
  <2>2. names' = {<<nodes[a].name, a>> : a \in LiveNodes'}
    <3>1. ASSUME NEW a \in LiveNodes' PROVE <<nodes[a].name, a>> \in names'
      BY <1>1, <1>4, <2>1
    <3>2. ASSUME NEW p \in names' PROVE \E a \in LiveNodes' : p = <<nodes[a].name, a>>
      BY <1>1, <1>4, <2>1
    <3>. QED BY <3>1, <3>2
  <2>3. {<<nodes[a].name, a>> : a \in LiveNodes'} = {<<nodes'[a].name, a>> : a \in LiveNodes'}
    BY <1>4
  <2>. QED BY <1>4, <2>1, <2>2, <2>3 DEF NamesExact
<1>10. \A a \in LiveNodes' : Inputs(a)' = Inputs(a) /\ Outputs(a)' = Outputs(a)
  BY <1>4 DEF Inputs, Outputs
<1>11. EdgesTyped'
  <2>1. ASSUME NEW e \in LiveEdges' PROVE Ends(edges[e])'
    <3>1. Ends(edges[e]) /\ edges'[e] = edges[e]
      BY <1>6, EndsTyped DEF EditInv
    <3>2. edges[e].source \in LiveNodes' /\ edges[e].target \in LiveNodes'
      BY <1>4, <1>6, <3>1 DEF Ends
    <3>. QED BY <1>10, <3>1, <3>2 DEF Ends
  <2>. QED BY <2>1 DEF EdgesTyped, Ends
<1>12. ProducersUnique'
  <2>1. ASSUME NEW a \in LiveNodes', NEW in \in Inputs(a)', ~in.many
        PROVE  \A x, y \in Incoming(a, in.id)' : x = y
    <3>1. \A x, y \in Incoming(a, in.id) : x = y
      BY <1>4, <1>10, <2>1, OneProducer DEF EditInv
    <3>. QED BY <1>6, <3>1, FewerEdges
  <2>. QED BY <1>6, <1>8, <2>1, FewerEdges, NewProducers
<1>13. BindingsSound'
  <2>1. ASSUME NEW b \in ToSet(exposed')
        PROVE  /\ b.node \in LiveNodes' /\ Incoming(b.node, b.input)' = {}
               /\ BindingKept(b, nodes'[b.node].schema)
    <3>1. /\ b.node \in LiveNodes' /\ Incoming(b.node, b.input) = {}
          /\ BindingKept(b, nodes[b.node].schema)
      BY <1>4, <1>7 DEF EditInv, BindingsSound
    <3>. QED BY <1>4, <1>6, <3>1, FewerEdges
  <2>. QED BY <1>7, <2>1 DEF BindingsSound, BindingKept
<1>14. NodesAge /\ EdgesAge
  BY <1>2, <1>3, <1>5 DEF NodesAge, Aged, EdgesAge
<1>. QED BY <1>1, <1>8, <1>9, <1>11, <1>12, <1>13, <1>14 DEF EditInv, Keeps

LEMMA RefusalKeeps ==
    ASSUME EditInv, UNCHANGED declaration, result' = "error" PROVE EditInv'
BY DEF EditInv, declaration, RecordsTyped, NamesExact, EdgesTyped, ProducersUnique, BindingsSound,
       LiveNodes, LiveEdges, Inputs, Outputs, Incoming

\* An edge that survives a new schema of n still joins slots of one type there.
LEMMA RetainedEnds ==
    ASSUME EditInv, NEW n \in LiveNodes, NEW schema, NEW e \in LiveEdges, Retained(e, n, schema),
           edges'[e] = edges[e], LiveNodes' = LiveNodes, nodes'[n].schema = schema,
           \A a \in LiveNodes : a # n => nodes'[a].schema = nodes[a].schema
    PROVE  Ends(edges[e])'
<1> DEFINE m == edges[e].source
           k == edges[e].target
<1>1. PICK out \in Outputs(m), in \in Inputs(k) :
         out.id = edges[e].output /\ in.id = edges[e].input /\ out.type = in.type
  BY DEF EditInv, EdgesTyped
<1>2. m \in LiveNodes /\ k \in LiveNodes
  BY DEF EditInv, EdgesTyped
<1>3. \E o \in Outputs(m)' : o.id = edges[e].output /\ o.type = out.type
  <2>1. CASE m # n
    <3>1. Outputs(m)' = Outputs(m)
      BY <1>2, <2>1 DEF Outputs
    <3>. QED BY <1>1, <3>1
  <2>2. CASE m = n
    <3>1. Outputs(m)' = ToSet(schema.outputs) /\ Outputs(m) = ToSet(nodes[n].schema.outputs)
      BY <2>2 DEF Outputs
    <3>2. TypeOf(Outputs(m), edges[e].output)
              \cap TypeOf(ToSet(schema.outputs), edges[e].output) # {}
      BY <2>2, <3>1 DEF Retained, Compatible
    <3>3. PICK old \in Outputs(m), new \in ToSet(schema.outputs) :
             old.id = edges[e].output /\ new.id = edges[e].output /\ old.type = new.type
      BY <3>2 DEF TypeOf
    <3>4. old = out
      BY <1>1, <1>2, <3>3, SlotFacts DEF EditInv
    <3>. QED BY <3>1, <3>3, <3>4
  <2>. QED BY <2>1, <2>2
<1>4. \E i \in Inputs(k)' : i.id = edges[e].input /\ i.type = in.type
  <2>1. CASE k # n
    <3>1. Inputs(k)' = Inputs(k)
      BY <1>2, <2>1 DEF Inputs
    <3>. QED BY <1>1, <3>1
  <2>2. CASE k = n
    <3>1. Inputs(k)' = ToSet(schema.inputs) /\ Inputs(k) = ToSet(nodes[n].schema.inputs)
      BY <2>2 DEF Inputs
    <3>2. TypeOf(Inputs(k), edges[e].input) \cap TypeOf(ToSet(schema.inputs), edges[e].input) # {}
      BY <2>2, <3>1 DEF Retained, Compatible
    <3>3. PICK old \in Inputs(k), new \in ToSet(schema.inputs) :
             old.id = edges[e].input /\ new.id = edges[e].input /\ old.type = new.type
      BY <3>2 DEF TypeOf
    <3>4. old = in
      BY <1>1, <1>2, <3>3, SlotFacts DEF EditInv
    <3>. QED BY <3>1, <3>3, <3>4
  <2>. QED BY <2>1, <2>2
<1>. QED BY <1>1, <1>2, <1>3, <1>4 DEF Ends

LEMMA ReplaceSchemaKeeps ==
    ASSUME EditInv, NEW n \in LiveNodes, NEW schema \in Schemas, ReplaceSchema(n, schema)
    PROVE  Keeps
<1> DEFINE kept == {e \in LiveEdges : Retained(e, n, schema)}
           overflow == \E in \in ToSet(schema.inputs) :
                          ~in.many /\ Cardinality(kept \cap Incoming(n, in.id)) > 1
<1>1. CASE ~ValidSchema(schema) \/ overflow
  <2>1. result' = "error" /\ UNCHANGED declaration
    BY <1>1 DEF ReplaceSchema
  <2>. QED BY <2>1, RefusalKeeps, SameNodesAge, SameEdgesAge DEF Keeps, declaration
<1>2. CASE ~(~ValidSchema(schema) \/ overflow)
  <2> DEFINE node == [nodes[n] EXCEPT !.schema = schema, !.generation = @ + 1]
  <2>1. /\ ValidSchema(schema) /\ ~overflow
        /\ edges' = [e \in DOMAIN edges |-> IF e \in kept THEN edges[e] ELSE Gone]
        /\ exposed' = Kept(exposed, (ToSet(exposed) \ BindingsOf(n))
                                       \cup {b \in BindingsOf(n) : BindingKept(b, schema)})
        /\ nodes' = [nodes EXCEPT ![n].schema = schema, ![n].generation = @ + 1]
        /\ result' = "ok" /\ names' = names
    BY <1>2 DEF ReplaceSchema, Done
  <2>2. /\ nodes \in Seq(LiveNode \cup {Gone}) /\ n \in DOMAIN nodes /\ nodes[n] \in LiveNode
        /\ edges \in Seq(LiveEdge \cup {Gone})
        /\ Len(edges) \in Nat /\ DOMAIN edges = 1..Len(edges)
        /\ \A e \in DOMAIN edges : edges[e] \in LiveEdge \cup {Gone}
        /\ ~Gone.live /\ IsFiniteSet(LiveEdges)
    BY EdgeFacts, NodeFacts DEF EditInv, RecordsTyped, LiveNodes, Gone
  <2>3. /\ node \in LiveNode /\ node.live /\ node.name = nodes[n].name
        /\ node.schema = schema /\ node.generation = nodes[n].generation + 1
    <3>1. schema \in ValidSchemas
      BY <2>1 DEF ValidSchemas
    <3>2. ASSUME NEW r \in LiveNode, NEW s \in ValidSchemas
          PROVE  LET q == [r EXCEPT !.schema = s, !.generation = r.generation + 1]
                 IN  /\ q \in LiveNode /\ q.live /\ q.name = r.name
                     /\ q.schema = s /\ q.generation = r.generation + 1
      <4> DEFINE g == r.generation + 1
      <4>1. g \in Nat
        BY DEF LiveNode
      <4> HIDE DEF g
      <4>2. [r EXCEPT !.schema = s, !.generation = g] \in LiveNode
        BY <4>1 DEF LiveNode
      <4>3. LET q == [r EXCEPT !.schema = s, !.generation = g]
            IN  q.live /\ q.name = r.name /\ q.schema = s /\ q.generation = g
        BY DEF LiveNode
      <4>. QED BY <4>2, <4>3 DEF g
    <3>3. nodes[n] \in LiveNode
      BY <2>2
    <3>. QED BY <3>1, <3>2, <3>3, Zenon
  <2>4. /\ DOMAIN nodes' = DOMAIN nodes /\ nodes'[n] = node
        /\ \A a \in DOMAIN nodes : a # n => nodes'[a] = nodes[a]
        /\ nodes' \in Seq(LiveNode \cup {Gone})
    <3>1. nodes' = [nodes EXCEPT ![n] = node]
      BY <2>1, <2>2
    <3> HIDE DEF node
    <3>. QED BY <2>2, <2>3, <3>1
  <2> HIDE DEF node
  <2>5. /\ LiveNodes' = LiveNodes
        /\ \A a \in LiveNodes : nodes'[a].name = nodes[a].name
        /\ \A a \in LiveNodes : a # n => nodes'[a] = nodes[a]
    BY <2>2, <2>3, <2>4 DEF LiveNodes
  <2>6. /\ DOMAIN edges' = DOMAIN edges /\ edges' \in Seq(LiveEdge \cup {Gone})
        /\ \A e \in DOMAIN edges : edges'[e] = IF e \in kept THEN edges[e] ELSE Gone
    <3> HIDE DEF kept
    <3>1. edges' \in [1..Len(edges) -> LiveEdge \cup {Gone}]
      BY <2>1, <2>2
    <3>. QED BY <2>1, <2>2, <3>1
  <2>7. LiveEdges' = kept /\ \A e \in LiveEdges' : e \in LiveEdges /\ edges'[e] = edges[e]
    BY <2>2, <2>6 DEF LiveEdges
  <2>8. /\ exposed' \in Seq(Binding)
        /\ \A b \in ToSet(exposed') : /\ b \in ToSet(exposed)
                                      /\ b.node # n \/ BindingKept(b, schema)
        /\ \A i, j \in DOMAIN exposed' :
              exposed'[i].node = exposed'[j].node /\ exposed'[i].input = exposed'[j].input => i = j
    <3> DEFINE S == (ToSet(exposed) \ BindingsOf(n))
                       \cup {b \in BindingsOf(n) : BindingKept(b, schema)}
    <3>1. \A b \in S : b.node # n \/ BindingKept(b, schema)
      BY DEF BindingsOf
    <3>2. exposed' = Kept(exposed, S)
      BY <2>1
    <3> HIDE DEF S
    <3>. QED BY <3>1, <3>2, KeptBindings
  <2>9. RecordsTyped'
    BY <2>1, <2>4, <2>6, <2>8 DEF EditInv, RecordsTyped
  <2>10. NamesExact'
    <3>1. names' = names
      BY <2>1
    <3>2. {<<nodes'[a].name, a>> : a \in LiveNodes'} = {<<nodes[a].name, a>> : a \in LiveNodes}
      BY <2>5
    <3>. QED BY <2>5, <3>1, <3>2 DEF EditInv, NamesExact
  <2>11. EdgesTyped'
    <3>1. ASSUME NEW e \in LiveEdges' PROVE Ends(edges[e])'
      <4>1. e \in LiveEdges /\ Retained(e, n, schema) /\ edges'[e] = edges[e]
        BY <2>7
      <4>. QED BY <2>3, <2>4, <2>5, <4>1, RetainedEnds
    <3>. QED BY <3>1 DEF EdgesTyped, Ends
  <2>12. ProducersUnique'
    <3> HIDE DEF kept
    <3>1. ASSUME NEW a \in LiveNodes', NEW in \in Inputs(a)', ~in.many
          PROVE  \A x, y \in Incoming(a, in.id)' : x = y
      <4>1. CASE a # n
        <5>1. in \in Inputs(a) /\ a \in LiveNodes
          BY <2>5, <4>1 DEF Inputs
        <5>2. \A x, y \in Incoming(a, in.id) : x = y
          BY <3>1, <5>1, OneProducer DEF EditInv
        <5>. QED BY <2>7, <5>2, FewerEdges
      <4>2. CASE a = n
        <5>1. in \in ToSet(schema.inputs)
          BY <2>3, <2>4, <4>2 DEF Inputs
        <5>2. ~(Cardinality(kept \cap Incoming(n, in.id)) > 1)
          BY <2>1, <3>1, <5>1
        <5>3. IsFiniteSet(kept \cap Incoming(n, in.id))
          <6>1. kept \cap Incoming(n, in.id) \subseteq LiveEdges
            BY DEF Incoming
          <6>. QED BY <2>2, <6>1, FS_Subset
        <5>4. Cardinality(kept \cap Incoming(n, in.id)) <= 1
          BY <5>2, <5>3, FS_CardinalityType
        <5>5. \A x, y \in kept \cap Incoming(n, in.id) : x = y
          BY <5>3, <5>4, AtMostOne
        <5>6. Incoming(n, in.id)' \subseteq kept \cap Incoming(n, in.id)
          BY <2>7 DEF Incoming
        <5>. QED BY <4>2, <5>5, <5>6
      <4>. QED BY <4>1, <4>2
    <3>. QED BY <2>7, <2>9, <3>1, FewerEdges, NewProducers
  <2>13. BindingsSound'
    <3>1. ASSUME NEW b \in ToSet(exposed')
          PROVE  /\ b.node \in LiveNodes' /\ Incoming(b.node, b.input)' = {}
                 /\ BindingKept(b, nodes'[b.node].schema)
      <4>1. /\ b.node \in LiveNodes /\ Incoming(b.node, b.input) = {}
            /\ BindingKept(b, nodes[b.node].schema)
        BY <2>8 DEF EditInv, BindingsSound
      <4>2. BindingKept(b, nodes'[b.node].schema)
        BY <2>3, <2>4, <2>5, <2>8, <4>1
      <4>3. Incoming(b.node, b.input)' = {}
        BY <2>7, <4>1, FewerEdges
      <4>. QED BY <2>5, <4>1, <4>2, <4>3
    <3>. QED BY <2>8, <3>1 DEF BindingsSound, BindingKept
  <2>14. NodesAge
    <3>1. nodes'[n].generation > nodes[n].generation
      BY <2>2, <2>3, <2>4 DEF LiveNode
    <3>. QED BY <2>4, <3>1 DEF NodesAge, Aged, LiveNodes
  <2>15. EdgesAge
    <3> HIDE DEF kept
    <3>. QED BY <2>2, <2>6 DEF EdgesAge
  <2>. QED BY <2>1, <2>9, <2>10, <2>11, <2>12, <2>13, <2>14, <2>15 DEF EditInv, Keeps
<1>. QED BY <1>1, <1>2

-----------------------------------------------------------------------------
(* Every edit, with slots by name or by handle. *)

LEMMA EditInvInit == Init => EditInv
<1> SUFFICES ASSUME Init PROVE EditInv
  OBVIOUS
<1>1. /\ nodes = <<>> /\ names = {} /\ edges = <<>> /\ exposed = <<>> /\ result = "ok"
      /\ DOMAIN nodes = {} /\ DOMAIN edges = {} /\ DOMAIN exposed = {}
  BY DEF Init
<1>2. LiveNodes = {} /\ LiveEdges = {} /\ ToSet(exposed) = {}
  BY <1>1 DEF LiveNodes, LiveEdges, ToSet
<1>. QED BY <1>1, <1>2
         DEF EditInv, RecordsTyped, NamesExact, EdgesTyped, ProducersUnique, BindingsSound

LEMMA ResolvedFacts ==
    ASSUME NEW h, NEW slot \in Resolved(h)
    PROVE  /\ h.node \in LiveNodes /\ slot \in SlotsOf(h.node, h.side) /\ slot.id = h.slot
           /\ h.generation = nodes[h.node].generation
BY DEF Resolved

LEMMA EditKeeps ==
    ASSUME EditInv, Next \/ HandleEdit PROVE Keeps
<1>1. ASSUME NEW sources \in SeqOf(LiveNodes, MaxNodes), NEW n \in LiveNodes, NEW in \in Inputs(n),
             CollectInto(sources, n, in)
      PROVE  Keeps
  <2>1. PICK k \in 0..MaxNodes : sources \in [1..k -> LiveNodes]
    BY DEF SeqOf
  <2>2. k \in Nat
    BY BoundAssumption
  <2>. QED BY <1>1, <2>1, <2>2, CollectIntoKeeps
<1>2. CASE Next
  <2>1. CASE \E name \in Names, schema \in Schemas : AddNode(name, schema)
    BY <2>1, AddNodeKeeps
  <2>2. ASSUME NEW n \in LiveNodes,
               \/ RemoveNode(n)
               \/ \E name \in Names : RenameNode(n, name)
               \/ \E active \in BOOLEAN : SetActive(n, active)
               \/ \E schema \in Schemas : ReplaceSchema(n, schema)
               \/ \E in \in Inputs(n) : ExposeInput(n, in)
        PROVE  Keeps
    BY <2>2, RemoveNodeKeeps, RenameNodeKeeps, SetActiveKeeps, ReplaceSchemaKeeps, ExposeInputKeeps
  <2>3. ASSUME NEW n \in LiveNodes,
               \/ \E m \in LiveNodes : ConnectNodes(m, n)
               \/ \E m \in LiveNodes : \E out \in Outputs(m), in \in Inputs(n) :
                     Connect(m, out, n, in)
               \/ \E sources \in SeqOf(LiveNodes, MaxNodes), in \in Inputs(n) :
                     CollectInto(sources, n, in)
        PROVE  Keeps
    BY <1>1, <2>3, ConnectNodesKeeps, ConnectKeeps
  <2>4. ASSUME NEW e \in LiveEdges,
               \/ Disconnect(e)
               \/ \E m \in LiveNodes : \E out \in Outputs(m) : Reconnect(e, m, out)
        PROVE  Keeps
    BY <2>4, DisconnectKeeps, ReconnectKeeps
  <2>. QED BY <1>2, <2>1, <2>2, <2>3, <2>4 DEF Next
<1>3. CASE HandleEdit
  <2>1. ASSUME Refuse PROVE Keeps
    BY <2>1, RefusalKeeps, SameNodesAge, SameEdgesAge DEF Refuse, Keeps, declaration
  <2>2. ASSUME NEW to \in Held("in"), NEW in \in Resolved(to)
        PROVE  to.node \in LiveNodes /\ in \in Inputs(to.node)
    BY ResolvedFacts DEF Held, SlotsOf
  <2>3. ASSUME NEW from \in Held("out"), NEW out \in Resolved(from)
        PROVE  from.node \in LiveNodes /\ out \in Outputs(from.node)
    BY ResolvedFacts DEF Held, SlotsOf
  <2>4. ASSUME NEW from \in Held("out"), NEW to \in Held("in"), ConnectHandles(from, to)
        PROVE  Keeps
    BY <2>1, <2>2, <2>3, <2>4, ConnectKeeps DEF ConnectHandles
  <2>5. ASSUME NEW e \in LiveEdges, NEW from \in Held("out"), ReconnectHandle(e, from)
        PROVE  Keeps
    BY <2>1, <2>3, <2>5, ReconnectKeeps DEF ReconnectHandle
  <2>6. ASSUME NEW to \in Held("in"), ExposeHandle(to)
        PROVE  Keeps
    BY <2>1, <2>2, <2>6, ExposeInputKeeps DEF ExposeHandle
  <2>7. ASSUME NEW to \in Held("in"), NEW sources \in SeqOf(LiveNodes, MaxNodes),
               CollectIntoHandle(sources, to)
        PROVE  Keeps
    BY <1>1, <2>1, <2>2, <2>7 DEF CollectIntoHandle
  <2>. QED BY <1>3, <2>4, <2>5, <2>6, <2>7 DEF HandleEdit
<1>. QED BY <1>2, <1>3

LEMMA EditStutter == EditInv /\ UNCHANGED vars => EditInv'
BY DEF EditInv, vars, declaration, RecordsTyped, NamesExact, EdgesTyped, ProducersUnique,
       BindingsSound, LiveNodes, LiveEdges, Inputs, Outputs, Incoming

LEMMA EditsKeepDeclaration == HandleSpec => []EditInv
<1>1. HandleInit => EditInv
  BY EditInvInit DEF HandleInit
<1>2. EditInv /\ [HandleNext]_allVars => EditInv'
  BY EditKeeps, EditStutter DEF HandleNext, allVars, Keeps
<1>. QED BY <1>1, <1>2, PTL DEF HandleSpec

\* The name index holds each live node under its current name and nothing else,
\* and no two live nodes share a name, after any edits (add_node, rename_node,
\* remove_node and the rest).
THEOREM NamesStayExact == HandleSpec => []NamesExact
BY EditsKeepDeclaration, PTL DEF EditInv

\* Every live edge joins slots of one value type that exist in the current
\* schemas of live nodes, whatever schema replaced another (replace_schema).
THEOREM EdgesStayTyped == HandleSpec => []EdgesTyped
BY EditsKeepDeclaration, PTL DEF EditInv

\* No output feeds an input twice and a One input has one producer at most,
\* whichever edit made the edges (connect, reconnect, connect_nodes,
\* collect_into) or changed the schema under them.
THEOREM ProducersStayUnique == HandleSpec => []ProducersUnique
BY EditsKeepDeclaration, PTL DEF EditInv

\* An exposed input has one binding, which describes the input of the current
\* schema, and no producer.
THEOREM BindingsStaySound == HandleSpec => []BindingsSound
BY EditsKeepDeclaration, PTL DEF EditInv

\* An edit that fails leaves the declaration as it was: connect_nodes validates
\* each planned edge again as it pushes it, and never has to refuse one.
THEOREM FailuresAreAtomic == HandleSpec => FailureIsAtomic
<1>1. EditInv /\ [HandleNext]_allVars => [FailureIsAtomicStep]_vars
  BY EditKeeps DEF HandleNext, allVars, FailureIsAtomicStep, Keeps
<1>. QED BY <1>1, EditsKeepDeclaration, PTL DEF HandleSpec, FailureIsAtomic


-----------------------------------------------------------------------------
(* Handles. *)

\* A handle that was issued: until its node ages, it names the slot it was
\* issued for.
IssuedFor(h, slot) ==
    /\ h.node \in DOMAIN nodes /\ slot.type = h.type /\ h.generation \in Nat
    /\ h.node \in LiveNodes =>
          /\ h.generation <= nodes[h.node].generation
          /\ h.generation = nodes[h.node].generation =>
                slot \in SlotsOf(h.node, h.side) /\ slot.id = h.slot

HandlesSound == \A x \in issued : IssuedFor(x[1], x[2])

LEMMA OfferedFacts ==
    ASSUME RecordsTyped, NEW x \in Offered PROVE IssuedFor(x[1], x[2])
<1>1. PICK n \in LiveNodes, side \in {"in", "out"}, type \in Types :
         \E slot \in SlotsOf(n, side) :
            slot.type = type /\ x = <<Handle(side, n, slot, type), slot>>
  BY DEF Offered, Offer
<1>a. PICK slot \in SlotsOf(n, side) :
         slot.type = type /\ x = <<Handle(side, n, slot, type), slot>>
  BY <1>1
<1>2. /\ x[1].node = n /\ x[1].side = side /\ x[1].slot = slot.id /\ x[2] = slot
      /\ x[1].generation = nodes[n].generation /\ x[1].type = type
  BY <1>a DEF Handle
<1>3. nodes[n].generation \in Nat /\ n \in DOMAIN nodes
  BY NodeFacts DEF LiveNode, LiveNodes
<1>. QED BY <1>a, <1>2, <1>3 DEF IssuedFor

OfferedSound == \A x \in Offered : IssuedFor(x[1], x[2])

LEMMA OffersAreSound == RecordsTyped => OfferedSound
BY OfferedFacts DEF OfferedSound

\* The graph offers sound handles in the state that an edit leaves, too.
LEMMA OffersAreSoundNext == RecordsTyped' => OfferedSound'
BY OffersAreSound, PTL

\* Handles that were issued stay sound, whichever edit comes next.
LEMMA HandlesSoundStep ==
    ASSUME EditInv, EditInv', HandlesSound, NodesAge, issued' = issued \cup Offered'
    PROVE  HandlesSound'
<1>1. ASSUME NEW h, NEW slot, IssuedFor(h, slot) PROVE IssuedFor(h, slot)'
  <2>1. /\ h.node \in DOMAIN nodes /\ h.node \in DOMAIN nodes'
        /\ Aged(h.node) /\ h.generation \in Nat
    BY <1>1 DEF IssuedFor, NodesAge
  <2>2. CASE h.node \in LiveNodes'
    <3>1. /\ h.node \in LiveNodes
          /\ \/ /\ nodes'[h.node].generation = nodes[h.node].generation
                /\ nodes'[h.node].schema = nodes[h.node].schema
             \/ nodes'[h.node].generation > nodes[h.node].generation
      BY <2>1, <2>2 DEF Aged, LiveNodes
    <3>2. /\ nodes[h.node].generation \in Nat /\ h.generation <= nodes[h.node].generation
      BY <1>1, <3>1, NodeFacts DEF EditInv, LiveNode, IssuedFor
    <3>3. nodes'[h.node].generation \in Nat
      <4>1. nodes' \in Seq(LiveNode \cup {Gone})
        BY DEF EditInv, RecordsTyped
      <4>2. nodes'[h.node] \in LiveNode \cup {Gone}
        BY <2>1, <4>1, LenProperties, ElementOfSeq
      <4>3. nodes'[h.node].live /\ ~Gone.live
        BY <2>2 DEF LiveNodes, Gone
      <4>4. nodes'[h.node] \in LiveNode
        BY <4>2, <4>3
      <4>. QED BY <4>4 DEF LiveNode
    <3>4. CASE h.generation = nodes'[h.node].generation
      <4>1. /\ nodes'[h.node].generation = nodes[h.node].generation
            /\ nodes'[h.node].schema = nodes[h.node].schema
        BY <3>1, <3>2, <3>3, <3>4
      <4>2. SlotsOf(h.node, h.side)' = SlotsOf(h.node, h.side)
        BY <4>1 DEF SlotsOf, Inputs, Outputs
      <4>. QED BY <1>1, <2>1, <3>1, <3>2, <3>4, <4>1, <4>2 DEF IssuedFor
    <3>5. CASE h.generation # nodes'[h.node].generation
      <4>1. h.generation <= nodes'[h.node].generation
        BY <3>1, <3>2, <3>3, <2>1
      <4>. QED BY <1>1, <2>1, <3>5, <4>1 DEF IssuedFor
    <3>. QED BY <3>4, <3>5
  <2>3. CASE h.node \notin LiveNodes'
    BY <1>1, <2>1, <2>3 DEF IssuedFor
  <2>. QED BY <2>2, <2>3
<1>2. OfferedSound'
  BY OffersAreSoundNext DEF EditInv
<1>. QED BY <1>1, <1>2 DEF HandlesSound, OfferedSound

LEMMA HandleInvariant == HandleSpec => [](EditInv /\ HandlesSound)
<1>1. HandleInit => EditInv /\ HandlesSound
  BY EditInvInit DEF HandleInit, HandlesSound
<1>2. EditInv /\ HandlesSound /\ [HandleNext]_allVars => EditInv' /\ HandlesSound'
  <2> SUFFICES ASSUME EditInv, HandlesSound, [HandleNext]_allVars PROVE EditInv' /\ HandlesSound'
    OBVIOUS
  <2>1. CASE HandleNext
    BY <2>1, EditKeeps, HandlesSoundStep DEF HandleNext, Keeps
  <2>2. CASE UNCHANGED allVars
    <3>1. EditInv' /\ issued' = issued /\ nodes' = nodes
      BY <2>2, EditStutter DEF allVars, vars, declaration
    <3>. QED BY <3>1 DEF HandlesSound, IssuedFor, LiveNodes, SlotsOf, Inputs, Outputs
  <2>. QED BY <2>1, <2>2
<1>. QED BY <1>1, <1>2, PTL DEF HandleSpec

\* A handle resolves to the slot it was issued for or to nothing, with the type
\* it has in the client's program, after any edits (resolve_input,
\* resolve_output, the generation that replace_schema bumps).
THEOREM HandlesStayTrue == HandleSpec => []HandlesMeanOneSlot
<1>1. EditInv /\ HandlesSound => HandlesMeanOneSlot
  <2> SUFFICES ASSUME EditInv, HandlesSound, NEW x \in issued, NEW slot \in Resolved(x[1])
               PROVE  slot = x[2] /\ slot.type = x[1].type
    BY DEF HandlesMeanOneSlot
  <2>1. /\ x[1].node \in LiveNodes /\ slot \in SlotsOf(x[1].node, x[1].side)
        /\ slot.id = x[1].slot /\ x[1].generation = nodes[x[1].node].generation
    BY ResolvedFacts
  <2>2. /\ x[2] \in SlotsOf(x[1].node, x[1].side) /\ x[2].id = x[1].slot
        /\ x[2].type = x[1].type
    BY <2>1 DEF HandlesSound, IssuedFor
  <2>3. x[2] = slot
    BY <2>1, <2>2, SlotFacts DEF EditInv, SlotsOf
  <2>. QED BY <2>2, <2>3
<1>. QED BY <1>1, HandleInvariant, PTL

\* Whatever identity went stale stays stale, a node's, an edge's or a handle's,
\* and an edge keeps its target for life (node_index, edge_index, resolve_input).
THEOREM StaleForGood == HandleSpec => StaleStaysStale
<1>1. ASSUME EditInv, HandlesSound, HandleNext PROVE StaleStep
  <2>1. NodesAge /\ EdgesAge
    BY <1>1, EditKeeps DEF HandleNext, Keeps
  <2>2. ASSUME NEW x \in issued, Resolved(x[1])' # {} PROVE Resolved(x[1]) # {}
    <3> DEFINE h == x[1]
    <3>1. IssuedFor(h, x[2])
      BY <1>1 DEF HandlesSound
    <3> HIDE DEF h
    <3>2. /\ h.graph = "own" /\ h.node \in LiveNodes'
          /\ h.generation = nodes'[h.node].generation
      BY <2>2 DEF Resolved, h
    <3>3. h.node \in DOMAIN nodes /\ Aged(h.node) /\ nodes'[h.node].live
      BY <2>1, <3>1, <3>2 DEF IssuedFor, NodesAge, LiveNodes
    <3>4. /\ h.node \in LiveNodes
          /\ \/ nodes'[h.node].generation = nodes[h.node].generation
             \/ nodes'[h.node].generation > nodes[h.node].generation
      BY <3>3 DEF Aged, LiveNodes
    <3>5. nodes[h.node].generation \in Nat /\ h.generation <= nodes[h.node].generation
      BY <1>1, <3>1, <3>4, NodeFacts DEF EditInv, LiveNode, IssuedFor
    <3>6. h.generation = nodes[h.node].generation
      BY <3>1, <3>2, <3>4, <3>5 DEF IssuedFor
    <3>7. x[2] \in SlotsOf(h.node, h.side) /\ x[2].id = h.slot
      BY <3>1, <3>4, <3>6 DEF IssuedFor
    <3>8. x[2] \in Resolved(h)
      BY <3>2, <3>4, <3>6, <3>7 DEF Resolved
    <3>. QED BY <3>8 DEF h
  <2>. QED BY <2>1, <2>2 DEF StaleStep, NodesAge, Aged, EdgesAge
<1>2. EditInv /\ HandlesSound /\ [HandleNext]_allVars => [StaleStep]_allVars
  BY <1>1
<1>. QED BY <1>2, HandleInvariant, PTL DEF HandleSpec, StaleStaysStale

-----------------------------------------------------------------------------
(* Sets of ids in order. *)

LEMMA InOrderFacts ==
    ASSUME NEW S \in SUBSET Nat, IsFiniteSet(S)
    PROVE  /\ InOrder(S) \in [1..Cardinality(S) -> S] /\ InOrder(S) \in Seq(S)
           /\ Len(InOrder(S)) = Cardinality(S) /\ Cardinality(S) \in Nat
           /\ IsInjective(InOrder(S)) /\ ToSet(InOrder(S)) = S
<1> DEFINE n == Cardinality(S)
           upto(x) == {y \in S : y <= x}
           rank == [x \in S |-> Cardinality(upto(x))]
<1>1. n \in Nat
  BY FS_CardinalityType
<1>2. ASSUME NEW x \in S PROVE rank[x] \in 1..n
  <2>1. upto(x) \in SUBSET S /\ x \in upto(x)
    OBVIOUS
  <2> HIDE DEF upto
  <2>2. IsFiniteSet(upto(x)) /\ Cardinality(upto(x)) <= n
    BY <2>1, FS_Subset
  <2>3. Cardinality(upto(x)) # 0
    BY <2>1, <2>2, FS_EmptySet
  <2>4. Cardinality(upto(x)) \in Nat
    BY <2>2, FS_CardinalityType
  <2>. QED BY <1>1, <2>2, <2>3, <2>4
<1>3. ASSUME NEW x \in S, NEW y \in S, x < y PROVE rank[x] # rank[y]
  <2>1. upto(x) \in SUBSET upto(y) /\ y \in upto(y) /\ y \notin upto(x) /\ upto(y) \in SUBSET S
    <3>1. \A z \in S : z \in Nat
      OBVIOUS
    <3>2. \A z \in S : z <= x => z <= y
      BY <1>3, <3>1
    <3>3. y <= y /\ ~(y <= x)
      BY <1>3, <3>1
    <3>. QED BY <3>2, <3>3
  <2> HIDE DEF upto
  <2>2. IsFiniteSet(upto(y))
    BY <2>1, FS_Subset
  <2>3. Cardinality(upto(y)) # Cardinality(upto(x))
    BY <2>1, <2>2, FS_Subset
  <2>. QED BY <2>3
<1> HIDE DEF upto
<1>4. rank \in Injection(S, 1..n)
  <2>1. rank \in [S -> 1..n]
    BY <1>2
  <2>2. \A x, y \in S : rank[x] = rank[y] => x = y
    <3> HIDE DEF rank
    <3>. QED BY <1>3
  <2> HIDE DEF rank
  <2>. QED BY <2>1, <2>2 DEF Injection, IsInjective
<1>5. IsFiniteSet(1..n) /\ Cardinality(1..n) = n
  BY <1>1, FS_Interval
<1> HIDE DEF rank
<1>6. rank \in Surjection(S, 1..n)
  BY <1>1, <1>4, <1>5, FS_Injection
<1>7. \A k \in 1..n : \E x \in S : rank[x] = k
  BY <1>6 DEF Surjection
<1>8. \A x, y \in S : rank[x] = rank[y] => x = y
  BY <1>4 DEF Injection, IsInjective
<1> DEFINE q == InOrder(S)
           member(k) == CHOOSE x \in S : Cardinality({y \in S : y <= x}) = k
<1>9. q = [k \in 1..n |-> member(k)]
  BY DEF InOrder
<1>10. ASSUME NEW k \in 1..n PROVE member(k) \in S /\ rank[member(k)] = k
  <2>1. \A x \in S : rank[x] = Cardinality({y \in S : y <= x})
    BY DEF rank, upto
  <2>2. \E x \in S : Cardinality({y \in S : y <= x}) = k
    BY <1>7, <2>1
  <2>3. member(k) \in S /\ Cardinality({y \in S : y <= member(k)}) = k
    BY <2>2
  <2>. QED BY <2>1, <2>3
<1> HIDE DEF q, member
<1>11. \A k \in 1..n : q[k] \in S /\ rank[q[k]] = k
  BY <1>9, <1>10
<1>12. q \in [1..n -> S]
  BY <1>9, <1>10
<1>13. \A x \in S : q[rank[x]] = x /\ rank[x] \in 1..n
  BY <1>2, <1>8, <1>11
<1>14. q \in Seq(S) /\ Len(q) = n /\ DOMAIN q = 1..n
  BY <1>1, <1>12
<1>15. IsInjective(q)
  BY <1>11, <1>14 DEF IsInjective
<1>16. ToSet(q) = S
  <2>1. \A x \in S : x \in ToSet(q)
    BY <1>13, <1>14 DEF ToSet
  <2>2. \A x \in ToSet(q) : x \in S
    BY <1>11, <1>14 DEF ToSet
  <2>. QED BY <2>1, <2>2
<1>. QED BY <1>1, <1>12, <1>14, <1>15, <1>16 DEF q

\* The elements at some positions.
LEMMA AtFacts ==
    ASSUME NEW s, NEW S \in SUBSET Nat, IsFiniteSet(S)
    PROVE  /\ DOMAIN At(s, S) = 1..Cardinality(S) /\ Cardinality(S) \in Nat
           /\ \A k \in DOMAIN At(s, S) : \E i \in S : At(s, S)[k] = s[i]
           /\ \A i \in S : \E k \in DOMAIN At(s, S) : At(s, S)[k] = s[i]
           /\ (\A i, j \in S : s[i] = s[j] => i = j)
              => \A k, l \in DOMAIN At(s, S) : At(s, S)[k] = At(s, S)[l] => k = l
<1> DEFINE q == InOrder(S)
<1>1. /\ q \in [1..Cardinality(S) -> S] /\ Cardinality(S) \in Nat /\ IsInjective(q)
      /\ ToSet(q) = S
  BY InOrderFacts
<1>2. At(s, S) = [k \in DOMAIN q |-> s[q[k]]]
  BY DEF At
<1> HIDE DEF q
<1>3. DOMAIN At(s, S) = DOMAIN q /\ DOMAIN q = 1..Cardinality(S)
  BY <1>1, <1>2
<1>4. \A k \in DOMAIN q : q[k] \in S /\ At(s, S)[k] = s[q[k]]
  BY <1>1, <1>2
<1>5. \A i \in S : \E k \in DOMAIN q : q[k] = i
  BY <1>1 DEF ToSet
<1>6. \A k, l \in DOMAIN q : q[k] = q[l] => k = l
  BY <1>1 DEF IsInjective
<1>7. ASSUME \A i, j \in S : s[i] = s[j] => i = j,
             NEW k \in DOMAIN q, NEW l \in DOMAIN q, At(s, S)[k] = At(s, S)[l]
      PROVE  k = l
  <2>1. q[k] \in S /\ q[l] \in S /\ s[q[k]] = s[q[l]]
    BY <1>4, <1>7
  <2>2. q[k] = q[l]
    BY <1>7, <2>1
  <2>. QED BY <1>6, <2>2
<1>8. /\ \A k \in DOMAIN At(s, S) : \E i \in S : At(s, S)[k] = s[i]
      /\ \A i \in S : \E k \in DOMAIN At(s, S) : At(s, S)[k] = s[i]
  <2>1. ASSUME NEW i \in S PROVE \E k \in DOMAIN At(s, S) : At(s, S)[k] = s[i]
    <3>1. PICK k \in DOMAIN q : q[k] = i
      BY <1>5
    <3>. QED BY <1>3, <1>4, <3>1
  <2>2. \A k \in DOMAIN At(s, S) : \E i \in S : At(s, S)[k] = s[i]
    BY <1>3, <1>4
  <2>. QED BY <2>1, <2>2
<1>9. (\A i, j \in S : s[i] = s[j] => i = j)
      => \A k, l \in DOMAIN At(s, S) : At(s, S)[k] = At(s, S)[l] => k = l
  BY <1>3, <1>7
<1>. QED BY <1>1, <1>3, <1>8, <1>9

LEMMA AtTyped ==
    ASSUME NEW T, NEW s \in Seq(T), NEW S \in SUBSET DOMAIN s
    PROVE  /\ At(s, S) \in Seq(T) /\ ToSet(At(s, S)) = {s[i] : i \in S}
           /\ Len(At(s, S)) = Cardinality(S) /\ IsFiniteSet(S)
           /\ (\A i, j \in S : s[i] = s[j] => i = j) => IsInjective(At(s, S))
<1>1. DOMAIN s = 1..Len(s) /\ Len(s) \in Nat /\ \A i \in DOMAIN s : s[i] \in T
  BY LenProperties, ElementOfSeq
<1>2. S \in SUBSET Nat /\ IsFiniteSet(S)
  <2>1. IsFiniteSet(DOMAIN s)
    BY <1>1, FS_Interval
  <2>. QED BY <1>1, <2>1, FS_Subset
<1> DEFINE q == At(s, S)
<1>3. /\ DOMAIN q = 1..Cardinality(S) /\ Cardinality(S) \in Nat
      /\ \A k \in DOMAIN q : \E i \in S : q[k] = s[i]
      /\ \A i \in S : \E k \in DOMAIN q : q[k] = s[i]
      /\ (\A i, j \in S : s[i] = s[j] => i = j) => \A k, l \in DOMAIN q : q[k] = q[l] => k = l
  BY <1>2, AtFacts
<1>4. q = [k \in DOMAIN q |-> q[k]]
  BY DEF At
<1> HIDE DEF q
<1>5. q \in [1..Cardinality(S) -> T]
  BY <1>1, <1>3, <1>4
<1>6. q \in Seq(T) /\ Len(q) = Cardinality(S)
  BY <1>3, <1>5
<1>7. ToSet(q) = {s[i] : i \in S}
  BY <1>3 DEF ToSet
<1>. QED BY <1>2, <1>3, <1>6, <1>7 DEF q, IsInjective

LEMMA StackFacts ==
    ASSUME NEW T, NEW s \in Seq(T), s # <<>>
    PROVE  /\ Front(s) \in Seq(T) /\ Len(Front(s)) = Len(s) - 1
           /\ Last(s) \in T /\ ToSet(s) = ToSet(Front(s)) \cup {Last(s)}
<1>1. Len(s) \in Nat /\ Len(s) # 0 /\ DOMAIN s = 1..Len(s)
  OBVIOUS
<1>2. /\ Front(s) \in Seq(T) /\ Len(Front(s)) = Len(s) - 1
      /\ \A i \in 1..(Len(s) - 1) : Front(s)[i] = s[i]
  BY <1>1 DEF Front
<1>3. Last(s) = s[Len(s)] /\ Len(s) \in DOMAIN s
  BY <1>1 DEF Last
<1>4. DOMAIN Front(s) = 1..(Len(s) - 1)
  BY <1>2
<1>5. \A i \in DOMAIN s : i # Len(s) => i \in DOMAIN Front(s) /\ Front(s)[i] = s[i]
  BY <1>1, <1>2, <1>4
<1>6. \A i \in DOMAIN Front(s) : i \in DOMAIN s /\ Front(s)[i] = s[i]
  BY <1>1, <1>2, <1>4
<1>7. ToSet(s) = ToSet(Front(s)) \cup {Last(s)}
  BY <1>3, <1>5, <1>6 DEF ToSet
<1>8. Last(s) \in T
  BY <1>1, <1>3
<1>. QED BY <1>2, <1>7, <1>8

-----------------------------------------------------------------------------
(* The reverse closure. *)

LEMMA DeclarationFinite ==
    ASSUME EditInv
    PROVE  /\ LiveNodes \subseteq Nat /\ IsFiniteSet(LiveNodes)
           /\ LiveEdges \subseteq Nat /\ IsFiniteSet(LiveEdges)
           /\ Active \subseteq LiveNodes /\ IsFiniteSet(Active)
           /\ \A e \in LiveEdges : edges[e].source \in LiveNodes /\ edges[e].target \in LiveNodes
<1>1. /\ Len(nodes) \in Nat /\ LiveNodes \subseteq 1..Len(nodes)
      /\ Len(edges) \in Nat /\ LiveEdges \subseteq 1..Len(edges) /\ IsFiniteSet(LiveEdges)
  BY NodeFacts, EdgeFacts DEF EditInv
<1>2. IsFiniteSet(1..Len(nodes))
  BY <1>1, FS_Interval
<1>3. IsFiniteSet(LiveNodes)
  BY <1>1, <1>2, FS_Subset
<1>4. Active \subseteq LiveNodes
  BY DEF Active
<1>5. IsFiniteSet(Active)
  BY <1>3, <1>4, FS_Subset
<1>6. \A e \in LiveEdges : edges[e].source \in LiveNodes /\ edges[e].target \in LiveNodes
  BY DEF EditInv, EdgesTyped
<1>. QED BY <1>1, <1>3, <1>4, <1>5, <1>6

Into(n) == {e \in LiveEdges : edges[e].target = n}

LEMMA SourcesFacts ==
    ASSUME EditInv, NEW n
    PROVE  /\ Sources(n) \in Seq(LiveNodes) /\ Len(Sources(n)) = Cardinality(Into(n))
           /\ ToSet(Sources(n)) = {edges[e].source : e \in Into(n)}
           /\ IsFiniteSet(Into(n)) /\ Cardinality(Into(n)) \in Nat
<1> DEFINE in == At(edges, Into(n))
<1>1. Into(n) \in SUBSET LiveEdges /\ Into(n) \in SUBSET Nat
  BY DeclarationFinite DEF Into
<1>2. IsFiniteSet(Into(n))
  BY <1>1, DeclarationFinite, FS_Subset
<1>3. /\ DOMAIN in = 1..Cardinality(Into(n)) /\ Cardinality(Into(n)) \in Nat
      /\ \A k \in DOMAIN in : \E e \in Into(n) : in[k] = edges[e]
      /\ \A e \in Into(n) : \E k \in DOMAIN in : in[k] = edges[e]
  BY <1>1, <1>2, AtFacts
<1>4. Sources(n) = [k \in DOMAIN in |-> in[k].source]
  BY DEF Sources, Into
<1> HIDE DEF in
<1>5. Sources(n) \in [1..Cardinality(Into(n)) -> LiveNodes]
  BY <1>1, <1>3, <1>4, DeclarationFinite
<1>6. Sources(n) \in Seq(LiveNodes) /\ Len(Sources(n)) = Cardinality(Into(n))
  BY <1>3, <1>5
<1>7. ToSet(Sources(n)) = {edges[e].source : e \in Into(n)}
  BY <1>3, <1>4 DEF ToSet
<1>. QED BY <1>2, <1>3, <1>6, <1>7

Walks == [stack : Seq(LiveNodes), selected : SUBSET LiveNodes]
Unseen(w) == {e \in LiveEdges : edges[e].target \notin w.selected}

\* What holds at every turn of the walk: nothing but what feeds the active nodes
\* is found, whatever feeds a selected node is selected or waits on the stack,
\* and the pops still to come are counted.
Closing(w) ==
    /\ Active \subseteq w.selected \cup ToSet(w.stack)
    /\ \A n \in w.selected : \A m \in LiveNodes :
          Feeds(m, n) => m \in w.selected \cup ToSet(w.stack)
    /\ w.selected \cup ToSet(w.stack) \subseteq Upstream
Fuel(w) == Len(w.stack) + Cardinality(Unseen(w))

LEMMA WalkStart ==
    ASSUME EditInv
    PROVE  LET w == [stack |-> InOrder(Active), selected |-> {}]
           IN  w \in Walks /\ Closing(w) /\ Fuel(w) = Turns
<1> DEFINE w == [stack |-> InOrder(Active), selected |-> {}]
<1>1. Active \in SUBSET Nat /\ IsFiniteSet(Active) /\ Active \subseteq LiveNodes
  BY DeclarationFinite
<1>2. /\ InOrder(Active) \in Seq(Active) /\ ToSet(InOrder(Active)) = Active
      /\ Len(InOrder(Active)) = Cardinality(Active)
  BY <1>1, InOrderFacts
<1>3. InOrder(Active) \in Seq(LiveNodes)
  BY <1>1, <1>2, SeqMonotonic
<1>4. Unseen(w) = LiveEdges
  BY DEF Unseen
<1>5. Active \subseteq Upstream
  BY <1>1 DEF Upstream
<1>. QED BY <1>2, <1>3, <1>4, <1>5 DEF Walks, Closing, Fuel, Turns

LEMMA PopFacts ==
    ASSUME EditInv, NEW w \in Walks
    PROVE  /\ Pop(w) \in Walks
           /\ Closing(w) => Closing(Pop(w))
           /\ w.stack = <<>> => Pop(w) = w
           /\ w.stack # <<>> => Fuel(Pop(w)) = Fuel(w) - 1
<1>1. w.stack \in Seq(LiveNodes) /\ w.selected \subseteq LiveNodes
      /\ w = [stack |-> w.stack, selected |-> w.selected]
  BY DEF Walks
<1>2. CASE w.stack = <<>>
  BY <1>2 DEF Pop
<1>3. CASE w.stack # <<>>
  <2> DEFINE n == Last(w.stack)
             rest == Front(w.stack)
  <2>1. /\ rest \in Seq(LiveNodes) /\ Len(rest) = Len(w.stack) - 1 /\ Len(w.stack) \in Nat
        /\ n \in LiveNodes /\ ToSet(w.stack) = ToSet(rest) \cup {n}
    BY <1>1, <1>3, StackFacts
  <2> HIDE DEF n, rest
  <2>2. IsFiniteSet(Unseen(w)) /\ Cardinality(Unseen(w)) \in Nat
    <3>1. Unseen(w) \in SUBSET LiveEdges
      BY DEF Unseen
    <3>. QED BY <3>1, DeclarationFinite, FS_Subset, FS_CardinalityType
  <2>3. CASE n \in w.selected
    <3>1. Pop(w) = [stack |-> rest, selected |-> w.selected]
      BY <1>1, <1>3, <2>3 DEF Pop, n, rest
    <3>2. Unseen(Pop(w)) = Unseen(w)
      BY <3>1 DEF Unseen
    <3>3. ToSet(rest) \cup w.selected = ToSet(w.stack) \cup w.selected
      BY <2>1, <2>3
    <3>4. Closing(w) => Closing(Pop(w))
      BY <3>1, <3>3 DEF Closing
    <3>5. Fuel(Pop(w)) = Fuel(w) - 1
      BY <2>1, <2>2, <3>1, <3>2 DEF Fuel
    <3>. QED BY <1>1, <1>3, <2>1, <3>1, <3>4, <3>5 DEF Walks
  <2>4. CASE n \notin w.selected
    <3> DEFINE more == Sources(n)
    <3>1. /\ more \in Seq(LiveNodes) /\ Len(more) = Cardinality(Into(n))
          /\ ToSet(more) = {edges[e].source : e \in Into(n)}
          /\ Cardinality(Into(n)) \in Nat
      BY SourcesFacts
    <3> HIDE DEF more
    <3>2. Pop(w) = [stack |-> rest \o more, selected |-> w.selected \cup {n}]
      BY <1>1, <1>3, <2>4 DEF Pop, n, rest, more
    <3>3. /\ rest \o more \in Seq(LiveNodes) /\ Len(rest \o more) = Len(rest) + Len(more)
          /\ ToSet(rest \o more) = ToSet(rest) \cup ToSet(more)
      BY <2>1, <3>1, ConcatElements
    <3>4. Unseen(Pop(w)) = Unseen(w) \ Into(n) /\ Unseen(w) \cap Into(n) = Into(n)
      BY <2>4, <3>2 DEF Unseen, Into
    <3>5. Cardinality(Unseen(Pop(w))) = Cardinality(Unseen(w)) - Cardinality(Into(n))
      BY <2>2, <3>4, FS_Difference
    <3>6. Fuel(Pop(w)) = Fuel(w) - 1
      BY <2>1, <2>2, <3>1, <3>2, <3>3, <3>5 DEF Fuel
    <3>7. ASSUME Closing(w) PROVE Closing(Pop(w))
      <4>1. \A m \in LiveNodes : Feeds(m, n) => m \in ToSet(more)
        BY <3>1 DEF Feeds, Into
      <4>2. n \in Upstream
        BY <2>1, <3>7 DEF Closing
      <4>3. ASSUME NEW m \in ToSet(more) PROVE m \in Upstream
        <5>1. m \in LiveNodes /\ Feeds(m, n)
          BY <3>1, <4>3, DeclarationFinite DEF Feeds, Into
        <5>. QED BY <4>2, <5>1 DEF Upstream
      <4>. QED BY <2>1, <3>2, <3>3, <3>7, <4>1, <4>2, <4>3 DEF Closing
    <3>. QED BY <1>1, <1>3, <2>1, <3>2, <3>3, <3>6, <3>7 DEF Walks
  <2>. QED BY <2>3, <2>4
<1>. QED BY <1>2, <1>3

LEMMA WalkTurns ==
    ASSUME EditInv
    PROVE  /\ Turns \in Nat
           /\ Walk[0] = [stack |-> InOrder(Active), selected |-> {}]
           /\ \A k \in 1..Turns : Walk[k] = Pop(Walk[k - 1])
<1> DEFINE start == [stack |-> InOrder(Active), selected |-> {}]
           step  == [w \in Walks |-> Pop(w)]
<1>1. Turns \in Nat
  BY DeclarationFinite, FS_CardinalityType DEF Turns
<1>2. start \in Walks
  BY WalkStart
<1>3. \A w \in Walks : step[w] = Pop(w) /\ Pop(w) \in Walks
  BY PopFacts
<1> HIDE DEF start, step
<1>3f. PICK f : Repeating(Turns, start, step, f)
  BY <1>1, RepeatsExist
<1>4. f = [k \in 0..Turns |-> IF k = 0 THEN start ELSE step[f[k - 1]]]
  BY <1>3f DEF Repeating
<1> DEFINE S == {k \in 0..Turns : f[k] \in Walks}
<1>5. 0..Turns \subseteq S
  <2>1. 0 \in S
    BY <1>1, <1>2, <1>4
  <2>2. ASSUME NEW k \in 0..(Turns - 1), k \in S PROVE k + 1 \in S
    <3>1. k + 1 \in 0..Turns /\ k + 1 # 0 /\ (k + 1) - 1 = k
      BY <1>1
    <3>2. f[k + 1] = step[f[k]]
      BY <1>4, <3>1
    <3>. QED BY <1>3, <2>2, <3>1, <3>2
  <2> HIDE DEF S
  <2>. QED BY <1>1, <2>1, <2>2, CountingUp
<1>6. ASSUME NEW k \in 0..Turns
      PROVE  (IF k = 0 THEN start ELSE step[f[k - 1]]) = (IF k = 0 THEN start ELSE Pop(f[k - 1]))
  <2>1. k # 0 => k - 1 \in 0..Turns
    BY <1>1
  <2>. QED BY <1>3, <1>5, <2>1
<1>7. f = [k \in 0..Turns |-> IF k = 0 THEN start ELSE Pop(f[k - 1])]
  BY <1>4, <1>6
<1>8. Walk = [k \in 0..Turns |-> IF k = 0 THEN start ELSE Pop(Walk[k - 1])]
  <2>1. Walk = CHOOSE g : g = [k \in 0..Turns |-> IF k = 0 THEN start ELSE Pop(g[k - 1])]
    BY DEF Walk, start
  <2>. QED BY <1>7, <2>1
<1>9. \A k \in 1..Turns : k \in 0..Turns /\ k # 0
  BY <1>1
<1>10. \A k \in 0..Turns : Walk[k] = IF k = 0 THEN start ELSE Pop(Walk[k - 1])
  BY <1>8
<1>. QED BY <1>1, <1>9, <1>10 DEF start

\* The walk ends, and what it selected is the closure.
LEMMA ClosureIsUpstream == EditInv => Selected = Upstream
<1> SUFFICES ASSUME EditInv PROVE Selected = Upstream
  OBVIOUS
<1>1. /\ Turns \in Nat /\ Walk[0] = [stack |-> InOrder(Active), selected |-> {}]
      /\ \A k \in 1..Turns : Walk[k] = Pop(Walk[k - 1])
  BY WalkTurns
<1>2. \A w \in Walks : Fuel(w) \in Nat /\ (Fuel(w) = 0 => w.stack = <<>>)
  <2> SUFFICES ASSUME NEW w \in Walks PROVE Fuel(w) \in Nat /\ (Fuel(w) = 0 => w.stack = <<>>)
    OBVIOUS
  <2>1. Unseen(w) \in SUBSET LiveEdges
    BY DEF Unseen
  <2>2. Cardinality(Unseen(w)) \in Nat
    BY <2>1, DeclarationFinite, FS_Subset, FS_CardinalityType
  <2>3. w.stack \in Seq(LiveNodes)
    BY DEF Walks
  <2>. QED BY <2>2, <2>3 DEF Fuel
<1> DEFINE S == {k \in 0..Turns : /\ Walk[k] \in Walks /\ Closing(Walk[k])
                                  /\ Walk[k].stack = <<>> \/ Fuel(Walk[k]) = Turns - k}
<1>3. 0..Turns \subseteq S
  <2>1. 0 \in S
    BY <1>1, WalkStart
  <2>2. ASSUME NEW k \in 0..(Turns - 1), k \in S PROVE k + 1 \in S
    <3>1. k + 1 \in 0..Turns /\ k + 1 \in 1..Turns /\ (k + 1) - 1 = k /\ k \in Nat
      BY <1>1
    <3>2. Walk[k + 1] = Pop(Walk[k])
      BY <1>1, <3>1
    <3>3. Walk[k] \in Walks /\ Closing(Walk[k])
      BY <2>2
    <3>4. Walk[k + 1] \in Walks /\ Closing(Walk[k + 1])
      BY <3>2, <3>3, PopFacts
    <3>5. CASE Walk[k].stack = <<>>
      BY <3>1, <3>2, <3>3, <3>4, <3>5, PopFacts
    <3>6. CASE Walk[k].stack # <<>>
      <4>1. Fuel(Walk[k]) = Turns - k
        BY <2>2, <3>6
      <4>2. Fuel(Walk[k + 1]) = Fuel(Walk[k]) - 1
        BY <3>2, <3>3, <3>6, PopFacts
      <4>3. Fuel(Walk[k + 1]) = Turns - (k + 1)
        BY <1>1, <3>1, <4>1, <4>2
      <4>. QED BY <3>1, <3>4, <4>3
    <3>. QED BY <3>5, <3>6
  <2> HIDE DEF S
  <2>. QED BY <1>1, <2>1, <2>2, CountingUp
<1> DEFINE w == Walk[Turns]
<1>4. w \in Walks /\ Closing(w) /\ w.stack = <<>>
  <2>1. Turns \in S
    BY <1>1, <1>3
  <2>. QED BY <1>1, <1>2, <2>1
<1> HIDE DEF S, w
<1>5. ToSet(w.stack) = {}
  BY <1>4 DEF ToSet
<1>6. Active \subseteq w.selected /\ w.selected \subseteq Upstream
  BY <1>4, <1>5 DEF Closing
<1>7. \A m \in w.selected : \A k \in LiveNodes : Feeds(k, m) => k \in w.selected
  BY <1>4, <1>5 DEF Closing
<1>8. w.selected \in SUBSET LiveNodes
  BY <1>4 DEF Walks
<1>9. Upstream \subseteq w.selected
  BY <1>6, <1>7, <1>8 DEF Upstream
<1>. QED BY <1>6, <1>9 DEF Selected, w

-----------------------------------------------------------------------------
(* The arcs of the plan. *)

LEMMA IndexFacts ==
    ASSUME NEW ids, IsInjective(ids)
    PROVE  /\ \A n \in ToSet(ids) : Index(ids, n) \in DOMAIN ids /\ ids[Index(ids, n)] = n
           /\ \A i \in DOMAIN ids : Index(ids, ids[i]) = i /\ ids[i] \in ToSet(ids)
<1>1. ASSUME NEW n \in ToSet(ids)
      PROVE  Index(ids, n) \in DOMAIN ids /\ ids[Index(ids, n)] = n
  <2>1. \E i \in DOMAIN ids : ids[i] = n
    BY DEF ToSet
  <2>. QED BY <2>1 DEF Index
<1>2. \A i \in DOMAIN ids : ids[i] \in ToSet(ids)
  BY DEF ToSet
<1>. QED BY <1>1, <1>2 DEF IsInjective

\* Every edge between selected nodes is one of the pairs, and they are nothing else.
LEMMA PairsFacts ==
    ASSUME EditInv, NEW ids, IsInjective(ids)
    PROVE  /\ Pairs(ids) \in Seq((DOMAIN ids) \X (DOMAIN ids))
           /\ \A i, j \in DOMAIN ids :
                 <<i, j>> \in ToSet(Pairs(ids)) <=> Feeds(ids[i], ids[j])
<1> DEFINE D == DOMAIN ids
           within == {e \in LiveEdges : {edges[e].source, edges[e].target} \subseteq ToSet(ids)}
           q == At(edges, within)
<1>1. within \in SUBSET LiveEdges /\ within \in SUBSET Nat
  BY DeclarationFinite
<1>2. IsFiniteSet(within)
  BY <1>1, DeclarationFinite, FS_Subset
<1>3. /\ DOMAIN q = 1..Cardinality(within) /\ Cardinality(within) \in Nat
      /\ \A k \in DOMAIN q : \E e \in within : q[k] = edges[e]
      /\ \A e \in within : \E k \in DOMAIN q : q[k] = edges[e]
  <2> HIDE DEF within
  <2>. QED BY <1>1, <1>2, AtFacts
<1>4. Pairs(ids) = [k \in DOMAIN q |-> <<Index(ids, q[k].source), Index(ids, q[k].target)>>]
  BY DEF Pairs
<1> HIDE DEF q
<1>5. ASSUME NEW k \in DOMAIN q
      PROVE  /\ Pairs(ids)[k] \in D \X D
             /\ Feeds(ids[Pairs(ids)[k][1]], ids[Pairs(ids)[k][2]])
  <2>1. PICK e \in within : q[k] = edges[e]
    BY <1>3
  <2>2. e \in LiveEdges /\ edges[e].source \in ToSet(ids) /\ edges[e].target \in ToSet(ids)
    OBVIOUS
  <2>3. Pairs(ids)[k] = <<Index(ids, edges[e].source), Index(ids, edges[e].target)>>
    BY <1>4, <2>1
  <2>4. /\ Index(ids, edges[e].source) \in D /\ ids[Index(ids, edges[e].source)] = edges[e].source
        /\ Index(ids, edges[e].target) \in D /\ ids[Index(ids, edges[e].target)] = edges[e].target
    BY <2>2, IndexFacts
  <2>. QED BY <2>2, <2>3, <2>4 DEF Feeds
<1>6. ASSUME NEW i \in D, NEW j \in D, Feeds(ids[i], ids[j]) PROVE <<i, j>> \in ToSet(Pairs(ids))
  <2>1. PICK e \in LiveEdges : edges[e].source = ids[i] /\ edges[e].target = ids[j]
    BY <1>6 DEF Feeds
  <2>2. Index(ids, ids[i]) = i /\ Index(ids, ids[j]) = j /\ {ids[i], ids[j]} \subseteq ToSet(ids)
    BY IndexFacts
  <2>3. PICK k \in DOMAIN q : q[k] = edges[e]
    BY <1>3, <2>1, <2>2
  <2>4. Pairs(ids)[k] = <<i, j>> /\ k \in DOMAIN Pairs(ids)
    BY <1>4, <2>1, <2>2, <2>3
  <2>. QED BY <2>4 DEF ToSet
<1> HIDE DEF within
<1>7. Pairs(ids) \in Seq(D \X D) /\ DOMAIN Pairs(ids) = DOMAIN q
  <2>1. Pairs(ids) \in [1..Cardinality(within) -> D \X D]
    BY <1>3, <1>4, <1>5
  <2>. QED BY <1>3, <2>1
<1>8. ASSUME NEW i \in D, NEW j \in D, <<i, j>> \in ToSet(Pairs(ids)) PROVE Feeds(ids[i], ids[j])
  BY <1>5, <1>7, <1>8 DEF ToSet
<1>. QED BY <1>6, <1>7, <1>8

ArcLists(D) == Seq(D \X D)

LEMMA ArcsFacts ==
    ASSUME EditInv, NEW ids, IsInjective(ids)
    PROVE  /\ Arcs(ids) \in ArcLists(DOMAIN ids) /\ IsInjective(Arcs(ids))
           /\ \A i, j \in DOMAIN ids :
                 <<i, j>> \in ToSet(Arcs(ids)) <=> Feeds(ids[i], ids[j])
<1> DEFINE D == DOMAIN ids
           all == Pairs(ids)
           first == {i \in DOMAIN all : \A j \in 1..(i - 1) : all[j] # all[i]}
<1>1. /\ all \in Seq(D \X D) /\ Len(all) \in Nat /\ DOMAIN all = 1..Len(all)
      /\ \A i, j \in D : <<i, j>> \in ToSet(all) <=> Feeds(ids[i], ids[j])
  BY PairsFacts, LenProperties
<1> HIDE DEF all
<1>2. Arcs(ids) = At(all, first)
  BY DEF Arcs, all
<1>3. \A i, j \in first : all[i] = all[j] => i = j
  <2>1. ASSUME NEW i \in first, NEW j \in first, all[i] = all[j] PROVE ~(i < j)
    <3>1. i \in Nat /\ j \in Nat /\ i >= 1
      BY <1>1
    <3>. QED BY <2>1, <3>1
  <2>2. \A i \in first : i \in Nat
    BY <1>1
  <2>. QED BY <2>1, <2>2
<1>4. ASSUME NEW k \in DOMAIN all PROVE \E i \in first : all[i] = all[k]
  <2> DEFINE S == {i \in DOMAIN all : all[i] = all[k]}
  <2>1. S \subseteq Nat /\ S # {}
    BY <1>1
  <2>2. PICK i \in S : \A j \in S : i <= j
    <3> HIDE DEF S
    <3>. QED BY <2>1, FirstPosition
  <2>3. ASSUME NEW j \in 1..(i - 1) PROVE all[j] # all[i]
    <3>1. i \in 1..Len(all) /\ j \in DOMAIN all /\ ~(i <= j)
      BY <1>1
    <3>. QED BY <2>2, <3>1
  <2>. QED BY <2>3
<1>5. first \in SUBSET DOMAIN all
  OBVIOUS
<1> HIDE DEF first
<1>6. /\ Arcs(ids) \in Seq(D \X D) /\ ToSet(Arcs(ids)) = {all[i] : i \in first}
      /\ IsInjective(Arcs(ids))
  BY <1>1, <1>2, <1>3, <1>5, AtTyped
<1>7. ToSet(Arcs(ids)) = ToSet(all)
  BY <1>4, <1>5, <1>6 DEF ToSet
<1>. QED BY <1>1, <1>6, <1>7 DEF ArcLists

LEMMA NeighboursFacts ==
    ASSUME NEW D, NEW arcs \in ArcLists(D), IsInjective(arcs), NEW i \in D
    PROVE  /\ Successors(arcs, i) \in Seq(D) /\ IsInjective(Successors(arcs, i))
           /\ \A j \in D : j \in ToSet(Successors(arcs, i)) <=> <<i, j>> \in ToSet(arcs)
           /\ Predecessors(arcs, i) \in Seq(D) /\ IsInjective(Predecessors(arcs, i))
           /\ \A j \in D : j \in ToSet(Predecessors(arcs, i)) <=> <<j, i>> \in ToSet(arcs)
<1>0. arcs \in Seq(D \X D)
  BY DEF ArcLists
<1>1. /\ DOMAIN arcs = 1..Len(arcs) /\ Len(arcs) \in Nat
      /\ \A k \in DOMAIN arcs : arcs[k] \in D \X D /\ arcs[k] = <<arcs[k][1], arcs[k][2]>>
  BY <1>0, LenProperties, ElementOfSeq
<1>2. \A k, l \in DOMAIN arcs : arcs[k] = arcs[l] => k = l
  BY DEF IsInjective
<1>3. /\ Successors(arcs, i) \in Seq(D) /\ IsInjective(Successors(arcs, i))
      /\ \A j \in D : j \in ToSet(Successors(arcs, i)) <=> <<i, j>> \in ToSet(arcs)
  <2> DEFINE S == {k \in DOMAIN arcs : arcs[k][1] = i}
             q == At(arcs, S)
  <2>1. S \in SUBSET DOMAIN arcs
    OBVIOUS
  <2>2. /\ q \in Seq(D \X D) /\ ToSet(q) = {arcs[k] : k \in S} /\ IsInjective(q)
    <3>1. \A k, l \in S : arcs[k] = arcs[l] => k = l
      BY <1>2
    <3> HIDE DEF S
    <3>. QED BY <1>0, <2>1, <3>1, AtTyped
  <2>3. Successors(arcs, i) = [k \in DOMAIN q |-> q[k][2]]
    BY DEF Successors
  <2> HIDE DEF q
  <2>4. /\ DOMAIN q = 1..Len(q) /\ Len(q) \in Nat
        /\ \A k \in DOMAIN q : q[k] \in D \X D
    BY <2>2, LenProperties, ElementOfSeq
  <2>5. \A k \in DOMAIN q : q[k] = <<i, q[k][2]>> /\ q[k][2] \in D /\ q[k] \in ToSet(arcs)
    <3>1. ASSUME NEW k \in DOMAIN q PROVE \E l \in S : q[k] = arcs[l]
      BY <2>2 DEF ToSet
    <3>. QED BY <1>1, <3>1 DEF ToSet
  <2>6. Successors(arcs, i) \in Seq(D)
    <3>1. Successors(arcs, i) \in [1..Len(q) -> D]
      BY <2>3, <2>4, <2>5
    <3>. QED BY <2>4, <3>1
  <2>7. IsInjective(Successors(arcs, i))
    <3>1. ASSUME NEW k \in DOMAIN q, NEW l \in DOMAIN q, q[k][2] = q[l][2] PROVE k = l
      <4>1. q[k] = q[l]
        BY <2>5, <3>1
      <4>. QED BY <2>2, <4>1 DEF IsInjective
    <3>2. /\ DOMAIN Successors(arcs, i) = DOMAIN q
          /\ \A k \in DOMAIN q : Successors(arcs, i)[k] = q[k][2]
      BY <2>3
    <3>. QED BY <3>1, <3>2 DEF IsInjective
  <2>8. ASSUME NEW j \in D, <<i, j>> \in ToSet(arcs) PROVE j \in ToSet(Successors(arcs, i))
    <3>1. PICK l \in DOMAIN arcs : arcs[l] = <<i, j>>
      BY <2>8 DEF ToSet
    <3>2. l \in S
      BY <3>1
    <3>3. <<i, j>> \in ToSet(q)
      BY <2>2, <3>1, <3>2
    <3>4. PICK k \in DOMAIN q : q[k] = <<i, j>>
      BY <3>3 DEF ToSet
    <3>. QED BY <2>3, <3>4 DEF ToSet
  <2>9. ASSUME NEW j \in ToSet(Successors(arcs, i)) PROVE <<i, j>> \in ToSet(arcs)
    <3>1. PICK k \in DOMAIN q : j = q[k][2]
      BY <2>3 DEF ToSet
    <3>. QED BY <2>5, <3>1
  <2>. QED BY <2>6, <2>7, <2>8, <2>9
<1>4. /\ Predecessors(arcs, i) \in Seq(D) /\ IsInjective(Predecessors(arcs, i))
      /\ \A j \in D : j \in ToSet(Predecessors(arcs, i)) <=> <<j, i>> \in ToSet(arcs)
  <2> DEFINE S == {k \in DOMAIN arcs : arcs[k][2] = i}
             q == At(arcs, S)
  <2>1. S \in SUBSET DOMAIN arcs
    OBVIOUS
  <2>2. /\ q \in Seq(D \X D) /\ ToSet(q) = {arcs[k] : k \in S} /\ IsInjective(q)
    <3>1. \A k, l \in S : arcs[k] = arcs[l] => k = l
      BY <1>2
    <3> HIDE DEF S
    <3>. QED BY <1>0, <2>1, <3>1, AtTyped
  <2>3. Predecessors(arcs, i) = [k \in DOMAIN q |-> q[k][1]]
    BY DEF Predecessors
  <2> HIDE DEF q
  <2>4. /\ DOMAIN q = 1..Len(q) /\ Len(q) \in Nat
        /\ \A k \in DOMAIN q : q[k] \in D \X D
    BY <2>2, LenProperties, ElementOfSeq
  <2>5. \A k \in DOMAIN q : q[k] = <<q[k][1], i>> /\ q[k][1] \in D /\ q[k] \in ToSet(arcs)
    <3>1. ASSUME NEW k \in DOMAIN q PROVE \E l \in S : q[k] = arcs[l]
      BY <2>2 DEF ToSet
    <3>. QED BY <1>1, <3>1 DEF ToSet
  <2>6. Predecessors(arcs, i) \in Seq(D)
    <3>1. Predecessors(arcs, i) \in [1..Len(q) -> D]
      BY <2>3, <2>4, <2>5
    <3>. QED BY <2>4, <3>1
  <2>7. IsInjective(Predecessors(arcs, i))
    <3>1. ASSUME NEW k \in DOMAIN q, NEW l \in DOMAIN q, q[k][1] = q[l][1] PROVE k = l
      <4>1. q[k] = q[l]
        BY <2>5, <3>1
      <4>. QED BY <2>2, <4>1 DEF IsInjective
    <3>2. /\ DOMAIN Predecessors(arcs, i) = DOMAIN q
          /\ \A k \in DOMAIN q : Predecessors(arcs, i)[k] = q[k][1]
      BY <2>3
    <3>. QED BY <3>1, <3>2 DEF IsInjective
  <2>8. ASSUME NEW j \in D, <<j, i>> \in ToSet(arcs) PROVE j \in ToSet(Predecessors(arcs, i))
    <3>1. PICK l \in DOMAIN arcs : arcs[l] = <<j, i>>
      BY <2>8 DEF ToSet
    <3>2. l \in S
      BY <3>1
    <3>3. <<j, i>> \in ToSet(q)
      BY <2>2, <3>1, <3>2
    <3>4. PICK k \in DOMAIN q : q[k] = <<j, i>>
      BY <3>3 DEF ToSet
    <3>. QED BY <2>3, <3>4 DEF ToSet
  <2>9. ASSUME NEW j \in ToSet(Predecessors(arcs, i)) PROVE <<j, i>> \in ToSet(arcs)
    <3>1. PICK k \in DOMAIN q : j = q[k][1]
      BY <2>3 DEF ToSet
    <3>. QED BY <2>5, <3>1
  <2>. QED BY <2>6, <2>7, <2>8, <2>9
<1>. QED BY <1>3, <1>4

-----------------------------------------------------------------------------
(* The cycle check. *)

LEMMA CountOnce ==
    ASSUME NEW T, NEW s \in Seq(T), IsInjective(s)
    PROVE  /\ \A x : Cardinality({k \in DOMAIN s : s[k] = x}) = IF x \in ToSet(s) THEN 1 ELSE 0
           /\ Len(s) = Cardinality(ToSet(s)) /\ IsFiniteSet(ToSet(s))
<1>1. DOMAIN s = 1..Len(s) /\ Len(s) \in Nat /\ \A k \in DOMAIN s : s[k] \in ToSet(s)
  BY LenProperties DEF ToSet
<1>2. ASSUME NEW x
      PROVE  Cardinality({k \in DOMAIN s : s[k] = x}) = IF x \in ToSet(s) THEN 1 ELSE 0
  <2>1. CASE x \in ToSet(s)
    <3>1. PICK k \in DOMAIN s : s[k] = x
      BY <2>1 DEF ToSet
    <3>2. {l \in DOMAIN s : s[l] = x} = {k}
      BY <3>1 DEF IsInjective
    <3>3. Cardinality({k}) = 1
      BY FS_Singleton
    <3>. QED BY <2>1, <3>2, <3>3
  <2>2. CASE x \notin ToSet(s)
    <3>1. {l \in DOMAIN s : s[l] = x} = {}
      BY <1>1, <2>2
    <3>. QED BY <2>2, <3>1, FS_EmptySet
  <2>. QED BY <2>1, <2>2
<1>3. IsFiniteSet(DOMAIN s) /\ Cardinality(DOMAIN s) = Len(s)
  <2>1. DOMAIN s = 1..Len(s) /\ Len(s) \in Nat
    BY <1>1
  <2>2. ASSUME NEW l \in Nat PROVE IsFiniteSet(1..l) /\ Cardinality(1..l) = l
    BY FS_Interval
  <2>. QED BY <2>1, <2>2
<1>4. s \in Surjection(DOMAIN s, ToSet(s)) /\ s \in Injection(DOMAIN s, ToSet(s))
  <2>1. s \in [DOMAIN s -> ToSet(s)]
    BY <1>1
  <2>2. \A x \in ToSet(s) : \E k \in DOMAIN s : s[k] = x
    BY DEF ToSet
  <2>. QED BY <2>1, <2>2 DEF Surjection, Injection
<1>5. IsFiniteSet(ToSet(s)) /\ Cardinality(ToSet(s)) = Len(s)
  BY <1>3, <1>4, FS_Surjection
<1>. QED BY <1>2, <1>5

\* Successor and predecessor lists of a plan of n nodes.
Mirrored(n, succs, preds) ==
    /\ n \in Nat /\ succs \in [1..n -> Seq(1..n)] /\ preds \in [1..n -> Seq(1..n)]
    /\ \A i \in 1..n : IsInjective(succs[i]) /\ IsInjective(preds[i])
    /\ \A i, j \in 1..n : j \in ToSet(succs[i]) <=> i \in ToSet(preds[j])

\* What holds at every turn of the check: V are the visited nodes and r is the
\* turn of each; a node is visited or queued if all its predecessors are visited.
Counted(n, preds, c, V, r) ==
    /\ V \in SUBSET (1..n) /\ c.visited = Cardinality(V)
    /\ IsInjective(c.queue) /\ ToSet(c.queue) \cap V = {}
    /\ \A i \in 1..n : c.remaining[i] = Cardinality(ToSet(preds[i]) \ V)
    /\ \A i \in 1..n : i \in V \cup ToSet(c.queue) <=> ToSet(preds[i]) \subseteq V
    /\ r \in [1..n -> Nat]
    /\ \A i \in V : /\ r[i] \in 1..c.visited
                    /\ \A p \in ToSet(preds[i]) : r[p] < r[i]
CheckInv(n, preds, c) == \E V, r : Counted(n, preds, c, V, r)

CheckTypes(n) == [queue : Seq(1..n), remaining : [1..n -> Int], visited : Nat]

LEMMA MirroredFacts ==
    ASSUME NEW n, NEW succs, NEW preds, Mirrored(n, succs, preds), NEW i \in 1..n
    PROVE  /\ ToSet(preds[i]) \subseteq 1..n /\ IsFiniteSet(ToSet(preds[i]))
           /\ Len(preds[i]) = Cardinality(ToSet(preds[i]))
           /\ ToSet(succs[i]) \subseteq 1..n
<1>1. /\ preds[i] \in Seq(1..n) /\ IsInjective(preds[i]) /\ succs[i] \in Seq(1..n)
  BY DEF Mirrored
<1>2. ToSet(preds[i]) \subseteq 1..n /\ ToSet(succs[i]) \subseteq 1..n
  <2>1. \A k \in DOMAIN preds[i] : preds[i][k] \in 1..n
    BY <1>1, ElementOfSeq, LenProperties
  <2>2. \A k \in DOMAIN succs[i] : succs[i][k] \in 1..n
    BY <1>1, ElementOfSeq, LenProperties
  <2>. QED BY <2>1, <2>2 DEF ToSet
<1>. QED BY <1>1, <1>2, CountOnce

LEMMA CheckStart ==
    ASSUME NEW n, NEW succs, NEW preds, Mirrored(n, succs, preds), NEW degree,
           degree = [i \in 1..n |-> Len(preds[i])], NEW c,
           c = [queue |-> InOrder({i \in 1..n : degree[i] = 0}), remaining |-> degree,
                visited |-> 0]
    PROVE  c \in CheckTypes(n) /\ CheckInv(n, preds, c)
<1> DEFINE roots == {i \in 1..n : degree[i] = 0}
<1>1. \A i \in 1..n : /\ degree[i] = Cardinality(ToSet(preds[i])) /\ degree[i] \in Nat
                      /\ degree[i] = 0 <=> ToSet(preds[i]) = {}
  <2> SUFFICES ASSUME NEW i \in 1..n
               PROVE  /\ degree[i] = Cardinality(ToSet(preds[i])) /\ degree[i] \in Nat
                      /\ degree[i] = 0 <=> ToSet(preds[i]) = {}
    OBVIOUS
  <2>1. degree[i] = Cardinality(ToSet(preds[i])) /\ IsFiniteSet(ToSet(preds[i]))
    BY MirroredFacts
  <2>. QED BY <2>1, FS_EmptySet, FS_CardinalityType
<1>2. n \in Nat /\ roots \in SUBSET (1..n) /\ roots \in SUBSET Nat
  BY DEF Mirrored
<1>3. IsFiniteSet(roots)
  <2>1. IsFiniteSet(1..n)
    BY <1>2, FS_Interval
  <2>. QED BY <1>2, <2>1, FS_Subset
<1> HIDE DEF roots
<1>4. c = [queue |-> InOrder(roots), remaining |-> degree, visited |-> 0]
  BY DEF roots
<1>5. InOrder(roots) \in Seq(roots) /\ IsInjective(InOrder(roots)) /\ ToSet(InOrder(roots)) = roots
  BY <1>2, <1>3, InOrderFacts
<1>6. InOrder(roots) \in Seq(1..n)
  BY <1>2, <1>5, SeqMonotonic
<1>7. \A i \in 1..n : i \in roots <=> ToSet(preds[i]) \subseteq {}
  BY <1>1 DEF roots
<1>8. degree \in [1..n -> Int]
  <2>1. \A i \in 1..n : degree[i] \in Int
    BY <1>1
  <2>. QED BY <2>1
<1>9. Counted(n, preds, c, {}, [i \in 1..n |-> 0])
  <2>1. c.queue = InOrder(roots) /\ c.remaining = degree /\ c.visited = 0
    BY <1>4
  <2>2. \A i \in 1..n : c.remaining[i] = Cardinality(ToSet(preds[i]) \ {})
    <3>1. \A i \in 1..n : ToSet(preds[i]) \ {} = ToSet(preds[i])
      OBVIOUS
    <3>. QED BY <1>1, <2>1, <3>1
  <2>3. \A i \in 1..n : i \in {} \cup ToSet(c.queue) <=> ToSet(preds[i]) \subseteq {}
    BY <1>5, <1>7, <2>1
  <2>4. [i \in 1..n |-> 0] \in [1..n -> Nat]
    OBVIOUS
  <2>5. c.visited = Cardinality({}) /\ IsInjective(c.queue) /\ ToSet(c.queue) \cap {} = {}
    BY <1>5, <2>1, FS_EmptySet
  <2>. QED BY <2>2, <2>3, <2>4, <2>5 DEF Counted
<1>10. CheckInv(n, preds, c)
  BY <1>9 DEF CheckInv
<1>. QED BY <1>4, <1>6, <1>8, <1>10 DEF CheckTypes

\* One turn: the head of the queue is visited.
LEMMA VisitKeeps ==
    ASSUME NEW n, NEW succs, NEW preds, Mirrored(n, succs, preds),
           NEW c \in CheckTypes(n), CheckInv(n, preds, c), c.queue # <<>>
    PROVE  /\ Visit(succs, c) \in CheckTypes(n) /\ CheckInv(n, preds, Visit(succs, c))
           /\ Visit(succs, c).visited = c.visited + 1
<1> DEFINE D == 1..n
           P(i) == ToSet(preds[i])
           h == Head(c.queue)
           rest == Tail(c.queue)
           next == succs[h]
           left == [i \in DOMAIN succs |->
                       c.remaining[i] - Cardinality({k \in DOMAIN next : next[k] = i})]
           S == {k \in DOMAIN next : left[next[k]] = 0}
           freed == At(next, S)
           d == Visit(succs, c)
<1>0. PICK V, r : Counted(n, preds, c, V, r)
  BY DEF CheckInv
<1>1. /\ c.queue \in Seq(D) /\ c.remaining \in [D -> Int] /\ c.visited \in Nat
      /\ DOMAIN succs = D /\ n \in Nat
  BY DEF CheckTypes, Mirrored
<1>2. d = [queue |-> rest \o freed, remaining |-> left, visited |-> c.visited + 1]
  BY DEF Visit
<1>3. /\ V \subseteq D /\ c.visited = Cardinality(V)
      /\ IsInjective(c.queue) /\ ToSet(c.queue) \cap V = {}
      /\ \A i \in D : c.remaining[i] = Cardinality(P(i) \ V)
      /\ \A i \in D : i \in V \cup ToSet(c.queue) <=> P(i) \subseteq V
      /\ r \in [D -> Nat]
      /\ \A i \in V : r[i] \in 1..c.visited /\ \A p \in P(i) : r[p] < r[i]
  BY <1>0 DEF Counted
<1>4. \A i, j \in D : j \in ToSet(succs[i]) <=> i \in P(j)
  BY DEF Mirrored
<1>5. \A i \in D : P(i) \subseteq D /\ IsFiniteSet(P(i)) /\ ToSet(succs[i]) \subseteq D
  BY MirroredFacts
<1> HIDE DEF d, P
<1>6. /\ h \in D /\ rest \in Seq(D) /\ ToSet(c.queue) = {h} \cup ToSet(rest)
      /\ h \notin ToSet(rest) /\ IsInjective(rest)
  <2>0. c.queue # <<>>
    OBVIOUS
  <2>9. /\ h = c.queue[1] /\ rest \in Seq(D) /\ Len(rest) = Len(c.queue) - 1
        /\ \A k \in 1..Len(rest) : rest[k] = c.queue[k + 1]
    <3>1. ASSUME NEW s \in Seq(D), s # <<>> PROVE Head(s) = s[1]
      BY <3>1
    <3>. QED BY <1>1, <2>0, <3>1, HeadTailProperties
  <2>10. /\ Len(c.queue) \in Nat /\ Len(c.queue) # 0 /\ DOMAIN c.queue = 1..Len(c.queue)
    BY <1>1, <2>0, LenProperties, EmptySeq
  <2>11. DOMAIN rest = 1..Len(rest)
    BY <2>9, LenProperties
  <2>1. /\ Len(c.queue) \in Nat /\ Len(c.queue) # 0 /\ DOMAIN c.queue = 1..Len(c.queue)
        /\ h = c.queue[1] /\ rest \in Seq(D) /\ Len(rest) = Len(c.queue) - 1
        /\ DOMAIN rest = 1..(Len(c.queue) - 1)
        /\ \A k \in DOMAIN rest : rest[k] = c.queue[k + 1]
    BY <2>9, <2>10, <2>11
  <2>2. 1 \in DOMAIN c.queue
    BY <2>1
  <2>3. \A k \in DOMAIN rest : k + 1 \in DOMAIN c.queue /\ k + 1 # 1
    BY <2>1
  <2>4. \A k \in DOMAIN c.queue : k # 1 => k - 1 \in DOMAIN rest /\ rest[k - 1] = c.queue[k]
    BY <2>1
  <2> HIDE DEF h, rest
  <2>5. h \in D
    BY <1>1, <2>1, <2>2
  <2>6. ToSet(c.queue) = {h} \cup ToSet(rest)
    BY <2>1, <2>2, <2>3, <2>4 DEF ToSet
  <2>7. h \notin ToSet(rest)
    BY <1>3, <2>1, <2>2, <2>3 DEF ToSet, IsInjective
  <2>8. IsInjective(rest)
    <3>1. ASSUME NEW k \in DOMAIN rest, NEW l \in DOMAIN rest, rest[k] = rest[l] PROVE k = l
      <4>0. /\ k + 1 \in DOMAIN c.queue /\ l + 1 \in DOMAIN c.queue
            /\ c.queue[k + 1] = c.queue[l + 1]
        BY <2>1, <2>3, <3>1
      <4>1. k + 1 = l + 1
        BY <1>3, <4>0 DEF IsInjective
      <4>2. k \in Nat /\ l \in Nat
        BY <2>1
      <4>. QED BY <4>1, <4>2
    <3>. QED BY <3>1 DEF IsInjective
  <2>. QED BY <2>1, <2>5, <2>6, <2>7, <2>8
<1> DEFINE W == V \cup {h}
<1>7. h \notin V /\ P(h) \subseteq V
  BY <1>3, <1>6
<1>8. next \in Seq(D) /\ IsInjective(next)
  BY <1>6 DEF Mirrored
<1> HIDE DEF h, rest
<1>9. ASSUME NEW i \in D
      PROVE  /\ left[i] = Cardinality(P(i) \ W) /\ left[i] \in Int
             /\ left[i] = 0 <=> P(i) \subseteq W
  <2>1. left[i] = c.remaining[i] - IF i \in ToSet(next) THEN 1 ELSE 0
    <3>1. Cardinality({k \in DOMAIN next : next[k] = i}) = IF i \in ToSet(next) THEN 1 ELSE 0
      <4> HIDE DEF next
      <4>. QED BY <1>8, CountOnce
    <3>2. left[i] = c.remaining[i] - Cardinality({k \in DOMAIN next : next[k] = i})
      BY <1>1
    <3>. QED BY <3>1, <3>2
  <2>2. i \in ToSet(next) <=> h \in P(i) \ V
    BY <1>4, <1>6, <1>7
  <2>3. IsFiniteSet(P(i) \ V) /\ (P(i) \ V) \ {h} = P(i) \ W
    BY <1>5, FS_Difference
  <2>4. /\ IsFiniteSet(P(i) \ W)
        /\ Cardinality(P(i) \ W) = IF h \in P(i) \ V THEN Cardinality(P(i) \ V) - 1
                                   ELSE Cardinality(P(i) \ V)
    BY <2>3, FS_RemoveElement
  <2>5. Cardinality(P(i) \ V) \in Nat /\ c.remaining[i] = Cardinality(P(i) \ V)
    BY <1>3, <2>3, FS_CardinalityType
  <2> HIDE DEF left, W
  <2>6. left[i] = Cardinality(P(i) \ W)
    BY <2>1, <2>2, <2>4, <2>5
  <2>7. Cardinality(P(i) \ W) \in Nat /\ (Cardinality(P(i) \ W) = 0 <=> P(i) \ W = {})
    BY <2>4, FS_CardinalityType, FS_EmptySet
  <2>. QED BY <2>6, <2>7
<1>10. left \in [D -> Int]
  <2>1. \A i \in D : left[i] \in Int
    BY <1>9
  <2>. QED BY <1>1, <2>1
<1> HIDE DEF left
<1>11. /\ freed \in Seq(D) /\ IsInjective(freed)
       /\ ToSet(freed) = {j \in ToSet(next) : left[j] = 0}
  <2> HIDE DEF next
  <2>1. S \in SUBSET DOMAIN next
    OBVIOUS
  <2>2. \A k, l \in S : next[k] = next[l] => k = l
    BY <1>8 DEF IsInjective
  <2>3. {next[k] : k \in S} = {j \in ToSet(next) : left[j] = 0}
    BY DEF ToSet
  <2> HIDE DEF S
  <2>. QED BY <1>8, <2>1, <2>2, <2>3, AtTyped
<1> HIDE DEF freed, S
<1>12. \A j \in D : j \in ToSet(freed) <=> h \in P(j) /\ P(j) \subseteq W
  BY <1>4, <1>5, <1>6, <1>9, <1>11
<1> HIDE DEF next
<1>13. ToSet(freed) \subseteq D /\ ToSet(rest) \subseteq D
  <2>1. \A k \in DOMAIN freed : freed[k] \in D
    BY <1>11, ElementOfSeq, LenProperties
  <2>2. \A k \in DOMAIN rest : rest[k] \in D
    BY <1>6, ElementOfSeq, LenProperties
  <2>. QED BY <2>1, <2>2 DEF ToSet
<1>14. \A j \in ToSet(freed) : j \notin V \cup ToSet(c.queue)
  BY <1>3, <1>7, <1>12, <1>13
<1>15. /\ rest \o freed \in Seq(D) /\ IsInjective(rest \o freed)
       /\ ToSet(rest \o freed) = ToSet(rest) \cup ToSet(freed)
  <2>1. ToSet(rest) \cap ToSet(freed) = {}
    BY <1>6, <1>14
  <2>. QED BY <1>6, <1>11, <2>1, ConcatElements, ConcatInjective
<1>16. d \in CheckTypes(n)
  BY <1>1, <1>2, <1>10, <1>15 DEF CheckTypes
<1>17. Cardinality(W) = c.visited + 1
  <2>1. IsFiniteSet(V)
    <3>1. IsFiniteSet(D)
      BY <1>1, FS_Interval
    <3>. QED BY <1>3, <3>1, FS_Subset
  <2>. QED BY <1>3, <1>7, <2>1, FS_AddElement
<1> DEFINE q == [r EXCEPT ![h] = c.visited + 1]
<1>18. q \in [D -> Nat] /\ q[h] = c.visited + 1 /\ \A i \in D : i # h => q[i] = r[i]
  BY <1>1, <1>3, <1>6
<1> HIDE DEF q
<1>19. Counted(n, preds, d, W, q)
  <2>1. ToSet(d.queue) \cap W = {} /\ IsInjective(d.queue)
    BY <1>2, <1>3, <1>6, <1>14, <1>15
  <2>2. ASSUME NEW i \in D PROVE i \in W \cup ToSet(d.queue) <=> P(i) \subseteq W
    <3>1. i \in W \cup ToSet(d.queue) <=> i \in V \cup ToSet(c.queue) \/ i \in ToSet(freed)
      BY <1>2, <1>6, <1>15
    <3>2. i \in V \cup ToSet(c.queue) <=> P(i) \subseteq V
      BY <1>3
    <3>3. P(i) \subseteq W <=> P(i) \subseteq V \/ (h \in P(i) /\ P(i) \subseteq W)
      OBVIOUS
    <3>. QED BY <1>12, <3>1, <3>2, <3>3
  <2>3. ASSUME NEW i \in W
        PROVE  q[i] \in 1..d.visited /\ \A p \in P(i) : q[p] < q[i]
    <3>1. P(i) \subseteq V /\ V \subseteq D /\ i \in D
      BY <1>3, <1>6, <1>7
    <3>2. \A p \in P(i) : q[p] = r[p] /\ r[p] \in 1..c.visited
      <4>1. \A p \in P(i) : p \in V /\ p \in D /\ p # h
        BY <1>7, <3>1
      <4>. QED BY <1>3, <1>18, <4>1
    <3>3. CASE i = h
      <4>1. q[i] = c.visited + 1 /\ d.visited = c.visited + 1 /\ c.visited \in Nat
        BY <1>1, <1>2, <1>18, <3>3
      <4>2. ASSUME NEW p \in P(i) PROVE q[p] < q[i]
        <5>1. q[p] \in 1..c.visited
          BY <3>2
        <5>. QED BY <4>1, <5>1
      <4>3. q[i] \in 1..d.visited
        BY <4>1
      <4>. QED BY <4>2, <4>3
    <3>4. CASE i # h
      <4>1. i \in V /\ q[i] = r[i]
        BY <1>18, <3>1, <3>4
      <4>2. r[i] \in 1..c.visited /\ \A p \in P(i) : r[p] < r[i]
        BY <1>3, <4>1
      <4>3. \A p \in P(i) : q[p] < q[i]
        BY <3>2, <4>1, <4>2
      <4>4. d.visited = c.visited + 1 /\ c.visited \in Nat
        BY <1>1, <1>2
      <4>5. q[i] \in 1..d.visited
        BY <4>1, <4>2, <4>4
      <4>. QED BY <4>3, <4>5
    <3>. QED BY <3>3, <3>4
  <2>4. W \in SUBSET D /\ d.visited = Cardinality(W)
    BY <1>2, <1>3, <1>6, <1>17
  <2>5. \A i \in D : d.remaining[i] = Cardinality(P(i) \ W)
    BY <1>2, <1>9
  <2> HIDE DEF W
  <2>. QED BY <1>18, <2>1, <2>2, <2>3, <2>4, <2>5 DEF Counted, P
<1>20. CheckInv(n, preds, d)
  <2> HIDE DEF W
  <2>. QED BY <1>19 DEF CheckInv
<1>. QED BY <1>2, <1>16, <1>20 DEF d

LEMMA CheckTurns ==
    ASSUME NEW n, NEW succs, NEW preds, Mirrored(n, succs, preds), NEW degree,
           degree = [i \in 1..n |-> Len(preds[i])], NEW c, c = Checks(succs, degree)[n]
    PROVE  /\ c \in CheckTypes(n) /\ CheckInv(n, preds, c)
           /\ c.queue = <<>> \/ c.visited = n
           /\ Visited(succs, degree) = c.visited
<1> DEFINE start == [queue |-> InOrder({i \in DOMAIN succs : degree[i] = 0}),
                     remaining |-> degree, visited |-> 0]
           step  == [w \in CheckTypes(n) |-> Visit(succs, w)]
           Good(w) == w \in CheckTypes(n) /\ CheckInv(n, preds, w)
<1>1. /\ n \in Nat /\ DOMAIN succs = 1..n /\ Len(succs) = n
  <2>1. n \in Nat /\ succs \in [1..n -> Seq(1..n)]
    BY DEF Mirrored
  <2>2. succs \in Seq(Seq(1..n)) /\ Len(succs) = n
    BY <2>1
  <2>. QED BY <2>1, <2>2
<1>2. Good(start) /\ start.visited = 0
  <2>1. start = [queue |-> InOrder({i \in 1..n : degree[i] = 0}), remaining |-> degree,
                 visited |-> 0]
    BY <1>1
  <2> HIDE DEF start
  <2>. QED BY <2>1, CheckStart
<1>3. ASSUME NEW w, Good(w)
      PROVE  /\ step[w] = Visit(succs, w) /\ Good(Visit(succs, w))
             /\ w.queue = <<>> => Visit(succs, w) = w
             /\ w.queue # <<>> => Visit(succs, w).visited = w.visited + 1
  <2>1. step[w] = Visit(succs, w)
    BY <1>3
  <2>2. CASE w.queue = <<>>
    <3>1. Visit(succs, w) = w
      BY <2>2 DEF Visit
    <3>. QED BY <1>3, <2>1, <2>2, <3>1
  <2>3. CASE w.queue # <<>>
    BY <1>3, <2>1, <2>3, VisitKeeps
  <2>. QED BY <2>2, <2>3
<1> HIDE DEF start, step, Good
<1>4. PICK f : Repeating(n, start, step, f)
  BY <1>1, RepeatsExist
<1>5. f = [k \in 0..n |-> IF k = 0 THEN start ELSE step[f[k - 1]]]
  BY <1>4 DEF Repeating
<1> DEFINE S == {k \in 0..n : Good(f[k]) /\ (f[k].queue = <<>> \/ f[k].visited = k)}
<1>6. 0..n \subseteq S
  <2>1. 0 \in S
    BY <1>1, <1>2, <1>5
  <2>2. ASSUME NEW k \in 0..(n - 1), k \in S PROVE k + 1 \in S
    <3>1. k + 1 \in 0..n /\ k + 1 # 0 /\ (k + 1) - 1 = k
      BY <1>1
    <3>2. f[k + 1] = step[f[k]]
      BY <1>5, <3>1
    <3>3. Good(f[k])
      BY <2>2
    <3>4. f[k + 1] = Visit(succs, f[k]) /\ Good(f[k + 1])
      BY <1>3, <3>2, <3>3
    <3>5. CASE f[k].queue = <<>>
      BY <1>3, <3>1, <3>3, <3>4, <3>5
    <3>6. CASE f[k].queue # <<>>
      <4>1. f[k].visited = k
        BY <2>2, <3>6
      <4>2. f[k + 1].visited = k + 1
        BY <1>3, <3>3, <3>4, <3>6, <4>1
      <4>. QED BY <3>1, <3>4, <4>2
    <3>. QED BY <3>5, <3>6
  <2> HIDE DEF S
  <2>. QED BY <1>1, <2>1, <2>2, CountingUp
<1>7. ASSUME NEW k \in 0..n
      PROVE  (IF k = 0 THEN start ELSE step[f[k - 1]])
                = (IF k = 0 THEN start ELSE Visit(succs, f[k - 1]))
  <2>1. k # 0 => k - 1 \in 0..n
    BY <1>1
  <2>. QED BY <1>3, <1>6, <2>1
<1>8. f = [k \in 0..n |-> IF k = 0 THEN start ELSE Visit(succs, f[k - 1])]
  BY <1>5, <1>7
<1> DEFINE g == Checks(succs, degree)
<1>9. g = [k \in 0..n |-> IF k = 0 THEN start ELSE Visit(succs, g[k - 1])]
  <2>1. g = CHOOSE check :
               check = [k \in 0..Len(succs) |-> IF k = 0 THEN start ELSE Visit(succs, check[k - 1])]
    BY DEF Checks, start
  <2>. QED BY <1>1, <1>8, <2>1
<1> HIDE DEF g, S
<1> DEFINE T == {k \in 0..n : g[k] = f[k]}
<1>10. 0..n \subseteq T
  <2>1. 0 \in T
    BY <1>1, <1>8, <1>9
  <2>2. ASSUME NEW k \in 0..(n - 1), k \in T PROVE k + 1 \in T
    <3>1. k + 1 \in 0..n /\ k + 1 # 0 /\ (k + 1) - 1 = k
      BY <1>1
    <3>2. f[k + 1] = Visit(succs, f[k])
      BY <1>8, <3>1
    <3>3. g[k + 1] = Visit(succs, g[k])
      BY <1>9, <3>1
    <3>. QED BY <2>2, <3>1, <3>2, <3>3
  <2> HIDE DEF T
  <2>. QED BY <1>1, <2>1, <2>2, CountingUp
<1>11. c = f[n]
  BY <1>1, <1>10 DEF g
<1>12. n \in S
  BY <1>1, <1>6
<1>13. Good(c) /\ (c.queue = <<>> \/ c.visited = n)
  BY <1>11, <1>12 DEF S
<1>14. Visited(succs, degree) = c.visited
  BY <1>1 DEF Visited
<1>. QED BY <1>13, <1>14 DEF Good

Ranked(n, succs) ==
    \E rank \in [1..n -> 1..n] : \A i \in 1..n : \A j \in ToSet(succs[i]) : rank[i] < rank[j]

\* Every node is visited exactly when the nodes can be ranked along the arcs.
LEMMA CheckExact ==
    ASSUME NEW n, NEW succs, NEW preds, Mirrored(n, succs, preds), NEW degree,
           degree = [i \in 1..n |-> Len(preds[i])]
    PROVE  Visited(succs, degree) = n <=> Ranked(n, succs)
<1> DEFINE c == Checks(succs, degree)[n]
<1>1. /\ c \in CheckTypes(n) /\ CheckInv(n, preds, c) /\ (c.queue = <<>> \/ c.visited = n)
      /\ Visited(succs, degree) = c.visited
  BY CheckTurns
<1> HIDE DEF c
<1>2. PICK V, r : Counted(n, preds, c, V, r)
  BY <1>1 DEF CheckInv
<1>3. /\ V \subseteq 1..n /\ c.visited = Cardinality(V) /\ n \in Nat
      /\ \A i \in 1..n : i \in V \cup ToSet(c.queue) <=> ToSet(preds[i]) \subseteq V
      /\ r \in [1..n -> Nat]
      /\ \A i \in V : r[i] \in 1..c.visited /\ \A p \in ToSet(preds[i]) : r[p] < r[i]
  BY <1>2 DEF Counted, Mirrored
<1>4. \A i, j \in 1..n : j \in ToSet(succs[i]) <=> i \in ToSet(preds[j])
  BY DEF Mirrored
<1>5. \A i \in 1..n : ToSet(preds[i]) \subseteq 1..n /\ ToSet(succs[i]) \subseteq 1..n
  BY MirroredFacts
<1>6. c.visited = n <=> V = 1..n
  <2>1. IsFiniteSet(1..n) /\ Cardinality(1..n) = n
    BY <1>3, FS_Interval
  <2>. QED BY <1>3, <2>1, FS_Subset
<1>7. ASSUME c.visited = n
      PROVE  \E rank \in [1..n -> 1..n] :
                \A i \in 1..n : \A j \in ToSet(succs[i]) : rank[i] < rank[j]
  <2>1. \A i \in 1..n : r[i] \in 1..n
    BY <1>3, <1>6, <1>7
  <2>2. r \in [1..n -> 1..n]
    BY <1>3, <2>1
  <2>3. \A i \in 1..n : \A j \in ToSet(succs[i]) : r[i] < r[j]
    BY <1>3, <1>4, <1>5, <1>6, <1>7
  <2>. QED BY <2>2, <2>3
<1>8. ASSUME NEW rank \in [1..n -> 1..n],
             \A i \in 1..n : \A j \in ToSet(succs[i]) : rank[i] < rank[j], c.visited # n
      PROVE  FALSE
  <2> DEFINE U == {i \in 1..n : i \notin V}
             R == {rank[i] : i \in U}
  <2>1. c.queue = <<>> /\ ToSet(c.queue) = {}
    BY <1>1, <1>8 DEF ToSet
  <2>2. U # {}
    BY <1>3, <1>6, <1>8
  <2>3. R \subseteq Nat /\ R # {}
    BY <2>2
  <2>4. PICK x \in R : \A y \in R : x <= y
    <3> HIDE DEF R
    <3>. QED BY <2>3, FirstPosition
  <2>5. PICK i \in U : x = rank[i]
    OBVIOUS
  <2>6. ASSUME NEW p \in ToSet(preds[i]) PROVE p \in V
    <3>1. p \in 1..n /\ rank[p] < rank[i] /\ rank[p] \in Nat /\ rank[i] \in Nat
      BY <1>4, <1>5, <1>8
    <3>2. p \in U => rank[i] <= rank[p]
      BY <2>4, <2>5
    <3>. QED BY <3>1, <3>2
  <2>7. i \in V
    BY <1>3, <2>1, <2>6
  <2>. QED BY <2>7
<1>. QED BY <1>1, <1>7, <1>8 DEF Ranked

-----------------------------------------------------------------------------
(* The compiled version. *)

Ids   == InOrder(Selected)
Preds == [i \in DOMAIN Ids |-> Predecessors(Arcs(Ids), i)]
Succs == [i \in DOMAIN Ids |-> Successors(Arcs(Ids), i)]

\* Two nodes of the plan are neighbours exactly when an edge joins them.
LEMMA NeighboursAreFed ==
    ASSUME EditInv
    PROVE  /\ Selected = Upstream /\ Upstream \subseteq LiveNodes /\ Active \subseteq Upstream
           /\ Len(Ids) \in Nat /\ DOMAIN Ids = 1..Len(Ids)
           /\ IsInjective(Ids) /\ ToSet(Ids) = Upstream
           /\ Len(Ids) = Cardinality(Upstream) /\ IsFiniteSet(Upstream)
           /\ Mirrored(Len(Ids), Succs, Preds)
           /\ \A i, j \in DOMAIN Ids : j \in ToSet(Succs[i]) <=> Feeds(Ids[i], Ids[j])
<1>1. Selected = Upstream /\ Upstream \subseteq LiveNodes
  BY ClosureIsUpstream DEF Upstream
<1>2. Active \subseteq Upstream
  BY DeclarationFinite DEF Upstream
<1>3. Upstream \in SUBSET Nat /\ IsFiniteSet(Upstream)
  BY <1>1, DeclarationFinite, FS_Subset
<1>4. /\ Ids \in [1..Cardinality(Upstream) -> Upstream] /\ Cardinality(Upstream) \in Nat
      /\ Len(Ids) = Cardinality(Upstream) /\ IsInjective(Ids) /\ ToSet(Ids) = Upstream
  BY <1>1, <1>3, InOrderFacts DEF Ids
<1>5. Len(Ids) \in Nat /\ DOMAIN Ids = 1..Len(Ids)
  BY <1>4
<1> DEFINE D == 1..Len(Ids)
           arcs == Arcs(Ids)
<1>6. /\ arcs \in ArcLists(D) /\ IsInjective(arcs)
      /\ \A i, j \in D : <<i, j>> \in ToSet(arcs) <=> Feeds(Ids[i], Ids[j])
  BY <1>4, <1>5, ArcsFacts
<1>7. Preds = [i \in D |-> Predecessors(arcs, i)] /\ Succs = [i \in D |-> Successors(arcs, i)]
  BY <1>5 DEF Preds, Succs
<1> HIDE DEF arcs
<1>8. ASSUME NEW i \in D
      PROVE  /\ Succs[i] \in Seq(D) /\ IsInjective(Succs[i])
             /\ \A j \in D : j \in ToSet(Succs[i]) <=> <<i, j>> \in ToSet(arcs)
             /\ Preds[i] \in Seq(D) /\ IsInjective(Preds[i])
             /\ \A j \in D : j \in ToSet(Preds[i]) <=> <<j, i>> \in ToSet(arcs)
  <2>1. Succs[i] = Successors(arcs, i) /\ Preds[i] = Predecessors(arcs, i)
    BY <1>7
  <2> HIDE DEF D
  <2>. QED BY <1>6, <2>1, NeighboursFacts
<1>9. Mirrored(Len(Ids), Succs, Preds)
  <2>1. Succs \in [D -> Seq(D)] /\ Preds \in [D -> Seq(D)]
    BY <1>7, <1>8
  <2>2. \A i, j \in D : j \in ToSet(Succs[i]) <=> i \in ToSet(Preds[j])
    BY <1>8
  <2>. QED BY <1>5, <1>8, <2>1, <2>2 DEF Mirrored
<1>10. \A i, j \in D : j \in ToSet(Succs[i]) <=> Feeds(Ids[i], Ids[j])
  BY <1>6, <1>8
<1>11. \A i, j \in DOMAIN Ids : j \in ToSet(Succs[i]) <=> Feeds(Ids[i], Ids[j])
  BY <1>5, <1>10
<1>12. Len(Ids) \in Nat /\ DOMAIN Ids = 1..Len(Ids)
  BY <1>5
<1> HIDE DEF D
<1>. QED BY <1>1, <1>2, <1>3, <1>4, <1>12, <1>9, <1>11

LEMMA RankedIsAcyclic == EditInv => (Ranked(Len(Ids), Succs) <=> Acyclic(Upstream))
<1> SUFFICES ASSUME EditInv PROVE Ranked(Len(Ids), Succs) <=> Acyclic(Upstream)
  OBVIOUS
<1> DEFINE n == Len(Ids)
           D == 1..n
<1>1. /\ n \in Nat /\ DOMAIN Ids = D /\ IsInjective(Ids) /\ ToSet(Ids) = Upstream
      /\ n = Cardinality(Upstream) /\ Mirrored(n, Succs, Preds)
      /\ \A i, j \in D : j \in ToSet(Succs[i]) <=> Feeds(Ids[i], Ids[j])
  BY NeighboursAreFed
<1>2. /\ \A m \in Upstream : Index(Ids, m) \in D /\ Ids[Index(Ids, m)] = m
      /\ \A i \in D : Index(Ids, Ids[i]) = i /\ Ids[i] \in Upstream
  BY <1>1, IndexFacts
<1>3. \A i \in D : ToSet(Succs[i]) \subseteq D
  BY <1>1, MirroredFacts
<1> HIDE DEF n
<1>4. ASSUME Ranked(n, Succs) PROVE Acyclic(Upstream)
  <2>1. PICK rank \in [D -> D] : \A i \in D : \A j \in ToSet(Succs[i]) : rank[i] < rank[j]
    BY <1>4 DEF Ranked
  <2> DEFINE up == [m \in Upstream |-> rank[Index(Ids, m)]]
  <2>2. up \in [Upstream -> 1..Cardinality(Upstream)]
    BY <1>1, <1>2
  <2>3. ASSUME NEW m \in Upstream, NEW k \in Upstream, Feeds(m, k) PROVE up[m] < up[k]
    <3>1. Index(Ids, k) \in ToSet(Succs[Index(Ids, m)])
      BY <1>1, <1>2, <2>3
    <3>. QED BY <1>2, <2>1, <3>1
  <2> HIDE DEF up
  <2>. QED BY <2>2, <2>3 DEF Acyclic
<1>5. ASSUME Acyclic(Upstream) PROVE Ranked(n, Succs)
  <2>1. PICK up \in [Upstream -> 1..Cardinality(Upstream)] :
           \A m, k \in Upstream : Feeds(m, k) => up[m] < up[k]
    BY <1>5 DEF Acyclic
  <2> DEFINE rank == [i \in D |-> up[Ids[i]]]
  <2>2. rank \in [D -> D]
    BY <1>1, <1>2, <2>1
  <2>3. ASSUME NEW i \in D, NEW j \in ToSet(Succs[i]) PROVE rank[i] < rank[j]
    <3>1. j \in D /\ Feeds(Ids[i], Ids[j])
      BY <1>1, <1>3
    <3>. QED BY <1>2, <2>1, <3>1
  <2> HIDE DEF rank
  <2>. QED BY <2>2, <2>3 DEF Ranked
<1>. QED BY <1>4, <1>5 DEF n

\* Input in of an accepted plan, at a node with these predecessors.
Readable(ids, predecessors, in) ==
    /\ \A k \in DOMAIN in.sources :
          /\ in.sources[k].node \in ToSet(predecessors)
          /\ LET outputs == nodes[ids[in.sources[k].node]].schema.outputs
             IN  /\ in.sources[k].output \in DOMAIN outputs
                 /\ outputs[in.sources[k].output].type = in.slot.type
    /\ ~in.slot.many => Len(in.sources) <= 1
    /\ in.external => in.sources = <<>>
    /\ in.slot.required => in.sources # <<>> \/ in.external

\* What the producers of an input of node n become in the plan.
LEMMA InputCompiled ==
    ASSUME EditInv, ~MissingRequired(Selected), NEW i \in DOMAIN Ids, NEW slot \in Inputs(Ids[i]),
           NEW in, in = CompiledInput(Ids, Ids[i], slot)
    PROVE  Readable(Ids, Preds[i], in)
<1> DEFINE n == Ids[i]
           into == Incoming(n, slot.id)
           es == InOrder(into)
<1>1. /\ ToSet(Ids) = Upstream /\ Upstream \subseteq LiveNodes /\ IsInjective(Ids)
      /\ DOMAIN Ids = 1..Len(Ids) /\ Mirrored(Len(Ids), Succs, Preds) /\ Selected = Upstream
      /\ \A k, j \in DOMAIN Ids : j \in ToSet(Succs[k]) <=> Feeds(Ids[k], Ids[j])
  BY NeighboursAreFed
<1>2. n \in Upstream /\ n \in LiveNodes /\ slot \in Inputs(n)
  BY <1>1 DEF ToSet
<1>3. /\ into \in SUBSET LiveEdges /\ into \in SUBSET Nat
      /\ \A e \in into : edges[e].target = n /\ edges[e].input = slot.id
  BY DeclarationFinite DEF Incoming
<1> HIDE DEF n, into
<1>4. IsFiniteSet(into)
  BY <1>3, DeclarationFinite, FS_Subset
<1>5. /\ es \in [1..Cardinality(into) -> into] /\ Cardinality(into) \in Nat
  BY <1>3, <1>4, InOrderFacts
<1> HIDE DEF es
<1> DEFINE sources == [k \in DOMAIN es |-> [node |-> Index(Ids, edges[es[k]].source),
                                            output |-> OutputAt(es[k])]]
<1>6. in = [slot |-> slot, external |-> IsExposed(n, slot.id), sources |-> sources]
  BY DEF CompiledInput, n, es, into
<1>7. DOMAIN sources = 1..Cardinality(into)
  BY <1>5
<1>8. Len(sources) = Cardinality(into) /\ (sources = <<>> <=> Cardinality(into) = 0)
  <2>1. sources \in Seq({sources[k] : k \in DOMAIN sources})
    <3>1. sources \in [1..Cardinality(into) -> {sources[k] : k \in DOMAIN sources}]
      BY <1>7
    <3> HIDE DEF sources
    <3>. QED BY <1>5, <3>1
  <2> HIDE DEF sources
  <2>2. Len(sources) = Cardinality(into)
    BY <1>5, <1>7, <2>1
  <2>. QED BY <2>1, <2>2, EmptySeq
<1>9. ASSUME NEW k \in DOMAIN sources
      PROVE  /\ sources[k].node \in ToSet(Preds[i]) /\ sources[k].node \in DOMAIN Ids
             /\ LET outputs == nodes[Ids[sources[k].node]].schema.outputs
                IN  /\ sources[k].output \in DOMAIN outputs
                    /\ outputs[sources[k].output].type = slot.type
  <2> DEFINE e == es[k]
             m == edges[e].source
             outputs == nodes[m].schema.outputs
  <2>1. e \in into /\ sources[k] = [node |-> Index(Ids, m), output |-> OutputAt(e)]
    BY <1>5
  <2> HIDE DEF e
  <2>2. e \in LiveEdges /\ edges[e].target = n /\ edges[e].input = slot.id
    BY <1>3, <2>1
  <2>3. m \in LiveNodes /\ Feeds(m, n)
    BY <2>2, DeclarationFinite DEF Feeds
  <2>4. m \in Upstream
    BY <1>2, <2>3 DEF Upstream
  <2>5. Index(Ids, m) \in DOMAIN Ids /\ Ids[Index(Ids, m)] = m
    BY <1>1, <2>4, IndexFacts
  <2>6. Index(Ids, m) \in ToSet(Preds[i])
    <3>1. i \in ToSet(Succs[Index(Ids, m)])
      BY <1>1, <2>3, <2>5 DEF n
    <3>. QED BY <1>1, <2>5, <3>1 DEF Mirrored
  <2>7. PICK out \in Outputs(m), sl \in Inputs(n) :
           out.id = edges[e].output /\ sl.id = slot.id /\ out.type = sl.type
    BY <2>2 DEF EditInv, EdgesTyped
  <2>8. /\ sl = slot
        /\ \A a, b \in Outputs(m) : a.id = b.id => a = b
    <3>1. nodes[n].schema \in ValidSchemas /\ nodes[m].schema \in ValidSchemas
      BY <1>2, <2>3, NodeFacts DEF EditInv
    <3>. QED BY <1>2, <2>7, <3>1, SchemaFacts DEF Inputs, Outputs
  <2>9. OutputAt(e) \in DOMAIN outputs /\ outputs[OutputAt(e)] = out
    <3>1. OutputAt(e) = CHOOSE p \in DOMAIN outputs : outputs[p].id = edges[e].output
      BY DEF OutputAt
    <3> HIDE DEF outputs
    <3>2. \E p \in DOMAIN outputs : outputs[p].id = edges[e].output
      BY <2>7 DEF Outputs, ToSet, outputs
    <3>3. OutputAt(e) \in DOMAIN outputs /\ outputs[OutputAt(e)].id = edges[e].output
      BY <3>1, <3>2
    <3>4. outputs[OutputAt(e)] \in Outputs(m)
      BY <3>3 DEF Outputs, ToSet, outputs
    <3>. QED BY <2>7, <2>8, <3>3, <3>4
  <2> HIDE DEF m, sources
  <2>. QED BY <2>1, <2>5, <2>6, <2>7, <2>8, <2>9 DEF outputs
<1> HIDE DEF sources
<1>10. ASSUME ~slot.many PROVE Len(sources) <= 1
  BY <1>2, <1>8, <1>10 DEF EditInv, ProducersUnique, into
<1>11. ASSUME IsExposed(n, slot.id) PROVE sources = <<>>
  <2>1. into = {}
    BY <1>11 DEF EditInv, BindingsSound, IsExposed, into
  <2>. QED BY <1>8, <2>1, FS_EmptySet
<1>12. ASSUME slot.required, ~IsExposed(n, slot.id) PROVE sources # <<>>
  <2>1. into # {}
    BY <1>1, <1>2, <1>12 DEF MissingRequired, into
  <2>. QED BY <1>4, <1>8, <2>1, FS_EmptySet
<1>. QED BY <1>6, <1>9, <1>10, <1>11, <1>12 DEF Readable

\* The properties of a version, as predicates on the value that compile returns.
VerdictFits(v) ==
    /\ v.verdict = "NoActiveTarget" <=> Active = {}
    /\ v.verdict = "Ok" => ToSet(v.ids) = Upstream
    /\ v.verdict = "CycleDetected" => ~Acyclic(Upstream)
    /\ v.verdict = "Ok" => Acyclic(Upstream)
    /\ v.verdict = "MissingRequiredInput" <=>
          Active # {} /\ \E n \in Upstream : \E in \in Inputs(n) :
              in.required /\ ~IsExposed(n, in.id) /\ Incoming(n, in.id) = {}
PlanFits(v) ==
    v.verdict = "Ok" =>
        LET P == DOMAIN v.ids
        IN  /\ P # {}
            /\ {v.successors, v.predecessors} \subseteq [P -> Seq(P)]
            /\ \A i \in P : /\ IsInjective(v.successors[i])
                            /\ IsInjective(v.predecessors[i])
                            /\ \A j \in P : j \in ToSet(v.successors[i])
                                              <=> i \in ToSet(v.predecessors[j])
            /\ \E rank \in [P -> P] :
                  \A i \in P : \A j \in ToSet(v.successors[i]) : rank[i] < rank[j]
InputsFit(v) ==
    v.verdict = "Ok" => \A i \in DOMAIN v.ids : \A in \in ToSet(v.inputs[i]) :
        Readable(v.ids, v.predecessors[i], in)

LEMMA CompiledFits ==
    ASSUME EditInv
    PROVE  VerdictFits(Compiled) /\ PlanFits(Compiled) /\ InputsFit(Compiled)
<1> DEFINE v == Compiled
           D == DOMAIN Ids
           degree == [i \in D |-> Len(Preds[i])]
           missing == MissingRequired(Selected)
           inputs == [i \in D |-> [k \in DOMAIN nodes[Ids[i]].schema.inputs |->
                         CompiledInput(Ids, Ids[i], nodes[Ids[i]].schema.inputs[k])]]
           accepted == [verdict |-> "Ok", ids |-> Ids, predecessors |-> Preds,
                        successors |-> Succs, nodes |-> [i \in D |-> nodes[Ids[i]]],
                        inputs |-> inputs]
<1>1. v = IF Active = {} THEN Refused("NoActiveTarget")
          ELSE IF missing THEN Refused("MissingRequiredInput")
          ELSE IF Visited(Succs, degree) # Len(Ids) THEN Refused("CycleDetected")
          ELSE accepted
  BY DEF Compiled, Ids, Preds, Succs
<1>2. /\ Selected = Upstream /\ Active \subseteq Upstream /\ Len(Ids) \in Nat /\ D = 1..Len(Ids)
      /\ IsInjective(Ids) /\ ToSet(Ids) = Upstream /\ Mirrored(Len(Ids), Succs, Preds)
  BY NeighboursAreFed
<1> HIDE DEF v, D, degree, inputs
<1>3. Visited(Succs, degree) = Len(Ids) <=> Ranked(Len(Ids), Succs)
  <2>1. degree = [i \in 1..Len(Ids) |-> Len(Preds[i])]
    BY <1>2 DEF degree
  <2>. QED BY <1>2, <2>1, CheckExact
<1>4. Ranked(Len(Ids), Succs) <=> Acyclic(Upstream)
  BY RankedIsAcyclic
<1>5. missing <=> \E n \in Upstream : \E in \in Inputs(n) :
                     in.required /\ ~IsExposed(n, in.id) /\ Incoming(n, in.id) = {}
  BY <1>2 DEF MissingRequired
<1>6. VerdictFits(v)
  <2> HIDE DEF missing
  <2>1. CASE Active = {}
    BY <1>1, <2>1 DEF VerdictFits, Refused
  <2>2. CASE Active # {} /\ missing
    BY <1>1, <1>5, <2>2 DEF VerdictFits, Refused
  <2>3. CASE Active # {} /\ ~missing /\ ~Ranked(Len(Ids), Succs)
    BY <1>1, <1>3, <1>4, <1>5, <2>3 DEF VerdictFits, Refused
  <2>4. CASE Active # {} /\ ~missing /\ Ranked(Len(Ids), Succs)
    BY <1>1, <1>2, <1>3, <1>4, <1>5, <2>4 DEF VerdictFits
  <2>. QED BY <2>1, <2>2, <2>3, <2>4
<1>7. v.verdict = "Ok" => Active # {} /\ ~missing /\ Ranked(Len(Ids), Succs) /\ v = accepted
  <2> HIDE DEF missing
  <2>. QED BY <1>1, <1>3 DEF Refused
<1>8. PlanFits(v)
  <2> SUFFICES ASSUME v.verdict = "Ok" PROVE PlanFits(v)
    BY DEF PlanFits
  <2>1. /\ v.ids = Ids /\ v.predecessors = Preds /\ v.successors = Succs
        /\ Ranked(Len(Ids), Succs) /\ Active # {}
    BY <1>7
  <2>2. D # {}
    BY <1>2, <2>1 DEF D, ToSet
  <2>3. \A i \in D : /\ IsInjective(Succs[i]) /\ IsInjective(Preds[i])
                     /\ \A j \in D : j \in ToSet(Succs[i]) <=> i \in ToSet(Preds[j])
    BY <1>2 DEF Mirrored
  <2>4. \E rank \in [D -> D] : \A i \in D : \A j \in ToSet(Succs[i]) : rank[i] < rank[j]
    BY <1>2, <2>1 DEF Ranked
  <2>5. Succs \in [D -> Seq(D)] /\ Preds \in [D -> Seq(D)]
    BY <1>2 DEF Mirrored
  <2>. QED BY <2>1, <2>2, <2>3, <2>4, <2>5 DEF PlanFits, D
<1>9. InputsFit(v)
  <2> SUFFICES ASSUME v.verdict = "Ok" PROVE InputsFit(v)
    BY DEF InputsFit
  <2>1. v.ids = Ids /\ v.predecessors = Preds /\ v.inputs = inputs /\ ~missing
    BY <1>7
  <2>2. ASSUME NEW i \in D, NEW in \in ToSet(inputs[i])
        PROVE  Readable(Ids, Preds[i], in)
    <3>1. PICK k \in DOMAIN nodes[Ids[i]].schema.inputs :
             in = CompiledInput(Ids, Ids[i], nodes[Ids[i]].schema.inputs[k])
      BY <2>2 DEF inputs, ToSet
    <3>2. nodes[Ids[i]].schema.inputs[k] \in Inputs(Ids[i])
      BY DEF Inputs, ToSet
    <3> DEFINE slot == nodes[Ids[i]].schema.inputs[k]
    <3> HIDE DEF slot
    <3>3. slot \in Inputs(Ids[i]) /\ in = CompiledInput(Ids, Ids[i], slot)
      BY <3>1, <3>2 DEF slot
    <3>4. i \in DOMAIN Ids
      BY DEF D
    <3>. QED BY <2>1, <3>3, <3>4, InputCompiled
  <2>3. DOMAIN v.ids = D
    BY <2>1 DEF D
  <2> HIDE DEF accepted, missing
  <2>. QED BY <2>1, <2>2, <2>3 DEF InputsFit
<1>. QED BY <1>6, <1>8, <1>9 DEF v

-----------------------------------------------------------------------------
(* The invariants. *)

VersionFits ==
    version.verdict # "none" =>
        VerdictFits(version) /\ PlanFits(version) /\ InputsFit(version)

LEMMA VersionsFit == CompileSpec => [](EditInv /\ VersionFits)
<1>1. CompileInit => EditInv /\ VersionFits
  BY EditInvInit DEF CompileInit, VersionFits, Refused
<1>2. EditInv /\ VersionFits /\ [CompileNext]_<<vars, version>> => (EditInv /\ VersionFits)'
  <2> SUFFICES ASSUME EditInv, VersionFits, [CompileNext]_<<vars, version>>
               PROVE  EditInv' /\ VersionFits'
    OBVIOUS
  <2>1. CASE version = Refused("none") /\ Next /\ UNCHANGED version
    BY <2>1, EditKeeps DEF Keeps, VersionFits, Refused
  <2>2. ASSUME UNCHANGED vars, VerdictFits(version'), PlanFits(version'), InputsFit(version')
        PROVE  VersionFits'
    <3>1. nodes' = nodes /\ edges' = edges /\ exposed' = exposed
      BY <2>2 DEF vars, declaration
    <3>2. /\ LiveNodes' = LiveNodes /\ Active' = Active
          /\ \A n : Inputs(n)' = Inputs(n)
          /\ \A n, slot : IsExposed(n, slot)' = IsExposed(n, slot)
          /\ \A n, slot : Incoming(n, slot)' = Incoming(n, slot)
          /\ \A m, n : Feeds(m, n)' = Feeds(m, n)
      BY <3>1 DEF LiveNodes, LiveEdges, Active, Inputs, IsExposed, Incoming, Feeds
    <3>3. Upstream' = Upstream /\ Acyclic(Upstream)' = Acyclic(Upstream)
      <4>1. Upstream' = Upstream
        BY <3>2 DEF Upstream
      <4>2. \A S : Acyclic(S)' = Acyclic(S)
        BY <3>2 DEF Acyclic
      <4>. QED BY <4>1, <4>2
    <3>4. VerdictFits(version)'
      BY <2>2, <3>2, <3>3 DEF VerdictFits
    <3>5. PlanFits(version)'
      BY <2>2 DEF PlanFits
    <3>6. InputsFit(version)'
      BY <2>2, <3>1 DEF InputsFit, Readable
    <3>. QED BY <3>4, <3>5, <3>6 DEF VersionFits
  <2>3. CASE CompileGraph
    <3>1. UNCHANGED vars /\ version' = Compiled
      BY <2>3 DEF CompileGraph
    <3>. QED BY <2>2, <3>1, CompiledFits, EditStutter
  <2>4. CASE UNCHANGED <<vars, version>>
    <3>1. CASE version.verdict = "none"
      BY <2>4, <3>1, EditStutter DEF VersionFits
    <3>2. CASE version.verdict # "none"
      BY <2>2, <2>4, <3>2, EditStutter DEF VersionFits
    <3>. QED BY <3>1, <3>2
  <2>. QED BY <2>1, <2>3, <2>4 DEF CompileNext
<1>. QED BY <1>1, <1>2, PTL DEF CompileSpec

\* Whatever was edited before, compile gives the right verdict: a cycle exactly
\* when the nodes that the active ones depend on cannot be ranked, a missing
\* input exactly when one of them lacks it (compile_graph).
THEOREM VerdictsAreExact == CompileSpec => []VerdictExact
<1>1. VersionFits => VerdictExact
  BY DEF VersionFits, VerdictFits, VerdictExact
<1>. QED BY <1>1, VersionsFit, PTL

\* An accepted plan meets what a run assumes of its plan: not empty, acyclic, no
\* neighbour listed twice, predecessor and successor lists mirror each other.
THEOREM PlansFitRuns == CompileSpec => []PlanFitsRun
<1>1. VersionFits => PlanFitsRun
  BY DEF VersionFits, PlanFits, PlanFitsRun
<1>. QED BY <1>1, VersionsFit, PTL

\* Every source that an input of an accepted plan names is an output of one of
\* its predecessors, of its type, in the number that its cardinality allows.
THEOREM InputsAreResolvable == CompileSpec => []InputsResolvable
<1>1. VersionFits => InputsResolvable
  BY DEF VersionFits, InputsFit, Readable, InputsResolvable
<1>. QED BY <1>1, VersionsFit, PTL
=============================================================================
