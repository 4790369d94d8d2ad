------------------------------ MODULE Compile ------------------------------
(***************************************************************************)
(* Compilation of a declaration graph (compile_graph in src/compiled.rs):  *)
(* its passes as operators on the declaration that GraphEdit edits, and    *)
(* the step that makes an immutable version.  compile takes &self, so the  *)
(* version is made from any declaration the edits can reach.               *)
(***************************************************************************)
EXTENDS GraphEdit

VARIABLE version    \* the compiled version, or why there is none

Active == {n \in LiveNodes : nodes[n].active}

\* The members of a set of ids in their order: the k-th has k members up to it.
InOrder(S) ==
    [k \in 1..Cardinality(S) |-> CHOOSE x \in S : Cardinality({y \in S : y <= x}) = k]

\* The elements of s at the positions in S, in their order.
At(s, S) == [k \in DOMAIN InOrder(S) |-> s[InOrder(S)[k]]]

\* The reverse closure of the active nodes: a work stack, popped at its end,
\* onto which the sources of the incoming edges are pushed in edge order.
Sources(n) == LET in == At(edges, {e \in LiveEdges : edges[e].target = n})
              IN  [k \in DOMAIN in |-> in[k].source]

Pop(walk) ==
    LET n == Last(walk.stack)
    IN  IF walk.stack = <<>> THEN walk
        ELSE IF n \in walk.selected THEN [walk EXCEPT !.stack = Front(@)]
        ELSE [stack |-> Front(walk.stack) \o Sources(n), selected |-> walk.selected \cup {n}]

\* Each active node is pushed once, and each edge pushes its source once: after
\* that many turns the stack is empty.
Turns == Cardinality(Active) + Cardinality(LiveEdges)
Walk[k \in 0..Turns] ==
    IF k = 0 THEN [stack |-> InOrder(Active), selected |-> {}] ELSE Pop(Walk[k - 1])
Selected == Walk[Turns].selected

\* Slip: an exposed input counts as missing.
MissingProducer(selected) ==
    \E n \in selected : \E in \in Inputs(n) : in.required /\ Incoming(n, in.id) = {}

\* A Required input of a selected node with neither a producer nor a binding.
MissingRequired(selected) ==
    \E n \in selected : \E in \in Inputs(n) :
        in.required /\ Incoming(n, in.id) = {} /\ ~IsExposed(n, in.id)

\* The dense index of a node: its position among the selected ones.
Index(ids, n) == CHOOSE i \in DOMAIN ids : ids[i] = n

\* Edges between selected nodes, as pairs of indices, in edge order.
Pairs(ids) ==
    LET inside == At(edges, {e \in LiveEdges :
                                {edges[e].source, edges[e].target} \subseteq ToSet(ids)})
    IN  [k \in DOMAIN inside |-> <<Index(ids, inside[k].source), Index(ids, inside[k].target)>>]

\* Slip: two edges between the same nodes count twice.
ArcsDoubled(ids) == Pairs(ids)

\* One arc per pair: what predecessors and successors are built from.
Arcs(ids) ==
    LET all == Pairs(ids)
    IN  At(all, {i \in DOMAIN all : \A j \in 1..(i - 1) : all[j] # all[i]})

Successors(arcs, i)   == LET out == At(arcs, {k \in DOMAIN arcs : arcs[k][1] = i})
                         IN  [k \in DOMAIN out |-> out[k][2]]
Predecessors(arcs, i) == LET in == At(arcs, {k \in DOMAIN arcs : arcs[k][2] = i})
                         IN  [k \in DOMAIN in |-> in[k][1]]

\* The cycle check counts the predecessors down from the roots; what is never
\* visited lies on a cycle or behind one.
Visit(succs, check) ==
    LET next  == succs[Head(check.queue)]
        left  == [i \in DOMAIN succs |->
                     check.remaining[i] - Cardinality({k \in DOMAIN next : next[k] = i})]
        freed == At(next, {k \in DOMAIN next : left[next[k]] = 0})
    IN  IF check.queue = <<>> THEN check
        ELSE [queue |-> Tail(check.queue) \o freed, remaining |-> left,
              visited |-> check.visited + 1]

\* A node is queued when its count reaches zero, so once at most: one turn per
\* node empties the queue.
Checks(succs, degree) ==
    LET check[k \in 0..Len(succs)] ==
            IF k = 0 THEN [queue |-> InOrder({i \in DOMAIN succs : degree[i] = 0}),
                           remaining |-> degree, visited |-> 0]
            ELSE Visit(succs, check[k - 1])
    IN  check
Visited(succs, degree) == Checks(succs, degree)[Len(succs)].visited

\* The position of the output that edge e reads in the schema of its source.
OutputAt(e) ==
    LET outputs == nodes[edges[e].source].schema.outputs
    IN  CHOOSE i \in DOMAIN outputs : outputs[i].id = edges[e].output

\* Slip: a source is named by its NodeId, not by its index in the plan.
CompiledInputById(ids, n, in) ==
    LET es == InOrder(Incoming(n, in.id))
    IN  [slot |-> in, external |-> IsExposed(n, in.id),
         sources |-> [k \in DOMAIN es |-> [node |-> edges[es[k]].source,
                                           output |-> OutputAt(es[k])]]]

\* What an input reads: outputs of its producers, in edge order, or a binding.
CompiledInput(ids, n, in) ==
    LET es == InOrder(Incoming(n, in.id))
    IN  [slot |-> in, external |-> IsExposed(n, in.id),
         sources |-> [k \in DOMAIN es |-> [node |-> Index(ids, edges[es[k]].source),
                                           output |-> OutputAt(es[k])]]]

Refused(why) == [verdict |-> why]

Compiled ==
    LET ids   == InOrder(Selected)
        arcs  == Arcs(ids)
        preds == [i \in DOMAIN ids |-> Predecessors(arcs, i)]
        succs == [i \in DOMAIN ids |-> Successors(arcs, i)]
    IN  IF Active = {} THEN Refused("NoActiveTarget")
        ELSE IF MissingRequired(Selected) THEN Refused("MissingRequiredInput")
        ELSE IF Visited(succs, [i \in DOMAIN ids |-> Len(preds[i])]) # Len(ids)
             THEN Refused("CycleDetected")
        ELSE [verdict |-> "Ok", ids |-> ids, predecessors |-> preds, successors |-> succs,
              nodes |-> [i \in DOMAIN ids |-> nodes[ids[i]]],
              inputs |-> [i \in DOMAIN ids |-> [k \in DOMAIN nodes[ids[i]].schema.inputs |->
                             CompiledInput(ids, ids[i], nodes[ids[i]].schema.inputs[k])]]]

CompileGraph ==
    /\ version = Refused("none")
    /\ version' = Compiled
    /\ UNCHANGED vars

CompileInit == Init /\ version = Refused("none")

CompileNext ==
    \/ version = Refused("none") /\ Next /\ UNCHANGED version
    \/ CompileGraph

CompileSpec == CompileInit /\ [][CompileNext]_<<vars, version>>

-----------------------------------------------------------------------------
(* What compilation promises, against definitions that do not follow the   *)
(* algorithm.  They are stated where a version was just made.              *)

Feeds(m, n) == \E e \in LiveEdges : edges[e].source = m /\ edges[e].target = n

\* The least set that holds the active nodes and whatever feeds its members.
Upstream ==
    {n \in LiveNodes : \A S \in SUBSET LiveNodes :
        (Active \subseteq S /\ \A m \in S : \A k \in LiveNodes : Feeds(k, m) => k \in S) => n \in S}

Acyclic(S) ==
    \E rank \in [S -> 1..Cardinality(S)] : \A m, n \in S : Feeds(m, n) => rank[m] < rank[n]

\* Each verdict is the right one: a cycle is reported exactly when the nodes
\* the active ones depend on cannot be ranked (never for a join or a doubled
\* edge), a missing input exactly when such a node lacks one.
VerdictExact ==
    version.verdict # "none" =>
        /\ version.verdict = "NoActiveTarget" <=> Active = {}
        /\ version.verdict = "Ok" => ToSet(version.ids) = Upstream
        /\ version.verdict = "CycleDetected" => ~Acyclic(Upstream)
        /\ version.verdict = "Ok" => Acyclic(Upstream)
        /\ version.verdict = "MissingRequiredInput" <=>
              Active # {} /\ \E n \in Upstream : \E in \in Inputs(n) :
                  in.required /\ ~IsExposed(n, in.id) /\ Incoming(n, in.id) = {}

\* An accepted plan is what a run assumes (PlanAssumption of RunPlan): at least
\* one node, lists that name nodes of the plan and no successor twice, acyclic;
\* and the predecessor counts that a run starts from mirror the successor lists
\* that count them down.
PlanFitsRun ==
    version.verdict = "Ok" =>
        LET P == DOMAIN version.ids
        IN  /\ P # {}
            /\ {version.successors, version.predecessors} \subseteq [P -> Seq(P)]
            /\ \A i \in P : /\ IsInjective(version.successors[i])
                            /\ IsInjective(version.predecessors[i])
                            /\ \A j \in P : j \in ToSet(version.successors[i])
                                              <=> i \in ToSet(version.predecessors[j])
            /\ \E rank \in [P -> P] :
                  \A i \in P : \A j \in ToSet(version.successors[i]) : rank[i] < rank[j]

\* When a node of an accepted plan starts, everything it reads is there: each
\* source is an output of a predecessor, of the type of the input, a One input
\* has one source at most, a Required input has a source or a binding, and no
\* input has both.
InputsResolvable ==
    version.verdict = "Ok" => \A i \in DOMAIN version.ids : \A in \in ToSet(version.inputs[i]) :
        /\ \A k \in DOMAIN in.sources :
              /\ in.sources[k].node \in ToSet(version.predecessors[i])
              /\ LET outputs == nodes[version.ids[in.sources[k].node]].schema.outputs
                 IN  /\ in.sources[k].output \in DOMAIN outputs
                     /\ outputs[in.sources[k].output].type = in.slot.type
        /\ ~in.slot.many => Len(in.sources) <= 1
        /\ in.external => in.sources = <<>>
        /\ in.slot.required => in.sources # <<>> \/ in.external
=============================================================================
