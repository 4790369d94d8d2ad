----------------------------- MODULE SlotHandles -----------------------------
(***************************************************************************)
(* Typed slot handles (InputSlot, OutputSlot in src/handles.rs) that       *)
(* clients keep while the graph is edited: how the graph issues them       *)
(* (Graph::input, Graph::output), how an edit resolves them, and the edits *)
(* that take them.  A handle names a node, a slot identity and the schema  *)
(* generation it was resolved in; its type is in the client's program.     *)
(*                                                                         *)
(* Clients ask for every handle they can get and never forget one.         *)
(***************************************************************************)
EXTENDS GraphEdit

CONSTANT Types     \* the value types of client programs

VARIABLE issued    \* history: pairs of a handle and the slot it was issued for

allVars == <<vars, issued>>

Handle(side, n, slot, type) ==
    [graph |-> "own", side |-> side, node |-> n, slot |-> slot.id,
     generation |-> nodes[n].generation, type |-> type]

SlotsOf(n, side) == IF side = "in" THEN Inputs(n) ELSE Outputs(n)

\* Graph::input and Graph::output, per name and type the client asks for.
Offer(n, side, name, type) ==
    {<<Handle(side, n, slot, type), slot>> :
        slot \in {s \in SlotsOf(n, side) : s.name = name /\ s.type = type}}

Offered ==
    UNION {Offer(n, side, name, type) : n \in LiveNodes, side \in {"in", "out"},
              name \in UNION {NamesOf(s.inputs) \cup NamesOf(s.outputs) : s \in Schemas},
              type \in Types}

\* Slip: the generation of the handle is not compared.
ResolvedByIdentity(h) ==
    IF h.graph # "own" \/ h.node \notin LiveNodes THEN {}
    ELSE {s \in SlotsOf(h.node, h.side) : s.id = h.slot}

\* resolve_input and resolve_output: the slot that a handle names now; none if
\* the handle is foreign, its node was removed or its schema was replaced.
Resolved(h) ==
    IF h.graph # "own" \/ h.node \notin LiveNodes THEN {}
    ELSE {s \in SlotsOf(h.node, h.side) :
             s.id = h.slot /\ h.generation = nodes[h.node].generation}

-----------------------------------------------------------------------------
(* Edits that take handles: the edit of GraphEdit on the slots they name, or *)
(* a refusal.                                                              *)

Refuse == result' = "error" /\ UNCHANGED declaration

ConnectHandles(from, to) ==
    \/ \E out \in Resolved(from), in \in Resolved(to) : Connect(from.node, out, to.node, in)
    \/ {} \in {Resolved(from), Resolved(to)} /\ Refuse

ReconnectHandle(e, from) ==
    \/ \E out \in Resolved(from) : Reconnect(e, from.node, out)
    \/ Resolved(from) = {} /\ Refuse

ExposeHandle(to) ==
    \/ \E in \in Resolved(to) : ExposeInput(to.node, in)
    \/ Resolved(to) = {} /\ Refuse

CollectIntoHandle(sources, to) ==
    \/ \E in \in Resolved(to) : CollectInto(sources, to.node, in)
    \/ Resolved(to) = {} /\ Refuse

Held(side) == {h \in {x[1] : x \in issued} : h.side = side}

HandleEdit ==
    \/ \E from \in Held("out"), to \in Held("in") : ConnectHandles(from, to)
    \/ \E e \in LiveEdges, from \in Held("out") : ReconnectHandle(e, from)
    \/ \E to \in Held("in") :
          \/ ExposeHandle(to)
          \/ \E sources \in SeqOf(LiveNodes, MaxNodes) : CollectIntoHandle(sources, to)

HandleInit == Init /\ issued = {}
HandleNext == (Next \/ HandleEdit) /\ issued' = issued \cup Offered'
HandleSpec == HandleInit /\ [][HandleNext]_allVars

-----------------------------------------------------------------------------
(* Safety. *)

\* A handle names the slot it was issued for or nothing, with the type of the
\* client's program, however often the schema of its node was replaced, its
\* node removed or another one added in the meantime (resolve_input,
\* resolve_output and the generation that replace_schema bumps).
HandlesMeanOneSlot ==
    \A x \in issued : \A slot \in Resolved(x[1]) : slot = x[2] /\ slot.type = x[1].type

\* Whatever identity went stale stays stale, be it a node's, an edge's or a
\* handle's, and an edge keeps its target for life.
StaleStep ==
    /\ \A n \in DOMAIN nodes : n \in DOMAIN nodes' /\ (nodes'[n].live => nodes[n].live)
    /\ \A e \in DOMAIN edges :
          /\ e \in DOMAIN edges'
          /\ edges'[e].live => edges[e].live /\ edges'[e].target = edges[e].target
                                             /\ edges'[e].input = edges[e].input
    /\ \A x \in issued : Resolved(x[1])' # {} => Resolved(x[1]) # {}
StaleStaysStale == [][StaleStep]_allVars

=============================================================================
