----------------------------- MODULE MCCompile -----------------------------
(* Small schemas on which TLC checks Compile. *)
EXTENDS Compile

In(id, many, required) ==
    [id |-> id, name |-> ToString(id), type |-> "int", many |-> many, required |-> required,
     auto |-> FALSE]
Out(id, type) == [id |-> id, name |-> ToString(id), type |-> type]

\* A node that can sit anywhere in a graph.
Relay == [layout |-> 1, inputs |-> <<In(1, TRUE, FALSE)>>,
          outputs |-> <<Out(3, "text"), Out(1, "int"), Out(2, "int")>>]
\* A node with a Required input.
Sink == [layout |-> 2, inputs |-> <<In(1, FALSE, TRUE)>>, outputs |-> <<Out(1, "int")>>]

TwoSchemas == {Relay, Sink}

\* The declarations compile meets depend on few of the edits: nodes are added
\* (the k-th under the k-th name), removed, connected, exposed and activated.
Build ==
    \/ \E schema \in Schemas : AddNode(ToString(Len(nodes) + 1), schema)
    \/ \E n \in LiveNodes :
          \/ RemoveNode(n)
          \/ ~nodes[n].active /\ SetActive(n, TRUE)
          \/ \E in \in Inputs(n) : ExposeInput(n, in)
          \/ \E m \in LiveNodes : \E out \in Outputs(m), in \in Inputs(n) : Connect(m, out, n, in)

BuildAndCompile ==
    \/ version = Refused("none") /\ Build /\ UNCHANGED version
    \/ CompileGraph

BuildSpec == CompileInit /\ [][BuildAndCompile]_<<vars, version>>
=============================================================================
