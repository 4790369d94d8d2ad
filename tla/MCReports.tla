----------------------------- MODULE MCReports -----------------------------
(* Small schemas and a plan on which TLC checks Reports and ReportsContract. *)
EXTENDS ReportsContract

In(id, name, type, many, required) ==
    [id |-> id, name |-> name, type |-> type, many |-> many, required |-> required,
     auto |-> FALSE]
Out(id, name, type) == [id |-> id, name |-> name, type |-> type]

\* A node with two outputs, declared in two programs: the slots agree, the
\* layouts do not.
Maker(layout) == [layout |-> layout, inputs |-> <<In(1, "x", "int", FALSE, FALSE)>>,
                  outputs |-> <<Out(1, "a", "int"), Out(2, "b", "int")>>]
\* A node that reads one value, and any number of them.
Taker == [layout |-> 3,
          inputs |-> <<In(1, "x", "int", FALSE, TRUE), In(2, "y", "int", TRUE, FALSE)>>,
          outputs |-> <<Out(1, "a", "text")>>]

\* The maker, then the taker, which reads it.
MakerThenTaker == << <<2>>, <<>> >>

MakerAndTaker == {Maker(1), Maker(2), Taker}

\* The first node is a maker, the second a taker, under names in turn.  The
\* maker's schema is replaced before the compilation and either's after it, when
\* one node is removed too.
Build ==
    \/ AddNode(ToString(Len(nodes) + 1), IF nodes = <<>> THEN Maker(1) ELSE Taker)
    \/ \E n \in LiveNodes :
          \/ ~nodes[n].active /\ SetActive(n, TRUE)
          \/ \E in \in Inputs(n) : ExposeInput(n, in)
          \/ \E m \in LiveNodes \ {n} : \E out \in Outputs(m), in \in Inputs(n) :
                Connect(m, out, n, in)

Edit == \E n \in LiveNodes : \/ /\ version.verdict = "none" => n = 1
                                /\ ReplaceSchema(n, Maker(2))
                             \/ /\ version.verdict = "Ok" /\ LiveNodes = DOMAIN nodes
                                /\ RemoveNode(n)

VersionNext ==
    \/ /\ \/ version.verdict = "none" /\ Build
          \/ version.verdict \in {"none", "Ok"} /\ Edit
       /\ issued' = issued \cup Offered'
       /\ UNCHANGED <<version, runVars>>
    \/ CompileGraph /\ UNCHANGED <<issued, runVars>>
    \/ RunStep /\ UNCHANGED <<allVars, version>>

VersionSpec == ReportInit /\ [][VersionNext]_reportVars
=============================================================================
