------------------------------ MODULE RunPlan ------------------------------
(***************************************************************************)
(* The part of a CompiledPlan that a run reads: the nodes of the plan in   *)
(* execution order and, for each, its successors in the order the plan     *)
(* lists them.  compile_graph removes duplicate edges between two nodes    *)
(* and rejects cycles, which is what PlanAssumption says.                  *)
(*                                                                         *)
(* The module also holds the two traversals of the plan a run performs,    *)
(* written without recursion so that they can be reasoned about:           *)
(* Downstream (what block_branch reaches) and Orderings (the order in      *)
(* which commit_node queues the successors it unlocks).                    *)
(***************************************************************************)
EXTENDS Naturals, Sequences, FiniteSets, SequencesExt

CONSTANTS N,        \* number of nodes of the plan
          Succs     \* Succs[n] is the sequence of successors of node n

Node == 1..N

ASSUME PlanAssumption ==
    /\ N \in Nat \ {0}
    /\ Succs \in [Node -> Seq(Node)]
    /\ \A n \in Node : IsInjective(Succs[n])
    /\ \E rank \in [Node -> Node] :
          \A n \in Node : \A m \in ToSet(Succs[n]) : rank[n] < rank[m]

Succ(n) == ToSet(Succs[n])
Pred(n) == {m \in Node : n \in Succ(m)}

\* The nodes of Open that a walk from n reaches through nodes of Open: the
\* least subset of Open closed under "successor of n or of a member".
Downstream(n, Open) ==
    LET Closed(S) == \A m \in {n} \cup S : Succ(m) \cap Open \subseteq S
    IN  {m \in Open : \A S \in SUBSET Open : Closed(S) => m \in S}

\* The one arrangement of U, a set of successors of n, in the order of Succs[n].
Orderings(n, U) ==
    {q \in [1..Cardinality(U) -> U] :
        \E at \in [1..Cardinality(U) -> DOMAIN Succs[n]] :
            /\ \A i \in 1..Cardinality(U) : q[i] = Succs[n][at[i]]
            /\ \A i, j \in 1..Cardinality(U) : i < j => at[i] < at[j]}
=============================================================================
