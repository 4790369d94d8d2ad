---------------------------- MODULE BlockBranch ----------------------------
(***************************************************************************)
(* fail_node and the recursive walk block_branch (src/runtime.rs) call by  *)
(* call, on the states of RunContract.  RunContract and RunNodes state     *)
(* only its effect, Downstream; here the walk itself is shown to have it.  *)
(*                                                                         *)
(* A walk is a record: the two vectors block_branch writes, and the calls  *)
(* <<index, predecessor>> that are still to be made, the next one first.   *)
(***************************************************************************)
EXTENDS RunContract

\* What a marked node calls: block_branch of each successor, in plan order.
Calls(n) == [k \in DOMAIN Succs[n] |-> <<Succs[n][k], n>>]

Mark(walk) ==
    LET n == Head(walk.calls)[1]
    IN  [phase     |-> [walk.phase EXCEPT ![n] = "blocked"],
         blockedBy |-> [walk.blockedBy EXCEPT ![n] = Head(walk.calls)[2]],
         calls     |-> Calls(n) \o Tail(walk.calls)]

\* Slip: the walk goes through settled nodes.
CallThrough(walk) == IF walk.calls = <<>> THEN walk ELSE Mark(walk)

\* One call of block_branch, up to the calls it makes itself: it returns at a
\* settled node and marks any other.
Call(walk) ==
    IF walk.calls = <<>> THEN walk
    ELSE IF walk.phase[Head(walk.calls)[1]] \in Settled
    THEN [walk EXCEPT !.calls = Tail(@)]
    ELSE Mark(walk)

\* No walk makes more calls than the plan has edges: it marks a node once.
Edges    == UNION {{n} \X Succ(n) : n \in Node}
MaxCalls == Cardinality(Edges)

\* fail_node of a run in which nothing is blocked yet.
Start(n) == [phase     |-> [phase EXCEPT ![n] = "failed"],
             blockedBy |-> [m \in Node |-> 0],
             calls     |-> Calls(n)]

FailNode(n) ==
    LET walk[k \in 0..MaxCalls] == IF k = 0 THEN Start(n) ELSE Call(walk[k - 1])
    IN  walk[MaxCalls]

\* Whatever node fails, in any state a run can be in, the walk ends, and it has
\* blocked exactly the undecided nodes that the failed one leads to through
\* undecided ones; each of them blames a direct predecessor that failed now or
\* is blocked now, and no other node changes (fail_node and block_branch).
WalkIsDownstream ==
    \A n \in Open : Pred(n) \subseteq In({"succeeded"}) =>
        LET hit   == Downstream(n, Open \ {n})
            after == FailNode(n)
        IN  /\ after.calls = <<>>
            /\ \A m \in Node :
                  /\ after.phase[m] = IF m = n THEN "failed"
                                      ELSE IF m \in hit THEN "blocked" ELSE phase[m]
                  /\ IF m \in hit THEN after.blockedBy[m] \in Pred(m) \cap (hit \cup {n})
                     ELSE after.blockedBy[m] = 0
=============================================================================
