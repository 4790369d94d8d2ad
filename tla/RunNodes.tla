------------------------------ MODULE RunNodes ------------------------------
(***************************************************************************)
(* The node bookkeeping of a GraphRun (src/runtime.rs): what its poll loop *)
(* owns and changes between two accesses to shared state.  Both kinds of   *)
(* run, InlineRun and DispatchRun, are built on it.                        *)
(***************************************************************************)
EXTENDS RunPlan

VARIABLES
    status,        \* statuses: NodeStatus per node
    remaining,     \* dependencies a node still waits for
    ready,         \* queue of Ready nodes
    outputs,       \* nodes whose output slots are filled
    failure,       \* failures: the error kind recorded per node
    blockedBy      \* blocked_by: the node blamed, 0 for None

nodeVars == <<status, remaining, ready, outputs, failure, blockedBy>>

Status  == {"Pending", "Ready", "Running", "Succeeded", "Failed", "Cancelled", "Blocked"}
Settled == {"Succeeded", "Failed", "Cancelled", "Blocked"}
ErrorKind == {"none", "InvalidOutputs", "Task", "Cancelled", "Panic", "Dispatch", "Internal"}

NodeTypeOK ==
    /\ status \in [Node -> Status]
    /\ remaining \in [Node -> Nat]
    /\ ready \in Seq(Node)
    /\ outputs \subseteq Node
    /\ failure \in [Node -> ErrorKind]
    /\ blockedBy \in [Node -> 0..N]

NodeInit ==
    /\ status = [n \in Node |-> "Pending"]
    /\ remaining = [n \in Node |-> Cardinality(Pred(n))]
    /\ ready = <<>>
    /\ outputs = {}
    /\ failure = [n \in Node |-> "none"]
    /\ blockedBy = [n \in Node |-> 0]

Undecided == {n \in Node : status[n] \notin Settled}

\* Slip: a successor is queued one input early.
CommitNodeEarly(n) ==
    LET waiting  == {s \in Succ(n) : status[s] = "Pending"}
        unlocked == {s \in waiting : remaining[s] <= 2}
    IN  /\ outputs' = outputs \cup {n}
        /\ remaining' = [s \in Node |-> IF s \in waiting /\ remaining[s] > 0
                                        THEN remaining[s] - 1 ELSE remaining[s]]
        /\ status' = [s \in Node |-> IF s = n THEN "Succeeded"
                                     ELSE IF s \in unlocked THEN "Ready" ELSE status[s]]
        /\ \E q \in Orderings(n, unlocked) : ready' = ready \o q
        /\ UNCHANGED <<failure, blockedBy>>

\* commit_node: fill the output slots, count down and queue the successors.
CommitNode(n) ==
    LET waiting  == {s \in Succ(n) : status[s] = "Pending"}
        unlocked == {s \in waiting : remaining[s] <= 1}
    IN  /\ outputs' = outputs \cup {n}
        /\ remaining' = [s \in Node |-> IF s \in waiting /\ remaining[s] > 0
                                        THEN remaining[s] - 1 ELSE remaining[s]]
        /\ status' = [s \in Node |-> IF s = n THEN "Succeeded"
                                     ELSE IF s \in unlocked THEN "Ready"
                                     ELSE status[s]]
        /\ \E q \in Orderings(n, unlocked) : ready' = ready \o q
        /\ UNCHANGED <<failure, blockedBy>>

\* Slip: a blocked node blames its first dependency, whatever became of it.
FailNodeFirst(n, kind) ==
    LET hit == Downstream(n, Undecided \ {n})
        first(m) == CHOOSE p \in Pred(m) : \A q \in Pred(m) : p <= q
    IN  /\ status' = [m \in Node |-> IF m = n THEN "Failed"
                                     ELSE IF m \in hit THEN "Blocked" ELSE status[m]]
        /\ failure' = [failure EXCEPT ![n] = kind]
        /\ blockedBy' = [m \in Node |-> IF m \in hit THEN first(m) ELSE blockedBy[m]]
        /\ UNCHANGED <<remaining, outputs>>

\* fail_node and the block_branch walk it starts.  A blocked node blames the
\* direct predecessor the walk came from (BlockBranch has the walk itself).
FailNode(n, kind) ==
    LET hit == Downstream(n, Undecided \ {n})
    IN  /\ status' = [m \in Node |-> IF m = n THEN "Failed"
                                     ELSE IF m \in hit THEN "Blocked"
                                     ELSE status[m]]
        /\ failure' = [failure EXCEPT ![n] = kind]
        /\ \E blame \in [hit -> hit \cup {n}] :
              /\ \A m \in hit : blame[m] \in Pred(m)
              /\ blockedBy' = [m \in Node |-> IF m \in hit THEN blame[m]
                                              ELSE blockedBy[m]]
        /\ UNCHANGED <<remaining, outputs>>

CancelNode(n) ==
    /\ status' = [status EXCEPT ![n] = "Cancelled"]
    /\ UNCHANGED <<remaining, ready, outputs, failure, blockedBy>>

\* Slip: nodes whose job still runs are discarded as well.
CancelUndecided ==
    /\ status' = [n \in Node |-> IF n \in Undecided THEN "Cancelled" ELSE status[n]]
    /\ ready' = <<>>
    /\ UNCHANGED <<remaining, outputs, failure, blockedBy>>

\* cancel_unstarted: nothing that has not started will start.
CancelUnstarted ==
    /\ status' = [n \in Node |-> IF status[n] \in {"Pending", "Ready"}
                                 THEN "Cancelled" ELSE status[n]]
    /\ ready' = <<>>
    /\ UNCHANGED <<remaining, outputs, failure, blockedBy>>

\* The first poll queues the roots, in plan order, unless it is too late.
QueueRoots ==
    LET roots == {n \in Node : remaining[n] = 0}
    IN  /\ status' = [n \in Node |-> IF n \in roots THEN "Ready" ELSE status[n]]
        /\ \E q \in [1..Cardinality(roots) -> roots] :
              /\ \A i, j \in 1..Cardinality(roots) : i < j => q[i] < q[j]
              /\ ready' = q
        /\ UNCHANGED <<remaining, outputs, failure, blockedBy>>

-----------------------------------------------------------------------------
(* Safety. *)

\* The ready queue lists each Ready node once and nothing else, and a Ready
\* node finds every output it reads (build_inputs never reports an internal
\* invariant violation).
ReadyQueueExact ==
    /\ IsInjective(ready)
    /\ ToSet(ready) = {n \in Node : status[n] = "Ready"}
    /\ \A n \in ToSet(ready) : Pred(n) \subseteq outputs
    /\ \A n \in Node : failure[n] # "Internal"

\* The countdown of a Pending node agrees with the outputs it still misses, so
\* that its last missing input, and no other, makes it Ready.
RemainingExact ==
    /\ outputs = {n \in Node : status[n] = "Succeeded"}
    /\ \A n \in Node : status[n] = "Pending" =>
          remaining[n] = Cardinality(Pred(n) \ outputs)

\* A blocked node blames a direct predecessor, and the blame leads to a node
\* that failed: the predecessor failed, or is blocked and blames in turn.
BlameLeadsToFailure ==
    \A n \in Node :
        IF status[n] = "Blocked"
        THEN /\ blockedBy[n] \in Pred(n)
             /\ status[blockedBy[n]] \in {"Failed", "Blocked"}
        ELSE blockedBy[n] = 0
=============================================================================
