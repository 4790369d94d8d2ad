------------------------- MODULE RunContract_proof -------------------------
(***************************************************************************)
(* Proofs about RunContract, for every plan: the invariants of the         *)
(* contract are inductive together, settled verdicts and a requested stop  *)
(* are final, and the walk of block_branch has the effect it is given.     *)
(***************************************************************************)
EXTENDS BlockBranch, Flatten_proof, FiniteSetTheorems, FunctionTheorems, TLAPS

USE DEF Phase, Settled, Outcome

\* The nodes that the failure of n blocks are open nodes, and the set is closed:
\* an open successor of n, or of a blocked node, is blocked.
LEMMA DownstreamClosed ==
    ASSUME NEW n \in Node, NEW O \in SUBSET Node
    PROVE  /\ Downstream(n, O) \subseteq O
           /\ \A m \in {n} \cup Downstream(n, O) : Succ(m) \cap O \subseteq Downstream(n, O)
  BY DEF Downstream

\* Whatever the failure of n blocks has a predecessor that is n or blocked too:
\* without it the node could be left out of the closed set.
LEMMA DownstreamCause ==
    ASSUME NEW n \in Node, NEW O \in SUBSET Node, NEW m \in Downstream(n, O)
    PROVE  Pred(m) \cap ({n} \cup Downstream(n, O)) # {}
<1> DEFINE D == Downstream(n, O)
           S == D \ {m}
<1>1. D \subseteq O /\ \A k \in {n} \cup D : Succ(k) \cap O \subseteq D
  BY DownstreamClosed
<1>2. SUFFICES ASSUME Pred(m) \cap ({n} \cup D) = {} PROVE FALSE
  OBVIOUS
<1>3. ASSUME NEW k \in {n} \cup S PROVE Succ(k) \cap O \subseteq S
  <2>1. k \in {n} \cup D /\ k \in Node
    BY <1>1
  <2>2. m \notin Succ(k)
    BY <2>1, <1>2 DEF Pred
  <2>. QED BY <1>1, <2>1, <2>2
<1>4. S \in SUBSET O
  BY <1>1
<1>5. m \in S
  BY <1>3, <1>4 DEF Downstream
<1>. QED BY <1>5

-----------------------------------------------------------------------------
(* The invariants. *)

Core ==
    /\ TypeOK /\ StartedAfterInputs /\ FailureSettles /\ BlockedHasCause
    /\ BlockedNeedsFailure /\ DiscardNeedsStop /\ OutcomeTruthful

LEMMA InitCore == Init => Core
  BY DEF Init, Core, TypeOK, StartedAfterInputs, FailureSettles, BlockedHasCause,
         BlockedNeedsFailure, DiscardNeedsStop, OutcomeTruthful, In, Open

LEMMA ClaimCore == ASSUME Core, NEW n \in Node, Claim(n) PROVE Core'
<1>1. TypeOK'
  BY DEF Core, TypeOK, Claim
<1>2. /\ In({"succeeded"})' = In({"succeeded"}) /\ In({"failed"})' = In({"failed"})
      /\ In({"blocked"})' = In({"blocked"}) /\ In({"cancelled"})' = In({"cancelled"})
      /\ In({"failed", "blocked"})' = In({"failed", "blocked"}) /\ Open' = Open
      /\ In({"running", "succeeded", "failed"})'
            \subseteq In({"running", "succeeded", "failed"}) \cup {n}
  BY DEF Core, TypeOK, Claim, In, Open
<1>3. StartedAfterInputs' /\ FailureSettles' /\ BlockedHasCause'
  BY <1>2 DEF Core, Claim, StartedAfterInputs, FailureSettles, BlockedHasCause, Pred, Succ
<1>4. BlockedNeedsFailure' /\ DiscardNeedsStop' /\ OutcomeTruthful'
  BY <1>2 DEF Core, Claim, BlockedNeedsFailure, DiscardNeedsStop, OutcomeTruthful
<1>. QED BY <1>1, <1>3, <1>4 DEF Core

LEMMA CommitCore == ASSUME Core, NEW n \in Node, Commit(n) PROVE Core'
<1>1. TypeOK'
  BY DEF Core, TypeOK, Commit
<1>2. /\ In({"succeeded"})' = In({"succeeded"}) \cup {n} /\ In({"failed"})' = In({"failed"})
      /\ In({"blocked"})' = In({"blocked"}) /\ In({"cancelled"})' = In({"cancelled"})
      /\ In({"failed", "blocked"})' = In({"failed", "blocked"}) /\ Open' \subseteq Open
      /\ In({"running", "succeeded", "failed"})' = In({"running", "succeeded", "failed"})
  BY DEF Core, TypeOK, Commit, In, Open
<1>3. StartedAfterInputs' /\ FailureSettles' /\ BlockedHasCause'
  BY <1>2 DEF Core, StartedAfterInputs, FailureSettles, BlockedHasCause, Pred, Succ
<1>4. BlockedNeedsFailure' /\ DiscardNeedsStop' /\ OutcomeTruthful'
  BY <1>2 DEF Core, Commit, BlockedNeedsFailure, DiscardNeedsStop, OutcomeTruthful
<1>. QED BY <1>1, <1>3, <1>4 DEF Core

LEMMA FailCore == ASSUME Core, NEW n \in Node, Fail(n) PROVE Core'
<1> DEFINE O == Open \ {n}
           hit == Downstream(n, O)
<1>1. Open \in SUBSET Node /\ O \in SUBSET Node
  BY DEF Open, In
<1>2. hit \subseteq O /\ \A m \in {n} \cup hit : Succ(m) \cap O \subseteq hit
  BY <1>1, DownstreamClosed
<1>3. phase' = [m \in Node |-> IF m = n THEN "failed" ELSE IF m \in hit THEN "blocked"
                               ELSE phase[m]]
  BY DEF Fail
<1>4. n \in Open /\ Pred(n) \subseteq In({"succeeded"}) /\ outcome = "none"
      /\ stop' = stop /\ outcome' = outcome
  BY DEF Fail
<1> HIDE DEF hit
<1>5. /\ In({"succeeded"})' = In({"succeeded"})
      /\ In({"failed"})' = In({"failed"}) \cup {n}
      /\ In({"blocked"})' = In({"blocked"}) \cup hit
      /\ In({"failed", "blocked"})' = In({"failed", "blocked"}) \cup {n} \cup hit
      /\ In({"cancelled"})' = In({"cancelled"})
      /\ In({"running", "succeeded", "failed"})' \subseteq
            In({"running", "succeeded", "failed"}) \cup {n}
      /\ Open' = O \ hit
  BY <1>1, <1>2, <1>3, <1>4 DEF Core, TypeOK, In, Open
<1>6. TypeOK'
  BY <1>3, <1>4 DEF Core, TypeOK
<1>7. StartedAfterInputs'
  BY <1>4, <1>5 DEF Core, StartedAfterInputs, Pred, Succ
<1>8. FailureSettles'
  BY <1>1, <1>2, <1>5 DEF Core, FailureSettles, Succ
<1>9. BlockedHasCause'
  <2>1. ASSUME NEW m \in hit PROVE Pred(m) \cap ({n} \cup hit) # {}
    BY <1>1, <2>1, DownstreamCause DEF hit
  <2>. QED BY <1>5, <2>1 DEF Core, BlockedHasCause, Pred, Succ
<1>10. BlockedNeedsFailure' /\ DiscardNeedsStop' /\ OutcomeTruthful'
  BY <1>4, <1>5 DEF Core, BlockedNeedsFailure, DiscardNeedsStop, OutcomeTruthful
<1>. QED BY <1>6, <1>7, <1>8, <1>9, <1>10 DEF Core

LEMMA DiscardCore == ASSUME Core, NEW S \in SUBSET Node, Discard(S) PROVE Core'
<1>1. TypeOK'
  BY DEF Core, TypeOK, Discard
<1>2. /\ In({"succeeded"})' = In({"succeeded"}) /\ In({"failed"})' = In({"failed"})
      /\ In({"blocked"})' = In({"blocked"})
      /\ In({"failed", "blocked"})' = In({"failed", "blocked"}) /\ Open' \subseteq Open
      /\ In({"running", "succeeded", "failed"})' \subseteq In({"running", "succeeded", "failed"})
  BY DEF Core, TypeOK, Discard, In, Open
<1>3. StartedAfterInputs' /\ FailureSettles' /\ BlockedHasCause'
  BY <1>2 DEF Core, StartedAfterInputs, FailureSettles, BlockedHasCause, Pred, Succ
<1>4. BlockedNeedsFailure' /\ DiscardNeedsStop' /\ OutcomeTruthful'
  BY <1>2 DEF Core, Discard, BlockedNeedsFailure, DiscardNeedsStop, OutcomeTruthful
<1>. QED BY <1>1, <1>3, <1>4 DEF Core

\* With no undecided node, no failed one (so no blocked one) and no stop (so no
\* discarded one), every node has succeeded.
LEMMA ReturnCore == ASSUME Core, Return PROVE Core'
<1>1. phase' = phase /\ stop' = stop /\ outcome' \in Outcome
  BY DEF Return
<1>2. TypeOK' /\ StartedAfterInputs' /\ FailureSettles' /\ BlockedHasCause'
      /\ BlockedNeedsFailure' /\ DiscardNeedsStop'
  BY <1>1 DEF Core, TypeOK, StartedAfterInputs, FailureSettles, BlockedHasCause,
              BlockedNeedsFailure, DiscardNeedsStop, In, Open
<1>3. ASSUME ~stop, In({"failed"}) = {} PROVE In({"succeeded"}) = Node
  BY <1>3 DEF Core, TypeOK, Return, BlockedNeedsFailure, DiscardNeedsStop, In, Open
<1>4. OutcomeTruthful'
  <2>1. Open' = Open /\ In({"succeeded"})' = In({"succeeded"})
        /\ In({"failed"})' = In({"failed"}) /\ In({"cancelled"})' = In({"cancelled"})
    BY <1>1 DEF Open, In
  <2>. QED BY <1>1, <1>3, <2>1 DEF Core, Return, DiscardNeedsStop, OutcomeTruthful
<1>. QED BY <1>2, <1>4 DEF Core

LEMMA StepCore == Core /\ [Next]_vars => Core'
<1> SUFFICES ASSUME Core, [Next]_vars PROVE Core'
  OBVIOUS
<1>1. CASE RequestStop
  BY <1>1 DEF RequestStop, Core, TypeOK, StartedAfterInputs, FailureSettles, BlockedHasCause,
              BlockedNeedsFailure, DiscardNeedsStop, OutcomeTruthful, In, Open
<1>2. CASE \E n \in Node : Claim(n) \/ Commit(n) \/ Fail(n)
  BY <1>2, ClaimCore, CommitCore, FailCore
<1>3. CASE \E S \in SUBSET Node : Discard(S)
  BY <1>3, DiscardCore
<1>4. CASE Return
  BY <1>4, ReturnCore
<1>5. CASE UNCHANGED vars
  BY <1>5 DEF vars, Core, TypeOK, StartedAfterInputs, FailureSettles, BlockedHasCause,
              BlockedNeedsFailure, DiscardNeedsStop, OutcomeTruthful, In, Open
<1>. QED BY <1>1, <1>2, <1>3, <1>4, <1>5 DEF Next

\* A blocked node that depends on no failed one would, at the least rank, have a
\* cause that does.  The nodes that never started are closed under successors,
\* and without a stop so are the blocked ones.
LEMMA BlocksFollow == Core => BlocksFollowFailures
<1> SUFFICES ASSUME Core PROVE BlocksFollowFailures
  OBVIOUS
<1>1. /\ TypeOK /\ StartedAfterInputs /\ FailureSettles /\ BlockedHasCause /\ DiscardNeedsStop
      /\ \A q \in Node : Succ(q) \subseteq Node
  BY PlanAssumption DEF Core, Succ, ToSet
<1>2. ASSUME NEW q \in In({"failed"}), NEW p \in {q} \cup Downstream(q, Node), NEW s \in Succ(p)
      PROVE  s \in Downstream(q, Node)
  BY <1>1, DownstreamClosed DEF In
<1>3. In({"blocked"}) \subseteq Dependents
  <2> DEFINE B == In({"blocked"}) \ Dependents
  <2>1. SUFFICES ASSUME B # {} PROVE FALSE
    OBVIOUS
  <2>2. PICK rank \in [Node -> Node] :
           \A n \in Node : \A m \in ToSet(Succs[n]) : rank[n] < rank[m]
    BY PlanAssumption
  <2> DEFINE R == {rank[n] : n \in B}
  <2>3. R \subseteq Nat /\ R # {}
    BY <2>1 DEF In, Node
  <2>4. PICK x \in R : \A y \in R : x <= y
    <3> HIDE DEF R
    <3>. QED BY <2>3, FirstPosition
  <2>5. PICK m \in B : x = rank[m]
    OBVIOUS
  <2>6. PICK p \in Pred(m) : p \in In({"failed", "blocked"})
    BY <1>1 DEF BlockedHasCause
  <2>7. m \in Succ(p) /\ p \in Node /\ m \in Node /\ rank[p] < rank[m]
    BY <2>2, <2>6 DEF Pred, Succ, In
  <2>8. p \notin B
    <3>1. rank[p] \in Nat /\ rank[m] \in Nat
      BY <2>7 DEF Node
    <3>2. p \in B => rank[m] <= rank[p]
      BY <2>4, <2>5
    <3>. QED BY <2>7, <3>1, <3>2
  <2>9. PICK q \in In({"failed"}) : p \in {q} \cup Downstream(q, Node)
    BY <2>6, <2>8 DEF In, Dependents
  <2>10. m \in Downstream(q, Node)
    BY <1>2, <2>7, <2>9
  <2>. QED BY <2>9, <2>10 DEF Dependents
<1>4. ASSUME NEW q \in In({"failed"}), NEW S \in SUBSET Node,
             \A p \in {q} \cup S : Succ(p) \subseteq S
      PROVE  Downstream(q, Node) \subseteq S
  BY <1>4 DEF Downstream
<1>5. Dependents \cap In({"running", "succeeded", "failed"}) = {}
  <2> DEFINE S == Node \ In({"running", "succeeded", "failed"})
  <2>1. ASSUME NEW q \in In({"failed"}), NEW p \in {q} \cup S PROVE Succ(p) \subseteq S
    <3>1. p \in Node /\ p \notin In({"succeeded"})
      BY <2>1 DEF In
    <3>. QED BY <1>1, <3>1 DEF StartedAfterInputs, Pred
  <2>2. ASSUME NEW q \in In({"failed"}) PROVE Downstream(q, Node) \subseteq S
    <3>1. S \in SUBSET Node
      OBVIOUS
    <3> HIDE DEF S
    <3>. QED BY <1>4, <2>1, <3>1
  <2>. QED BY <2>2 DEF Dependents
<1>6. ASSUME ~stop PROVE Dependents \subseteq In({"blocked"})
  <2> DEFINE S == In({"blocked"})
  <2>1. ASSUME NEW q \in In({"failed"}), NEW p \in {q} \cup S, NEW s \in Succ(p) PROVE s \in S
    <3>1. p \in Node /\ p \in In({"failed", "blocked"}) /\ p \notin In({"succeeded"})
      BY <2>1 DEF In
    <3>2. s \in Node /\ s \notin Open /\ p \in Pred(s)
      BY <1>1, <2>1, <3>1 DEF FailureSettles, Pred
    <3>3. s \notin In({"running", "succeeded", "failed"}) /\ s \notin In({"cancelled"})
      BY <1>1, <1>6, <3>1, <3>2 DEF StartedAfterInputs, DiscardNeedsStop
    <3>. QED BY <1>1, <3>2, <3>3 DEF TypeOK, Open, In
  <2>2. ASSUME NEW q \in In({"failed"}) PROVE Downstream(q, Node) \subseteq S
    <3>1. S \in SUBSET Node
      BY DEF In
    <3> HIDE DEF S
    <3>. QED BY <1>4, <2>1, <3>1
  <2>. QED BY <2>2 DEF Dependents
<1>. QED BY <1>3, <1>5, <1>6 DEF BlocksFollowFailures

\* The contract's invariants hold in every reachable state of every plan.
THEOREM ContractInvariant == Spec => []Inv
<1>1. Core => Inv
  BY BlocksFollow DEF Core, Inv
<1>. QED BY <1>1, InitCore, StepCore, PTL DEF Spec

\* No dependent of a failed or blocked node stays undecided, so no run waits
\* for a node that can never start (fail_node blocks the whole branch).
THEOREM FailuresSettle == Spec => []FailureSettles
<1>1. Inv => FailureSettles
  BY DEF Inv
<1>. QED BY <1>1, ContractInvariant, PTL

\* Whatever order things happened in, what failed decides what is blocked: a node
\* is blocked only if it depends on a failed one, however remotely, no such node
\* ever starts, and without a stop all of them are blocked.
THEOREM FailuresDecide == Spec => []BlocksFollowFailures
<1>1. Inv => BlocksFollowFailures
  BY DEF Inv
<1>. QED BY <1>1, ContractInvariant, PTL

\* The report is truthful: Ok means every node committed, Failed that one
\* failed, Cancelled that the run was told to stop.
THEOREM ReportsTruthful == Spec => []OutcomeTruthful
<1>1. Inv => OutcomeTruthful
  BY DEF Inv
<1>. QED BY <1>1, ContractInvariant, PTL

\* A node that settled keeps its verdict, whatever arrives later.
THEOREM SettledStays == Spec => SettledIsFinal
<1>1. Inv /\ [Next]_vars => [SettledStep]_vars
  <2> SUFFICES ASSUME Inv, Next PROVE SettledStep
    OBVIOUS
  <2>1. CASE RequestStop
    BY <2>1 DEF RequestStop, SettledStep
  <2>2. ASSUME NEW n \in Node, Claim(n) \/ Commit(n) PROVE SettledStep
    BY <2>2 DEF Inv, TypeOK, Claim, Commit, SettledStep
  <2>3. ASSUME NEW n \in Node, Fail(n) PROVE SettledStep
    <3>1. Open \in SUBSET Node /\ Open \ {n} \in SUBSET Node
      BY DEF Open, In
    <3>2. Downstream(n, Open \ {n}) \subseteq Open
      BY <3>1, DownstreamClosed
    <3>. QED BY <2>3, <3>2 DEF Inv, TypeOK, Fail, SettledStep, Open, In
  <2>4. ASSUME NEW S \in SUBSET Node, Discard(S) PROVE SettledStep
    BY <2>4 DEF Inv, TypeOK, Discard, SettledStep, Open, In
  <2>5. CASE Return
    BY <2>5 DEF Return, SettledStep
  <2>. QED BY <2>1, <2>2, <2>3, <2>4, <2>5 DEF Next
<1>. QED BY <1>1, ContractInvariant, PTL DEF Spec, SettledIsFinal

\* After a stop request no node is claimed and none commits.
THEOREM StopIsFinal == Spec => StopFreezes
<1>1. Inv /\ [Next]_vars => [StopFreezesStep]_vars
  <2> SUFFICES ASSUME Inv, Next PROVE StopFreezesStep
    OBVIOUS
  <2>1. CASE RequestStop
    BY <2>1 DEF RequestStop, StopFreezesStep
  <2>2. CASE \E n \in Node : Claim(n) \/ Commit(n) \/ Fail(n)
    BY <2>2 DEF Inv, TypeOK, Claim, Commit, Fail, StopFreezesStep
  <2>3. CASE \E S \in SUBSET Node : Discard(S)
    BY <2>3 DEF Inv, TypeOK, Discard, StopFreezesStep
  <2>4. CASE Return
    BY <2>4 DEF Return, StopFreezesStep
  <2>. QED BY <2>1, <2>2, <2>3, <2>4 DEF Next
<1>. QED BY <1>1, ContractInvariant, PTL DEF Spec, StopFreezes

-----------------------------------------------------------------------------
(* The walk of fail_node, call by call. *)

Walks == [phase : [Node -> Phase], blockedBy : [Node -> 0..N], calls : Seq(Node \X Node)]

\* The nodes a walk from n may block, those it has blocked, and the edges out of
\* those it may still block.
Reach(n)     == Open \ {n}
Hit(n, w)    == {m \in Reach(n) : w.phase[m] = "blocked"}
Ahead(n, w)  == UNION {{m} \X Succ(m) : m \in Reach(n) \ Hit(n, w)}
Fuel(n, w)   == Len(w.calls) + Cardinality(Ahead(n, w))

\* What holds between two calls: what is blocked depends on n, everything else is
\* as it was, and every undecided successor of n or of a blocked node is blocked
\* or is called from there.
Walking(n, w) ==
    /\ w \in Walks
    /\ \A m \in Node : w.phase[m] = IF m = n THEN "failed"
                                    ELSE IF m \in Hit(n, w) THEN "blocked" ELSE phase[m]
    /\ \A m \in Node : IF m \in Hit(n, w) THEN w.blockedBy[m] \in Pred(m) \cap ({n} \cup Hit(n, w))
                                          ELSE w.blockedBy[m] = 0
    /\ Hit(n, w) \subseteq Downstream(n, Reach(n))
    /\ \A c \in ToSet(w.calls) : c[2] \in {n} \cup Hit(n, w) /\ c[1] \in Succ(c[2])
    /\ \A p \in {n} \cup Hit(n, w) : \A s \in Succ(p) \cap Reach(n) :
          s \in Hit(n, w) \/ <<s, p>> \in ToSet(w.calls)

\* The calls that a node makes are its edges, one call for each.
LEMMA CallsFacts ==
    ASSUME NEW n \in Node
    PROVE  /\ Calls(n) \in Seq(Node \X Node) /\ Len(Calls(n)) \in Nat
           /\ \A c : c \in ToSet(Calls(n)) <=> \E s \in Succ(n) : c = <<s, n>>
           /\ Succ(n) \in SUBSET Node
           /\ IsFiniteSet({n} \X Succ(n)) /\ Cardinality({n} \X Succ(n)) = Len(Calls(n))
<1> DEFINE s == Succs[n]
           f == [k \in 1..Len(s) |-> <<n, s[k]>>]
<1>1. /\ s \in Seq(Node) /\ Len(s) \in Nat /\ DOMAIN s = 1..Len(s) /\ IsInjective(s)
      /\ \A k \in 1..Len(s) : s[k] \in Node
  BY PlanAssumption
<1>2. Succ(n) = {s[k] : k \in 1..Len(s)} /\ Succ(n) \in SUBSET Node
  BY <1>1 DEF Succ, ToSet
<1> HIDE DEF s
<1>3. Calls(n) = [k \in 1..Len(s) |-> <<s[k], n>>]
  BY <1>1 DEF Calls, s
<1>4. Calls(n) \in Seq(Node \X Node) /\ Len(Calls(n)) = Len(s) /\ DOMAIN Calls(n) = 1..Len(s)
  BY <1>1, <1>3
<1>5. \A c : c \in ToSet(Calls(n)) <=> \E x \in Succ(n) : c = <<x, n>>
  BY <1>2, <1>3, <1>4 DEF ToSet
<1>6. f \in Bijection(1..Len(s), {n} \X Succ(n))
  <2>1. f \in [1..Len(s) -> {n} \X Succ(n)]
    BY <1>2
  <2>2. \A j, k \in 1..Len(s) : f[j] = f[k] => j = k
    BY <1>1 DEF IsInjective
  <2>3. \A e \in {n} \X Succ(n) : \E k \in 1..Len(s) : f[k] = e
    <3> TAKE e \in {n} \X Succ(n)
    <3>1. PICK x \in Succ(n) : e = <<n, x>>
      OBVIOUS
    <3>2. PICK k \in 1..Len(s) : x = s[k]
      BY <1>2
    <3>. QED BY <3>1, <3>2
  <2> HIDE DEF f
  <2>. QED BY <2>1, <2>2, <2>3 DEF Bijection, Injection, Surjection, IsInjective
<1>7. ExistsBijection(1..Len(s), {n} \X Succ(n))
  BY <1>6 DEF ExistsBijection
<1>8. Cardinality({n} \X Succ(n)) = Len(s) /\ IsFiniteSet({n} \X Succ(n))
  BY <1>1, <1>7, FS_CountingElements, FS_NatBijection
<1>. QED BY <1>1, <1>2, <1>4, <1>5, <1>8

\* Sizes of disjoint sets add up.
LEMMA DisjointSizes ==
    ASSUME NEW S, NEW T, IsFiniteSet(S), IsFiniteSet(T), S \cap T = {}
    PROVE  Cardinality(S \cup T) = Cardinality(S) + Cardinality(T)
<1>1. Cardinality(S \cap T) = 0
  BY FS_EmptySet
<1>2. Cardinality(S \cup T) = Cardinality(S) + Cardinality(T) - Cardinality(S \cap T)
  BY FS_Union
<1>3. Cardinality(S) \in Nat /\ Cardinality(T) \in Nat
  BY FS_CardinalityType
<1> HIDE DEF Phase, Settled, Outcome
<1>. QED BY <1>1, <1>2, <1>3

\* The plan has finitely many edges.
LEMMA WalkFinite ==
    ASSUME NEW n \in Node, NEW w
    PROVE  /\ Edges \in SUBSET (Node \X Node) /\ IsFiniteSet(Edges) /\ MaxCalls \in Nat
           /\ Ahead(n, w) \in SUBSET Edges /\ IsFiniteSet(Ahead(n, w))
           /\ Cardinality(Ahead(n, w)) \in Nat
<1>1. Edges \in SUBSET (Node \X Node)
  <2>1. \A m \in Node : Succ(m) \in SUBSET Node
    BY CallsFacts
  <2>. QED BY <2>1 DEF Edges
<1>2. IsFiniteSet(Node \X Node)
  <2>1. IsFiniteSet(Node)
    <3>1. N \in Int /\ 1 \in Int
      BY PlanAssumption
    <3>. QED BY <3>1, FS_Interval DEF Node
  <2>. QED BY <2>1, FS_Product
<1>3. IsFiniteSet(Edges) /\ MaxCalls \in Nat
  BY <1>1, <1>2, FS_Subset, FS_CardinalityType DEF MaxCalls
<1>4. Ahead(n, w) \in SUBSET Edges
  BY DEF Ahead, Edges, Reach, Open, In
<1>. QED BY <1>1, <1>3, <1>4, FS_Subset, FS_CardinalityType

LEMMA WalkStarts ==
    ASSUME TypeOK, NEW n \in Open
    PROVE  Walking(n, Start(n)) /\ Fuel(n, Start(n)) \in 0..MaxCalls
<1> DEFINE w == Start(n)
           O == Reach(n)
<1>1. n \in Node /\ O \in SUBSET Node /\ phase \in [Node -> Phase]
      /\ \A m \in Open : phase[m] # "blocked"
  BY DEF TypeOK, Open, In, Reach
<1>2. /\ w.phase = [phase EXCEPT ![n] = "failed"] /\ w.blockedBy = [m \in Node |-> 0]
      /\ w.calls = Calls(n) /\ w = [phase |-> w.phase, blockedBy |-> w.blockedBy, calls |-> w.calls]
  BY DEF Start
<1> HIDE DEF w
<1>3. Hit(n, w) = {}
  BY <1>1, <1>2 DEF Hit, Reach
<1>4. w \in Walks
  <2>1. w.phase \in [Node -> Phase] /\ w.calls \in Seq(Node \X Node)
    BY <1>1, <1>2, CallsFacts DEF Phase
  <2>2. w.blockedBy \in [Node -> 0..N]
    BY <1>2, PlanAssumption
  <2>. QED BY <1>2, <2>1, <2>2 DEF Walks
<1>5. \A m \in Node : w.phase[m] = IF m = n THEN "failed" ELSE phase[m]
  BY <1>1, <1>2
<1>6. ASSUME NEW c \in ToSet(w.calls) PROVE c[2] = n /\ c[1] \in Succ(n)
  <2>1. PICK s \in Succ(n) : c = <<s, n>>
    BY <1>1, <1>2, CallsFacts
  <2>. QED BY <2>1
<1>7. \A s \in Succ(n) : <<s, n>> \in ToSet(w.calls)
  BY <1>1, <1>2, CallsFacts
<1>8. Walking(n, w)
  BY <1>2, <1>3, <1>4, <1>5, <1>6, <1>7 DEF Walking
<1>9. Fuel(n, w) \in 0..MaxCalls
  <2> DEFINE own == {n} \X Succ(n)
  <2>1. /\ Ahead(n, w) \in SUBSET Edges /\ IsFiniteSet(Ahead(n, w))
        /\ Cardinality(Ahead(n, w)) \in Nat /\ IsFiniteSet(Edges) /\ MaxCalls \in Nat
    BY <1>1, WalkFinite
  <2>2. IsFiniteSet(own) /\ Cardinality(own) = Len(w.calls) /\ Len(w.calls) \in Nat
    BY <1>1, <1>2, CallsFacts
  <2>3. own \cap Ahead(n, w) = {}
    BY DEF Ahead, Reach
  <2>4. own \cup Ahead(n, w) \in SUBSET Edges
    BY <1>1, <2>1 DEF Edges
  <2> HIDE DEF own
  <2>5. Cardinality(own \cup Ahead(n, w)) = Cardinality(own) + Cardinality(Ahead(n, w))
    BY <2>1, <2>2, <2>3, DisjointSizes
  <2>6. Cardinality(own \cup Ahead(n, w)) <= MaxCalls
    BY <2>1, <2>4, FS_Subset DEF MaxCalls
  <2>. QED BY <2>1, <2>2, <2>5, <2>6 DEF Fuel
<1>. QED BY <1>8, <1>9 DEF w

\* A stack of calls is its first call and the others.
LEMMA HeadFacts ==
    ASSUME NEW T, NEW s \in Seq(T), s # <<>>
    PROVE  /\ Head(s) \in T /\ Tail(s) \in Seq(T) /\ Len(s) \in Nat /\ Len(Tail(s)) = Len(s) - 1
           /\ ToSet(s) = ToSet(Tail(s)) \cup {Head(s)}
<1>1. /\ Len(s) \in Nat /\ Len(s) # 0 /\ DOMAIN s = 1..Len(s) /\ 1 \in DOMAIN s
      /\ Head(s) = s[1] /\ Head(s) \in T /\ Tail(s) \in Seq(T) /\ Len(Tail(s)) = Len(s) - 1
      /\ DOMAIN Tail(s) = 1..(Len(s) - 1) /\ \A i \in 1..(Len(s) - 1) : Tail(s)[i] = s[i + 1]
  OBVIOUS
<1>2. \A i \in DOMAIN s : i = 1 \/ (i - 1 \in DOMAIN Tail(s) /\ Tail(s)[i - 1] = s[i])
  BY <1>1
<1>3. \A i \in DOMAIN Tail(s) : i + 1 \in DOMAIN s /\ Tail(s)[i] = s[i + 1]
  BY <1>1
<1>4. ToSet(s) \subseteq ToSet(Tail(s)) \cup {Head(s)}
  BY <1>1, <1>2 DEF ToSet
<1>5. ToSet(Tail(s)) \subseteq ToSet(s)
  BY <1>3 DEF ToSet
<1>6. Head(s) \in ToSet(s)
  BY <1>1 DEF ToSet
<1>. QED BY <1>1, <1>4, <1>5, <1>6

\* A call at a settled node returns: what it could block is blocked already.
LEMMA SettledCall ==
    ASSUME TypeOK, NEW n \in Open, NEW w, Walking(n, w), w.calls # <<>>,
           w.phase[Head(w.calls)[1]] \in Settled
    PROVE  Walking(n, Call(w)) /\ Fuel(n, Call(w)) = Fuel(n, w) - 1
<1> DEFINE v == Call(w)
           c == Head(w.calls)
<1>1. /\ w.phase \in [Node -> Phase] /\ w.blockedBy \in [Node -> 0..N]
      /\ w.calls \in Seq(Node \X Node)
      /\ w = [phase |-> w.phase, blockedBy |-> w.blockedBy, calls |-> w.calls]
  BY DEF Walking, Walks
<1>2. /\ c \in Node \X Node /\ Tail(w.calls) \in Seq(Node \X Node)
      /\ Len(w.calls) \in Nat /\ Len(Tail(w.calls)) = Len(w.calls) - 1
      /\ ToSet(w.calls) = ToSet(Tail(w.calls)) \cup {c}
  BY <1>1, HeadFacts
<1> HIDE DEF c
<1>3. /\ v.phase = w.phase /\ v.blockedBy = w.blockedBy /\ v.calls = Tail(w.calls) /\ v \in Walks
  <2>1. v = [w EXCEPT !.calls = Tail(@)]
    BY DEF Call, c
  <2>. QED BY <1>1, <1>2, <2>1 DEF Walks
<1> HIDE DEF v
<1>4. Hit(n, v) = Hit(n, w) /\ Ahead(n, v) = Ahead(n, w)
  BY <1>3 DEF Hit, Ahead
<1>5. ASSUME NEW p \in {n} \cup Hit(n, w), NEW s \in Succ(p) \cap Reach(n)
      PROVE  s \in Hit(n, w) \/ <<s, p>> \in ToSet(v.calls)
  <2>1. CASE <<s, p>> = c
    <3>1. s \in Node /\ s # n /\ phase[s] \in {"waiting", "running"}
      BY DEF Reach, Open, In
    <3>2. w.phase[s] \in Settled
      BY <2>1 DEF c
    <3>. QED BY <3>1, <3>2 DEF Walking
  <2>2. CASE <<s, p>> # c
    BY <1>2, <1>3, <2>2 DEF Walking
  <2>. QED BY <2>1, <2>2
<1>6. Walking(n, v)
  BY <1>2, <1>3, <1>4, <1>5 DEF Walking
<1>7. Fuel(n, v) = Fuel(n, w) - 1
  <2>1. Cardinality(Ahead(n, w)) \in Nat
    BY WalkFinite DEF Open, In
  <2>. QED BY <1>2, <1>3, <1>4, <2>1 DEF Fuel
<1>. QED BY <1>6, <1>7 DEF v

\* Any other call marks its node, which depends on n, and calls its successors.
LEMMA MarkingCall ==
    ASSUME TypeOK, NEW n \in Open, NEW w, Walking(n, w), w.calls # <<>>,
           w.phase[Head(w.calls)[1]] \notin Settled
    PROVE  Walking(n, Call(w)) /\ Fuel(n, Call(w)) = Fuel(n, w) - 1
<1> DEFINE v == Call(w)
           c == Head(w.calls)
           rest == Tail(w.calls)
           m == c[1]
           p == c[2]
           H == Hit(n, w)
<1>0. n \in Node /\ Reach(n) \in SUBSET Node /\ phase \in [Node -> Phase]
      /\ \A k \in Reach(n) : phase[k] \in {"waiting", "running"}
  BY DEF TypeOK, Open, In, Reach
<1>1. /\ w.phase \in [Node -> Phase] /\ w.blockedBy \in [Node -> 0..N]
      /\ w.calls \in Seq(Node \X Node)
  BY DEF Walking, Walks
<1>2. /\ c \in Node \X Node /\ rest \in Seq(Node \X Node)
      /\ Len(w.calls) \in Nat /\ Len(rest) = Len(w.calls) - 1
      /\ ToSet(w.calls) = ToSet(rest) \cup {c}
  BY <1>1, HeadFacts
<1>3. /\ v.phase = [w.phase EXCEPT ![m] = "blocked"] /\ v.blockedBy = [w.blockedBy EXCEPT ![m] = p]
      /\ v.calls = Calls(m) \o rest
      /\ v = [phase |-> v.phase, blockedBy |-> v.blockedBy, calls |-> v.calls]
  BY DEF Call, Mark
<1>4. m \in Node /\ p \in Node /\ c = <<m, p>>
  BY <1>2
<1>5. p \in {n} \cup H /\ m \in Succ(p) /\ H \subseteq Downstream(n, Reach(n))
  BY <1>2 DEF Walking
<1>6. w.phase[m] \notin Settled
  OBVIOUS
<1>7. H \in SUBSET Reach(n)
  BY DEF Hit
<1>8. \A k \in Node : w.phase[k] = IF k = n THEN "failed" ELSE IF k \in H THEN "blocked" ELSE phase[k]
  BY DEF Walking
<1>21. \A k \in Node : IF k \in H THEN w.blockedBy[k] \in Pred(k) \cap ({n} \cup H)
                                  ELSE w.blockedBy[k] = 0
  BY DEF Walking
<1>22. \A d \in ToSet(w.calls) : d[2] \in {n} \cup H /\ d[1] \in Succ(d[2])
  BY DEF Walking
<1>23. \A q \in {n} \cup H : \A s \in Succ(q) \cap Reach(n) : s \in H \/ <<s, q>> \in ToSet(w.calls)
  BY DEF Walking
<1> HIDE DEF v, c, rest, m, p, H
<1>9. m \in Reach(n) \ H
  BY <1>0, <1>4, <1>6, <1>8 DEF Reach, Open, In
<1>10. Hit(n, v) = H \cup {m}
  BY <1>0, <1>1, <1>3, <1>4, <1>9 DEF Hit, H
<1>11. /\ Calls(m) \in Seq(Node \X Node) /\ Len(Calls(m)) \in Nat
       /\ \A d : d \in ToSet(Calls(m)) <=> \E s \in Succ(m) : d = <<s, m>>
       /\ IsFiniteSet({m} \X Succ(m)) /\ Cardinality({m} \X Succ(m)) = Len(Calls(m))
  BY <1>4, CallsFacts
<1>12. /\ v.calls \in Seq(Node \X Node) /\ ToSet(v.calls) = ToSet(Calls(m)) \cup ToSet(rest)
       /\ Len(v.calls) = Len(Calls(m)) + Len(rest)
  <2>1. Calls(m) \o rest \in Seq(Node \X Node) /\ Len(Calls(m) \o rest) = Len(Calls(m)) + Len(rest)
    BY <1>2, <1>11, ConcatProperties, Zenon
  <2>2. ToSet(Calls(m) \o rest) = ToSet(Calls(m)) \cup ToSet(rest)
    BY <1>2, <1>11, ConcatElements
  <2>. QED BY <1>3, <2>1, <2>2
<1>13. v \in Walks
  <2>1. v.phase \in [Node -> Phase]
    BY <1>1, <1>3, <1>4 DEF Phase
  <2>2. p \in 0..N
    BY <1>4, PlanAssumption DEF Node
  <2>3. v.blockedBy \in [Node -> 0..N]
    BY <1>1, <1>3, <1>4, <2>2
  <2>. QED BY <1>3, <1>12, <2>1, <2>3 DEF Walks
<1>14. \A k \in Node : v.phase[k] = IF k = n THEN "failed" ELSE IF k \in H \cup {m} THEN "blocked" ELSE phase[k]
  BY <1>1, <1>3, <1>4, <1>8, <1>9 DEF Reach
<1>15. \A k \in Node : IF k \in H \cup {m} THEN v.blockedBy[k] \in Pred(k) \cap ({n} \cup (H \cup {m}))
                                           ELSE v.blockedBy[k] = 0
  <2>1. p \in Pred(m)
    BY <1>4, <1>5 DEF Pred
  <2>. QED BY <1>1, <1>3, <1>4, <1>5, <1>21, <2>1
<1>16. H \cup {m} \subseteq Downstream(n, Reach(n))
  <2>1. m \in Downstream(n, Reach(n))
    BY <1>0, <1>5, <1>9, DownstreamClosed
  <2>. QED BY <1>5, <2>1
<1>17. ASSUME NEW d \in ToSet(v.calls) PROVE d[2] \in {n} \cup (H \cup {m}) /\ d[1] \in Succ(d[2])
  <2>1. CASE d \in ToSet(rest)
    BY <1>2, <1>22, <2>1
  <2>2. CASE d \in ToSet(Calls(m))
    <3>1. PICK s \in Succ(m) : d = <<s, m>>
      BY <1>11, <2>2
    <3>. QED BY <3>1
  <2>. QED BY <1>12, <2>1, <2>2
<1>18. ASSUME NEW q \in {n} \cup (H \cup {m}), NEW s \in Succ(q) \cap Reach(n)
       PROVE  s \in H \cup {m} \/ <<s, q>> \in ToSet(v.calls)
  <2>1. CASE q = m
    BY <1>11, <1>12, <2>1
  <2>2. CASE q # m
    <3>1. s \in H \/ <<s, q>> \in ToSet(w.calls)
      BY <1>23, <2>2
    <3>2. <<s, q>> = c => s = m
      BY <1>4
    <3>. QED BY <1>2, <1>12, <3>1, <3>2
  <2>. QED BY <2>1, <2>2
<1>19. Walking(n, v)
  BY <1>10, <1>13, <1>14, <1>15, <1>16, <1>17, <1>18 DEF Walking
<1>20. Fuel(n, v) = Fuel(n, w) - 1
  <2> DEFINE own == {m} \X Succ(m)
             A == Ahead(n, w)
             B == Ahead(n, v)
  <2>1. IsFiniteSet(A) /\ Cardinality(A) \in Nat /\ IsFiniteSet(B) /\ Cardinality(B) \in Nat
    BY <1>0, WalkFinite
  <2>2. A = own \cup B /\ own \cap B = {}
    BY <1>9, <1>10 DEF Ahead, H
  <2>3. IsFiniteSet(own) /\ Cardinality(own) = Len(Calls(m))
    BY <1>11
  <2>4. Fuel(n, v) = Len(v.calls) + Cardinality(B) /\ Fuel(n, w) = Len(w.calls) + Cardinality(A)
    BY DEF Fuel
  <2> HIDE DEF own, A, B
  <2>5. Cardinality(A) = Cardinality(own) + Cardinality(B)
    BY <2>1, <2>2, <2>3, DisjointSizes
  <2>6. /\ Len(v.calls) = Len(Calls(m)) + (Len(w.calls) - 1)
        /\ Cardinality(A) = Len(Calls(m)) + Cardinality(B)
    BY <1>2, <1>12, <2>3, <2>5
  <2>7. /\ Len(Calls(m)) \in Nat /\ Len(w.calls) \in Nat /\ Cardinality(B) \in Nat
    BY <1>2, <1>11, <2>1
  <2>. QED BY <2>4, <2>6, <2>7
<1>. QED BY <1>19, <1>20 DEF v

LEMMA CallFacts ==
    ASSUME TypeOK, NEW n \in Open, NEW w, Walking(n, w)
    PROVE  /\ Walking(n, Call(w))
           /\ w.calls = <<>> => Call(w) = w
           /\ w.calls # <<>> => Fuel(n, Call(w)) = Fuel(n, w) - 1
<1>1. CASE w.calls = <<>>
  BY <1>1 DEF Call
<1>2. CASE w.calls # <<>>
  BY <1>2, SettledCall, MarkingCall
<1>. QED BY <1>1, <1>2

\* The walks that FailNode makes, one call each, up to its last.
LEMMA WalkSteps ==
    ASSUME TypeOK, NEW n \in Open
    PROVE  \E f : /\ FailNode(n) = f[MaxCalls]
                  /\ f[0] = Start(n) /\ \A k \in 1..MaxCalls : f[k] = Call(f[k - 1])
                  /\ \A k \in 0..MaxCalls : Walking(n, f[k])
<1> DEFINE W == {w \in Walks : Walking(n, w)}
           start == Start(n)
           steps == [k \in 1..MaxCalls |-> [w \in W |-> Call(w)]]
           IsWalk(f) == f = [k \in 0..MaxCalls |-> IF k = 0 THEN start ELSE Call(f[k - 1])]
<1>1. MaxCalls \in Nat
  BY WalkFinite DEF Open, In
<1>2. start \in W
  BY WalkStarts DEF Walking
<1>3. \A k \in 1..MaxCalls : \A w \in W : steps[k][w] = Call(w) /\ Call(w) \in W
  BY CallFacts DEF Walking
<1>4. \A w \in W : Walking(n, w)
  OBVIOUS
<1> HIDE DEF W, start, steps
<1>5. PICK f : Stepping(MaxCalls, start, steps, f) /\ \A k \in 0..MaxCalls : f[k] \in W
  BY <1>1, <1>2, <1>3, TypedSteps
<1>6. f = [k \in 0..MaxCalls |-> IF k = 0 THEN start ELSE steps[k][f[k - 1]]]
  BY <1>5 DEF Stepping
<1>7. ASSUME NEW k \in 0..MaxCalls
      PROVE  (IF k = 0 THEN start ELSE steps[k][f[k - 1]]) = (IF k = 0 THEN start ELSE Call(f[k - 1]))
  <2>1. k # 0 => k \in 1..MaxCalls /\ k - 1 \in 0..MaxCalls
    BY <1>1
  <2>. QED BY <1>3, <1>5, <2>1
<1>8. IsWalk(f)
  BY <1>6, <1>7
<1> DEFINE g == CHOOSE g : IsWalk(g)
<1>9. IsWalk(g)
  BY <1>8
<1>10. FailNode(n) = g[MaxCalls]
  BY DEF FailNode, start
<1> HIDE DEF g
<1>11. /\ g[0] = start /\ \A k \in 1..MaxCalls : g[k] = Call(g[k - 1])
  <2>1. \A k \in 0..MaxCalls : g[k] = IF k = 0 THEN start ELSE Call(g[k - 1])
    BY <1>9
  <2>2. \A k \in 1..MaxCalls : k \in 0..MaxCalls /\ k # 0
    BY <1>1
  <2>3. 0 \in 0..MaxCalls
    BY <1>1
  <2>. QED BY <2>1, <2>2, <2>3
<1> DEFINE S == {k \in 0..MaxCalls : g[k] \in W}
<1>12. 0..MaxCalls \subseteq S
  <2>1. 0 \in S
    BY <1>1, <1>2, <1>11
  <2>2. ASSUME NEW k \in 0..(MaxCalls - 1), k \in S PROVE k + 1 \in S
    <3>1. k + 1 \in 1..MaxCalls /\ k + 1 \in 0..MaxCalls /\ (k + 1) - 1 = k
      BY <1>1
    <3>2. g[k + 1] = Call(g[k])
      BY <1>11, <3>1
    <3>. QED BY <1>3, <2>2, <3>1, <3>2
  <2> HIDE DEF S
  <2>. QED BY <1>1, <2>1, <2>2, CountingUp
<1>13. \A k \in 0..MaxCalls : Walking(n, g[k])
  BY <1>4, <1>12
<1>. QED BY <1>10, <1>11, <1>13 DEF start

\* The walk ends: every call uses up an edge that was not called along before.
LEMMA WalkEnds ==
    ASSUME TypeOK, NEW n \in Open
    PROVE  Walking(n, FailNode(n)) /\ FailNode(n).calls = <<>>
<1>1. PICK f : /\ FailNode(n) = f[MaxCalls]
               /\ f[0] = Start(n) /\ \A k \in 1..MaxCalls : f[k] = Call(f[k - 1])
               /\ \A k \in 0..MaxCalls : Walking(n, f[k])
  BY WalkSteps
<1>2. MaxCalls \in Nat
  BY WalkFinite DEF Open, In
<1>3. ASSUME NEW w, Walking(n, w)
      PROVE  Fuel(n, w) \in Nat /\ (Fuel(n, w) = 0 => w.calls = <<>>)
  <2>1. w.calls \in Seq(Node \X Node)
    BY <1>3 DEF Walking, Walks
  <2>2. Cardinality(Ahead(n, w)) \in Nat
    BY WalkFinite DEF Open, In
  <2>. QED BY <2>1, <2>2 DEF Fuel
<1> DEFINE S == {k \in 0..MaxCalls : f[k].calls = <<>> \/ Fuel(n, f[k]) <= MaxCalls - k}
<1>4. 0 \in S
  BY <1>1, <1>2, WalkStarts
<1>5. ASSUME NEW k \in 0..(MaxCalls - 1), k \in S PROVE k + 1 \in S
  <2>1. k + 1 \in 1..MaxCalls /\ k + 1 \in 0..MaxCalls /\ (k + 1) - 1 = k /\ k \in 0..MaxCalls
    BY <1>2
  <2>2. f[k + 1] = Call(f[k]) /\ Walking(n, f[k])
    BY <1>1, <2>1
  <2>3. CASE f[k].calls = <<>>
    BY <2>1, <2>2, <2>3, CallFacts
  <2>4. CASE f[k].calls # <<>>
    <3>1. Fuel(n, f[k]) <= MaxCalls - k /\ Fuel(n, f[k]) \in Nat
      BY <1>3, <1>5, <2>2, <2>4
    <3>2. Fuel(n, f[k + 1]) = Fuel(n, f[k]) - 1
      BY <2>2, <2>4, CallFacts
    <3>3. Fuel(n, f[k + 1]) <= MaxCalls - (k + 1)
      BY <1>2, <2>1, <3>1, <3>2
    <3>. QED BY <2>1, <3>3
  <2>. QED BY <2>3, <2>4
<1>6. MaxCalls \in S
  <2> HIDE DEF S
  <2>1. 0..MaxCalls \subseteq S
    BY <1>2, <1>4, <1>5, CountingUp
  <2>. QED BY <1>2, <2>1
<1>7. Walking(n, f[MaxCalls])
  BY <1>1, <1>2
<1>8. f[MaxCalls].calls = <<>>
  <2>1. Fuel(n, f[MaxCalls]) \in Nat /\ (Fuel(n, f[MaxCalls]) = 0 => f[MaxCalls].calls = <<>>)
    BY <1>3, <1>7
  <2>2. f[MaxCalls].calls = <<>> \/ Fuel(n, f[MaxCalls]) <= MaxCalls - MaxCalls
    BY <1>6
  <2>. QED BY <1>2, <2>1, <2>2
<1>. QED BY <1>1, <1>7, <1>8

\* An ended walk has blocked a closed set, so all that depends on the failed node.
LEMMA WalkHits ==
    ASSUME TypeOK, NEW n \in Open
    PROVE  Hit(n, FailNode(n)) = Downstream(n, Reach(n))
<1> DEFINE w == FailNode(n)
           H == Hit(n, w)
<1>1. Walking(n, w) /\ w.calls = <<>>
  BY WalkEnds
<1>2. ToSet(w.calls) = {}
  BY <1>1 DEF ToSet
<1>3. H \in SUBSET Reach(n)
  BY DEF Hit
<1>4. H \subseteq Downstream(n, Reach(n))
  BY <1>1 DEF Walking
<1>5. \A p \in {n} \cup H : Succ(p) \cap Reach(n) \subseteq H
  BY <1>1, <1>2 DEF Walking
<1> HIDE DEF H
<1>6. Downstream(n, Reach(n)) \subseteq H
  BY <1>3, <1>5 DEF Downstream
<1>. QED BY <1>4, <1>6 DEF H

\* Whatever node fails in whatever state of a run, the walk of block_branch ends
\* and blocks exactly what depends on the failed node through undecided nodes.
THEOREM BranchIsBlocked == Spec => []WalkIsDownstream
<1>1. Inv => WalkIsDownstream
  <2> SUFFICES ASSUME TypeOK, NEW n \in Open
               PROVE  LET hit   == Downstream(n, Open \ {n})
                          after == FailNode(n)
                      IN  /\ after.calls = <<>>
                          /\ \A m \in Node :
                                /\ after.phase[m] = IF m = n THEN "failed"
                                                    ELSE IF m \in hit THEN "blocked" ELSE phase[m]
                                /\ IF m \in hit THEN after.blockedBy[m] \in Pred(m) \cap (hit \cup {n})
                                   ELSE after.blockedBy[m] = 0
    BY DEF Inv, WalkIsDownstream
  <2>1. Walking(n, FailNode(n)) /\ FailNode(n).calls = <<>>
    BY WalkEnds
  <2>2. Hit(n, FailNode(n)) = Downstream(n, Open \ {n})
    BY WalkHits DEF Reach
  <2> DEFINE hit   == Downstream(n, Open \ {n})
             after == FailNode(n)
  <2>3. Walking(n, after) /\ Hit(n, after) = hit
    BY <2>1, <2>2
  <2> HIDE DEF hit, after
  <2>3a. \A m \in Node : after.phase[m] = IF m = n THEN "failed"
                                          ELSE IF m \in Hit(n, after) THEN "blocked" ELSE phase[m]
    BY <2>3 DEF Walking
  <2>3b. \A m \in Node : IF m \in Hit(n, after)
                          THEN after.blockedBy[m] \in Pred(m) \cap ({n} \cup Hit(n, after))
                          ELSE after.blockedBy[m] = 0
    BY <2>3 DEF Walking
  <2>4. after.calls = <<>>
    BY <2>1 DEF after
  <2>5. /\ after.calls = <<>>
        /\ \A m \in Node :
              /\ after.phase[m] = IF m = n THEN "failed" ELSE IF m \in hit THEN "blocked" ELSE phase[m]
              /\ IF m \in hit THEN after.blockedBy[m] \in Pred(m) \cap (hit \cup {n})
                 ELSE after.blockedBy[m] = 0
    BY <2>3, <2>3a, <2>3b, <2>4
  <2>. QED BY <2>5 DEF hit, after
<1>. QED BY <1>1, ContractInvariant, PTL
====
