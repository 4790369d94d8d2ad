--------------------------- MODULE RunNodes_proof ---------------------------
(***************************************************************************)
(* Proofs about the node bookkeeping, for every plan and for both kinds of *)
(* run: what a plan and a queue of its nodes are, what each operation of   *)
(* RunNodes does to the types, the ready queue and the countdown.          *)
(***************************************************************************)
EXTENDS RunNodes, FiniteSetTheorems, TLAPS

-----------------------------------------------------------------------------
(* Plans. *)

LEMMA NodeFinite == IsFiniteSet(Node)
  BY PlanAssumption, FS_Interval DEF Node

LEMMA SizeIsNat == \A S \in SUBSET Node : Cardinality(S) \in Nat
  BY NodeFinite, FS_Subset, FS_CardinalityType

LEMMA NodeRange == N \in Nat /\ Node \subseteq 0..N /\ 0 \in 0..N
<1>1. N \in Nat
  BY PlanAssumption
<1>. QED BY <1>1 DEF Node

LEMMA SuccAreNodes == \A n \in Node : Succ(n) \subseteq Node
<1> SUFFICES ASSUME NEW n \in Node PROVE Succ(n) \subseteq Node
  OBVIOUS
<1>1. Succs[n] \in Seq(Node)
  BY PlanAssumption
<1>. QED BY <1>1 DEF Succ, ToSet

-----------------------------------------------------------------------------
(* What the failure of a node blocks. *)

\* The nodes that the failure of n blocks are open nodes, and the set is closed:
\* an open successor of n, or of a blocked node, is blocked.
LEMMA DownstreamClosed ==
    ASSUME NEW n \in Node, NEW O \in SUBSET Node
    PROVE  /\ Downstream(n, O) \subseteq O
           /\ \A m \in {n} \cup Downstream(n, O) : Succ(m) \cap O \subseteq Downstream(n, O)
  BY DEF Downstream

\* Whatever the failure of n blocks has a predecessor that is n or blocked too:
\* without it the node could be left out of the closed set.
LEMMA DownstreamCause ==
    ASSUME NEW n \in Node, NEW O \in SUBSET Node, NEW m \in Downstream(n, O)
    PROVE  Pred(m) \cap ({n} \cup Downstream(n, O)) # {}
<1> DEFINE D == Downstream(n, O)
           S == D \ {m}
<1>1. D \subseteq O /\ \A k \in {n} \cup D : Succ(k) \cap O \subseteq D
  BY DownstreamClosed
<1>2. SUFFICES ASSUME Pred(m) \cap ({n} \cup D) = {} PROVE FALSE
  OBVIOUS
<1>3. ASSUME NEW k \in {n} \cup S PROVE Succ(k) \cap O \subseteq S
  <2>1. k \in {n} \cup D /\ k \in Node
    BY <1>1
  <2>2. m \notin Succ(k)
    BY <2>1, <1>2 DEF Pred
  <2>. QED BY <1>1, <2>1, <2>2
<1>4. S \in SUBSET O
  BY <1>1
<1>5. m \in S
  BY <1>3, <1>4 DEF Downstream
<1>. QED BY <1>5

-----------------------------------------------------------------------------
(* Queues of nodes. *)

LEMMA ArrangementsAreNodes ==
    ASSUME NEW U \in SUBSET Node, NEW q \in [1..Cardinality(U) -> U]
    PROVE  q \in Seq(Node)
<1>1. Cardinality(U) \in Nat
  BY SizeIsNat
<1>. QED BY <1>1

\* What commit_node appends to the ready queue is a sequence of nodes.
LEMMA OrderingsAreNodes ==
    ASSUME NEW n \in Node, NEW U \in SUBSET Node, NEW q \in Orderings(n, U)
    PROVE  q \in Seq(Node)
  BY ArrangementsAreNodes DEF Orderings

LEMMA QueuesJoin ==
    ASSUME NEW p \in Seq(Node), NEW q \in Seq(Node) PROVE p \o q \in Seq(Node)
  OBVIOUS

\* A list of as many nodes as U has, all of U and no two the same, leaves none out.
LEMMA ArrangementsAreWhole ==
    ASSUME NEW U \in SUBSET Node, NEW q \in [1..Cardinality(U) -> U], IsInjective(q)
    PROVE  ToSet(q) = U
<1>1. Cardinality(U) \in Nat /\ IsFiniteSet(U)
  BY SizeIsNat, NodeFinite, FS_Subset
<1>2. q \in Injection(1..Cardinality(U), U)
  BY DEF Injection
<1>3. Cardinality(1..Cardinality(U)) = Cardinality(U)
  BY <1>1, FS_Interval
<1>4. q \in Surjection(1..Cardinality(U), U)
  BY <1>1, <1>2, <1>3, FS_Injection
<1>. QED BY <1>4 DEF Surjection, ToSet

\* The successors that commit_node unlocks are queued once each, and all of them.
LEMMA OrderingsAreWhole ==
    ASSUME NEW n \in Node, NEW U \in SUBSET Node, NEW q \in Orderings(n, U)
    PROVE  IsInjective(q) /\ ToSet(q) = U
<1>1. q \in [1..Cardinality(U) -> U]
  BY DEF Orderings
<1>2. PICK at \in [1..Cardinality(U) -> DOMAIN Succs[n]] :
         /\ \A i \in 1..Cardinality(U) : q[i] = Succs[n][at[i]]
         /\ \A i, j \in 1..Cardinality(U) : i < j => at[i] < at[j]
  BY DEF Orderings
<1>3. Cardinality(U) \in Nat
  BY SizeIsNat
<1>4. Succs[n] \in Seq(Node) /\ IsInjective(Succs[n])
  BY PlanAssumption
<1>5. ASSUME NEW i \in 1..Cardinality(U), NEW j \in 1..Cardinality(U), q[i] = q[j]
      PROVE  i = j
  <2>1. at[i] \in DOMAIN Succs[n] /\ at[j] \in DOMAIN Succs[n]
    BY <1>2
  <2>2. at[i] = at[j]
    BY <1>2, <1>4, <1>5, <2>1 DEF IsInjective
  <2>3. at[i] \in Nat /\ at[j] \in Nat
    BY <1>4, <2>1
  <2>4. ~(i < j) /\ ~(j < i)
    BY <1>2, <2>2, <2>3
  <2>. QED BY <1>3, <2>4
<1>6. IsInjective(q)
  BY <1>1, <1>5 DEF IsInjective
<1>. QED BY <1>1, <1>6, ArrangementsAreWhole

\* Two queues without a node in common join to a queue that lists what they list.
LEMMA JoinIsExact ==
    ASSUME NEW p \in Seq(Node), NEW q \in Seq(Node), IsInjective(p), IsInjective(q),
           ToSet(p) \cap ToSet(q) = {}
    PROVE  IsInjective(p \o q) /\ ToSet(p \o q) = ToSet(p) \cup ToSet(q)
<1> DEFINE r == p \o q
<1>1. /\ DOMAIN r = 1..(Len(p) + Len(q)) /\ DOMAIN p = 1..Len(p) /\ DOMAIN q = 1..Len(q)
      /\ Len(p) \in Nat /\ Len(q) \in Nat
  OBVIOUS
<1>2. /\ \A i \in 1..Len(p) : r[i] = p[i]
      /\ \A i \in 1..Len(q) : r[Len(p) + i] = q[i]
      /\ \A i \in DOMAIN r \ (1..Len(p)) : i - Len(p) \in 1..Len(q) /\ r[i] = q[i - Len(p)]
  OBVIOUS
<1>3. \A i \in 1..Len(q) : Len(p) + i \in DOMAIN r
  BY <1>1
<1>4. \A i \in 1..Len(p) : i \in DOMAIN r
  BY <1>1
<1> HIDE DEF r
<1>a. ASSUME NEW i \in DOMAIN r PROVE IF i \in 1..Len(p) THEN r[i] \in ToSet(p)
                                                         ELSE r[i] \in ToSet(q)
  BY <1>1, <1>2 DEF ToSet
<1>5. ToSet(r) = ToSet(p) \cup ToSet(q)
  <2>1. ToSet(r) \subseteq ToSet(p) \cup ToSet(q)
    BY <1>a DEF ToSet
  <2>2. ASSUME NEW i \in DOMAIN p PROVE p[i] \in ToSet(r)
    <3>1. i \in DOMAIN r /\ r[i] = p[i]
      BY <1>1, <1>2, <1>4
    <3>. QED BY <3>1 DEF ToSet
  <2>3. ASSUME NEW i \in DOMAIN q PROVE q[i] \in ToSet(r)
    <3>1. Len(p) + i \in DOMAIN r /\ r[Len(p) + i] = q[i]
      BY <1>1, <1>2, <1>3
    <3>. QED BY <3>1 DEF ToSet
  <2>. QED BY <2>1, <2>2, <2>3 DEF ToSet
<1>6. ASSUME NEW i \in DOMAIN r, NEW j \in DOMAIN r, r[i] = r[j] PROVE i = j
  <2>1. CASE i \in 1..Len(p) /\ j \in 1..Len(p)
    BY <1>1, <1>2, <1>6, <2>1 DEF IsInjective
  <2>2. CASE i \notin 1..Len(p) /\ j \notin 1..Len(p)
    <3>1. /\ i - Len(p) \in DOMAIN q /\ j - Len(p) \in DOMAIN q
          /\ q[i - Len(p)] = q[j - Len(p)]
      BY <1>1, <1>2, <1>6, <2>2
    <3>2. i - Len(p) = j - Len(p)
      BY <3>1 DEF IsInjective
    <3>. QED BY <1>1, <3>2
  <2>3. CASE i \in 1..Len(p) /\ j \notin 1..Len(p)
    BY <1>a, <1>6, <2>3
  <2>4. CASE i \notin 1..Len(p) /\ j \in 1..Len(p)
    BY <1>a, <1>6, <2>4
  <2>. QED BY <2>1, <2>2, <2>3, <2>4
<1>7. IsInjective(r)
  BY <1>6 DEF IsInjective
<1>. QED BY <1>5, <1>7 DEF r

\* Without its head, a queue that lists no node twice lists all but the head.
LEMMA TailIsExact ==
    ASSUME NEW p \in Seq(Node), p # <<>>, IsInjective(p)
    PROVE  IsInjective(Tail(p)) /\ ToSet(Tail(p)) = ToSet(p) \ {Head(p)}
<1>1. /\ DOMAIN Tail(p) = 1..(Len(p) - 1) /\ DOMAIN p = 1..Len(p) /\ Len(p) \in Nat
      /\ Len(p) > 0 /\ Head(p) = p[1]
      /\ \A i \in DOMAIN Tail(p) : Tail(p)[i] = p[i + 1]
  OBVIOUS
<1>2. IsInjective(Tail(p))
  <2>1. ASSUME NEW i \in DOMAIN Tail(p), NEW j \in DOMAIN Tail(p), Tail(p)[i] = Tail(p)[j]
        PROVE  i = j
    <3>1. i + 1 \in DOMAIN p /\ j + 1 \in DOMAIN p /\ p[i + 1] = p[j + 1]
      BY <1>1, <2>1
    <3>2. i + 1 = j + 1
      BY <3>1 DEF IsInjective
    <3>. QED BY <1>1, <3>2
  <2>. QED BY <2>1 DEF IsInjective
<1>3. ASSUME NEW i \in DOMAIN Tail(p) PROVE Tail(p)[i] \in ToSet(p) \ {Head(p)}
  <2>1. i + 1 \in DOMAIN p /\ 1 \in DOMAIN p /\ i + 1 # 1 /\ Tail(p)[i] = p[i + 1]
    BY <1>1
  <2>2. p[i + 1] # p[1]
    BY <2>1 DEF IsInjective
  <2>. QED BY <1>1, <2>1, <2>2 DEF ToSet
<1>4. ASSUME NEW i \in DOMAIN p, p[i] # Head(p)
      PROVE  i - 1 \in DOMAIN Tail(p) /\ Tail(p)[i - 1] = p[i]
  <2>1. i \in 2..Len(p)
    BY <1>1, <1>4
  <2>2. i - 1 \in DOMAIN Tail(p) /\ (i - 1) + 1 = i
    BY <1>1, <2>1
  <2>. QED BY <1>1, <2>2
<1>5. ToSet(Tail(p)) \subseteq ToSet(p) \ {Head(p)}
  BY <1>3 DEF ToSet
<1>6. ToSet(p) \ {Head(p)} \subseteq ToSet(Tail(p))
  BY <1>4 DEF ToSet
<1>. QED BY <1>2, <1>5, <1>6

-----------------------------------------------------------------------------

USE DEF Status, Settled, ErrorKind

-----------------------------------------------------------------------------
(* Types. *)

LEMMA NodeInitType == NodeInit => NodeTypeOK
<1>1. \A n \in Node : Cardinality(Pred(n)) \in Nat
  BY SizeIsNat DEF Pred
<1>2. 0 \in 0..N
  BY NodeRange
<1>. QED BY <1>1, <1>2 DEF NodeInit, NodeTypeOK

LEMMA CommitNodeType ==
    ASSUME NodeTypeOK, NEW n \in Node, CommitNode(n) PROVE NodeTypeOK'
<1> DEFINE waiting  == {s \in Succ(n) : status[s] = "Pending"}
           unlocked == {s \in waiting : remaining[s] <= 1}
<1>1. unlocked \in SUBSET Node
  BY SuccAreNodes
<1>2. PICK q \in Orderings(n, unlocked) : ready' = ready \o q
  BY DEF CommitNode
<1>3. ready' \in Seq(Node)
  <2>1. ready \in Seq(Node)
    BY DEF NodeTypeOK
  <2> HIDE DEF unlocked
  <2>2. q \in Seq(Node)
    BY <1>1, <1>2, OrderingsAreNodes
  <2>. QED BY <1>2, <2>1, <2>2, QueuesJoin
<1>4. remaining' \in [Node -> Nat] /\ status' \in [Node -> Status] /\ outputs' \subseteq Node
  BY DEF CommitNode, NodeTypeOK
<1>. QED BY <1>3, <1>4 DEF CommitNode, NodeTypeOK

LEMMA FailNodeType ==
    ASSUME NodeTypeOK, NEW n \in Node, NEW k \in ErrorKind, FailNode(n, k),
           ready' \in Seq(Node)
    PROVE  NodeTypeOK'
<1> DEFINE hit == Downstream(n, Undecided \ {n})
<1>1. hit \in SUBSET Node
  BY DEF Downstream, Undecided
<1>2. PICK blame \in [hit -> hit \cup {n}] :
         blockedBy' = [m \in Node |-> IF m \in hit THEN blame[m] ELSE blockedBy[m]]
  BY DEF FailNode
<1> HIDE DEF hit
<1>3. Node \subseteq 0..N
  BY NodeRange
<1>4. blockedBy' \in [Node -> 0..N]
  BY <1>1, <1>2, <1>3 DEF NodeTypeOK
<1>5. status' \in [Node -> Status] /\ failure' \in [Node -> ErrorKind]
      /\ remaining' = remaining /\ outputs' = outputs
  BY DEF FailNode, NodeTypeOK, hit
<1>. QED BY <1>4, <1>5 DEF NodeTypeOK

LEMMA CancelUnstartedType == ASSUME NodeTypeOK, CancelUnstarted PROVE NodeTypeOK'
  BY DEF NodeTypeOK, CancelUnstarted

LEMMA QueueRootsType == ASSUME NodeTypeOK, QueueRoots PROVE NodeTypeOK'
<1> DEFINE roots == {n \in Node : remaining[n] = 0}
<1>1. PICK q \in [1..Cardinality(roots) -> roots] : ready' = q
  BY DEF QueueRoots
<1>2. roots \in SUBSET Node
  OBVIOUS
<1>3. ready' \in Seq(Node)
  BY <1>1, <1>2, ArrangementsAreNodes
<1>. QED BY <1>3 DEF QueueRoots, NodeTypeOK

-----------------------------------------------------------------------------
(* The ready queue and the countdown, inductive with the types. *)

\* A Running node found all its inputs when it started, and they stay.
RunningHasInputs == \A n \in Node : status[n] = "Running" => Pred(n) \subseteq outputs

Books == NodeTypeOK /\ ReadyQueueExact /\ RemainingExact /\ RunningHasInputs

LEMMA BooksInit == NodeInit => Books
<1> SUFFICES ASSUME NodeInit PROVE Books
  OBVIOUS
<1>1. ReadyQueueExact
  BY DEF NodeInit, ReadyQueueExact, IsInjective, ToSet
<1>2. RemainingExact
  <2>1. \A n \in Node : Pred(n) \ {} = Pred(n)
    OBVIOUS
  <2>. QED BY <2>1 DEF NodeInit, RemainingExact
<1>3. RunningHasInputs
  BY DEF NodeInit, RunningHasInputs
<1>. QED BY <1>1, <1>2, <1>3, NodeInitType DEF Books

LEMMA BooksFrame == Books /\ UNCHANGED nodeVars => Books'
  BY DEF Books, nodeVars, NodeTypeOK, ReadyQueueExact, RemainingExact, RunningHasInputs

\* One input less to wait for, if s was waiting for it.
LEMMA MissingInputs ==
    ASSUME NEW s \in Node, NEW n \in Node, n \notin outputs
    PROVE  /\ Cardinality(Pred(s) \ outputs) \in Nat
           /\ n \notin Pred(s) => Pred(s) \ (outputs \cup {n}) = Pred(s) \ outputs
           /\ n \in Pred(s) =>
                 /\ Cardinality(Pred(s) \ (outputs \cup {n}))
                       = Cardinality(Pred(s) \ outputs) - 1
                 /\ Cardinality(Pred(s) \ outputs) > 0
                 /\ Cardinality(Pred(s) \ outputs) = 1 => Pred(s) \subseteq outputs \cup {n}
<1> DEFINE missing == Pred(s) \ outputs
<1>1. missing \in SUBSET Node /\ IsFiniteSet(missing)
  BY NodeFinite, FS_Subset DEF Pred
<1>2. Cardinality(missing) \in Nat
  BY <1>1, SizeIsNat
<1>3. Pred(s) \ (outputs \cup {n}) = missing \ {n}
  OBVIOUS
<1>4. n \in Pred(s) => n \in missing
  OBVIOUS
<1>5. n \in missing => Cardinality(missing \ {n}) = Cardinality(missing) - 1
  BY <1>1, FS_RemoveElement
<1>6. IsFiniteSet(missing \ {n}) /\ Cardinality(missing \ {n}) \in Nat
  BY <1>1, FS_RemoveElement, FS_CardinalityType
<1>7. Cardinality(missing \ {n}) = 0 => missing \ {n} = {}
  BY <1>6, FS_EmptySet
<1> HIDE DEF missing
<1>8. n \in missing => Cardinality(missing) > 0
  BY <1>2, <1>5, <1>6
<1>9. n \in missing /\ Cardinality(missing) = 1 => missing \ {n} = {}
  BY <1>2, <1>5, <1>7
<1>10. missing \ {n} = {} => Pred(s) \subseteq outputs \cup {n}
  BY DEF missing
<1>11. n \notin Pred(s) => missing \ {n} = missing
  BY DEF missing
<1>. QED BY <1>2, <1>3, <1>4, <1>5, <1>8, <1>9, <1>10, <1>11 DEF missing

LEMMA CommitNodeBooks ==
    ASSUME Books, NEW n \in Node, status[n] = "Running", CommitNode(n) PROVE Books'
<1> DEFINE waiting  == {s \in Succ(n) : status[s] = "Pending"}
           unlocked == {s \in waiting : remaining[s] <= 1}
<1>0. NodeTypeOK /\ ReadyQueueExact /\ RemainingExact /\ NodeTypeOK'
  BY CommitNodeType DEF Books
<1>1. unlocked \in SUBSET Node /\ waiting \in SUBSET Node /\ n \notin waiting
  BY SuccAreNodes
<1>2. PICK q \in Orderings(n, unlocked) : ready' = ready \o q
  BY DEF CommitNode
<1>3. /\ outputs' = outputs \cup {n} /\ failure' = failure
      /\ remaining' = [s \in Node |-> IF s \in waiting /\ remaining[s] > 0
                                      THEN remaining[s] - 1 ELSE remaining[s]]
      /\ status' = [s \in Node |-> IF s = n THEN "Succeeded"
                                   ELSE IF s \in unlocked THEN "Ready" ELSE status[s]]
  BY DEF CommitNode
<1>4. n \notin outputs
  BY <1>0 DEF RemainingExact
<1>5. \A s \in Node : status[s] = "Pending" => (s \in waiting <=> n \in Pred(s))
  BY DEF Pred
<1>6. \A s \in Node : status[s] = "Pending" => remaining[s] = Cardinality(Pred(s) \ outputs)
  BY <1>0 DEF RemainingExact
<1>u. \A s \in unlocked : s \in waiting /\ status[s] = "Pending" /\ remaining[s] <= 1
  OBVIOUS
<1>w. \A s \in waiting : remaining[s] <= 1 => s \in unlocked
  OBVIOUS
<1> HIDE DEF waiting, unlocked
<1>7. \A s \in unlocked : Pred(s) \subseteq outputs'
  <2> SUFFICES ASSUME NEW s \in unlocked PROVE Pred(s) \subseteq outputs \cup {n}
    BY <1>3
  <2>1. s \in Node /\ n \in Pred(s) /\ remaining[s] = Cardinality(Pred(s) \ outputs)
    BY <1>1, <1>5, <1>6, <1>u
  <2>2. Cardinality(Pred(s) \ outputs) \in Nat /\ Cardinality(Pred(s) \ outputs) > 0
    BY <1>4, <2>1, MissingInputs
  <2>3. Cardinality(Pred(s) \ outputs) = 1
    BY <1>u, <2>1, <2>2
  <2>. QED BY <1>4, <2>1, <2>3, MissingInputs
<1>8. ReadyQueueExact'
  <2>1. ready \in Seq(Node) /\ IsInjective(ready)
        /\ ToSet(ready) = {s \in Node : status[s] = "Ready"}
    BY <1>0 DEF NodeTypeOK, ReadyQueueExact
  <2>2. q \in Seq(Node) /\ IsInjective(q) /\ ToSet(q) = unlocked
    BY <1>1, <1>2, OrderingsAreNodes, OrderingsAreWhole
  <2>3. ToSet(ready) \cap ToSet(q) = {}
    BY <1>u, <2>1, <2>2
  <2>4. IsInjective(ready') /\ ToSet(ready') = ToSet(ready) \cup unlocked
    BY <1>2, <2>1, <2>2, <2>3, JoinIsExact
  <2>5. \A s \in Node : status'[s] = "Ready" <=> status[s] = "Ready" \/ s \in unlocked
    BY <1>1, <1>3, <1>u
  <2>6. ToSet(ready') = {s \in Node : status'[s] = "Ready"}
    BY <1>1, <2>1, <2>4, <2>5
  <2>7. \A s \in ToSet(ready') : Pred(s) \subseteq outputs'
    BY <1>0, <1>3, <1>7, <2>4 DEF ReadyQueueExact
  <2>8. \A s \in Node : failure'[s] # "Internal"
    BY <1>0, <1>3 DEF ReadyQueueExact
  <2>. QED BY <2>4, <2>6, <2>7, <2>8 DEF ReadyQueueExact
<1>9. RemainingExact'
  <2>1. outputs' = {s \in Node : status'[s] = "Succeeded"}
    BY <1>0, <1>1, <1>3, <1>u DEF RemainingExact
  <2>2. ASSUME NEW s \in Node, status'[s] = "Pending"
        PROVE  remaining'[s] = Cardinality(Pred(s) \ (outputs \cup {n}))
    <3>1. s # n /\ s \notin unlocked /\ status[s] = "Pending"
      BY <1>3, <2>2
    <3>2. remaining[s] = Cardinality(Pred(s) \ outputs) /\ remaining[s] \in Nat
      BY <1>0, <1>6, <3>1 DEF NodeTypeOK
    <3>3. CASE s \in waiting
      <4>1. remaining[s] > 1
        BY <1>w, <3>1, <3>2, <3>3
      <4>2. remaining'[s] = remaining[s] - 1
        BY <1>3, <3>2, <3>3, <4>1
      <4>. QED BY <1>4, <1>5, <3>1, <3>2, <3>3, <4>2, MissingInputs
    <3>4. CASE s \notin waiting
      <4>1. remaining'[s] = remaining[s] /\ n \notin Pred(s)
        BY <1>3, <1>5, <3>1, <3>4
      <4>. QED BY <1>4, <3>2, <4>1, MissingInputs
    <3>. QED BY <3>3, <3>4
  <2>. QED BY <1>3, <2>1, <2>2 DEF RemainingExact
<1>10. RunningHasInputs'
  <2>1. \A s \in Node : status'[s] = "Running" => status[s] = "Running"
    BY <1>3
  <2>. QED BY <1>3, <2>1 DEF Books, RunningHasInputs
<1>. QED BY <1>0, <1>8, <1>9, <1>10 DEF Books

\* A failure blocks Pending nodes only: all inputs of a Ready or Running node
\* have succeeded, and what has settled is not touched.
LEMMA FailNodeSpares ==
    ASSUME Books, NEW n \in Node, status[n] \notin Settled, NEW k, FailNode(n, k)
    PROVE  /\ status'[n] = "Failed"
           /\ \A m \in Node \ {n} : \/ status'[m] = status[m]
                                    \/ status[m] = "Pending" /\ status'[m] = "Blocked"
<1> DEFINE hit == Downstream(n, Undecided \ {n})
<1>0. NodeTypeOK /\ ReadyQueueExact /\ RemainingExact /\ RunningHasInputs
  BY DEF Books
<1>1. Undecided \ {n} \in SUBSET Node
  BY DEF Undecided
<1>2. hit \subseteq Undecided \ {n}
  BY <1>1, DownstreamClosed
<1>3. status' = [m \in Node |-> IF m = n THEN "Failed" ELSE IF m \in hit THEN "Blocked"
                                ELSE status[m]]
  BY DEF FailNode
<1>4. \A m \in hit : Pred(m) \cap ({n} \cup hit) # {}
  BY <1>1, DownstreamCause
<1> HIDE DEF hit
<1>5. \A m \in {n} \cup hit : m \in Node /\ status[m] \notin Settled
  BY <1>2 DEF Undecided
<1>6. \A m \in hit : status[m] = "Pending"
  <2> SUFFICES ASSUME NEW m \in hit, status[m] \in {"Ready", "Running"} PROVE FALSE
    BY <1>0, <1>5 DEF NodeTypeOK
  <2>1. Pred(m) \subseteq outputs
    <3>1. m \in Node
      BY <1>5
    <3>. QED BY <1>0, <3>1 DEF ReadyQueueExact, RunningHasInputs
  <2>2. PICK p \in {n} \cup hit : p \in Pred(m)
    BY <1>4
  <2>. QED BY <1>0, <1>5, <2>1, <2>2 DEF RemainingExact
<1>. QED BY <1>3, <1>6

LEMMA FailNodeBooks ==
    ASSUME Books, NEW n \in Node, status[n] = "Running", NEW k \in ErrorKind,
           k # "Internal", FailNode(n, k), ready' = ready
    PROVE  Books'
<1>0. NodeTypeOK /\ ReadyQueueExact /\ RemainingExact /\ RunningHasInputs
  BY DEF Books
<1>1. NodeTypeOK'
  BY <1>0, FailNodeType DEF NodeTypeOK
<1>2. failure' = [failure EXCEPT ![n] = k] /\ remaining' = remaining /\ outputs' = outputs
  BY DEF FailNode
<1>3. \A m \in Node : /\ status'[m] = "Ready" <=> status[m] = "Ready"
                      /\ status'[m] = "Succeeded" <=> status[m] = "Succeeded"
                      /\ status'[m] = "Pending" => status[m] = "Pending"
                      /\ status'[m] = "Running" => status[m] = "Running"
  <2>1. /\ status'[n] = "Failed"
        /\ \A m \in Node \ {n} : \/ status'[m] = status[m]
                                 \/ status[m] = "Pending" /\ status'[m] = "Blocked"
    BY FailNodeSpares
  <2>. QED BY <2>1
<1>4. ReadyQueueExact'
  <2>1. \A m \in Node : failure'[m] # "Internal"
    BY <1>0, <1>2 DEF NodeTypeOK, ReadyQueueExact
  <2>. QED BY <1>0, <1>2, <1>3, <2>1 DEF ReadyQueueExact
<1>5. RemainingExact' /\ RunningHasInputs'
  BY <1>0, <1>2, <1>3 DEF RemainingExact, RunningHasInputs
<1>. QED BY <1>1, <1>4, <1>5 DEF Books

LEMMA CancelNodeBooks ==
    ASSUME Books, NEW n \in Node, status[n] = "Running", CancelNode(n) PROVE Books'
<1>1. NodeTypeOK /\ ReadyQueueExact /\ RemainingExact /\ RunningHasInputs
  BY DEF Books
<1>2. NodeTypeOK'
  BY <1>1 DEF CancelNode, NodeTypeOK
<1>3. \A m \in Node : /\ status'[m] = "Ready" <=> status[m] = "Ready"
                      /\ status'[m] = "Succeeded" <=> status[m] = "Succeeded"
                      /\ status'[m] = "Pending" => status[m] = "Pending"
                      /\ status'[m] = "Running" => status[m] = "Running"
  BY <1>1 DEF CancelNode, NodeTypeOK
<1>4. UNCHANGED <<ready, remaining, outputs, failure>>
  BY DEF CancelNode
<1>. QED BY <1>1, <1>2, <1>3, <1>4
       DEF Books, ReadyQueueExact, RemainingExact, RunningHasInputs

LEMMA CancelUnstartedBooks == ASSUME Books, CancelUnstarted PROVE Books'
<1>1. NodeTypeOK /\ ReadyQueueExact /\ RemainingExact /\ RunningHasInputs /\ NodeTypeOK'
  BY CancelUnstartedType DEF Books
<1>2. \A m \in Node : /\ status'[m] # "Ready" /\ status'[m] # "Pending"
                      /\ status'[m] = "Succeeded" <=> status[m] = "Succeeded"
                      /\ status'[m] = "Running" => status[m] = "Running"
  BY <1>1 DEF CancelUnstarted, NodeTypeOK
<1>3. UNCHANGED <<outputs, failure>> /\ IsInjective(ready') /\ ToSet(ready') = {}
  BY DEF CancelUnstarted, IsInjective, ToSet
<1>. QED BY <1>1, <1>2, <1>3 DEF Books, ReadyQueueExact, RemainingExact, RunningHasInputs

LEMMA QueueRootsBooks == ASSUME NodeInit, QueueRoots PROVE Books'
<1> DEFINE roots == {n \in Node : remaining[n] = 0}
<1>1. NodeTypeOK /\ NodeTypeOK' /\ RemainingExact
  BY NodeInitType, QueueRootsType, BooksInit DEF Books
<1>2. PICK q \in [1..Cardinality(roots) -> roots] :
         /\ \A i, j \in 1..Cardinality(roots) : i < j => q[i] < q[j]
         /\ ready' = q
  BY DEF QueueRoots
<1>3. /\ status' = [n \in Node |-> IF n \in roots THEN "Ready" ELSE status[n]]
      /\ UNCHANGED <<remaining, outputs, failure>>
  BY DEF QueueRoots
<1>4. roots \in SUBSET Node /\ \A n \in roots : Cardinality(Pred(n)) = 0
  BY DEF NodeInit
<1>5. Cardinality(roots) \in Nat
  BY <1>4, SizeIsNat
<1>6. \A n \in roots : Pred(n) = {}
  <2> SUFFICES ASSUME NEW n \in roots PROVE Pred(n) = {}
    OBVIOUS
  <2>1. IsFiniteSet(Pred(n))
    BY NodeFinite, FS_Subset DEF Pred
  <2>. QED BY <1>4, <2>1, FS_EmptySet
<1> HIDE DEF roots
<1>7. IsInjective(q)
  <2>1. ASSUME NEW i \in 1..Cardinality(roots), NEW j \in 1..Cardinality(roots), q[i] = q[j]
        PROVE  i = j
    <3>a. q[i] \in Node /\ q[j] \in Node
      BY <1>2, <1>4
    <3>1. q[i] \in Nat /\ q[j] \in Nat
      BY <3>a, NodeRange DEF Node
    <3>2. ~(i < j) /\ ~(j < i)
      BY <1>2, <2>1, <3>1
    <3>. QED BY <1>5, <3>2
  <2>. QED BY <1>2, <2>1 DEF IsInjective
<1>8. ToSet(ready') = roots
  BY <1>2, <1>4, <1>7, ArrangementsAreWhole
<1>9. \A n \in Node : /\ status'[n] = "Ready" <=> n \in roots
                      /\ status'[n] = "Pending" => status[n] = "Pending"
                      /\ status'[n] # "Succeeded" /\ status[n] # "Succeeded"
  BY <1>3 DEF NodeInit
<1>10. ReadyQueueExact'
  <2>1. ToSet(ready') = {n \in Node : status'[n] = "Ready"}
    BY <1>4, <1>8, <1>9
  <2>2. \A n \in Node : failure'[n] # "Internal"
    BY <1>3 DEF NodeInit
  <2>. QED BY <1>2, <1>6, <1>7, <1>8, <2>1, <2>2 DEF ReadyQueueExact
<1>11. RemainingExact' /\ RunningHasInputs'
  BY <1>1, <1>3, <1>9 DEF NodeInit, RemainingExact, RunningHasInputs
<1>. QED BY <1>1, <1>10, <1>11 DEF Books

\* The driver takes the head of the queue, which is Ready and has its inputs,
\* and starts it.
LEMMA StartHeadBooks ==
    ASSUME Books, ready # <<>>, ready' = Tail(ready),
           status' = [status EXCEPT ![Head(ready)] = "Running"],
           UNCHANGED <<remaining, outputs, failure, blockedBy>>
    PROVE  Books'
<1> DEFINE n == Head(ready)
<1>0. NodeTypeOK /\ ReadyQueueExact /\ RemainingExact /\ RunningHasInputs
  BY DEF Books
<1>1. ready \in Seq(Node) /\ IsInjective(ready) /\ n \in ToSet(ready)
  BY <1>0 DEF NodeTypeOK, ReadyQueueExact, ToSet
<1>2. n \in Node /\ status[n] = "Ready" /\ Pred(n) \subseteq outputs
  BY <1>0, <1>1 DEF ReadyQueueExact
<1>3. IsInjective(ready') /\ ToSet(ready') = ToSet(ready) \ {n}
  BY <1>1, TailIsExact
<1>4. NodeTypeOK'
  BY <1>0, <1>1 DEF NodeTypeOK
<1> HIDE DEF n
<1>5. \A m \in Node : /\ status'[m] = "Ready" <=> status[m] = "Ready" /\ m # n
                      /\ status'[m] = "Succeeded" <=> status[m] = "Succeeded"
                      /\ status'[m] = "Pending" => status[m] = "Pending"
                      /\ status'[m] = "Running" => status[m] = "Running" \/ m = n
  BY <1>0, <1>2 DEF NodeTypeOK, n
<1>6. ReadyQueueExact'
  <2>1. ToSet(ready') = {m \in Node : status'[m] = "Ready"}
    BY <1>0, <1>3, <1>5 DEF ReadyQueueExact
  <2>. QED BY <1>0, <1>3, <2>1 DEF ReadyQueueExact
<1>7. RemainingExact' /\ RunningHasInputs'
  BY <1>0, <1>2, <1>5 DEF RemainingExact, RunningHasInputs
<1>. QED BY <1>4, <1>6, <1>7 DEF Books

\* The head of the queue is a Ready node with all its inputs.
LEMMA HeadIsReady ==
    ASSUME Books, ready # <<>>
    PROVE  /\ Head(ready) \in Node /\ status[Head(ready)] = "Ready"
           /\ Pred(Head(ready)) \subseteq outputs
<1>1. ready \in Seq(Node) /\ Head(ready) \in ToSet(ready)
  BY DEF Books, NodeTypeOK, ToSet
<1>. QED BY <1>1 DEF Books, ReadyQueueExact

-----------------------------------------------------------------------------
(* Blame. *)

LEMMA BlameInit == NodeInit => BlameLeadsToFailure
  BY DEF NodeInit, BlameLeadsToFailure

\* An operation other than fail_node leaves failures, blocks and blame alone.
LEMMA BlameFrame ==
    ASSUME BlameLeadsToFailure, blockedBy' = blockedBy,
           \A m \in Node : status[m] \in {"Failed", "Blocked"} \/ status'[m] = "Blocked"
                           => status'[m] = status[m]
    PROVE  BlameLeadsToFailure'
<1>1. \A m \in Node : Pred(m) \subseteq Node
  BY DEF Pred
<1>. QED BY <1>1 DEF BlameLeadsToFailure

LEMMA BlameFail ==
    ASSUME Books, BlameLeadsToFailure, NEW n \in Node, status[n] \notin Settled, NEW k,
           FailNode(n, k)
    PROVE  BlameLeadsToFailure'
<1> DEFINE hit == Downstream(n, Undecided \ {n})
<1>1. hit \subseteq Undecided \ {n}
  BY DownstreamClosed DEF Undecided
<1>2. PICK blame \in [hit -> hit \cup {n}] :
         /\ \A m \in hit : blame[m] \in Pred(m)
         /\ blockedBy' = [m \in Node |-> IF m \in hit THEN blame[m] ELSE blockedBy[m]]
  BY DEF FailNode
<1>3. status' = [m \in Node |-> IF m = n THEN "Failed" ELSE IF m \in hit THEN "Blocked"
                                ELSE status[m]]
  BY DEF FailNode
<1> HIDE DEF hit
<1>4. \A m \in {n} \cup hit : m \in Node /\ status[m] \notin Settled
  BY <1>1 DEF Undecided
<1>5. ASSUME NEW m \in hit
      PROVE  /\ m \in Node /\ status'[m] = "Blocked" /\ blockedBy'[m] \in Pred(m)
             /\ status'[blockedBy'[m]] \in {"Failed", "Blocked"}
  <2>1. m \in Node /\ m # n /\ blame[m] \in Pred(m) /\ blame[m] \in hit \cup {n}
    BY <1>1, <1>2, <1>4
  <2>2. blockedBy'[m] = blame[m]
    BY <1>2, <2>1
  <2>3. status'[blame[m]] \in {"Failed", "Blocked"}
    BY <1>3, <1>4, <2>1
  <2>. QED BY <1>3, <2>1, <2>2, <2>3
<1>6. ASSUME NEW m \in Node \ hit
      PROVE  IF status'[m] = "Blocked"
             THEN /\ blockedBy'[m] \in Pred(m)
                  /\ status'[blockedBy'[m]] \in {"Failed", "Blocked"}
             ELSE blockedBy'[m] = 0
  <2>1. blockedBy'[m] = blockedBy[m] /\ (status'[m] = "Blocked" <=> status[m] = "Blocked")
    BY <1>2, <1>3, <1>4
  <2>2. ASSUME status[m] = "Blocked"
        PROVE  /\ blockedBy[m] \in Pred(m)
               /\ status'[blockedBy[m]] \in {"Failed", "Blocked"}
    <3>1. /\ blockedBy[m] \in Pred(m) /\ blockedBy[m] \in Node
          /\ status[blockedBy[m]] \in {"Failed", "Blocked"}
      BY <2>2 DEF BlameLeadsToFailure, Pred
    <3>. QED BY <1>3, <3>1
  <2>3. status[m] # "Blocked" => blockedBy[m] = 0
    BY DEF BlameLeadsToFailure
  <2>. QED BY <2>1, <2>2, <2>3
<1>. QED BY <1>5, <1>6 DEF BlameLeadsToFailure

-----------------------------------------------------------------------------
(* Failures. *)

\* An error is recorded for the nodes that failed, and for no other.
FailuresRecorded == \A n \in Node : failure[n] # "none" <=> status[n] = "Failed"

\* An operation other than fail_node leaves failures alone.
LEMMA FailuresFrame ==
    ASSUME FailuresRecorded, failure' = failure,
           \A m \in Node : status'[m] = "Failed" <=> status[m] = "Failed"
    PROVE  FailuresRecorded'
  BY DEF FailuresRecorded

LEMMA FailuresFail ==
    ASSUME Books, FailuresRecorded, NEW n \in Node, status[n] \notin Settled,
           NEW k \in ErrorKind \ {"none"}, FailNode(n, k)
    PROVE  FailuresRecorded'
<1>1. /\ status'[n] = "Failed"
      /\ \A m \in Node \ {n} : \/ status'[m] = status[m]
                               \/ status[m] = "Pending" /\ status'[m] = "Blocked"
  BY FailNodeSpares
<1>2. failure'[n] = k /\ \A m \in Node \ {n} : failure'[m] = failure[m]
  BY DEF FailNode, Books, NodeTypeOK
<1>. QED BY <1>1, <1>2 DEF FailuresRecorded
=============================================================================
