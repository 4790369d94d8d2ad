-------------------------- MODULE InlineRun_proof --------------------------
(***************************************************************************)
(* Proofs about InlineRun, for every plan and every set of control calls.  *)
(***************************************************************************)
EXTENDS InlineRun, RunNodes_proof

USE DEF Status, Settled, ErrorKind, DriverPc, CallPc

\* The futures are polled in plan order: of some nodes, one is the first.
LEMMA FirstNode ==
    ASSUME NEW S \in SUBSET Node, S # {} PROVE \E n \in S : \A m \in S : n <= m
<1> DEFINE R == {ss \in Nat \X Nat : ss[1] < ss[2]}
<1>1. IsWellFoundedOn(R, Nat)
  BY NatLessThanWellFounded DEF OpToRel
<1>2. S \subseteq Nat
  BY NodeRange DEF Node
<1>3. PICK n \in S : \A m \in S : <<m, n>> \notin R
  BY <1>1, <1>2, WFMin
<1>4. ASSUME NEW m \in S PROVE n <= m
  <2>1. m \in Nat /\ n \in Nat /\ <<m, n>> \in Nat \X Nat
    BY <1>2
  <2>2. ~(m < n)
    BY <1>3, <2>1
  <2>. QED BY <2>1, <2>2
<1>. QED BY <1>4

-----------------------------------------------------------------------------
(* The inductive invariant. *)

Running == {n \in Node : status[n] = "Running"}

\* Between its removal from the queue and its claim, a Ready node is in the
\* driver's hands only.
Claiming ==
    /\ RemainingExact /\ RunningHasInputs
    /\ current \in Node /\ status[current] = "Ready" /\ current \notin ToSet(ready)
    /\ IsInjective(ready)
    /\ ToSet(ready) \cup {current} = {n \in Node : status[n] = "Ready"}
    /\ \A n \in ToSet(ready) \cup {current} : Pred(n) \subseteq outputs
    /\ \A n \in Node : failure[n] # "Internal"

BooksKept == IF dpc = "claim" THEN Claiming ELSE Books

\* While a task is invoked, or its end is looked at, its node is Running and has
\* no future in the run; every other Running node has one.
FuturesKept ==
    /\ dpc \notin {"invoke", "complete"} => futures = Running
    /\ dpc \in {"invoke", "complete"} => /\ current \in Running
                                         /\ futures = Running \ {current}

\* A future that is still to be polled is one the run holds.
UnpolledKept ==
    /\ dpc \in {"child", "childWaits"} => current \in unpolled
    /\ dpc \in {"poll", "child", "childWaits"} => unpolled \subseteq futures
    /\ dpc = "complete" => /\ unpolled \ {current} \subseteq futures
                           /\ current \in unpolled \/ unpolled = {}
    /\ dpc \notin {"poll", "child", "childWaits", "complete"} => unpolled = {}

\* Nothing happens to the nodes before the first poll gets to Initialize.
FirstPoll == ~initialized => NodeInit /\ dpc \in {"idle", "register", "init"}

InlineInv == TypeOK /\ BooksKept /\ FuturesKept /\ UnpolledKept /\ FirstPoll

LEMMA InlineInit == Init => InlineInv
<1> SUFFICES ASSUME Init PROVE InlineInv
  OBVIOUS
<1>1. Books
  BY BooksInit DEF Init
<1>2. TypeOK
  <2>1. NodeTypeOK /\ 0 \in 0..N
    BY <1>1, NodeRange DEF Books
  <2>2. cpc \in [Calls -> CallPc]
    BY DEF Init
  <2>. QED BY <2>1, <2>2 DEF Init, TypeOK
<1>3. FuturesKept /\ UnpolledKept /\ FirstPoll
  BY DEF Init, NodeInit, FuturesKept, UnpolledKept, FirstPoll, Running
<1>. QED BY <1>1, <1>2, <1>3 DEF Init, InlineInv, BooksKept

\* The driver's own variables keep their types.
DriverTypes ==
    /\ dpc \in DriverPc
    /\ initialized \in BOOLEAN /\ progressed \in BOOLEAN
    /\ current \in 0..N
    /\ result \in {"ok", "invalid", "user", "checkpoint", "panic"}
    /\ unpolled \subseteq Node /\ futures \subseteq Node
    /\ outcome \in {"none", "Ok", "Failed", "Cancelled"}
StopTypes ==
    /\ cancelled \in BOOLEAN /\ aborted \in BOOLEAN /\ gate \in BOOLEAN
    /\ cancelDriver \in BOOLEAN /\ waiters \in BOOLEAN /\ driverWoken \in BOOLEAN
    /\ fired \subseteq Node
    /\ cpc \in [Calls -> CallPc]
    /\ taken \subseteq Calls

LEMMA TypeParts ==
    /\ TypeOK <=> NodeTypeOK /\ DriverTypes /\ StopTypes
    /\ TypeOK' <=> NodeTypeOK' /\ DriverTypes' /\ StopTypes'
<1>1. TypeOK <=> NodeTypeOK /\ DriverTypes /\ StopTypes
  BY DEF TypeOK, DriverTypes, StopTypes
<1>2. TypeOK' <=> NodeTypeOK' /\ DriverTypes' /\ StopTypes'
  BY DEF TypeOK, DriverTypes, StopTypes
<1>. QED BY <1>1, <1>2

\* A step between two claims that leaves the nodes alone.
LEMMA QuietStep ==
    ASSUME InlineInv, UNCHANGED nodeVars, dpc # "claim", dpc' # "claim" PROVE Books'
  BY BooksFrame DEF InlineInv, BooksKept

\* The same for all the driver owns.
LEMMA DriverIdle ==
    ASSUME InlineInv, UNCHANGED <<dpc, pollVars, nodeVars>>, StopTypes' PROVE InlineInv'
<1>1. NodeTypeOK /\ NodeTypeOK' /\ DriverTypes /\ DriverTypes'
  BY TypeParts DEF InlineInv, NodeTypeOK, DriverTypes, pollVars, nodeVars
<1>2. BooksKept'
  <2>1. CASE dpc = "claim"
    BY <2>1 DEF InlineInv, BooksKept, Claiming, RemainingExact, RunningHasInputs, pollVars,
                nodeVars
  <2>2. CASE dpc # "claim"
    BY <2>2, BooksFrame DEF InlineInv, BooksKept
  <2>. QED BY <2>1, <2>2
<1>3. FuturesKept' /\ UnpolledKept' /\ FirstPoll'
  BY DEF InlineInv, FuturesKept, UnpolledKept, FirstPoll, Running, NodeInit, pollVars,
         nodeVars
<1>. QED BY <1>1, <1>2, <1>3, TypeParts DEF InlineInv

-----------------------------------------------------------------------------
(* The driver up to the launch loop. *)

LEMMA BeforeLaunch ==
    ASSUME InlineInv,
           PollRun \/ RegisterDriver \/ Initialize \/ SweepAborted \/ SweepCancelled
    PROVE  InlineInv'
<1>0. /\ NodeTypeOK /\ DriverTypes /\ StopTypes
      /\ BooksKept /\ FuturesKept /\ UnpolledKept /\ FirstPoll
  BY TypeParts DEF InlineInv
<1>t. DriverTypes' /\ StopTypes'
  <2>1. DriverTypes'
    BY <1>0 DEF PollRun, RegisterDriver, Initialize, SweepAborted, SweepCancelled, DropFutures,
                GoTo, DriverTypes, pollVars
  <2>2. StopTypes'
    BY <1>0 DEF PollRun, RegisterDriver, Initialize, SweepAborted, SweepCancelled, StopTypes,
                stopVars, wakeVars, ctlVars
  <2>. QED BY <2>1, <2>2
<1> USE DEF GoTo, pollVars, nodeVars
<1>1. CASE PollRun \/ RegisterDriver
  <2>1. /\ UNCHANGED <<nodeVars, initialized, futures, unpolled>>
        /\ dpc \in {"idle", "register"} /\ dpc' \in {"register", "init"}
    BY <1>1 DEF PollRun, RegisterDriver
  <2>2. Books'
    BY <2>1, QuietStep
  <2>3. FuturesKept' /\ UnpolledKept' /\ FirstPoll'
    BY <1>0, <2>1 DEF FuturesKept, UnpolledKept, FirstPoll, Running, NodeInit
  <2>. QED BY <1>t, <2>1, <2>2, <2>3, TypeParts DEF InlineInv, BooksKept, Books
<1>2. CASE Initialize
  <2>1. /\ UNCHANGED <<futures, unpolled>> /\ dpc = "init" /\ dpc' = "sweep"
        /\ initialized' = TRUE /\ Books
    BY <1>0, <1>2 DEF Initialize, BooksKept
  <2>2. Books'
    BY <1>0, <1>2, <2>1, BooksFrame, CancelUnstartedBooks, QueueRootsBooks
       DEF Initialize, FirstPoll
  <2>3. Running' = Running
    BY <1>0, <1>2 DEF Initialize, CancelUnstarted, QueueRoots, FirstPoll, NodeInit, Running,
                      NodeTypeOK
  <2>4. FuturesKept' /\ UnpolledKept' /\ FirstPoll'
    BY <1>0, <2>1, <2>3 DEF FuturesKept, UnpolledKept, FirstPoll
  <2>. QED BY <1>t, <2>1, <2>2, <2>4, TypeParts DEF InlineInv, BooksKept, Books
<1>3. CASE SweepAborted /\ aborted
  <2>1. /\ DropFutures /\ dpc = "sweep" /\ dpc' = "launch" /\ Books
        /\ UNCHANGED <<initialized, unpolled>> /\ futures = Running
    BY <1>0, <1>3 DEF SweepAborted, BooksKept, FuturesKept
  <2>2. /\ futures' = {} /\ ready' = <<>> /\ UNCHANGED <<remaining, outputs, failure, blockedBy>>
        /\ status' = [n \in Node |-> IF n \in futures \/ status[n] \in {"Pending", "Ready"}
                                     THEN "Cancelled" ELSE status[n]]
    BY <2>1 DEF DropFutures
  <2>3. \A n \in Node : /\ status'[n] \notin {"Pending", "Ready", "Running"}
                        /\ status'[n] = "Succeeded" <=> status[n] = "Succeeded"
    BY <1>0, <2>1, <2>2 DEF Running, NodeTypeOK
  <2>4. Books'
    <3>1. NodeTypeOK'
      BY <1>0, <2>2 DEF NodeTypeOK
    <3>2. IsInjective(ready') /\ ToSet(ready') = {}
      BY <2>2 DEF IsInjective, ToSet
    <3>. QED BY <2>1, <2>2, <2>3, <3>1, <3>2
             DEF Books, ReadyQueueExact, RemainingExact, RunningHasInputs
  <2>5. FuturesKept' /\ UnpolledKept' /\ FirstPoll'
    BY <1>0, <2>1, <2>2, <2>3 DEF FuturesKept, UnpolledKept, FirstPoll, Running
  <2>. QED BY <1>t, <2>1, <2>4, <2>5, TypeParts DEF InlineInv, BooksKept, Books
<1>4. CASE (SweepAborted /\ ~aborted) \/ SweepCancelled
  <2>1. /\ UNCHANGED <<initialized, futures, unpolled>>
        /\ dpc \in {"sweep", "sweepCancel"} /\ dpc' \in {"sweepCancel", "launch"} /\ Books
        /\ UNCHANGED nodeVars \/ CancelUnstarted
    BY <1>0, <1>4 DEF SweepAborted, SweepCancelled, BooksKept
  <2>2. Books'
    BY <2>1, BooksFrame, CancelUnstartedBooks
  <2>3. Running' = Running
    BY <1>0, <2>1 DEF CancelUnstarted, Running, NodeTypeOK
  <2>4. FuturesKept' /\ UnpolledKept' /\ FirstPoll'
    BY <1>0, <2>1, <2>3 DEF FuturesKept, UnpolledKept, FirstPoll
  <2>. QED BY <1>t, <2>1, <2>2, <2>4, TypeParts DEF InlineInv, BooksKept, Books
<1>. QED BY <1>1, <1>2, <1>3, <1>4

-----------------------------------------------------------------------------
(* The launch loop. *)

\* A node leaves the queue: Ready, with all its inputs.
LEMMA LaunchKeeps == ASSUME InlineInv, Launch PROVE InlineInv'
<1>0. /\ NodeTypeOK /\ DriverTypes /\ StopTypes
      /\ BooksKept /\ FuturesKept /\ UnpolledKept /\ FirstPoll
  BY TypeParts DEF InlineInv
<1>1. dpc = "launch" /\ ready # <<>> /\ ready' = Tail(ready) /\ Books
      /\ UNCHANGED <<initialized, result, unpolled, futures, outcome>>
  BY <1>0 DEF Launch, BooksKept
<1>2. /\ Head(ready) \in Node /\ status[Head(ready)] = "Ready"
      /\ Pred(Head(ready)) \subseteq outputs
  BY <1>1, HeadIsReady
<1>3. /\ dpc' = "claim" /\ current' = Head(ready) /\ progressed' = TRUE
      /\ UNCHANGED <<status, remaining, outputs, failure, blockedBy>>
  BY <1>2 DEF Launch, GoTo
<1>4. ready \in Seq(Node) /\ IsInjective(ready) /\ Head(ready) \in ToSet(ready)
  <2>1. ready \in Seq(Node) /\ IsInjective(ready) /\ ready # <<>>
    BY <1>0, <1>1 DEF Books, NodeTypeOK, ReadyQueueExact
  <2>. QED BY <2>1 DEF ToSet
<1>5. IsInjective(ready') /\ ToSet(ready') = ToSet(ready) \ {Head(ready)}
  BY <1>1, <1>4, TailIsExact
<1>6. Claiming'
  <2>1. RemainingExact' /\ RunningHasInputs'
    BY <1>1, <1>3 DEF Books, RemainingExact, RunningHasInputs
  <2>. QED BY <1>1, <1>2, <1>3, <1>4, <1>5, <2>1 DEF Books, ReadyQueueExact, Claiming
<1>7. FuturesKept' /\ UnpolledKept' /\ FirstPoll'
  BY <1>0, <1>1, <1>3 DEF FuturesKept, UnpolledKept, FirstPoll, Running
<1>8. NodeTypeOK' /\ DriverTypes' /\ StopTypes'
  <2>1. NodeTypeOK'
    BY <1>0, <1>1, <1>3, <1>4 DEF NodeTypeOK
  <2>2. DriverTypes'
    BY <1>0, <1>1, <1>2, <1>3, NodeRange DEF DriverTypes
  <2>3. StopTypes'
    BY <1>0 DEF Launch, StopTypes, stopVars, wakeVars, ctlVars
  <2>. QED BY <2>1, <2>2, <2>3
<1>. QED BY <1>3, <1>6, <1>7, <1>8, TypeParts DEF InlineInv, BooksKept

\* The claim makes the node Running, or discards it; either way the queue is
\* exact again.
LEMMA ClaimKeeps == ASSUME InlineInv, Claim PROVE InlineInv'
<1>0. /\ NodeTypeOK /\ DriverTypes /\ StopTypes
      /\ BooksKept /\ FuturesKept /\ UnpolledKept /\ FirstPoll
  BY TypeParts DEF InlineInv
<1> DEFINE n == current
           s == IF cancelled THEN "Cancelled" ELSE "Running"
<1>1. /\ dpc = "claim" /\ Claiming
      /\ status' = [status EXCEPT ![n] = s]
      /\ dpc' = (IF cancelled THEN "launch" ELSE "invoke")
      /\ current' = (IF cancelled THEN 0 ELSE n)
      /\ UNCHANGED <<remaining, ready, outputs, failure, blockedBy, initialized, result,
                     unpolled, futures, outcome, progressed>>
  BY <1>0 DEF Claim, GoTo, BooksKept
<1>2. n \in Node /\ status[n] = "Ready" /\ n \notin ToSet(ready) /\ Pred(n) \subseteq outputs
  BY <1>1 DEF Claiming
<1>3. NodeTypeOK' /\ DriverTypes' /\ StopTypes'
  <2>1. NodeTypeOK'
    BY <1>0, <1>1 DEF NodeTypeOK
  <2>2. DriverTypes'
    BY <1>0, <1>1, NodeRange DEF DriverTypes
  <2>3. StopTypes'
    BY <1>0 DEF Claim, StopTypes, stopVars, wakeVars, ctlVars
  <2>. QED BY <2>1, <2>2, <2>3
<1>4. /\ status'[n] = s /\ s \in {"Cancelled", "Running"}
      /\ \A m \in Node \ {n} : status'[m] = status[m]
  BY <1>0, <1>1, <1>2 DEF NodeTypeOK
<1> HIDE DEF n, s
<1>5. Books'
  <2>1. ToSet(ready') = {m \in Node : status'[m] = "Ready"}
    BY <1>1, <1>2, <1>4 DEF Claiming, n
  <2>2. ReadyQueueExact'
    BY <1>1, <2>1 DEF Claiming, ReadyQueueExact
  <2>3. RemainingExact' /\ RunningHasInputs'
    BY <1>1, <1>2, <1>4 DEF Claiming, RemainingExact, RunningHasInputs
  <2>. QED BY <1>3, <2>2, <2>3 DEF Books
<1>6. FuturesKept'
  <2>1. futures = Running /\ n \notin Running
    BY <1>0, <1>1, <1>2 DEF FuturesKept, Running
  <2>2. CASE cancelled
    <3>1. Running' = Running /\ dpc' = "launch"
      BY <1>1, <1>2, <1>4, <2>2 DEF Running, s
    <3>. QED BY <1>1, <2>1, <3>1 DEF FuturesKept
  <2>3. CASE ~cancelled
    <3>1. Running' = Running \cup {n} /\ dpc' = "invoke" /\ current' = n
      BY <1>1, <1>2, <1>4, <2>3 DEF Running, s, n
    <3>. QED BY <1>1, <2>1, <3>1 DEF FuturesKept
  <2>. QED BY <2>2, <2>3
<1>7. UnpolledKept' /\ FirstPoll'
  BY <1>0, <1>1 DEF UnpolledKept, FirstPoll
<1>. QED BY <1>1, <1>3, <1>5, <1>6, <1>7, TypeParts DEF InlineInv, BooksKept

LEMMA InvokeKeeps == ASSUME InlineInv, InvokeSync \/ InvokeAsync \/ LaunchEnd PROVE InlineInv'
<1>0. /\ NodeTypeOK /\ DriverTypes /\ StopTypes
      /\ BooksKept /\ FuturesKept /\ UnpolledKept /\ FirstPoll
  BY TypeParts DEF InlineInv
<1>1. /\ UNCHANGED <<nodeVars, initialized, stopVars, wakeVars, ctlVars>>
      /\ dpc \in {"invoke", "launch"} /\ dpc' \in {"complete", "launch", "poll"}
  BY DEF InvokeSync, InvokeAsync, LaunchEnd, GoTo
<1>2. Running' = Running /\ Running \subseteq Node
  BY <1>1 DEF Running, nodeVars
<1>3. Books'
  BY <1>1, QuietStep
<1>4. FirstPoll'
  BY <1>0, <1>1 DEF FirstPoll
<1>5. StopTypes'
  BY <1>0, <1>1 DEF StopTypes, stopVars, wakeVars, ctlVars
<1>6. DriverTypes' /\ FuturesKept' /\ UnpolledKept'
  <2>1. CASE InvokeSync
    <3>1. Results \subseteq {"ok", "invalid", "user", "checkpoint", "panic"}
      BY InlineAssumption
    <3>2. DriverTypes'
      BY <1>0, <2>1, <3>1 DEF InvokeSync, GoTo, DriverTypes
    <3>. QED BY <1>0, <1>2, <2>1, <3>2 DEF InvokeSync, GoTo, FuturesKept, UnpolledKept
  <2>2. CASE InvokeAsync
    <3>1. current \in Node /\ current \in Running
      BY <1>0, <1>2, <2>2 DEF InvokeAsync, FuturesKept
    <3>2. DriverTypes'
      BY <1>0, <2>2, <3>1, NodeRange DEF InvokeAsync, GoTo, DriverTypes
    <3>. QED BY <1>0, <1>2, <2>2, <3>1, <3>2
             DEF InvokeAsync, GoTo, FuturesKept, UnpolledKept
  <2>3. CASE LaunchEnd
    <3>1. DriverTypes'
      BY <1>0, <2>3 DEF LaunchEnd, GoTo, DriverTypes
    <3>. QED BY <1>0, <1>2, <2>3, <3>1 DEF LaunchEnd, GoTo, FuturesKept, UnpolledKept
  <2>. QED BY <2>1, <2>2, <2>3
<1>. QED BY <1>1, <1>3, <1>4, <1>5, <1>6, TypeParts DEF InlineInv, BooksKept, Books

\* A task has ended: its node, which is Running, settles.
LEMMA CompleteKeeps == ASSUME InlineInv, CompleteInline PROVE InlineInv'
<1>0. /\ NodeTypeOK /\ DriverTypes /\ StopTypes
      /\ BooksKept /\ FuturesKept /\ UnpolledKept /\ FirstPoll
  BY TypeParts DEF InlineInv
<1>1. /\ dpc = "complete" /\ dpc' = (IF current \in unpolled THEN "poll" ELSE "launch")
      /\ unpolled' = unpolled \ {current} /\ current' = 0 /\ Books
      /\ UNCHANGED <<initialized, progressed, result, futures, outcome, stopVars, wakeVars,
                     ctlVars>>
  BY <1>0 DEF CompleteInline, GoTo, BooksKept
<1>2. current \in Node /\ status[current] = "Running" /\ futures = Running \ {current}
  BY <1>0, <1>1 DEF FuturesKept, Running
<1>3. \/ CommitNode(current) \/ CancelNode(current)
      \/ \E k \in ErrorKind : k # "Internal" /\ FailNode(current, k) /\ ready' = ready
  <2>1. CASE result = "ok" /\ ~cancelled
    BY <2>1 DEF CompleteInline
  <2>2. CASE result \in {"ok", "checkpoint"} /\ cancelled
    BY <2>2 DEF CompleteInline
  <2>3. CASE ~(result = "ok" /\ ~cancelled) /\ ~(result \in {"ok", "checkpoint"} /\ cancelled)
    <3>1. FailNode(current, Kind(result)) /\ ready' = ready
      BY <2>3 DEF CompleteInline
    <3>2. Kind(result) \in ErrorKind /\ Kind(result) # "Internal"
      BY <1>0, <2>3 DEF DriverTypes, Kind
    <3>. QED BY <3>1, <3>2
  <2>. QED BY <2>1, <2>2, <2>3
<1>4. Books'
  BY <1>1, <1>2, <1>3, CommitNodeBooks, CancelNodeBooks, FailNodeBooks
<1>5. Running' = Running \ {current}
  <2>1. CASE CommitNode(current)
    BY <1>0, <1>2, <2>1 DEF CommitNode, Running, NodeTypeOK
  <2>2. CASE CancelNode(current)
    BY <1>0, <1>2, <2>2 DEF CancelNode, Running, NodeTypeOK
  <2>3. ASSUME NEW k \in ErrorKind, FailNode(current, k) PROVE Running' = Running \ {current}
    <3>1. /\ status'[current] = "Failed"
          /\ \A m \in Node \ {current} : \/ status'[m] = status[m]
                                         \/ status[m] = "Pending" /\ status'[m] = "Blocked"
      BY <1>1, <1>2, <2>3, FailNodeSpares
    <3>. QED BY <3>1 DEF Running
  <2>. QED BY <1>3, <2>1, <2>2, <2>3
<1>6. FuturesKept' /\ UnpolledKept' /\ FirstPoll'
  <2>1. CASE current \in unpolled
    BY <1>0, <1>1, <1>2, <1>5, <2>1 DEF FuturesKept, UnpolledKept, FirstPoll
  <2>2. CASE current \notin unpolled
    <3>1. unpolled = {}
      BY <1>0, <1>1, <2>2 DEF UnpolledKept
    <3>. QED BY <1>0, <1>1, <1>2, <1>5, <2>2, <3>1 DEF FuturesKept, UnpolledKept, FirstPoll
  <2>. QED BY <2>1, <2>2
<1>7. DriverTypes' /\ StopTypes'
  BY <1>0, <1>1, NodeRange DEF DriverTypes, StopTypes, stopVars, wakeVars, ctlVars
<1>. QED BY <1>1, <1>4, <1>6, <1>7, TypeParts DEF InlineInv, BooksKept, Books

-----------------------------------------------------------------------------
(* The poll of the futures, and the end of the poll. *)

LEMMA PollKeeps ==
    ASSUME InlineInv, PollNext \/ ChildReady \/ ChildPending \/ ChildWaits \/ PollEnd
    PROVE  InlineInv'
<1>0. /\ NodeTypeOK /\ DriverTypes /\ StopTypes
      /\ BooksKept /\ FuturesKept /\ UnpolledKept /\ FirstPoll
  BY TypeParts DEF InlineInv
<1>1. /\ UNCHANGED <<nodeVars, initialized, outcome, stopVars, ctlVars>>
      /\ dpc \in {"poll", "child", "childWaits"}
      /\ dpc' \in {"poll", "child", "childWaits", "complete", "check"}
  BY DEF PollNext, ChildReady, ChildPending, ChildWaits, PollEnd, GoTo, pollVars
<1>2. Running' = Running /\ Running \subseteq Node /\ futures = Running
  BY <1>0, <1>1 DEF Running, nodeVars, FuturesKept
<1>3. Books'
  BY <1>1, QuietStep
<1>4. FirstPoll'
  BY <1>0, <1>1 DEF FirstPoll
<1>5. StopTypes'
  <2>1. UNCHANGED <<cancelDriver, driverWoken, fired>> /\ waiters' \in BOOLEAN
    BY <1>0 DEF PollNext, ChildReady, ChildPending, ChildWaits, PollEnd, StopTypes, wakeVars
  <2>. QED BY <1>0, <1>1, <2>1 DEF StopTypes, stopVars, ctlVars
<1> USE DEF GoTo
<1>6. DriverTypes' /\ FuturesKept' /\ UnpolledKept'
  <2>1. CASE PollNext
    <3>1. \E n \in unpolled : \A m \in unpolled : n <= m
      BY <1>0, <2>1, FirstNode DEF PollNext, DriverTypes
    <3>2. current' \in unpolled /\ unpolled \subseteq Node
      BY <1>0, <2>1, <3>1 DEF PollNext, DriverTypes
    <3>3. DriverTypes'
      BY <1>0, <2>1, <3>2, NodeRange DEF PollNext, DriverTypes
    <3>. QED BY <1>0, <1>2, <2>1, <3>2, <3>3 DEF PollNext, FuturesKept, UnpolledKept
  <2>2. CASE ChildReady \/ (ChildWaits /\ (cancelled \/ aborted))
    <3>1. /\ dpc' = "complete" /\ futures' = futures \ {current} /\ progressed' = TRUE
          /\ UNCHANGED <<current, unpolled>>
          /\ result' \in Results \cup {"checkpoint"}
      BY <2>2 DEF ChildReady, ChildWaits
    <3>2. current \in unpolled /\ unpolled \subseteq futures
      BY <1>0, <2>2 DEF ChildReady, ChildWaits, UnpolledKept
    <3>3. Results \subseteq {"ok", "invalid", "user", "checkpoint", "panic"}
      BY InlineAssumption
    <3>4. DriverTypes'
      BY <1>0, <1>1, <3>1, <3>3 DEF DriverTypes
    <3>. QED BY <1>2, <3>1, <3>2, <3>4 DEF FuturesKept, UnpolledKept
  <2>3. CASE ChildPending /\ current \in Aware
    <3>1. /\ dpc = "child" /\ dpc' = "childWaits"
          /\ UNCHANGED <<progressed, result, current, unpolled, futures>>
      BY <2>3 DEF ChildPending
    <3>2. DriverTypes'
      BY <1>0, <1>1, <3>1 DEF DriverTypes
    <3>. QED BY <1>0, <1>2, <3>1, <3>2 DEF FuturesKept, UnpolledKept
  <2>4. CASE \/ ChildPending /\ current \notin Aware
             \/ ChildWaits /\ ~(cancelled \/ aborted)
    <3>1. /\ dpc' = "poll" /\ unpolled' = unpolled \ {current} /\ current' = 0
          /\ UNCHANGED <<progressed, result, futures>>
      BY <2>4 DEF ChildPending, ChildWaits
    <3>2. DriverTypes'
      BY <1>0, <1>1, <3>1, NodeRange DEF DriverTypes
    <3>. QED BY <1>0, <1>1, <1>2, <3>1, <3>2 DEF FuturesKept, UnpolledKept
  <2>5. CASE PollEnd
    <3>1. /\ dpc' = "check" /\ unpolled = {}
          /\ UNCHANGED <<progressed, result, current, unpolled, futures>>
      BY <2>5 DEF PollEnd, pollVars
    <3>2. DriverTypes'
      BY <1>0, <1>1, <3>1 DEF DriverTypes
    <3>. QED BY <1>2, <3>1, <3>2 DEF FuturesKept, UnpolledKept
  <2>. QED BY <2>1, <2>2, <2>3, <2>4, <2>5
<1>. QED BY <1>1, <1>3, <1>4, <1>5, <1>6, TypeParts DEF InlineInv, BooksKept, Books

LEMMA CheckKeeps == ASSUME InlineInv, Finish \/ Continue PROVE InlineInv'
<1>0. /\ NodeTypeOK /\ DriverTypes /\ StopTypes
      /\ BooksKept /\ FuturesKept /\ UnpolledKept /\ FirstPoll
  BY TypeParts DEF InlineInv
<1>1. /\ UNCHANGED <<nodeVars, initialized, futures, unpolled, current, result,
                     stopVars, wakeVars, ctlVars>>
      /\ dpc = "check" /\ dpc' \in {"done", "sweep", "idle"}
  BY DEF Finish, Continue, GoTo
<1>2. DriverTypes' /\ StopTypes'
  <2>1. progressed' \in BOOLEAN /\ outcome' \in {"none", "Ok", "Failed", "Cancelled"}
    BY <1>0 DEF Finish, Continue, DriverTypes
  <2>. QED BY <1>0, <1>1, <2>1 DEF DriverTypes, StopTypes, stopVars, wakeVars, ctlVars
<1>3. Books'
  BY <1>1, QuietStep
<1>4. FuturesKept' /\ UnpolledKept' /\ FirstPoll'
  BY <1>0, <1>1 DEF FuturesKept, UnpolledKept, FirstPoll, Running, nodeVars
<1>. QED BY <1>1, <1>2, <1>3, <1>4, TypeParts DEF InlineInv, BooksKept, Books

-----------------------------------------------------------------------------
(* Every step, and the theorem. *)

LEMMA InlineStep == InlineInv /\ [Next]_vars => InlineInv'
<1> SUFFICES ASSUME InlineInv, [Next]_vars PROVE InlineInv'
  OBVIOUS
<1>0. StopTypes
  BY TypeParts DEF InlineInv
<1>1. CASE DriverStep
  BY <1>1, BeforeLaunch, LaunchKeeps, ClaimKeeps, InvokeKeeps, CompleteKeeps, PollKeeps,
     CheckKeeps DEF DriverStep
<1>2. ASSUME NEW c \in Calls, BeginCall(c) \/ CallStep(c) PROVE InlineInv'
  <2>1. UNCHANGED <<dpc, pollVars, nodeVars>>
    BY <1>2 DEF BeginCall, CallStep, StoreAborted, TakeDriver, TakeWaiters, WakeTaken
  <2>2. StopTypes'
    <3>1. CASE BeginCall(c) \/ StoreAborted(c)
      <4>1. gate' \in BOOLEAN /\ cancelled' \in BOOLEAN /\ aborted' \in BOOLEAN
        BY <1>0, <3>1 DEF BeginCall, StoreAborted, StopTypes
      <4>. QED BY <1>0, <3>1, <4>1 DEF BeginCall, StoreAborted, Goes, StopTypes, wakeVars
    <3>2. CASE TakeDriver(c) \/ TakeWaiters(c)
      BY <1>0, <3>2 DEF TakeDriver, TakeWaiters, Goes, StopTypes, stopVars
    <3>3. CASE WakeTaken(c)
      <4>1. driverWoken' \in BOOLEAN
        BY <1>0, <3>3 DEF WakeTaken, StopTypes
      <4>. QED BY <1>0, <3>3, <4>1 DEF WakeTaken, Goes, StopTypes, stopVars
    <3>. QED BY <1>2, <3>1, <3>2, <3>3 DEF CallStep
  <2>. QED BY <2>1, <2>2, DriverIdle
<1>3. ASSUME NEW n \in Node, Fire(n) PROVE InlineInv'
  <2>1. UNCHANGED <<dpc, pollVars, nodeVars>> /\ StopTypes'
    BY <1>0, <1>3 DEF Fire, StopTypes, stopVars, ctlVars
  <2>. QED BY <2>1, DriverIdle
<1>4. CASE UNCHANGED vars
  <2>1. UNCHANGED <<dpc, pollVars, nodeVars>> /\ StopTypes'
    BY <1>0, <1>4 DEF vars, StopTypes, stopVars, wakeVars, ctlVars
  <2>. QED BY <2>1, DriverIdle
<1>. QED BY <1>1, <1>2, <1>3, <1>4 DEF Next, Finished

\* For every plan, an inline run keeps its books: the ready queue is exact
\* outside the claim, the countdown is right, and the futures it holds are those
\* of the Running nodes.
THEOREM InlineBooksAreKept == Spec => []Inv
<1>1. InlineInv => Inv
  <2> SUFFICES ASSUME InlineInv PROVE Inv
    OBVIOUS
  <2>1. ReadyQueueSound /\ RemainingExact
    BY DEF InlineInv, BooksKept, Books, Claiming, ReadyQueueSound
  <2>2. FutureIffRunning
    BY DEF InlineInv, FuturesKept, Running, FutureIffRunning
  <2>. QED BY <2>1, <2>2 DEF InlineInv, Inv
<1>. QED BY <1>1, InlineInit, InlineStep, PTL DEF Spec

-----------------------------------------------------------------------------
(* Blame. *)

BlameInv == InlineInv /\ BlameLeadsToFailure

LEMMA BlameStep == BlameInv /\ [Next]_vars => BlameInv'
<1> SUFFICES ASSUME BlameInv, [Next]_vars PROVE BlameLeadsToFailure'
  BY InlineStep DEF BlameInv
<1>0. InlineInv /\ BlameLeadsToFailure /\ NodeTypeOK
  BY TypeParts DEF BlameInv, InlineInv
<1> USE DEF nodeVars
<1>1. CASE UNCHANGED nodeVars
  BY <1>0, <1>1, BlameFrame
<1>2. CASE CancelUnstarted \/ (QueueRoots /\ NodeInit)
  <2>1. blockedBy' = blockedBy
    BY <1>2 DEF CancelUnstarted, QueueRoots
  <2>2. \A m \in Node : \/ status'[m] = status[m]
                       \/ /\ status[m] \in {"Pending", "Ready"}
                          /\ status'[m] \in {"Ready", "Cancelled"}
    <3>1. CASE CancelUnstarted
      BY <1>0, <3>1 DEF CancelUnstarted, NodeTypeOK
    <3>2. CASE QueueRoots /\ NodeInit
      BY <3>2 DEF QueueRoots, NodeInit
    <3>. QED BY <1>2, <3>1, <3>2
  <2>. QED BY <1>0, <2>1, <2>2, BlameFrame
<1>3. CASE SweepAborted /\ aborted
  <2>1. dpc = "sweep" /\ DropFutures /\ futures = Running
    BY <1>0, <1>3 DEF SweepAborted, InlineInv, FuturesKept
  <2>2. /\ blockedBy' = blockedBy
        /\ \A m \in Node : status[m] \in {"Failed", "Blocked"} \/ status'[m] = "Blocked"
                           => status'[m] = status[m]
    BY <1>0, <2>1 DEF DropFutures, Running, NodeTypeOK
  <2>. QED BY <1>0, <2>2, BlameFrame
<1>4. CASE Launch
  <2>1. dpc = "launch" /\ ready # <<>> /\ Books
    BY <1>0, <1>4 DEF Launch, InlineInv, BooksKept
  <2>2. status[Head(ready)] = "Ready" /\ Pred(Head(ready)) \subseteq outputs
    BY <2>1, HeadIsReady
  <2>3. UNCHANGED <<status, blockedBy>>
    BY <1>4, <2>2 DEF Launch
  <2>. QED BY <1>0, <2>3, BlameFrame
<1>5. CASE Claim
  <2>1. /\ blockedBy' = blockedBy /\ current \in Node /\ status[current] = "Ready"
        /\ status' = [status EXCEPT ![current] = IF cancelled THEN "Cancelled" ELSE "Running"]
    BY <1>0, <1>5 DEF Claim, InlineInv, BooksKept, Claiming
  <2>2. \A m \in Node : status[m] \in {"Failed", "Blocked"} \/ status'[m] = "Blocked"
                        => status'[m] = status[m]
    BY <1>0, <2>1 DEF NodeTypeOK
  <2>. QED BY <1>0, <2>1, <2>2, BlameFrame
<1>6. CASE CompleteInline
  <2>1. dpc = "complete" /\ Books
    BY <1>0, <1>6 DEF CompleteInline, InlineInv, BooksKept
  <2>2. current \in Node /\ status[current] = "Running"
    BY <1>0, <2>1 DEF InlineInv, FuturesKept, Running
  <2>3. CASE CommitNode(current) \/ CancelNode(current)
    <3>1. /\ blockedBy' = blockedBy
          /\ \A m \in Node : status[m] \in {"Failed", "Blocked"} \/ status'[m] = "Blocked"
                             => status'[m] = status[m]
      BY <1>0, <2>2, <2>3 DEF CommitNode, CancelNode, NodeTypeOK
    <3>. QED BY <1>0, <3>1, BlameFrame
  <2>4. ASSUME FailNode(current, Kind(result)) PROVE BlameLeadsToFailure'
    BY <1>0, <2>1, <2>2, <2>4, BlameFail
  <2>. QED BY <1>6, <2>3, <2>4 DEF CompleteInline
<1>7. CASE DriverStep
  <2>1. CASE Initialize
    <3>1. ~initialized => NodeInit
      BY <1>0 DEF InlineInv, FirstPoll
    <3>2. UNCHANGED nodeVars \/ CancelUnstarted \/ (QueueRoots /\ NodeInit)
      BY <2>1, <3>1 DEF Initialize
    <3>. QED BY <1>1, <1>2, <3>2
  <2>2. CASE (SweepAborted /\ ~aborted) \/ SweepCancelled
    BY <1>1, <1>2, <2>2 DEF SweepAborted, SweepCancelled
  <2>3. CASE PollRun \/ RegisterDriver \/ InvokeSync \/ InvokeAsync \/ LaunchEnd
    BY <1>1, <2>3 DEF PollRun, RegisterDriver, InvokeSync, InvokeAsync, LaunchEnd
  <2>4. CASE PollNext \/ ChildReady \/ ChildPending \/ ChildWaits \/ PollEnd
    BY <1>1, <2>4 DEF PollNext, ChildReady, ChildPending, ChildWaits, PollEnd
  <2>5. CASE Finish \/ Continue
    BY <1>1, <2>5 DEF Finish, Continue
  <2>. QED BY <1>3, <1>4, <1>5, <1>6, <1>7, <2>1, <2>2, <2>3, <2>4, <2>5 DEF DriverStep
<1>8. CASE \/ UNCHANGED vars \/ (\E n \in Node : Fire(n))
           \/ \E c \in Calls : BeginCall(c) \/ CallStep(c)
  BY <1>1, <1>8 DEF vars, Fire, BeginCall, CallStep, StoreAborted, TakeDriver, TakeWaiters,
                    WakeTaken
<1>. QED BY <1>7, <1>8 DEF Next, Finished

\* For every plan, a blocked node blames a direct dependency, and following the
\* blame one meets failed and blocked nodes only.
THEOREM BlameIsFounded == Spec => []BlameLeadsToFailure
<1>1. Init => BlameInv
  BY InlineInit, BlameInit DEF BlameInv, Init
<1>2. BlameInv => BlameLeadsToFailure
  BY DEF BlameInv
<1>. QED BY <1>1, <1>2, BlameStep, PTL DEF Spec

-----------------------------------------------------------------------------
(* The contract: an inline run keeps the promises of RunContract. *)

View(n) ==
    IF status[n] \in {"Pending", "Ready"} THEN "waiting"
    ELSE IF status[n] = "Running" THEN "running"
    ELSE IF status[n] = "Succeeded" THEN "succeeded"
    ELSE IF status[n] = "Failed" THEN "failed"
    ELSE IF status[n] = "Cancelled" THEN "cancelled"
    ELSE "blocked"

LEMMA PhaseIsView ==
    /\ NodeTypeOK => phase = [n \in Node |-> View(n)]
    /\ NodeTypeOK' => phase' = [n \in Node |-> View(n)']
<1>1. ASSUME NodeTypeOK PROVE phase = [n \in Node |-> View(n)]
  <2>1. \A n \in Node : status[n] \in Status
    BY <1>1 DEF NodeTypeOK
  <2>. QED BY <2>1 DEF phase, View
<1>2. ASSUME NodeTypeOK' PROVE phase' = [n \in Node |-> View(n)']
  <2>1. \A n \in Node : status'[n] \in Status
    BY <1>2 DEF NodeTypeOK
  <2>. QED BY <2>1 DEF phase, View
<1>. QED BY <1>1, <1>2

LEMMA ContractPlan ==
    /\ Contract!Node = Node
    /\ \A n \in Node : Contract!Succ(n) = Succ(n) /\ Contract!Pred(n) = Pred(n)
    /\ \A n \in Node, O \in SUBSET Node : Contract!Downstream(n, O) = Downstream(n, O)
  BY DEF Contract!Node, Node, Contract!Succ, Succ, Contract!ToSet, ToSet, Contract!Pred, Pred,
         Contract!Downstream, Downstream

LEMMA WhatContractSees ==
    ASSUME NodeTypeOK, RemainingExact
    PROVE  /\ Contract!Open = Undecided
           /\ Contract!In({"succeeded"}) = outputs
           /\ Contract!In({"failed"}) = {n \in Node : status[n] = "Failed"}
<1>1. phase = [n \in Node |-> View(n)]
  BY PhaseIsView
<1>2. \A n \in Node : status[n] \in Status
  BY DEF NodeTypeOK
<1>. QED BY <1>1, <1>2, ContractPlan
         DEF Contract!Open, Contract!In, Undecided, View, RemainingExact

\* An abort is a cancellation: it stores that flag first.
StopOrder ==
    /\ aborted => cancelled
    /\ \A c \in Calls : cpc[c] = "storeAborted" => cancelled

\* Behind a report everything has settled and the driver is at its end.
OutcomeLast == outcome # "none" => dpc = "done" /\ Undecided = {}

ContractInv == InlineInv /\ StopOrder /\ OutcomeLast /\ FailuresRecorded

\* A stopping run discards some undecided nodes.
Drops(S) ==
    /\ cancelled /\ S \subseteq Undecided
    /\ status' = [n \in Node |-> IF n \in S THEN "Cancelled" ELSE status[n]]
    /\ UNCHANGED failure

\* The claim of a node with all its inputs.
Starts(n) ==
    /\ ~cancelled /\ status[n] = "Ready" /\ Pred(n) \subseteq outputs
    /\ status' = [status EXCEPT ![n] = "Running"] /\ UNCHANGED failure

\* The end of a Running node.
Ends(n) ==
    /\ Books /\ status[n] = "Running"
    /\ \/ ~cancelled /\ CommitNode(n)
       \/ \E k \in ErrorKind \ {"none"} : FailNode(n, k)

\* What a step of the driver does to the nodes.
NodeStep ==
    \/ UNCHANGED <<status, failure>>
    \/ NodeInit /\ QueueRoots
    \/ \E S \in SUBSET Node : Drops(S)
    \/ \E n \in Node : Starts(n) \/ Ends(n)

LEMMA DriverKinds == ASSUME ContractInv, DriverStep PROVE NodeStep
<1>0. /\ NodeTypeOK /\ BooksKept /\ FuturesKept /\ FirstPoll /\ StopOrder /\ DriverTypes
      /\ status \in [Node -> Status]
  BY TypeParts DEF ContractInv, InlineInv, NodeTypeOK
<1>1. ASSUME cancelled, CancelUnstarted PROVE NodeStep
  <2> DEFINE S == {n \in Node : status[n] \in {"Pending", "Ready"}}
  <2>1. Drops(S)
    BY <1>1 DEF CancelUnstarted, Drops, Undecided
  <2>. QED BY <2>1 DEF NodeStep
<1>2. CASE PollRun \/ RegisterDriver \/ InvokeSync \/ InvokeAsync \/ LaunchEnd
  BY <1>2 DEF PollRun, RegisterDriver, InvokeSync, InvokeAsync, LaunchEnd, nodeVars, NodeStep
<1>3. CASE PollNext \/ ChildReady \/ ChildPending \/ ChildWaits \/ PollEnd \/ Finish \/ Continue
  BY <1>3 DEF PollNext, ChildReady, ChildPending, ChildWaits, PollEnd, Finish, Continue,
              nodeVars, NodeStep
<1>4. CASE Initialize
  BY <1>0, <1>1, <1>4 DEF Initialize, FirstPoll, nodeVars, NodeStep
<1>5. CASE SweepAborted
  <2>1. CASE aborted
    <3> DEFINE S == {n \in Node : n \in futures \/ status[n] \in {"Pending", "Ready"}}
    <3>1. futures = Running /\ cancelled /\ DropFutures
      BY <1>0, <1>5, <2>1 DEF SweepAborted, FuturesKept, StopOrder
    <3>2. Drops(S)
      BY <3>1 DEF DropFutures, Drops, Undecided, Running
    <3>. QED BY <3>2 DEF NodeStep
  <2>2. CASE ~aborted
    BY <1>5, <2>2 DEF SweepAborted, nodeVars, NodeStep
  <2>. QED BY <2>1, <2>2
<1>6. CASE SweepCancelled
  BY <1>1, <1>6 DEF SweepCancelled, nodeVars, NodeStep
<1>7. CASE Launch
  <2>1. dpc = "launch" /\ ready # <<>> /\ Books
    BY <1>0, <1>7 DEF Launch, BooksKept
  <2>2. status[Head(ready)] = "Ready" /\ Pred(Head(ready)) \subseteq outputs
    BY <2>1, HeadIsReady
  <2>. QED BY <1>7, <2>2 DEF Launch, NodeStep
<1>8. CASE Claim
  <2>1. current \in Node /\ status[current] = "Ready" /\ Pred(current) \subseteq outputs
    BY <1>0, <1>8 DEF Claim, BooksKept, Claiming
  <2>2. CASE cancelled
    <3>1. \A m \in Node : status'[m] = IF m \in {current} THEN "Cancelled" ELSE status[m]
      BY <1>0, <1>8, <2>1, <2>2 DEF Claim
    <3>2. status' = [m \in Node |-> IF m \in {current} THEN "Cancelled" ELSE status[m]]
      BY <1>0, <1>8, <2>2, <3>1 DEF Claim
    <3>3. Drops({current})
      BY <1>8, <2>1, <2>2, <3>2 DEF Claim, Drops, Undecided
    <3>. QED BY <2>1, <3>3 DEF NodeStep
  <2>3. CASE ~cancelled
    BY <1>8, <2>1, <2>3 DEF Claim, Starts, NodeStep
  <2>. QED BY <2>2, <2>3
<1>9. CASE CompleteInline
  <2>1. Books /\ current \in Node /\ status[current] = "Running"
    BY <1>0, <1>9 DEF CompleteInline, BooksKept, FuturesKept, Running
  <2>2. CASE result = "ok" /\ ~cancelled
    BY <1>9, <2>1, <2>2 DEF CompleteInline, Ends, NodeStep
  <2>3. CASE result \in {"ok", "checkpoint"} /\ cancelled
    <3>1. CancelNode(current)
      BY <1>9, <2>3 DEF CompleteInline
    <3>2. status' = [m \in Node |-> IF m \in {current} THEN "Cancelled" ELSE status[m]]
      BY <1>0, <2>1, <3>1 DEF CancelNode
    <3>3. Drops({current})
      BY <2>1, <2>3, <3>1, <3>2 DEF CancelNode, Drops, Undecided
    <3>. QED BY <2>1, <3>3 DEF NodeStep
  <2>4. CASE ~(result = "ok" /\ ~cancelled) /\ ~(result \in {"ok", "checkpoint"} /\ cancelled)
    <3>1. FailNode(current, Kind(result))
      BY <1>9, <2>4 DEF CompleteInline
    <3>2. Kind(result) \in ErrorKind \ {"none"}
      BY <1>0, <2>4 DEF DriverTypes, Kind
    <3>. QED BY <2>1, <3>1, <3>2 DEF Ends, NodeStep
  <2>. QED BY <2>2, <2>3, <2>4
<1>. QED BY <1>2, <1>3, <1>4, <1>5, <1>6, <1>7, <1>8, <1>9 DEF DriverStep

\* What a step of the driver leaves alone.
LEMMA DriverFrame ==
    ASSUME DriverStep
    PROVE  /\ UNCHANGED <<stopVars, ctlVars>> /\ dpc # "done"
           /\ UNCHANGED outcome \/ Finish
<1>1. CASE PollRun \/ RegisterDriver \/ Initialize \/ SweepAborted \/ SweepCancelled
  BY <1>1 DEF PollRun, RegisterDriver, Initialize, SweepAborted, SweepCancelled, pollVars
<1>2. CASE Launch \/ Claim \/ InvokeSync \/ InvokeAsync \/ LaunchEnd \/ CompleteInline
  BY <1>2 DEF Launch, Claim, InvokeSync, InvokeAsync, LaunchEnd, CompleteInline
<1>3. CASE PollNext \/ ChildReady \/ ChildPending \/ ChildWaits \/ PollEnd
  BY <1>3 DEF PollNext, ChildReady, ChildPending, ChildWaits, PollEnd, pollVars
<1>4. CASE Finish \/ Continue
  BY <1>4 DEF Finish, Continue
<1>. QED BY <1>1, <1>2, <1>3, <1>4 DEF DriverStep

LEMMA FailuresKept == ASSUME ContractInv, NodeStep PROVE FailuresRecorded'
<1>0. FailuresRecorded /\ status \in [Node -> Status]
  BY TypeParts DEF ContractInv, InlineInv, NodeTypeOK
<1>1. CASE UNCHANGED <<status, failure>>
  BY <1>0, <1>1 DEF FailuresRecorded
<1>2. CASE NodeInit /\ QueueRoots
  BY <1>0, <1>2 DEF NodeInit, QueueRoots, FailuresRecorded
<1>3. ASSUME NEW S \in SUBSET Node, Drops(S) PROVE FailuresRecorded'
  BY <1>0, <1>3 DEF Drops, FailuresRecorded, Undecided
<1>4. ASSUME NEW n \in Node, Starts(n) PROVE FailuresRecorded'
  BY <1>0, <1>4 DEF Starts, FailuresRecorded
<1>5. ASSUME NEW n \in Node, Ends(n) PROVE FailuresRecorded'
  <2>1. Books /\ status[n] = "Running"
    BY <1>5 DEF Ends
  <2>2. CASE CommitNode(n)
    BY <1>0, <2>1, <2>2 DEF CommitNode, FailuresRecorded
  <2>3. CASE \E k \in ErrorKind \ {"none"} : FailNode(n, k)
    BY <1>0, <2>1, <2>3, FailuresFail
  <2>. QED BY <1>5, <2>2, <2>3 DEF Ends
<1>. QED BY <1>1, <1>2, <1>3, <1>4, <1>5 DEF NodeStep

LEMMA ContractStep == ContractInv /\ [Next]_vars => ContractInv'
<1> SUFFICES ASSUME ContractInv, [Next]_vars PROVE ContractInv'
  OBVIOUS
<1>0. /\ InlineInv' /\ StopOrder /\ OutcomeLast /\ FailuresRecorded
      /\ cpc \in [Calls -> CallPc]
  BY InlineStep, TypeParts DEF ContractInv, InlineInv, StopTypes
<1>1. CASE DriverStep
  <2>1. UNCHANGED <<stopVars, ctlVars>> /\ dpc # "done" /\ (UNCHANGED outcome \/ Finish)
    BY <1>1, DriverFrame
  <2>2. FailuresRecorded'
    BY <1>1, DriverKinds, FailuresKept
  <2>3. StopOrder'
    BY <1>0, <2>1 DEF StopOrder, stopVars, ctlVars
  <2>4. OutcomeLast'
    BY <1>0, <2>1 DEF OutcomeLast, Finish, GoTo, Undecided, nodeVars
  <2>. QED BY <1>0, <2>2, <2>3, <2>4 DEF ContractInv
<1>2. ASSUME UNCHANGED <<dpc, pollVars, nodeVars>>, StopOrder' PROVE ContractInv'
  BY <1>0, <1>2 DEF ContractInv, OutcomeLast, FailuresRecorded, Undecided, pollVars, nodeVars
<1>3. ASSUME NEW c \in Calls, BeginCall(c) \/ CallStep(c) PROVE ContractInv'
  <2>1. UNCHANGED <<dpc, pollVars, nodeVars>>
    BY <1>3 DEF BeginCall, CallStep, StoreAborted, TakeDriver, TakeWaiters, WakeTaken
  <2>2. StopOrder'
    <3> USE DEF Goes, StopOrder, stopVars
    <3>1. CASE BeginCall(c) \/ StoreAborted(c)
      BY <1>0, <3>1 DEF BeginCall, StoreAborted
    <3>2. CASE TakeDriver(c) \/ TakeWaiters(c) \/ WakeTaken(c)
      BY <1>0, <3>2 DEF TakeDriver, TakeWaiters, WakeTaken
    <3>. QED BY <1>3, <3>1, <3>2 DEF CallStep
  <2>. QED BY <1>2, <2>1, <2>2
<1>4. CASE UNCHANGED vars \/ \E n \in Node : Fire(n)
  BY <1>0, <1>2, <1>4 DEF vars, Fire, StopOrder, stopVars, ctlVars
<1>. QED BY <1>1, <1>3, <1>4 DEF Next, Finished

\* A Running node commits, or fails and blocks its dependents.
LEMMA MapEnds ==
    ASSUME Books, NodeTypeOK', NEW n \in Node, Ends(n), outcome = "none",
           UNCHANGED <<cancelled, outcome>>
    PROVE  Contract!Next
<1>0. /\ NodeTypeOK /\ RunningHasInputs /\ RemainingExact /\ status[n] = "Running"
      /\ status \in [Node -> Status]
  BY DEF Books, Ends, NodeTypeOK
<1>1. phase = [m \in Node |-> View(m)] /\ phase' = [m \in Node |-> View(m)']
  BY <1>0, PhaseIsView
<1>2. Contract!Open = Undecided /\ Contract!In({"succeeded"}) = outputs
  BY <1>0, WhatContractSees
<1>3. n \in Undecided /\ Pred(n) \subseteq outputs
  BY <1>0 DEF Undecided, RunningHasInputs
<1>4. CASE ~cancelled /\ CommitNode(n)
  <2>1. phase[n] = "running"
    BY <1>0, <1>1 DEF View
  <2>2. \A m \in Node : View(m)' = IF m = n THEN "succeeded" ELSE View(m)
    BY <1>0, <1>4 DEF CommitNode, View
  <2>3. phase' = [phase EXCEPT ![n] = "succeeded"]
    BY <1>1, <2>2
  <2>. QED BY <1>4, <2>1, <2>3, ContractPlan DEF Contract!Next, Contract!Commit
<1>5. ASSUME NEW k \in ErrorKind \ {"none"}, FailNode(n, k) PROVE Contract!Fail(n)
  <2> DEFINE hit == Downstream(n, Undecided \ {n})
  <2>1. status' = [m \in Node |-> IF m = n THEN "Failed" ELSE IF m \in hit THEN "Blocked"
                                  ELSE status[m]]
    BY <1>5 DEF FailNode
  <2>2. Undecided \ {n} \in SUBSET Node
    BY DEF Undecided
  <2>3. Contract!Downstream(n, Undecided \ {n}) = hit
    BY <2>2, ContractPlan
  <2> HIDE DEF hit
  <2>4. \A m \in Node : View(m)' = IF m = n THEN "failed" ELSE IF m \in hit THEN "blocked"
                                   ELSE View(m)
    BY <1>0, <2>1 DEF View
  <2>5. phase' = [m \in Node |-> IF m = n THEN "failed" ELSE IF m \in hit THEN "blocked"
                                 ELSE phase[m]]
    BY <1>1, <2>4
  <2>. QED BY <1>2, <1>3, <2>3, <2>5, ContractPlan DEF Contract!Fail
<1>. QED BY <1>4, <1>5, ContractPlan DEF Ends, Contract!Next

LEMMA MapStutter ==
    ASSUME UNCHANGED <<status, cancelled, outcome>> PROVE UNCHANGED Contract!vars
  BY DEF phase, Contract!vars

\* Whatever the driver does to the nodes is a step of the contract.
LEMMA MapNodeStep ==
    ASSUME ContractInv, NodeTypeOK', NodeStep, outcome = "none", UNCHANGED <<cancelled, outcome>>
    PROVE  [Contract!Next]_(Contract!vars)
<1>0. NodeTypeOK /\ RemainingExact /\ status \in [Node -> Status]
  BY TypeParts DEF ContractInv, InlineInv, BooksKept, Claiming, Books, NodeTypeOK
<1>1. phase = [m \in Node |-> View(m)] /\ phase' = [m \in Node |-> View(m)']
  BY <1>0, PhaseIsView
<1>2. Contract!Open = Undecided /\ Contract!In({"succeeded"}) = outputs
  BY <1>0, WhatContractSees
<1>3. CASE UNCHANGED <<status, failure>>
  BY <1>3, MapStutter
<1>4. CASE NodeInit /\ QueueRoots
  <2>1. \A m \in Node : View(m)' = View(m)
    BY <1>0, <1>4 DEF NodeInit, QueueRoots, View
  <2>. QED BY <1>1, <2>1 DEF Contract!vars
<1>5. ASSUME NEW S \in SUBSET Node, Drops(S) PROVE Contract!Discard(S)
  <2>1. \A m \in Node : View(m)' = IF m \in S THEN "cancelled" ELSE View(m)
    BY <1>0, <1>5 DEF Drops, View
  <2>2. phase' = [m \in Node |-> IF m \in S THEN "cancelled" ELSE phase[m]]
    BY <1>1, <2>1
  <2>. QED BY <1>2, <1>5, <2>2, ContractPlan DEF Drops, Contract!Discard
<1>6. ASSUME NEW n \in Node, Starts(n) PROVE Contract!Claim(n)
  <2>1. phase[n] = "waiting"
    BY <1>1, <1>6 DEF Starts, View
  <2>2. \A m \in Node : View(m)' = IF m = n THEN "running" ELSE View(m)
    BY <1>0, <1>6 DEF Starts, View
  <2>3. phase' = [phase EXCEPT ![n] = "running"]
    BY <1>1, <2>2
  <2>. QED BY <1>2, <1>6, <2>1, <2>3, ContractPlan DEF Starts, Contract!Claim
<1>7. ASSUME NEW n \in Node, Ends(n) PROVE Contract!Next
  BY <1>7, MapEnds DEF Ends
<1>. QED BY <1>3, <1>4, <1>5, <1>6, <1>7, ContractPlan DEF NodeStep, Contract!Next

\* The report is the one the contract asks for.
LEMMA MapFinish == ASSUME ContractInv, Finish PROVE Contract!Return
<1>0. NodeTypeOK /\ RemainingExact /\ OutcomeLast /\ FailuresRecorded
  BY TypeParts DEF ContractInv, InlineInv, BooksKept, Claiming, Books
<1>1. /\ Contract!Open = Undecided
      /\ Contract!In({"failed"}) = {n \in Node : status[n] = "Failed"}
  BY <1>0, WhatContractSees
<1>2. UNCHANGED <<status, cancelled>> /\ Undecided = {} /\ outcome = "none"
  BY <1>0 DEF Finish, nodeVars, stopVars, OutcomeLast
<1>3. (Contract!In({"failed"}) # {}) <=> \E n \in Node : failure[n] # "none"
  BY <1>0, <1>1 DEF FailuresRecorded
<1>4. phase' = phase
  BY <1>2 DEF phase
<1>. QED BY <1>1, <1>2, <1>3, <1>4 DEF Finish, Contract!Return

LEMMA MapStep ==
    ContractInv /\ ContractInv' /\ [Next]_vars => [Contract!Next]_(Contract!vars)
<1> SUFFICES ASSUME ContractInv, ContractInv', [Next]_vars
             PROVE  [Contract!Next]_(Contract!vars)
  OBVIOUS
<1>1. CASE DriverStep
  <2>1. NodeStep /\ NodeTypeOK' /\ OutcomeLast
    BY <1>1, DriverKinds, TypeParts DEF ContractInv, InlineInv
  <2>2. UNCHANGED cancelled /\ dpc # "done" /\ (UNCHANGED outcome \/ Finish)
    BY <1>1, DriverFrame DEF stopVars
  <2>3. outcome = "none"
    BY <2>1, <2>2 DEF OutcomeLast
  <2>. QED BY <2>1, <2>2, <2>3, MapNodeStep, MapFinish DEF Contract!Next
<1>2. ASSUME NEW c \in Calls, BeginCall(c) \/ CallStep(c)
      PROVE  [Contract!Next]_(Contract!vars)
  <2>1. UNCHANGED <<status, outcome>> /\ (cancelled' = cancelled \/ cancelled' = TRUE)
    BY <1>2 DEF BeginCall, CallStep, StoreAborted, TakeDriver, TakeWaiters, WakeTaken, pollVars,
                nodeVars, stopVars
  <2>2. CASE UNCHANGED cancelled
    BY <2>1, <2>2, MapStutter
  <2>3. CASE cancelled' = TRUE
    <3>1. phase' = phase
      BY <2>1 DEF phase
    <3>. QED BY <2>1, <2>3, <3>1 DEF Contract!Next, Contract!RequestStop
  <2>. QED BY <2>1, <2>2, <2>3
<1>3. CASE UNCHANGED vars \/ \E n \in Node : Fire(n)
  BY <1>3, MapStutter DEF vars, Fire, pollVars, nodeVars, stopVars
<1>. QED BY <1>1, <1>2, <1>3 DEF Next, Finished

LEMMA ContractStart == Init => ContractInv /\ Contract!Init
<1> SUFFICES ASSUME Init PROVE ContractInv /\ Contract!Init
  OBVIOUS
<1>1. NodeTypeOK /\ \A n \in Node : View(n) = "waiting"
  BY NodeInitType DEF Init, NodeInit, View
<1>2. phase = [n \in Node |-> "waiting"]
  BY <1>1, PhaseIsView
<1>3. ContractInv
  BY InlineInit
     DEF Init, NodeInit, ContractInv, StopOrder, OutcomeLast, FailuresRecorded
<1>. QED BY <1>2, <1>3, ContractPlan DEF Init, Contract!Init

\* An inline run implements the contract, for every plan, whatever its tasks do and
\* whenever a control call reaches it.
THEOREM InlineKeepsContract == Spec => ImplementsContract
<1>. QED BY ContractStart, ContractStep, MapStep, PTL
         DEF Spec, ImplementsContract, Contract!Spec

-----------------------------------------------------------------------------
(* Wakeups: a sleeping driver with something to do is about to be woken. *)

Alarm ==
    \/ driverWoken \/ taken # {}
    \/ \E c \in Calls : cpc[c] \in {"storeAborted", "takeDriver"} /\ cancelDriver

\* From its registration on the driver can be woken, or is.
Registered == dpc # "register" => cancelDriver \/ driverWoken \/ taken # {}

\* A stop that falls behind the driver's last look at its flag has raised the alarm:
\* the sweep of a cancelled run, ...
UnstartedWatched ==
    /\ dpc \notin {"register", "init", "sweep", "sweepCancel"}
    /\ cancelled /\ \E n \in Node : status[n] \in {"Pending", "Ready"}
    => Alarm

\* ... the sweep of an aborted one, ...
AbortWatched ==
    /\ dpc \notin {"register", "init", "sweep"}
    /\ aborted /\ (futures # {} \/ dpc = "invoke")
    => Alarm

\* ... and the poll of a future, which also looks at what the future waits for.
Polling ==
    \/ dpc \in {"poll", "child", "childWaits", "check", "idle"}
    \/ dpc = "complete" /\ current \in unpolled
Missed(n) ==
    \/ n \notin unpolled /\ (n \in fired \/ (cancelled /\ n \in Aware))
    \/ dpc = "childWaits" /\ n = current /\ n \in fired
PolledWatched == Polling => \A n \in futures : Missed(n) => Alarm

StrandInv == ContractInv /\ Registered /\ UnstartedWatched /\ AbortWatched /\ PolledWatched

\* The alarm lasts until the driver is polled.
LEMMA AlarmStays == ASSUME TypeOK, Alarm, [Next]_vars, ~PollRun PROVE Alarm'
<1>0. cpc \in [Calls -> CallPc]
  BY DEF TypeOK
<1> USE DEF Alarm
<1>1. CASE DriverStep
  <2>1. UNCHANGED <<taken, cpc>>
    BY <1>1, DriverFrame DEF ctlVars
  <2>2. UNCHANGED driverWoken /\ (cancelDriver => cancelDriver')
    <3>1. CASE RegisterDriver \/ Initialize \/ SweepAborted \/ SweepCancelled
      BY <3>1 DEF RegisterDriver, Initialize, SweepAborted, SweepCancelled, wakeVars
    <3>2. CASE Launch \/ Claim \/ InvokeSync \/ InvokeAsync \/ LaunchEnd \/ CompleteInline
      BY <3>2 DEF Launch, Claim, InvokeSync, InvokeAsync, LaunchEnd, CompleteInline, wakeVars
    <3>3. CASE PollNext \/ ChildReady \/ ChildPending \/ ChildWaits \/ PollEnd
      BY <3>3 DEF PollNext, ChildReady, ChildPending, ChildWaits, PollEnd, wakeVars
    <3>4. CASE Finish \/ Continue
      BY <3>4 DEF Finish, Continue, wakeVars
    <3>. QED BY <1>1, <3>1, <3>2, <3>3, <3>4 DEF DriverStep
  <2>. QED BY <2>1, <2>2
<1>2. ASSUME NEW c \in Calls, BeginCall(c) \/ CallStep(c) PROVE Alarm'
  <2> USE DEF Goes, wakeVars
  <2>1. CASE BeginCall(c) \/ StoreAborted(c)
    BY <1>0, <2>1 DEF BeginCall, StoreAborted
  <2>2. CASE TakeDriver(c)
    BY <1>0, <2>2 DEF TakeDriver
  <2>3. CASE TakeWaiters(c) \/ WakeTaken(c)
    BY <1>0, <2>3 DEF TakeWaiters, WakeTaken
  <2>. QED BY <1>2, <2>1, <2>2, <2>3 DEF CallStep
<1>3. CASE UNCHANGED vars \/ \E n \in Node : Fire(n)
  BY <1>3 DEF vars, Fire, wakeVars, ctlVars
<1>. QED BY <1>1, <1>2, <1>3 DEF Next, Finished

\* A driver step between its registration and its sleep.
LEMMA StrandDriver ==
    ASSUME StrandInv, DriverStep, Alarm => Alarm', ~PollRun
    PROVE  Registered' /\ UnstartedWatched' /\ AbortWatched' /\ PolledWatched'
<1>0. /\ ContractInv /\ Registered /\ UnstartedWatched /\ AbortWatched /\ PolledWatched
      /\ NodeTypeOK /\ FuturesKept /\ StopOrder /\ dpc \in DriverPc
  BY DEF StrandInv, ContractInv, InlineInv, TypeOK
<1>1. UNCHANGED <<cancelled, aborted, taken, cpc>>
  BY DriverFrame DEF stopVars, ctlVars
<1>2. \A m \in Node : status'[m] \in {"Pending", "Ready"} => status[m] \in {"Pending", "Ready"}
  <2>1. NodeStep /\ status \in [Node -> Status]
    BY <1>0, DriverKinds DEF NodeTypeOK
  <2>. QED BY <2>1 DEF NodeStep, NodeInit, QueueRoots, Drops, Starts, Ends, CommitNode, FailNode
<1> USE DEF GoTo
<1>3. CASE RegisterDriver \/ Initialize
  <2>1. dpc' \in {"init", "sweep"}
    BY <1>3 DEF RegisterDriver, Initialize
  <2>2. Registered'
    BY <1>0, <1>1, <1>3 DEF RegisterDriver, Initialize, Registered, wakeVars
  <2>. QED BY <2>1, <2>2 DEF UnstartedWatched, AbortWatched, PolledWatched, Polling
<1>4. CASE SweepAborted \/ SweepCancelled
  <2>1. /\ dpc \in {"sweep", "sweepCancel"} /\ dpc' \in {"sweepCancel", "launch"}
        /\ UNCHANGED <<cancelDriver, driverWoken>>
    BY <1>4 DEF SweepAborted, SweepCancelled, wakeVars
  <2>2. Registered' /\ PolledWatched'
    BY <1>0, <1>1, <2>1 DEF Registered, PolledWatched, Polling
  <2>3. dpc' = "launch" /\ cancelled' => \A n \in Node : status'[n] \notin {"Pending", "Ready"}
    BY <1>0, <1>1, <1>4 DEF SweepAborted, SweepCancelled, DropFutures, CancelUnstarted, NodeTypeOK
  <2>4. dpc = "sweep" /\ aborted => futures' = {}
    BY <1>4 DEF SweepAborted, SweepCancelled, DropFutures
  <2>5. dpc = "sweepCancel" => futures' = futures
    BY <1>4 DEF SweepAborted, SweepCancelled, pollVars
  <2>. QED BY <1>0, <1>1, <2>1, <2>2, <2>3, <2>4, <2>5 DEF UnstartedWatched, AbortWatched
<1>5. CASE Launch \/ Claim \/ InvokeSync \/ InvokeAsync \/ LaunchEnd
  <2>1. /\ dpc \in {"launch", "claim", "invoke"} /\ UNCHANGED <<cancelDriver, driverWoken>>
        /\ dpc' \in {"launch", "claim", "invoke", "complete", "poll"}
        /\ dpc' = "poll" => unpolled' = futures'
        /\ dpc' = "complete" => unpolled' = unpolled
        /\ dpc' = "invoke" => ~cancelled
        /\ dpc = "invoke" \/ futures' = futures
    BY <1>5 DEF Launch, Claim, InvokeSync, InvokeAsync, LaunchEnd, wakeVars
  <2>2. unpolled = {}
    BY <1>0, <2>1 DEF ContractInv, InlineInv, UnpolledKept
  <2>3. Registered' /\ UnstartedWatched'
    BY <1>0, <1>1, <1>2, <2>1 DEF Registered, UnstartedWatched
  <2>4. AbortWatched'
    BY <1>0, <1>1, <2>1 DEF AbortWatched, StopOrder
  <2>5. PolledWatched'
    BY <2>1, <2>2 DEF PolledWatched, Polling, Missed
  <2>. QED BY <2>3, <2>4, <2>5
<1>6. CASE CompleteInline
  <2>1. /\ dpc = "complete" /\ UNCHANGED <<cancelDriver, driverWoken, futures, fired>>
        /\ dpc' = (IF current \in unpolled THEN "poll" ELSE "launch")
        /\ unpolled' = unpolled \ {current}
    BY <1>6 DEF CompleteInline, wakeVars
  <2>2. current \notin futures
    BY <1>0, <2>1 DEF FuturesKept
  <2>3. Registered' /\ UnstartedWatched' /\ AbortWatched'
    BY <1>0, <1>1, <1>2, <2>1 DEF Registered, UnstartedWatched, AbortWatched
  <2>4. PolledWatched'
    BY <1>0, <1>1, <2>1, <2>2 DEF PolledWatched, Polling, Missed
  <2>. QED BY <2>3, <2>4
<1>7. CASE PollNext \/ ChildReady \/ ChildPending \/ ChildWaits \/ PollEnd \/ Continue
  <2>1. /\ dpc \in {"poll", "child", "childWaits", "check"}
        /\ dpc' \in {"poll", "child", "childWaits", "check", "complete", "idle", "sweep"}
        /\ UNCHANGED <<cancelDriver, driverWoken, fired>> /\ futures' \subseteq futures
    BY <1>7 DEF PollNext, ChildReady, ChildPending, ChildWaits, PollEnd, Continue, wakeVars,
                pollVars
  <2>2. Registered' /\ UnstartedWatched' /\ AbortWatched'
    BY <1>0, <1>1, <1>2, <2>1 DEF Registered, UnstartedWatched, AbortWatched
  <2>3. ASSUME NEW n \in futures', Missed(n)', Polling' PROVE Missed(n)
    <3>1. CASE PollNext \/ PollEnd \/ Continue
      BY <1>1, <2>1, <2>3, <3>1 DEF PollNext, PollEnd, Continue, Missed, pollVars
    <3>2. CASE ChildReady
      BY <1>1, <2>1, <2>3, <3>2 DEF ChildReady, Missed
    <3>3. CASE ChildPending
      BY <1>1, <2>1, <2>3, <3>3 DEF ChildPending, Missed
    <3>4. CASE ChildWaits
      BY <1>1, <2>1, <2>3, <3>4 DEF ChildWaits, Missed
    <3>. QED BY <1>7, <3>1, <3>2, <3>3, <3>4
  <2>4. PolledWatched'
    BY <1>0, <2>1, <2>3 DEF PolledWatched, Polling
  <2>. QED BY <2>2, <2>4
<1>8. CASE Finish
  BY <1>0, <1>1, <1>2, <1>8 DEF Finish, Registered, UnstartedWatched, AbortWatched,
                                PolledWatched, Polling, wakeVars
<1>. QED BY <1>3, <1>4, <1>5, <1>6, <1>7, <1>8 DEF DriverStep

LEMMA StrandStep == StrandInv /\ [Next]_vars => StrandInv'
<1> SUFFICES ASSUME StrandInv, [Next]_vars
             PROVE  Registered' /\ UnstartedWatched' /\ AbortWatched' /\ PolledWatched'
  BY ContractStep DEF StrandInv
<1>0. /\ TypeOK /\ Registered /\ UnstartedWatched /\ AbortWatched /\ PolledWatched
      /\ cpc \in [Calls -> CallPc]
  BY DEF StrandInv, ContractInv, InlineInv, TypeOK
<1>1. ~PollRun => (Alarm => Alarm')
  BY <1>0, AlarmStays
<1>2. CASE PollRun
  BY <1>2 DEF PollRun, GoTo, Registered, UnstartedWatched, AbortWatched, PolledWatched, Polling
<1>3. CASE DriverStep /\ ~PollRun
  BY <1>1, <1>3, StrandDriver
<1>4. ASSUME Alarm', Registered'
      PROVE  Registered' /\ UnstartedWatched' /\ AbortWatched' /\ PolledWatched'
  BY <1>4 DEF UnstartedWatched, AbortWatched, PolledWatched
<1>5. ASSUME UNCHANGED <<dpc, pollVars, nodeVars, cancelled, aborted, fired>>,
             Alarm => Alarm', Registered'
      PROVE  Registered' /\ UnstartedWatched' /\ AbortWatched' /\ PolledWatched'
  BY <1>0, <1>5 DEF UnstartedWatched, AbortWatched, PolledWatched, Polling, Missed, pollVars,
                    nodeVars
<1>6. ASSUME NEW c \in Calls, BeginCall(c) \/ StoreAborted(c)
      PROVE  Registered' /\ UnstartedWatched' /\ AbortWatched' /\ PolledWatched'
  <2>1. /\ UNCHANGED <<dpc, cancelDriver, driverWoken, taken>>
        /\ cpc'[c] \in {"storeAborted", "takeDriver"}
    BY <1>0, <1>6 DEF BeginCall, StoreAborted, Goes, wakeVars
  <2>2. Registered'
    BY <1>0, <2>1 DEF Registered
  <2>3. CASE dpc = "register"
    BY <2>1, <2>2, <2>3 DEF UnstartedWatched, AbortWatched, PolledWatched, Polling
  <2>4. CASE dpc # "register"
    <3>1. Alarm'
      BY <1>0, <2>1, <2>4 DEF Registered, Alarm
    <3>. QED BY <1>4, <2>2, <3>1
  <2>. QED BY <2>3, <2>4
<1>7. ASSUME NEW c \in Calls, TakeDriver(c) \/ TakeWaiters(c) \/ WakeTaken(c)
      PROVE  Registered' /\ UnstartedWatched' /\ AbortWatched' /\ PolledWatched'
  <2>1. UNCHANGED <<dpc, pollVars, nodeVars, cancelled, aborted, fired>>
    BY <1>7 DEF TakeDriver, TakeWaiters, WakeTaken, stopVars
  <2>2. Registered'
    BY <1>0, <1>7 DEF TakeDriver, TakeWaiters, WakeTaken, Registered
  <2>3. PollRun => dpc' = "register" /\ dpc = "idle"
    BY DEF PollRun, GoTo
  <2>. QED BY <1>1, <1>5, <2>1, <2>2, <2>3
<1>8. ASSUME NEW n \in Node, Fire(n)
      PROVE  Registered' /\ UnstartedWatched' /\ AbortWatched' /\ PolledWatched'
  BY <1>4, <1>8 DEF Fire, Alarm, Registered
<1>9. CASE UNCHANGED vars
  <2>1. UNCHANGED <<dpc, pollVars, nodeVars, cancelled, aborted, fired, cancelDriver,
                    driverWoken, taken, cpc>>
    BY <1>9 DEF vars, stopVars, wakeVars, ctlVars
  <2>2. Registered' /\ (Alarm => Alarm')
    BY <1>0, <2>1 DEF Registered, Alarm
  <2>. QED BY <1>5, <2>1, <2>2
<1>. QED BY <1>2, <1>3, <1>6, <1>7, <1>8, <1>9 DEF Next, Finished, CallStep

\* No wakeup is lost by an inline run, whichever of its looks at a flag or at a
\* future a stop or an event falls behind.
THEOREM InlineDriverIsWoken == Spec => []NoStrandedDriver
<1>1. Init => StrandInv
  <2>1. Init => ContractInv
    BY ContractStart
  <2>. QED BY <2>1 DEF Init, StrandInv, Registered, UnstartedWatched, AbortWatched,
                       PolledWatched, Alarm
<1>2. StrandInv => NoStrandedDriver
  <2> SUFFICES ASSUME StrandInv, dpc = "idle",
                      \/ cancelled /\ \E n \in Node : status[n] \in {"Pending", "Ready"}
                      \/ aborted /\ futures # {}
                      \/ futures \cap fired # {}
                      \/ cancelled /\ futures \cap Aware # {}
               PROVE  Alarm
    BY DEF NoStrandedDriver, Alarm
  <2>1. unpolled = {}
    BY DEF StrandInv, ContractInv, InlineInv, UnpolledKept
  <2>. QED BY <2>1 DEF StrandInv, UnstartedWatched, AbortWatched, PolledWatched, Polling, Missed
<1>. QED BY <1>1, <1>2, StrandStep, PTL DEF Spec

-----------------------------------------------------------------------------
(* What is proved of the contract, then, holds of the run.                 *)

Promises == INSTANCE RunContract_proof WITH stop <- cancelled

LEMMA SamePlan ==
    /\ Promises!Node = Contract!Node
    /\ \A n : Promises!Succ(n) = Contract!Succ(n) /\ Promises!Pred(n) = Contract!Pred(n)
    /\ \A n, O : Promises!Downstream(n, O) = Contract!Downstream(n, O)
    /\ \A p : Promises!In(p) = Contract!In(p)
    /\ Promises!Open = Contract!Open
  BY DEF Contract!Node, Contract!Succ, Contract!ToSet, Contract!Pred, Contract!In,
         Contract!Open, Contract!Downstream, Promises!Node, Promises!Succ, Promises!ToSet,
         Promises!Pred, Promises!In, Promises!Open, Promises!Downstream

LEMMA SameContract == Contract!Spec => Promises!Spec
<1>1. Contract!Init => Promises!Init
  BY SamePlan DEF Contract!Init, Promises!Init
<1>2. [Contract!Next]_(Contract!vars) => [Promises!Next]_(Promises!vars)
  BY SamePlan
     DEF Contract!Next, Contract!RequestStop, Contract!Claim, Contract!Commit, Contract!Fail,
         Contract!Discard, Contract!Return, Contract!vars, Promises!Next,
         Promises!RequestStop, Promises!Claim, Promises!Commit, Promises!Fail,
         Promises!Discard, Promises!Return, Promises!vars
<1>. QED BY <1>1, <1>2, PTL DEF Contract!Spec, Promises!Spec

LEMMA SameInvariant == Promises!Inv <=> Contract!Inv
  BY SamePlan
     DEF Promises!Inv, Promises!TypeOK, Promises!Phase, Promises!Outcome,
         Promises!StartedAfterInputs, Promises!FailureSettles, Promises!BlockedHasCause,
         Promises!BlockedNeedsFailure, Promises!BlocksFollowFailures, Promises!Dependents,
         Promises!DiscardNeedsStop, Promises!OutcomeTruthful,
         Contract!Inv, Contract!TypeOK, Contract!Phase, Contract!Outcome,
         Contract!StartedAfterInputs, Contract!FailureSettles, Contract!BlockedHasCause,
         Contract!BlockedNeedsFailure, Contract!BlocksFollowFailures, Contract!Dependents,
         Contract!DiscardNeedsStop, Contract!OutcomeTruthful

\* In an inline run too nothing waits for a node that can never start, a report is
\* truthful and complete, a settled node keeps its verdict and no task starts or
\* commits after a stop, for every plan, outcome of the tasks and set of calls.
THEOREM InlineKeepsPromises ==
    Spec => []Contract!Inv /\ Contract!SettledIsFinal /\ Contract!StopFreezes
<1>1. Spec => Promises!Spec
  BY InlineKeepsContract, SameContract DEF ImplementsContract
<1> USE PlanAssumption
    DEF Promises!Node, Node, Promises!IsInjective, IsInjective, Promises!ToSet, ToSet
<1>2. Promises!Spec => []Promises!Inv
  BY Promises!ContractInvariant
<1>3. Promises!Spec => Promises!SettledIsFinal
  BY Promises!SettledStays
<1>4. Promises!Spec => Promises!StopFreezes
  BY Promises!StopIsFinal
<1>5. [Promises!SettledStep]_(Promises!vars) => [Contract!SettledStep]_(Contract!vars)
  BY SamePlan DEF Promises!SettledStep, Promises!Settled, Promises!vars,
                  Contract!SettledStep, Contract!Settled, Contract!vars
<1>6. [Promises!StopFreezesStep]_(Promises!vars) => [Contract!StopFreezesStep]_(Contract!vars)
  BY SamePlan DEF Promises!StopFreezesStep, Promises!vars,
                  Contract!StopFreezesStep, Contract!vars
<1>. QED BY <1>1, <1>2, <1>3, <1>4, <1>5, <1>6, SameInvariant, PTL
         DEF Promises!SettledIsFinal, Promises!StopFreezes,
             Contract!SettledIsFinal, Contract!StopFreezes
=============================================================================
