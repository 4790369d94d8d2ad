------------------------- MODULE DispatchRun_proof -------------------------
(***************************************************************************)
(* Proofs about DispatchRun, for every plan, every host and every set of   *)
(* control calls: its types, one executor per task, the order of the books *)
(* of the run, and that it keeps the promises of RunContract.              *)
(***************************************************************************)
EXTENDS DispatchRun, RunNodes_proof

USE DEF Status, Settled, ErrorKind, Event, DriverPc, JobPc, CallPc

-----------------------------------------------------------------------------
(* Type correctness. *)

LEMMA TypeInit == Init => TypeOK
<1> SUFFICES ASSUME Init PROVE TypeOK
  OBVIOUS
<1>1. NodeTypeOK
  BY NodeInitType DEF Init
<1>2. DriverTypeOK
  BY NodeRange DEF Init, DriverTypeOK
<1>3. SharedTypeOK /\ JobTypeOK /\ HostTypeOK
  <2>1. SharedTypeOK
    <3>1. waiters \subseteq Node /\ events \in Seq([node : Node, kind : Event])
      BY DEF Init
    <3>2. /\ cancelled = FALSE /\ aborted = FALSE /\ retired = FALSE /\ gate = FALSE
          /\ cancelDriver = FALSE /\ queueDriver = FALSE
      BY DEF Init
    <3>. QED BY <3>1, <3>2 DEF SharedTypeOK
  <2>2. JobTypeOK
    <3>1. jpc \in [Node -> JobPc]
      BY "none" \in JobPc DEF Init
    <3>4. event \in [Node -> Event]
      BY "Cancelled" \in Event DEF Init
    <3>2. holds \in [Node -> {"nothing", "task", "future"}] /\ claimed \subseteq Node
      BY DEF Init
    <3>3. catchUp \in [Node -> BOOLEAN]
      BY DEF Init
    <3>. QED BY <3>1, <3>2, <3>3, <3>4 DEF JobTypeOK
  <2>3. HostTypeOK
    BY DEF Init, HostTypeOK
  <2>. QED BY <2>1, <2>2, <2>3
<1>4. CallTypeOK
  BY DEF Init, CallTypeOK
<1>. QED BY <1>1, <1>2, <1>3, <1>4 DEF TypeOK

\* What a step leaves alone keeps its type.
LEMMA TypeFrame ==
    /\ NodeTypeOK /\ UNCHANGED nodeVars => NodeTypeOK'
    /\ DriverTypeOK /\ UNCHANGED drvVars => DriverTypeOK'
    /\ SharedTypeOK /\ UNCHANGED <<flagVars, gate, wakeVars, events>> => SharedTypeOK'
    /\ JobTypeOK /\ UNCHANGED jobVars => JobTypeOK'
    /\ HostTypeOK /\ UNCHANGED hostVars => HostTypeOK'
    /\ CallTypeOK /\ UNCHANGED ctlVars => CallTypeOK'
<1>1. NodeTypeOK /\ UNCHANGED nodeVars => NodeTypeOK'
  BY DEF NodeTypeOK, nodeVars
<1>2. DriverTypeOK /\ UNCHANGED drvVars => DriverTypeOK'
  BY DEF DriverTypeOK, drvVars
<1>3. SharedTypeOK /\ UNCHANGED <<flagVars, gate, wakeVars, events>> => SharedTypeOK'
  BY DEF SharedTypeOK, flagVars, wakeVars
<1>4. JobTypeOK /\ UNCHANGED jobVars => JobTypeOK'
  BY DEF JobTypeOK, jobVars
<1>5. HostTypeOK /\ UNCHANGED hostVars => HostTypeOK'
  BY DEF HostTypeOK, hostVars
<1>6. CallTypeOK /\ UNCHANGED ctlVars => CallTypeOK'
  BY DEF CallTypeOK, ctlVars
<1>. QED BY <1>1, <1>2, <1>3, <1>4, <1>5, <1>6

LEMMA TypeDriver == ASSUME TypeOK, DriverStep PROVE TypeOK'
<1>0. NodeTypeOK /\ DriverTypeOK /\ SharedTypeOK /\ JobTypeOK /\ HostTypeOK /\ CallTypeOK
  BY DEF TypeOK
<1>1. CASE PollRun
  <2>1. DriverTypeOK' /\ HostTypeOK'
    BY <1>0, <1>1 DEF PollRun, BeginPoll, GoTo, DriverTypeOK, HostTypeOK
  <2>. QED BY <1>0, <1>1, <2>1, TypeFrame DEF PollRun, BeginPoll, TypeOK
<1>2. CASE RegisterCancelDriver \/ RegisterQueueDriver
  <2>1. DriverTypeOK' /\ SharedTypeOK'
    <3>1. DriverTypeOK'
      BY <1>0, <1>2 DEF RegisterCancelDriver, RegisterQueueDriver, GoTo, DriverTypeOK
    <3>2. SharedTypeOK'
      BY <1>0, <1>2 DEF RegisterCancelDriver, RegisterQueueDriver, SharedTypeOK, flagVars
    <3>. QED BY <3>1, <3>2
  <2>2. UNCHANGED <<nodeVars, jobVars, hostVars, ctlVars>>
    BY <1>2 DEF RegisterCancelDriver, RegisterQueueDriver
  <2>. QED BY <1>0, <2>1, <2>2, TypeFrame DEF TypeOK
<1>3. CASE Initialize
  <2>1. NodeTypeOK'
    BY <1>0, <1>3, TypeFrame, CancelUnstartedType, QueueRootsType DEF Initialize
  <2>2. DriverTypeOK'
    BY <1>0, <1>3 DEF Initialize, GoTo, DriverTypeOK
  <2>. QED BY <1>0, <1>3, <2>1, <2>2, TypeFrame DEF Initialize, TypeOK
<1>4. ASSUME NEW e \in [node : Node, kind : Event],
             IgnoreEvent(e) \/ CommitEvent(e) \/ DiscardEvent(e) \/ FailEvent(e)
      PROVE  TypeOK'
  <2>1. Receive(e) /\ e.node \in Node
    BY <1>4 DEF IgnoreEvent, CommitEvent, DiscardEvent, FailEvent
  <2>2. NodeTypeOK'
    <3>1. CASE IgnoreEvent(e)
      BY <1>0, <3>1, TypeFrame DEF IgnoreEvent
    <3>2. CASE CommitEvent(e)
      BY <1>0, <3>2, <2>1, CommitNodeType DEF CommitEvent
    <3>3. CASE DiscardEvent(e)
      BY <1>0, <3>3, <2>1 DEF DiscardEvent, CancelNode, NodeTypeOK
    <3>4. CASE FailEvent(e)
      <4>1. Kind(e) \in ErrorKind
        BY <3>4 DEF FailEvent, Commits, Discards, Kind
      <4>. QED BY <1>0, <2>1, <3>4, <4>1, FailNodeType DEF FailEvent, NodeTypeOK
    <3>. QED BY <1>4, <3>1, <3>2, <3>3, <3>4
  <2>3. DriverTypeOK'
    BY <1>0, <2>1 DEF Receive, DriverTypeOK
  <2>4. SharedTypeOK'
    BY <1>0, <2>1 DEF Receive, SharedTypeOK, flagVars, wakeVars
  <2>. QED BY <1>0, <2>1, <2>2, <2>3, <2>4, TypeFrame DEF Receive, TypeOK
<1>5. CASE DrainEmpty \/ LaunchEnd \/ DispatchAccepted \/ Finish \/ Continue
  <2>1. DriverTypeOK'
    BY <1>0, <1>5, NodeRange DEF DrainEmpty, LaunchEnd, DispatchAccepted, Finish,
         Continue, GoTo, DriverTypeOK
  <2>. QED BY <1>0, <1>5, <2>1, TypeFrame
           DEF DrainEmpty, LaunchEnd, DispatchAccepted, Finish, Continue, TypeOK
<1>6. CASE Sweep
  <2>1. NodeTypeOK'
    BY <1>0, <1>6, TypeFrame, CancelUnstartedType DEF Sweep
  <2>2. DriverTypeOK'
    BY <1>0, <1>6 DEF Sweep, GoTo, DriverTypeOK
  <2>. QED BY <1>0, <1>6, <2>1, <2>2, TypeFrame DEF Sweep, TypeOK
<1>7. CASE Launch
  <2> DEFINE n == Head(ready)
  <2>1. n \in Node /\ ready' \in Seq(Node)
    BY <1>0, <1>7 DEF Launch, NodeTypeOK
  <2>2. n \in 0..N
    BY <2>1, NodeRange
  <2>3. SharedTypeOK' /\ CallTypeOK'
    BY <1>0, <1>7, TypeFrame DEF Launch
  <2>4. CASE status[n] # "Ready"
    <3>1. NodeTypeOK' /\ DriverTypeOK'
      BY <1>0, <1>7, <2>1, <2>4 DEF Launch, NodeTypeOK, DriverTypeOK
    <3>2. JobTypeOK' /\ HostTypeOK'
      BY <1>0, <1>7, <2>4 DEF Launch, JobTypeOK, HostTypeOK
    <3>. QED BY <2>3, <3>1, <3>2 DEF TypeOK
  <2>5. CASE status[n] = "Ready" /\ Pred(n) \subseteq outputs
    <3>1. progressed' = TRUE /\ Submit(n)
      BY <1>7, <2>5 DEF Launch
    <3>2. NodeTypeOK' /\ DriverTypeOK'
      BY <1>0, <1>7, <2>1, <2>2, <3>1 DEF Launch, Submit, GoTo, NodeTypeOK, DriverTypeOK
    <3>3. JobTypeOK' /\ HostTypeOK'
      BY <1>0, <1>7, <2>1, <3>1 DEF Launch, Submit, JobTypeOK, HostTypeOK
    <3>. QED BY <2>3, <3>2, <3>3 DEF TypeOK
  <2>6. CASE status[n] = "Ready" /\ ~(Pred(n) \subseteq outputs)
    <3>1. progressed' = TRUE /\ FailNode(n, "Internal")
          /\ UNCHANGED <<dpc, current, jpc, holds, jobWoken>>
      BY <1>7, <2>6 DEF Launch
    <3>2. NodeTypeOK'
      BY <1>0, <2>1, <3>1, FailNodeType
    <3>3. DriverTypeOK' /\ JobTypeOK' /\ HostTypeOK'
      BY <1>0, <1>7, <3>1 DEF Launch, DriverTypeOK, JobTypeOK, HostTypeOK
    <3>. QED BY <2>3, <3>2, <3>3 DEF TypeOK
  <2>. QED BY <2>4, <2>5, <2>6
<1>8. CASE DispatchRejected
  <2>1. NodeTypeOK'
    BY <1>0, <1>8, FailNodeType DEF DispatchRejected, DriverTypeOK, NodeTypeOK
  <2>2. DriverTypeOK'
    BY <1>0, <1>8, NodeRange DEF DispatchRejected, GoTo, DriverTypeOK
  <2>. QED BY <1>0, <1>8, <2>1, <2>2, TypeFrame DEF DispatchRejected, TypeOK
<1>. QED BY <1>1, <1>2, <1>3, <1>4, <1>5, <1>6, <1>7, <1>8 DEF DriverStep

LEMMA TypeJob == ASSUME TypeOK, NEW n \in Node, JobStep(n) PROVE TypeOK'
<1>0. NodeTypeOK /\ DriverTypeOK /\ SharedTypeOK /\ JobTypeOK /\ HostTypeOK /\ CallTypeOK
  BY DEF TypeOK
<1> USE DEF Become, Release, Report
<1>1. CASE PollJob(n)
  <2>1. JobTypeOK' /\ HostTypeOK'
    BY <1>0, <1>1 DEF PollJob, BeginJobPoll, JobTypeOK, HostTypeOK
  <2>. QED BY <1>0, <1>1, <2>1, TypeFrame DEF PollJob, BeginJobPoll, TypeOK, runVars
<1>2. CASE LoadAborted(n)
  <2>1. JobTypeOK'
    BY <1>0, <1>2 DEF LoadAborted, JobTypeOK
  <2>. QED BY <1>0, <1>2, <2>1, TypeFrame DEF LoadAborted, TypeOK, runVars
<1>3. CASE Claim(n)
  <2>1. JobTypeOK' /\ SharedTypeOK'
    <3>1. JobTypeOK'
      BY <1>0, <1>3 DEF Claim, JobTypeOK
    <3>2. SharedTypeOK'
      BY <1>0, <1>3 DEF Claim, SharedTypeOK, flagVars, wakeVars
    <3>. QED BY <3>1, <3>2
  <2>. QED BY <1>0, <1>3, <2>1, TypeFrame DEF Claim, TypeOK, runVars
<1>4. CASE InvokeSync(n) \/ InvokeAsync(n) \/ ChildReady(n) \/ ChildPending(n)
  <2>1. JobTypeOK'
    <3>1. Results \subseteq Event
      BY HostAssumption
    <3>2. CASE InvokeSync(n)
      BY <1>0, <3>1, <3>2 DEF InvokeSync, JobTypeOK
    <3>3. CASE InvokeAsync(n)
      BY <1>0, <3>3 DEF InvokeAsync, JobTypeOK
    <3>4. CASE ChildReady(n)
      BY <1>0, <3>1, <3>4 DEF ChildReady, JobTypeOK
    <3>5. CASE ChildPending(n)
      BY <1>0, <3>5 DEF ChildPending, JobTypeOK
    <3>. QED BY <1>4, <3>2, <3>3, <3>4, <3>5
  <2>. QED BY <1>0, <1>4, <2>1, TypeFrame
           DEF InvokeSync, InvokeAsync, ChildReady, ChildPending, TypeOK, runVars
<1>5. CASE RegisterWaiter(n)
  <2>1. JobTypeOK' /\ SharedTypeOK'
    BY <1>0, <1>5 DEF RegisterWaiter, JobTypeOK, SharedTypeOK, flagVars
  <2>. QED BY <1>0, <1>5, <2>1, TypeFrame DEF RegisterWaiter, TypeOK, runVars
<1>6. CASE RecheckRetired(n) \/ DropFields(n)
  <2>1. JobTypeOK'
    BY <1>0, <1>6 DEF RecheckRetired, DropFields, JobTypeOK
  <2>. QED BY <1>0, <1>6, <2>1, TypeFrame DEF RecheckRetired, DropFields, TypeOK, runVars
<1>7. CASE RecheckAborted(n)
  <2>1. JobTypeOK' /\ HostTypeOK'
    BY <1>0, <1>7 DEF RecheckAborted, JobTypeOK, HostTypeOK
  <2>. QED BY <1>0, <1>7, <2>1, TypeFrame DEF RecheckAborted, TypeOK, runVars
<1>8. CASE PushEvent(n)
  <2>1. JobTypeOK'
    BY <1>0, <1>8 DEF PushEvent, Pushing, JobTypeOK
  <2>2. [node |-> n, kind |-> event[n]] \in [node : Node, kind : Event]
    BY <1>0 DEF JobTypeOK
  <2>3. SharedTypeOK'
    BY <1>0, <1>8, <2>2 DEF PushEvent, SharedTypeOK, flagVars, wakeVars
  <2>. QED BY <1>0, <1>8, <2>1, <2>3, TypeFrame DEF PushEvent, TypeOK, runVars
<1>9. CASE WakeDriver(n)
  <2>1. JobTypeOK'
    BY <1>0, <1>9 DEF WakeDriver, Waking, JobTypeOK
  <2>2. HostTypeOK'
    <3>1. driverWoken' \in BOOLEAN
      BY <1>0, <1>9 DEF WakeDriver, HostTypeOK, SharedTypeOK
    <3>. QED BY <1>0, <1>9, <3>1 DEF WakeDriver, HostTypeOK
  <2>3. SharedTypeOK'
    <3>1. gate' \in BOOLEAN
      BY <1>0, <1>9 DEF WakeDriver, SharedTypeOK
    <3>. QED BY <1>0, <1>9, <3>1 DEF WakeDriver, SharedTypeOK, flagVars
  <2>. QED BY <1>0, <1>9, <2>1, <2>2, <2>3, TypeFrame DEF WakeDriver, TypeOK, runVars
<1>. QED BY <1>1, <1>2, <1>3, <1>4, <1>5, <1>6, <1>7, <1>8, <1>9 DEF JobStep

LEMMA TypeCall == ASSUME TypeOK, NEW c \in Calls, BeginCall(c) \/ CallStep(c) PROVE TypeOK'
<1>0. NodeTypeOK /\ DriverTypeOK /\ SharedTypeOK /\ JobTypeOK /\ HostTypeOK /\ CallTypeOK
  BY DEF TypeOK
<1> USE DEF Goes
<1>1. CASE BeginCall(c)
  <2>1. SharedTypeOK'
    <3>1. gate' \in BOOLEAN
      BY <1>1 DEF BeginCall
    <3>2. cancelled' \in BOOLEAN /\ retired' \in BOOLEAN
      BY <1>0, <1>1 DEF BeginCall, SharedTypeOK
    <3>. QED BY <1>0, <1>1, <3>1, <3>2 DEF BeginCall, SharedTypeOK, wakeVars
  <2>2. CallTypeOK'
    BY <1>0, <1>1 DEF BeginCall, CallTypeOK
  <2>3. DriverTypeOK'
    BY <1>0, <1>1 DEF BeginCall, GoTo, DriverTypeOK
  <2>. QED BY <1>0, <1>1, <2>1, <2>2, <2>3, TypeFrame DEF BeginCall, TypeOK
<1>2. CASE StoreCancelled(c) \/ StoreAborted(c)
  <2>1. SharedTypeOK' /\ CallTypeOK'
    BY <1>0, <1>2 DEF StoreCancelled, StoreAborted, SharedTypeOK, CallTypeOK, wakeVars
  <2>. QED BY <1>0, <1>2, <2>1, TypeFrame DEF StoreCancelled, StoreAborted, TypeOK, runVars
<1>3. CASE TakeDriver(c) \/ TakeWaiters(c)
  <2>1. SharedTypeOK'
    BY <1>0, <1>3 DEF TakeDriver, TakeWaiters, SharedTypeOK, flagVars
  <2>2. CallTypeOK'
    <3>1. cpc' \in [Calls -> CallPc]
      BY <1>0, <1>3 DEF TakeDriver, TakeWaiters, CallTypeOK
    <3>2. taken[c].driver \in BOOLEAN /\ taken[c].jobs \in SUBSET Node
      BY <1>0 DEF CallTypeOK
    <3>3. cancelDriver \in BOOLEAN /\ waiters \in SUBSET Node
      BY <1>0 DEF SharedTypeOK
    <3>4. taken' \in [Calls -> [driver : BOOLEAN, jobs : SUBSET Node]]
      <4>1. CASE TakeDriver(c)
        BY <1>0, <3>3, <4>1 DEF TakeDriver, CallTypeOK
      <4>2. CASE TakeWaiters(c)
        BY <1>0, <3>3, <4>2 DEF TakeWaiters, CallTypeOK
      <4>. QED BY <1>3, <4>1, <4>2
    <3>. QED BY <3>1, <3>4 DEF CallTypeOK
  <2>. QED BY <1>0, <1>3, <2>1, <2>2, TypeFrame DEF TakeDriver, TakeWaiters, TypeOK, runVars
<1>4. CASE WakeTaken(c)
  <2>1. HostTypeOK' /\ CallTypeOK'
    BY <1>0, <1>4 DEF WakeTaken, HostTypeOK, CallTypeOK
  <2>. QED BY <1>0, <1>4, <2>1, TypeFrame DEF WakeTaken, TypeOK, runVars
<1>. QED BY <1>1, <1>2, <1>3, <1>4 DEF CallStep

LEMMA TypeStep == TypeOK /\ [Next]_vars => TypeOK'
<1> SUFFICES ASSUME TypeOK, [Next]_vars PROVE TypeOK'
  OBVIOUS
<1>0. NodeTypeOK /\ DriverTypeOK /\ SharedTypeOK /\ JobTypeOK /\ HostTypeOK /\ CallTypeOK
  BY DEF TypeOK
<1>1. ASSUME NEW n \in Node, Fire(n) \/ HostDrop(n) PROVE TypeOK'
  <2>1. JobTypeOK' /\ HostTypeOK'
    BY <1>0, <1>1 DEF Fire, HostDrop, Become, Report, JobTypeOK, HostTypeOK, jobVars, hostVars
  <2>. QED BY <1>0, <1>1, <2>1, TypeFrame DEF Fire, HostDrop, TypeOK, runVars
<1>2. CASE BeginPoll
  <2>1. DriverTypeOK' /\ HostTypeOK'
    BY <1>0, <1>2 DEF BeginPoll, GoTo, DriverTypeOK, HostTypeOK
  <2>. QED BY <1>0, <1>2, <2>1, TypeFrame DEF BeginPoll, TypeOK
<1>3. ASSUME NEW n \in Node, BeginJobPoll(n) PROVE TypeOK'
  <2>1. JobTypeOK' /\ HostTypeOK'
    BY <1>0, <1>3 DEF BeginJobPoll, Become, Release, JobTypeOK, HostTypeOK
  <2>. QED BY <1>0, <1>3, <2>1, TypeFrame DEF BeginJobPoll, TypeOK, runVars
<1>4. CASE UNCHANGED vars
  BY <1>0, <1>4, TypeFrame DEF vars, runVars, TypeOK
<1>. QED BY <1>1, <1>2, <1>3, <1>4, TypeDriver, TypeJob, TypeCall
         DEF Next, SpuriousPoll, Finished

\* Every variable keeps its type, for every plan and every host.
THEOREM TypeCorrect == Spec => []TypeOK
<1>. QED BY TypeInit, TypeStep, PTL DEF Spec
-----------------------------------------------------------------------------
(* No event strands: the driver never sleeps on an event with nobody left to *)
(* wake it.  The three parts hold together along every step.                  *)

\* The queue holds the driver's waker, unless the driver was woken since it
\* registered or is about to register.
QueueRegistered ==
    dpc \notin {"regCancel", "regQueue"} => driverWoken \/ queueDriver

\* Once the driver found the queue empty, whoever pushes next still has to wake it.
EventAnnounced ==
    dpc \in {"sweep", "launch", "dispatch", "check", "idle"} /\ events # <<>> =>
        \/ driverWoken
        \/ queueDriver /\ \E n \in Node : jpc[n] \in DOMAIN Waking

\* A node gets its job when it leaves Ready, and no earlier.
JobsStarted ==
    /\ \A n \in Node : status[n] \in {"Pending", "Ready"} => jpc[n] = "none"
    /\ ~initialized => \A n \in Node : jpc[n] = "none"
    /\ dpc \in {"drain", "sweep", "launch", "dispatch", "check"} => initialized

EventInv == TypeOK /\ QueueRegistered /\ EventAnnounced /\ JobsStarted

\* A step of the bookkeeping starts no node over.
LEMMA NodesAdvance ==
    ASSUME NodeTypeOK, NEW n \in Node,
           CommitNode(n) \/ CancelNode(n) \/ (\E k \in ErrorKind : FailNode(n, k))
           \/ CancelUnstarted \/ UNCHANGED nodeVars
    PROVE  /\ \A m \in Node : status'[m] \in {"Pending", "Ready"}
                               => status[m] \in {"Pending", "Ready"}
           /\ \A m \in Node : status'[m] = "Running" => status[m] = "Running"
<1>1. CASE CommitNode(n)
  BY <1>1 DEF CommitNode, NodeTypeOK
<1>2. CASE CancelNode(n)
  BY <1>2 DEF CancelNode, NodeTypeOK
<1>3. ASSUME NEW k \in ErrorKind, FailNode(n, k)
      PROVE  \A m \in Node : status'[m] \in {"Failed", "Blocked", status[m]}
  BY <1>3 DEF FailNode, NodeTypeOK
<1>4. CASE CancelUnstarted
  BY <1>4 DEF CancelUnstarted, NodeTypeOK
<1>5. CASE UNCHANGED nodeVars
  BY <1>5 DEF nodeVars
<1>. QED BY <1>1, <1>2, <1>3, <1>4, <1>5

\* What the driver does with an event, seen from the nodes.
LEMMA ReceiveAdvances ==
    ASSUME TypeOK, NEW e \in [node : Node, kind : Event],
           IgnoreEvent(e) \/ CommitEvent(e) \/ DiscardEvent(e) \/ FailEvent(e)
    PROVE  /\ Receive(e) /\ e.node \in Node
           /\ \A m \in Node : status'[m] \in {"Pending", "Ready"}
                               => status[m] \in {"Pending", "Ready"}
           /\ \A m \in Node : status'[m] = "Running" => status[m] = "Running"
<1>1. NodeTypeOK /\ e.node \in Node
  BY DEF TypeOK
<1>2. FailEvent(e) => Kind(e) \in ErrorKind
  BY DEF FailEvent, Commits, Discards, Kind
<1>3. \/ CommitNode(e.node) \/ CancelNode(e.node) \/ UNCHANGED nodeVars
      \/ \E k \in ErrorKind : FailNode(e.node, k)
  BY <1>2 DEF IgnoreEvent, CommitEvent, DiscardEvent, FailEvent
<1>4. Receive(e)
  BY DEF IgnoreEvent, CommitEvent, DiscardEvent, FailEvent
<1>. QED BY <1>1, <1>3, <1>4, NodesAdvance

LEMMA EventInit == Init => EventInv
<1>1. Init => QueueRegistered /\ EventAnnounced /\ JobsStarted
  BY DEF Init, QueueRegistered, EventAnnounced, JobsStarted
<1>. QED BY <1>1, TypeInit DEF EventInv

LEMMA EventDriver == ASSUME EventInv, DriverStep PROVE EventInv'
<1>0. TypeOK /\ QueueRegistered /\ EventAnnounced /\ JobsStarted /\ NodeTypeOK
  BY DEF EventInv, TypeOK
<1>t. TypeOK'
  BY <1>0, TypeDriver
<1> USE DEF GoTo
<1>1. QueueRegistered'
  <2>1. ASSUME NEW e \in [node : Node, kind : Event],
               IgnoreEvent(e) \/ CommitEvent(e) \/ DiscardEvent(e) \/ FailEvent(e)
        PROVE  QueueRegistered'
    BY <1>0, <2>1, ReceiveAdvances DEF Receive, QueueRegistered, wakeVars, hostVars
  <2>2. CASE PollRun \/ RegisterCancelDriver \/ RegisterQueueDriver \/ Initialize
    BY <1>0, <2>2 DEF PollRun, BeginPoll, RegisterCancelDriver, RegisterQueueDriver,
                      Initialize, QueueRegistered, wakeVars, hostVars
  <2>3. CASE DrainEmpty \/ Sweep \/ Launch \/ LaunchEnd
    BY <1>0, <2>3 DEF DrainEmpty, Sweep, Launch, LaunchEnd, Submit,
                      QueueRegistered, wakeVars, hostVars
  <2>4. CASE DispatchAccepted \/ DispatchRejected \/ Finish \/ Continue
    BY <1>0, <2>4 DEF DispatchAccepted, DispatchRejected, Finish, Continue,
                      QueueRegistered, wakeVars, hostVars
  <2>. QED BY <2>1, <2>2, <2>3, <2>4 DEF DriverStep
<1>2. JobsStarted'
  <2>1. ASSUME NEW e \in [node : Node, kind : Event],
               IgnoreEvent(e) \/ CommitEvent(e) \/ DiscardEvent(e) \/ FailEvent(e)
        PROVE  JobsStarted'
    BY <1>0, <2>1, ReceiveAdvances DEF Receive, JobsStarted, jobVars
  <2>2. CASE PollRun \/ RegisterCancelDriver \/ RegisterQueueDriver
    BY <1>0, <2>2 DEF PollRun, BeginPoll, RegisterCancelDriver, RegisterQueueDriver,
                      JobsStarted, jobVars, nodeVars
  <2>3. CASE Initialize
    <3>1. CASE initialized
      BY <1>0, <2>3, <3>1 DEF Initialize, JobsStarted, jobVars, nodeVars
    <3>2. CASE ~initialized
      BY <1>0, <2>3, <3>2 DEF Initialize, JobsStarted, jobVars
    <3>. QED BY <3>1, <3>2
  <2>4. CASE Sweep
    <3>1. \A m \in Node : status'[m] \in {"Pending", "Ready"}
                           => status[m] \in {"Pending", "Ready"}
      BY <1>0, <2>4, PlanAssumption DEF Sweep, CancelUnstarted, nodeVars, NodeTypeOK
    <3>. QED BY <1>0, <2>4, <3>1 DEF Sweep, JobsStarted, jobVars
  <2>5. CASE Launch
    <3> DEFINE n == Head(ready)
    <3>1. n \in Node
      BY <1>0, <2>5 DEF Launch, NodeTypeOK
    <3>2. CASE status[n] # "Ready"
      BY <1>0, <2>5, <3>2 DEF Launch, JobsStarted
    <3>3. CASE status[n] = "Ready" /\ Pred(n) \subseteq outputs
      <4>1. Submit(n) /\ initialized' = initialized /\ dpc = "launch"
        BY <2>5, <3>3 DEF Launch
      <4>. QED BY <1>0, <3>1, <4>1 DEF Submit, JobsStarted, NodeTypeOK
    <3>4. CASE status[n] = "Ready" /\ ~(Pred(n) \subseteq outputs)
      <4>1. FailNode(n, "Internal") /\ UNCHANGED <<dpc, initialized, jpc>>
        BY <2>5, <3>4 DEF Launch
      <4>. QED BY <1>0, <3>1, <4>1, NodesAdvance DEF JobsStarted
    <3>. QED BY <3>2, <3>3, <3>4
  <2>6. CASE DispatchRejected
    <3>1. current \in Node
      BY <1>0, <2>6 DEF DispatchRejected, TypeOK, DriverTypeOK
    <3>. QED BY <1>0, <2>6, <3>1, NodesAdvance DEF DispatchRejected, JobsStarted, jobVars
  <2>7. CASE DrainEmpty \/ LaunchEnd \/ DispatchAccepted \/ Finish \/ Continue
    BY <1>0, <2>7 DEF DrainEmpty, LaunchEnd, DispatchAccepted, Finish, Continue,
                      JobsStarted, jobVars, nodeVars
  <2>. QED BY <2>1, <2>2, <2>3, <2>4, <2>5, <2>6, <2>7 DEF DriverStep
<1>3. EventAnnounced'
  <2>1. ASSUME NEW e \in [node : Node, kind : Event],
               IgnoreEvent(e) \/ CommitEvent(e) \/ DiscardEvent(e) \/ FailEvent(e)
        PROVE  EventAnnounced'
    BY <2>1, <1>0, ReceiveAdvances DEF Receive, EventAnnounced
  <2>2. CASE PollRun \/ RegisterCancelDriver \/ RegisterQueueDriver \/ Initialize
    BY <2>2 DEF PollRun, BeginPoll, RegisterCancelDriver, RegisterQueueDriver,
                Initialize, EventAnnounced
  <2>3. CASE DrainEmpty \/ Sweep \/ LaunchEnd
    BY <1>0, <2>3 DEF DrainEmpty, Sweep, LaunchEnd, EventAnnounced, wakeVars, hostVars, jobVars
  <2>4. CASE Launch
    <3> DEFINE n == Head(ready)
    <3>1. n \in Node
      BY <1>0, <2>4 DEF Launch, NodeTypeOK
    <3>2. \A m \in Node : jpc[m] \in DOMAIN Waking => jpc'[m] = jpc[m]
      <4>1. status[n] = "Ready" => jpc[n] = "none"
        BY <1>0, <3>1 DEF JobsStarted
      <4>. QED BY <1>0, <2>4, <3>1, <4>1 DEF Launch, Submit, Waking, TypeOK, JobTypeOK
    <3>3. /\ dpc = "launch" /\ driverWoken' = driverWoken
          /\ queueDriver' = queueDriver /\ events' = events
      BY <2>4 DEF Launch, wakeVars
    <3>. QED BY <1>0, <3>2, <3>3 DEF EventAnnounced
  <2>5. CASE DispatchAccepted \/ DispatchRejected \/ Finish \/ Continue
    BY <1>0, <2>5 DEF DispatchAccepted, DispatchRejected, Finish, Continue,
                      EventAnnounced, wakeVars, hostVars, jobVars
  <2>. QED BY <2>1, <2>2, <2>3, <2>4, <2>5 DEF DriverStep
<1>. QED BY <1>t, <1>1, <1>2, <1>3 DEF EventInv

\* The steps of a job that neither push nor wake: its own place changes, and
\* what the driver can see of it does not.
Inward(n) ==
    \/ BeginJobPoll(n) \/ LoadAborted(n) \/ Claim(n) \/ InvokeSync(n) \/ InvokeAsync(n)
    \/ ChildReady(n) \/ ChildPending(n) \/ RegisterWaiter(n) \/ RecheckRetired(n)
    \/ RecheckAborted(n) \/ DropFields(n) \/ Fire(n) \/ HostDrop(n)

LEMMA InwardFrame ==
    ASSUME TypeOK, NEW n \in Node, Inward(n)
    PROVE  /\ UNCHANGED <<runVars, flagVars, events, driverWoken, queueDriver, cancelDriver,
                          ctlVars>>
           /\ \A m \in Node : jpc[m] \in DOMAIN Waking \/ jpc[m] = "none"
                               => jpc'[m] = jpc[m]
           /\ \A m \in Node \ {n} : jpc'[m] = jpc[m]
<1>0. jpc \in [Node -> JobPc]
  BY DEF TypeOK, JobTypeOK
<1> USE DEF Become, Waking, wakeVars, hostVars, runVars, drvVars, nodeVars, flagVars, ctlVars
<1>1. CASE BeginJobPoll(n) \/ LoadAborted(n) \/ Claim(n)
  BY <1>0, <1>1 DEF BeginJobPoll, LoadAborted, Claim
<1>2. CASE InvokeSync(n) \/ InvokeAsync(n) \/ ChildReady(n) \/ ChildPending(n)
  BY <1>0, <1>2 DEF InvokeSync, InvokeAsync, ChildReady, ChildPending
<1>3. CASE RegisterWaiter(n) \/ RecheckRetired(n) \/ RecheckAborted(n)
  BY <1>0, <1>3 DEF RegisterWaiter, RecheckRetired, RecheckAborted
<1>4. CASE DropFields(n) \/ Fire(n) \/ HostDrop(n)
  BY <1>0, <1>4 DEF DropFields, Fire, HostDrop, jobVars
<1>. QED BY <1>1, <1>2, <1>3, <1>4 DEF Inward

LEMMA PushFrame ==
    ASSUME TypeOK, NEW n \in Node, PushEvent(n)
    PROVE  /\ UNCHANGED <<runVars, flagVars, driverWoken, queueDriver, cancelDriver, ctlVars>>
           /\ jpc[n] \in DOMAIN Pushing /\ jpc'[n] \in DOMAIN Waking
           /\ \A m \in Node \ {n} : jpc'[m] = jpc[m]
           /\ events' = Append(events, [node |-> n, kind |-> event[n]])
  BY DEF TypeOK, JobTypeOK, PushEvent, Pushing, Waking, Become, wakeVars, hostVars

LEMMA WakeFrame ==
    ASSUME TypeOK, NEW n \in Node, WakeDriver(n)
    PROVE  /\ UNCHANGED <<runVars, flagVars, events, cancelDriver, ctlVars>>
           /\ jpc[n] \in DOMAIN Waking /\ jpc'[n] \in {"done", "dropFields"}
           /\ \A m \in Node \ {n} : jpc'[m] = jpc[m]
           /\ driverWoken' = (driverWoken \/ queueDriver)
  BY DEF TypeOK, JobTypeOK, WakeDriver, Waking, Become

LEMMA JobKinds ==
    ASSUME NEW n \in Node, JobStep(n) \/ Fire(n) \/ HostDrop(n) \/ BeginJobPoll(n)
    PROVE  Inward(n) \/ PushEvent(n) \/ WakeDriver(n)
  BY DEF JobStep, PollJob, Inward

LEMMA EventJob ==
    ASSUME EventInv, NEW n \in Node, Inward(n) \/ PushEvent(n) \/ WakeDriver(n)
    PROVE  QueueRegistered' /\ EventAnnounced' /\ JobsStarted'
<1>0. TypeOK /\ QueueRegistered /\ EventAnnounced /\ JobsStarted
  BY DEF EventInv
<1>1. CASE Inward(n)
  BY <1>0, <1>1, InwardFrame
     DEF QueueRegistered, EventAnnounced, JobsStarted, runVars, drvVars, nodeVars
<1>2. CASE PushEvent(n)
  <2>1. jpc[n] # "none" /\ driverWoken' = driverWoken /\ queueDriver' = queueDriver
    BY <1>0, <1>2, PushFrame DEF Pushing
  <2>2. UNCHANGED <<dpc, initialized, status>> /\ jpc'[n] \in DOMAIN Waking
    BY <1>0, <1>2, PushFrame DEF runVars, drvVars, nodeVars
  <2>3. QueueRegistered' /\ EventAnnounced'
    BY <1>0, <2>1, <2>2 DEF QueueRegistered, EventAnnounced
  <2>4. JobsStarted'
    BY <1>0, <1>2, <2>1, <2>2, PushFrame DEF JobsStarted
  <2>. QED BY <2>3, <2>4
<1>3. CASE WakeDriver(n)
  <2>1. jpc[n] # "none" /\ driverWoken' = (driverWoken \/ queueDriver) /\ events' = events
    BY <1>0, <1>3, WakeFrame DEF Waking
  <2>2. UNCHANGED <<dpc, initialized, status>>
    BY <1>0, <1>3, WakeFrame DEF runVars, drvVars, nodeVars
  <2>3. QueueRegistered' /\ EventAnnounced'
    BY <1>0, <2>1, <2>2 DEF QueueRegistered, EventAnnounced
  <2>4. JobsStarted'
    BY <1>0, <1>3, <2>1, <2>2, WakeFrame DEF JobsStarted
  <2>. QED BY <2>3, <2>4
<1>. QED BY <1>1, <1>2, <1>3

LEMMA EventCall ==
    ASSUME EventInv, NEW c \in Calls, BeginCall(c) \/ CallStep(c)
    PROVE  QueueRegistered' /\ EventAnnounced' /\ JobsStarted'
<1>0. TypeOK /\ QueueRegistered /\ EventAnnounced /\ JobsStarted
  BY DEF EventInv
<1> USE DEF QueueRegistered, EventAnnounced, JobsStarted, wakeVars, jobVars, nodeVars
<1>1. CASE BeginCall(c)
  BY <1>0, <1>1 DEF BeginCall, GoTo, hostVars
<1>2. CASE StoreCancelled(c) \/ StoreAborted(c)
  BY <1>0, <1>2 DEF StoreCancelled, StoreAborted, runVars, drvVars, hostVars
<1>3. CASE TakeDriver(c) \/ TakeWaiters(c)
  BY <1>0, <1>3 DEF TakeDriver, TakeWaiters, runVars, drvVars, hostVars
<1>4. CASE WakeTaken(c)
  BY <1>0, <1>4 DEF WakeTaken, runVars, drvVars
<1>. QED BY <1>1, <1>2, <1>3, <1>4 DEF CallStep

LEMMA EventStep == EventInv /\ [Next]_vars => EventInv'
<1> SUFFICES ASSUME EventInv, [Next]_vars PROVE EventInv'
  OBVIOUS
<1>0. TypeOK /\ TypeOK' /\ QueueRegistered /\ EventAnnounced /\ JobsStarted
  BY TypeStep DEF EventInv
<1>1. CASE BeginPoll
  BY <1>0, <1>1 DEF BeginPoll, GoTo, EventInv, QueueRegistered, EventAnnounced, JobsStarted,
                    jobVars, nodeVars
<1>2. CASE UNCHANGED vars
  BY <1>0, <1>2 DEF vars, runVars, drvVars, nodeVars, jobVars, hostVars, wakeVars,
                    EventInv, QueueRegistered, EventAnnounced, JobsStarted
<1>3. ASSUME NEW n \in Node, JobStep(n) \/ Fire(n) \/ HostDrop(n) \/ BeginJobPoll(n)
      PROVE  EventInv'
  BY <1>0, <1>3, JobKinds, EventJob DEF EventInv
<1>4. ASSUME NEW c \in Calls, BeginCall(c) \/ CallStep(c) PROVE EventInv'
  BY <1>0, <1>4, EventCall DEF EventInv
<1>. QED BY <1>1, <1>2, <1>3, <1>4, EventDriver DEF Next, SpuriousPoll, Finished

\* JobQueue loses no wakeup: a driver that sleeps while its queue holds an event
\* is runnable or about to be woken by the job that pushed it.
THEOREM EventsReachDriver == Spec => []NoStrandedEvent
<1>1. EventInv => NoStrandedEvent
  BY DEF EventInv, EventAnnounced, NoStrandedEvent
<1>. QED BY <1>1, EventInit, EventStep, PTL DEF Spec
-----------------------------------------------------------------------------
(* No stop strands: a cancellation or an abort that the driver missed at its  *)
(* last look wakes it.                                                        *)

\* CancelState holds the driver's waker, or a call took it and has yet to use it.
CancelRegistered ==
    /\ dpc # "regCancel" =>
          driverWoken \/ cancelDriver \/ \E c \in Calls : taken[c].driver
    /\ \A c \in Calls : taken[c].driver => cpc[c] \in {"takeWaiters", "wake"}

\* Once the driver looked at the cancel flag, a stop that it missed wakes it.
StopAnnounced ==
    /\ dpc \in {"launch", "dispatch", "check", "idle"} /\ cancelled
    /\ \E n \in Node : status[n] \in {"Pending", "Ready"}
    => \/ driverWoken
       \/ \E c \in Calls : taken[c].driver \/ (Stopping(c) /\ cancelDriver)

StopInv == TypeOK /\ CancelRegistered /\ StopAnnounced

LEMMA StopInit == Init => StopInv
<1>1. Init => CancelRegistered /\ StopAnnounced
  BY DEF Init, CancelRegistered, StopAnnounced
<1>. QED BY <1>1, TypeInit DEF StopInv

LEMMA StopDriver ==
    ASSUME StopInv, DriverStep \/ BeginPoll
    PROVE  CancelRegistered' /\ StopAnnounced'
<1>0. TypeOK /\ CancelRegistered /\ StopAnnounced /\ NodeTypeOK
  BY DEF StopInv, TypeOK
<1> USE DEF GoTo
<1>1. CancelRegistered'
  <2>1. ASSUME NEW e \in [node : Node, kind : Event],
               IgnoreEvent(e) \/ CommitEvent(e) \/ DiscardEvent(e) \/ FailEvent(e)
        PROVE  CancelRegistered'
    BY <1>0, <2>1, ReceiveAdvances DEF Receive, CancelRegistered, wakeVars, hostVars, ctlVars
  <2>2. CASE BeginPoll \/ RegisterCancelDriver \/ RegisterQueueDriver \/ Initialize
    BY <1>0, <2>2 DEF BeginPoll, RegisterCancelDriver, RegisterQueueDriver,
                      Initialize, CancelRegistered, wakeVars, hostVars, ctlVars
  <2>3. CASE DrainEmpty \/ Sweep \/ Launch \/ LaunchEnd
    BY <1>0, <2>3 DEF DrainEmpty, Sweep, Launch, LaunchEnd, Submit,
                      CancelRegistered, wakeVars, hostVars, ctlVars
  <2>4. CASE DispatchAccepted \/ DispatchRejected \/ Finish \/ Continue
    BY <1>0, <2>4 DEF DispatchAccepted, DispatchRejected, Finish, Continue,
                      CancelRegistered, wakeVars, hostVars, ctlVars
  <2>. QED BY <2>1, <2>2, <2>3, <2>4 DEF DriverStep, PollRun
<1>2. StopAnnounced'
  <2>1. ASSUME NEW e \in [node : Node, kind : Event],
               IgnoreEvent(e) \/ CommitEvent(e) \/ DiscardEvent(e) \/ FailEvent(e)
        PROVE  StopAnnounced'
    BY <1>0, <2>1, ReceiveAdvances DEF Receive, StopAnnounced
  <2>2. CASE BeginPoll \/ RegisterCancelDriver \/ RegisterQueueDriver \/ Initialize
    BY <2>2 DEF BeginPoll, RegisterCancelDriver, RegisterQueueDriver, Initialize,
                StopAnnounced
  <2>3. CASE DrainEmpty
    BY <2>3 DEF DrainEmpty, StopAnnounced
  <2>4. CASE Sweep
    BY <1>0, <2>4 DEF Sweep, CancelUnstarted, StopAnnounced, flagVars, NodeTypeOK
  <2>5. CASE Launch
    BY <2>5 DEF Launch, StopAnnounced, flagVars
  <2>6. CASE DispatchRejected
    <3>1. current \in Node
      BY <1>0, <2>6 DEF DispatchRejected, TypeOK, DriverTypeOK
    <3>2. \A m \in Node : status'[m] \in {"Pending", "Ready"}
                           => status[m] \in {"Pending", "Ready"}
      BY <1>0, <2>6, <3>1, NodesAdvance DEF DispatchRejected
    <3>. QED BY <1>0, <2>6, <3>2
             DEF DispatchRejected, StopAnnounced, Stopping, flagVars, wakeVars, hostVars, ctlVars
  <2>7. CASE LaunchEnd \/ DispatchAccepted \/ Finish \/ Continue
    BY <1>0, <2>7 DEF LaunchEnd, DispatchAccepted, Finish, Continue, StopAnnounced, Stopping,
                      flagVars, wakeVars, hostVars, ctlVars, nodeVars
  <2>. QED BY <2>1, <2>2, <2>3, <2>4, <2>5, <2>6, <2>7 DEF DriverStep, PollRun
<1>. QED BY <1>1, <1>2

LEMMA StopJob ==
    ASSUME StopInv, NEW n \in Node, Inward(n) \/ PushEvent(n) \/ WakeDriver(n)
    PROVE  CancelRegistered' /\ StopAnnounced'
<1>1. TypeOK /\ CancelRegistered /\ StopAnnounced
  BY DEF StopInv
<1>2. /\ UNCHANGED <<dpc, status, cancelled, cancelDriver, cpc, taken>>
      /\ driverWoken => driverWoken'
  BY <1>1, InwardFrame, PushFrame, WakeFrame
     DEF runVars, drvVars, nodeVars, flagVars, ctlVars
<1>. QED BY <1>1, <1>2 DEF CancelRegistered, StopAnnounced, Stopping

\* The call of a stop: it keeps its promise to wake, passing it from the
\* registered waker to the taken one, and from there to the driver.
LEMMA StopCall ==
    ASSUME StopInv, NEW c \in Calls, BeginCall(c) \/ CallStep(c)
    PROVE  CancelRegistered' /\ StopAnnounced'
<1>0. TypeOK /\ CancelRegistered /\ StopAnnounced
  BY DEF StopInv
<1>a. /\ cpc \in [Calls -> CallPc]
      /\ taken \in [Calls -> [driver : BOOLEAN, jobs : SUBSET Node]]
  BY <1>0 DEF TypeOK, CallTypeOK
<1> USE DEF Goes, nodeVars, wakeVars, drvVars, runVars, flagVars, hostVars
<1>1. CASE BeginCall(c) \/ StoreCancelled(c) \/ StoreAborted(c)
  <2>1. /\ UNCHANGED <<status, cancelDriver, driverWoken, taken>>
        /\ dpc' \in {dpc, "dropped"}
        /\ (dpc' = "dropped" => dpc \in {"idle", "done", "dropped"})
        /\ cpc[c] \in {"idle", "storeCancelled", "storeAborted"}
    BY <1>1 DEF BeginCall, StoreCancelled, StoreAborted, GoTo
  <2>2. /\ cpc'[c] \in {"storeCancelled", "storeAborted", "takeDriver"}
        /\ \A d \in Calls \ {c} : cpc'[d] = cpc[d]
    BY <1>1, <1>a DEF BeginCall, StoreCancelled, StoreAborted
  <2>3. CancelRegistered'
    BY <1>0, <2>1, <2>2 DEF CancelRegistered
  <2>4. StopAnnounced'
    BY <2>1, <2>2, <2>3 DEF CancelRegistered, StopAnnounced, Stopping
  <2>. QED BY <2>3, <2>4
<1>2. CASE TakeDriver(c)
  <2>1. /\ UNCHANGED <<status, dpc, cancelled, driverWoken>>
        /\ cpc[c] = "takeDriver" /\ cpc'[c] = "takeWaiters"
        /\ taken'[c].driver = cancelDriver
        /\ \A d \in Calls \ {c} : cpc'[d] = cpc[d] /\ taken'[d] = taken[d]
    BY <1>2, <1>a DEF TakeDriver
  <2>2. ~taken[c].driver
    BY <1>0, <2>1 DEF CancelRegistered
  <2>3. CancelRegistered'
    BY <1>0, <2>1, <2>2 DEF CancelRegistered
  <2>4. StopAnnounced'
    BY <1>0, <2>1, <2>2 DEF StopAnnounced
  <2>. QED BY <2>3, <2>4
<1>3. CASE TakeWaiters(c)
  <2>1. /\ UNCHANGED <<status, dpc, cancelled, driverWoken, cancelDriver>>
        /\ cpc[c] = "takeWaiters" /\ cpc'[c] = "wake"
        /\ \A d \in Calls \ {c} : cpc'[d] = cpc[d]
        /\ \A d \in Calls : taken'[d].driver = taken[d].driver
    BY <1>3, <1>a DEF TakeWaiters
  <2>. QED BY <1>0, <2>1 DEF CancelRegistered, StopAnnounced, Stopping
<1>4. CASE WakeTaken(c)
  <2>1. /\ UNCHANGED <<status, dpc, cancelled, cancelDriver>>
        /\ cpc[c] = "wake" /\ ~taken'[c].driver
        /\ \A d \in Calls \ {c} : cpc'[d] = cpc[d] /\ taken'[d] = taken[d]
        /\ driverWoken' = (driverWoken \/ taken[c].driver)
    BY <1>4, <1>a DEF WakeTaken
  <2>. QED BY <1>0, <2>1 DEF CancelRegistered, StopAnnounced, Stopping
<1>. QED BY <1>1, <1>2, <1>3, <1>4 DEF CallStep

LEMMA StopStep == StopInv /\ [Next]_vars => StopInv'
<1> SUFFICES ASSUME StopInv, [Next]_vars PROVE StopInv'
  OBVIOUS
<1>0. TypeOK' /\ CancelRegistered /\ StopAnnounced
  BY TypeStep DEF StopInv
<1>1. CASE UNCHANGED vars
  BY <1>0, <1>1 DEF vars, runVars, drvVars, nodeVars, flagVars, hostVars, wakeVars, ctlVars,
                    StopInv, CancelRegistered, StopAnnounced, Stopping
<1>2. ASSUME NEW n \in Node, JobStep(n) \/ Fire(n) \/ HostDrop(n) \/ BeginJobPoll(n)
      PROVE  StopInv'
  BY <1>0, <1>2, JobKinds, StopJob DEF StopInv
<1>3. ASSUME NEW c \in Calls, BeginCall(c) \/ CallStep(c) PROVE StopInv'
  BY <1>0, <1>3, StopCall DEF StopInv
<1>4. CASE DriverStep \/ BeginPoll
  BY <1>0, <1>4, StopDriver DEF StopInv
<1>. QED BY <1>1, <1>2, <1>3, <1>4 DEF Next, SpuriousPoll, Finished

\* CancelState loses no wakeup: a driver that sleeps on a stopped run with nodes
\* to discard is runnable or about to be woken by the call that stopped it.
THEOREM StopsReachDriver == Spec => []NoStrandedStop
<1>1. StopInv => NoStrandedStop
  BY DEF StopInv, StopAnnounced, NoStrandedStop
<1>. QED BY <1>1, StopInit, StopStep, PTL DEF Spec

-----------------------------------------------------------------------------
(* No orphan: inductive as it stands, given the types. *)

OrphanInv == TypeOK /\ NoOrphan

LEMMA OrphanInit == Init => OrphanInv
<1>1. Init => NoOrphan
  BY DEF Init, NodeInit, NoOrphan
<1>. QED BY <1>1, TypeInit DEF OrphanInv

\* Taking the head off a queue loses the head only.
LEMMA TailKeeps ==
    ASSUME NEW E, NEW q \in Seq(E), q # <<>>, NEW i \in DOMAIN q, i # 1
    PROVE  i - 1 \in DOMAIN Tail(q) /\ Tail(q)[i - 1] = q[i]
  OBVIOUS

LEMMA AppendKeeps ==
    ASSUME NEW E, NEW q \in Seq(E), NEW e \in E
    PROVE  /\ \A i \in DOMAIN q : i \in DOMAIN Append(q, e) /\ Append(q, e)[i] = q[i]
           /\ \E i \in DOMAIN Append(q, e) : Append(q, e)[i] = e
<1>1. Len(q) + 1 \in DOMAIN Append(q, e) /\ Append(q, e)[Len(q) + 1] = e
  OBVIOUS
<1>. QED BY <1>1

LEMMA OrphanReceive ==
    ASSUME OrphanInv, NEW e \in [node : Node, kind : Event],
           IgnoreEvent(e) \/ CommitEvent(e) \/ DiscardEvent(e) \/ FailEvent(e)
    PROVE  NoOrphan'
<1>0. TypeOK /\ NoOrphan /\ NodeTypeOK
  BY DEF OrphanInv, TypeOK
<1>1. /\ Receive(e) /\ e.node \in Node
      /\ \A m \in Node : status'[m] = "Running" => status[m] = "Running"
  BY <1>0, ReceiveAdvances
<1>2. status'[e.node] # "Running"
  <2>1. CASE IgnoreEvent(e)
    BY <2>1 DEF IgnoreEvent, nodeVars
  <2>2. CASE CommitEvent(e)
    BY <1>1, <2>2 DEF CommitEvent, CommitNode
  <2>3. CASE DiscardEvent(e)
    BY <1>0, <1>1, <2>3 DEF DiscardEvent, CancelNode, NodeTypeOK
  <2>4. CASE FailEvent(e)
    BY <1>1, <2>4 DEF FailEvent, FailNode
  <2>. QED BY <2>1, <2>2, <2>3, <2>4
<1>3. events \in Seq([node : Node, kind : Event]) /\ events # <<>>
      /\ e = events[1] /\ events' = Tail(events)
  BY <1>0, <1>1 DEF TypeOK, SharedTypeOK, Receive
<1>4. ASSUME NEW m \in Node, m # e.node, Queued(m) PROVE Queued(m)'
  <2>1. PICK i \in DOMAIN events : events[i].node = m
    BY <1>4 DEF Queued
  <2>2. i # 1
    BY <1>3, <1>4, <2>1
  <2>3. i - 1 \in DOMAIN Tail(events) /\ Tail(events)[i - 1] = events[i]
    BY <1>3, <2>1, <2>2, TailKeeps
  <2>. QED BY <1>3, <2>1, <2>3 DEF Queued
<1>5. UNCHANGED <<jpc, retired>>
  BY <1>1 DEF Receive, jobVars, flagVars
<1>. QED BY <1>0, <1>1, <1>2, <1>4, <1>5 DEF NoOrphan, Acknowledged

LEMMA OrphanDriver == ASSUME OrphanInv, DriverStep \/ BeginPoll PROVE NoOrphan'
<1>0. TypeOK /\ NoOrphan /\ NodeTypeOK
  BY DEF OrphanInv, TypeOK
<1>1. ASSUME /\ \A m \in Node : status'[m] = "Running" => status[m] = "Running"
             /\ UNCHANGED <<jpc, retired, events>>
      PROVE  NoOrphan'
  BY <1>0, <1>1 DEF NoOrphan, Acknowledged, Queued
<1> USE DEF flagVars, jobVars, nodeVars
<1>2. CASE BeginPoll \/ RegisterCancelDriver \/ RegisterQueueDriver
  BY <1>1, <1>2 DEF BeginPoll, RegisterCancelDriver, RegisterQueueDriver
<1>3. CASE Initialize \/ Sweep
  <2>1. CancelUnstarted \/ QueueRoots \/ UNCHANGED nodeVars
    BY <1>3 DEF Initialize, Sweep
  <2>2. \A m \in Node : status'[m] = "Running" => status[m] = "Running"
    BY <1>0, <2>1 DEF CancelUnstarted, QueueRoots, NodeTypeOK
  <2>. QED BY <1>1, <1>3, <2>2 DEF Initialize, Sweep
<1>4. CASE DrainEmpty \/ LaunchEnd \/ DispatchAccepted \/ Finish \/ Continue
  BY <1>1, <1>4 DEF DrainEmpty, LaunchEnd, DispatchAccepted, Finish, Continue
<1>5. CASE DispatchRejected
  <2>1. current \in Node
    BY <1>0, <1>5 DEF DispatchRejected, TypeOK, DriverTypeOK
  <2>. QED BY <1>0, <1>1, <1>5, <2>1, NodesAdvance DEF DispatchRejected
<1>6. CASE Launch
  <2> DEFINE n == Head(ready)
  <2>1. n \in Node /\ UNCHANGED <<retired, events>>
    BY <1>0, <1>6 DEF Launch, NodeTypeOK
  <2>2. CASE status[n] # "Ready"
    BY <1>1, <1>6, <2>1, <2>2 DEF Launch
  <2>3. CASE status[n] = "Ready" /\ Pred(n) \subseteq outputs
    <3>1. Submit(n)
      BY <1>6, <2>3 DEF Launch
    <3>2. /\ jpc'[n] = "idle"
          /\ \A m \in Node \ {n} : jpc'[m] = jpc[m] /\ status'[m] = status[m]
      BY <1>0, <2>1, <3>1 DEF Submit, TypeOK, JobTypeOK, NodeTypeOK
    <3>. QED BY <1>0, <2>1, <3>2 DEF NoOrphan, Acknowledged, Queued
  <2>4. CASE status[n] = "Ready" /\ ~(Pred(n) \subseteq outputs)
    <3>1. FailNode(n, "Internal") /\ jpc' = jpc
      BY <1>6, <2>4 DEF Launch
    <3>. QED BY <1>0, <1>1, <2>1, <3>1, NodesAdvance
  <2>. QED BY <2>2, <2>3, <2>4
<1>. QED BY <1>2, <1>3, <1>4, <1>5, <1>6, OrphanReceive DEF DriverStep, PollRun

LEMMA OrphanJob ==
    ASSUME OrphanInv, NEW n \in Node, Inward(n) \/ PushEvent(n) \/ WakeDriver(n)
    PROVE  NoOrphan'
<1>0. TypeOK /\ NoOrphan
  BY DEF OrphanInv
<1>1. UNCHANGED <<status, retired>>
  BY <1>0, InwardFrame, PushFrame, WakeFrame DEF runVars, nodeVars, flagVars
<1>2. \A m \in Node \ {n} : jpc'[m] = jpc[m]
  BY <1>0, InwardFrame, PushFrame, WakeFrame
<1>p. ASSUME PushEvent(n)
      PROVE  /\ \A i \in DOMAIN events : i \in DOMAIN events' /\ events'[i] = events[i]
             /\ \E i \in DOMAIN events' : events'[i].node = n
  <2> DEFINE Entry == [node : Node, kind : Event]
             pushed == [node |-> n, kind |-> event[n]]
  <2>1. events \in Seq(Entry) /\ pushed \in Entry
    BY <1>0 DEF TypeOK, SharedTypeOK, JobTypeOK
  <2>2. events' = Append(events, pushed) /\ pushed.node = n
    BY <1>0, <1>p, PushFrame
  <2> HIDE DEF Entry, pushed
  <2>. QED BY <2>1, <2>2, AppendKeeps
<1>3. \A m \in Node : Queued(m) => Queued(m)'
  <2>1. CASE PushEvent(n)
    BY <1>p, <2>1 DEF Queued
  <2>2. CASE Inward(n) \/ WakeDriver(n)
    BY <1>0, <2>2, InwardFrame, WakeFrame DEF Queued
  <2>. QED BY <2>1, <2>2
<1>4. ~retired /\ Acknowledged(n)' => Acknowledged(n) \/ Queued(n)'
  <2>1. CASE PushEvent(n)
    BY <1>p, <2>1 DEF Queued
  <2>2. CASE WakeDriver(n)
    BY <1>0, <2>2, WakeFrame DEF Acknowledged, Waking
  <2>3. CASE Inward(n)
    <3>0. jpc \in [Node -> JobPc]
      BY <1>0 DEF TypeOK, JobTypeOK
    <3> USE DEF Become, Acknowledged
    <3>1. CASE BeginJobPoll(n) \/ LoadAborted(n) \/ Claim(n)
      BY <3>0, <3>1 DEF BeginJobPoll, LoadAborted, Claim
    <3>2. CASE InvokeSync(n) \/ InvokeAsync(n) \/ ChildReady(n) \/ ChildPending(n)
      BY <3>0, <3>2 DEF InvokeSync, InvokeAsync, ChildReady, ChildPending
    <3>3. CASE RegisterWaiter(n) \/ RecheckRetired(n) \/ RecheckAborted(n)
      BY <3>0, <3>3 DEF RegisterWaiter, RecheckRetired, RecheckAborted
    <3>4. CASE DropFields(n) \/ Fire(n) \/ HostDrop(n)
      BY <3>0, <3>4 DEF DropFields, Fire, HostDrop, jobVars
    <3>. QED BY <2>3, <3>1, <3>2, <3>3, <3>4 DEF Inward
  <2>. QED BY <2>1, <2>2, <2>3
<1>5. jpc[n] # "none" => jpc'[n] # "none"
  <2>1. CASE PushEvent(n) \/ WakeDriver(n)
    BY <1>0, <2>1, PushFrame, WakeFrame DEF Waking
  <2>2. CASE Inward(n)
    <3>0. jpc \in [Node -> JobPc]
      BY <1>0 DEF TypeOK, JobTypeOK
    <3> USE DEF Become
    <3>1. CASE BeginJobPoll(n) \/ LoadAborted(n) \/ Claim(n)
      BY <3>0, <3>1 DEF BeginJobPoll, LoadAborted, Claim
    <3>2. CASE InvokeSync(n) \/ InvokeAsync(n) \/ ChildReady(n) \/ ChildPending(n)
      BY <3>0, <3>2 DEF InvokeSync, InvokeAsync, ChildReady, ChildPending
    <3>3. CASE RegisterWaiter(n) \/ RecheckRetired(n) \/ RecheckAborted(n)
      BY <3>0, <3>3 DEF RegisterWaiter, RecheckRetired, RecheckAborted
    <3>4. CASE DropFields(n) \/ Fire(n) \/ HostDrop(n)
      BY <3>0, <3>4 DEF DropFields, Fire, HostDrop, jobVars
    <3>. QED BY <2>2, <3>1, <3>2, <3>3, <3>4 DEF Inward
  <2>. QED BY <2>1, <2>2
<1>. QED BY <1>0, <1>1, <1>2, <1>3, <1>4, <1>5 DEF NoOrphan, Acknowledged

LEMMA OrphanStep == OrphanInv /\ [Next]_vars => OrphanInv'
<1> SUFFICES ASSUME OrphanInv, [Next]_vars PROVE OrphanInv'
  OBVIOUS
<1>0. TypeOK' /\ NoOrphan
  BY TypeStep DEF OrphanInv
<1>1. CASE UNCHANGED vars
  BY <1>0, <1>1 DEF vars, runVars, nodeVars, flagVars, jobVars,
                    OrphanInv, NoOrphan, Acknowledged, Queued
<1>2. ASSUME NEW n \in Node, JobStep(n) \/ Fire(n) \/ HostDrop(n) \/ BeginJobPoll(n)
      PROVE  OrphanInv'
  BY <1>0, <1>2, JobKinds, OrphanJob DEF OrphanInv
<1>3. ASSUME NEW c \in Calls, BeginCall(c) \/ CallStep(c) PROVE OrphanInv'
  <2>1. UNCHANGED <<status, jpc, events>> /\ (retired => retired')
    BY <1>3 DEF BeginCall, CallStep, StoreCancelled, StoreAborted, TakeDriver, TakeWaiters,
                WakeTaken, runVars, nodeVars, flagVars, jobVars
  <2>. QED BY <1>0, <2>1 DEF OrphanInv, NoOrphan, Acknowledged, Queued
<1>4. CASE DriverStep \/ BeginPoll
  BY <1>0, <1>4, OrphanDriver DEF OrphanInv
<1>. QED BY <1>1, <1>2, <1>3, <1>4 DEF Next, SpuriousPoll, Finished

\* No Running node of a live run is forgotten: its job still owes the driver an
\* event, or the event is in the queue.
THEOREM NodesAreAnswered == Spec => []NoOrphan
<1>1. OrphanInv => NoOrphan
  BY DEF OrphanInv
<1>. QED BY <1>1, OrphanInit, OrphanStep, PTL DEF Spec
-----------------------------------------------------------------------------
(* Bookkeeping: the lemmas of RunNodes_proof, step by step. *)

\* Nothing happens to the nodes before the first poll gets to Initialize.
FirstPoll ==
    ~initialized => NodeInit /\ dpc \in {"idle", "regCancel", "regQueue", "init", "dropped"}

\* While its job is being submitted, no event can settle the node.
Submitting == dpc = "dispatch" => status[current] = "Running"

BookInv == TypeOK /\ Books /\ FirstPoll /\ Submitting

LEMMA BookInit == Init => BookInv
<1>1. Init => Books
  BY BooksInit DEF Init
<1>2. Init => FirstPoll /\ Submitting
  BY DEF Init, FirstPoll, Submitting
<1>. QED BY <1>1, <1>2, TypeInit DEF BookInv

LEMMA BookEvent ==
    ASSUME BookInv, NEW e \in [node : Node, kind : Event],
           IgnoreEvent(e) \/ CommitEvent(e) \/ DiscardEvent(e) \/ FailEvent(e)
    PROVE  Books' /\ FirstPoll' /\ Submitting'
<1>0. Books /\ FirstPoll /\ Submitting
  BY DEF BookInv
<1>1. Receive(e) /\ e.node \in Node
  BY DEF IgnoreEvent, CommitEvent, DiscardEvent, FailEvent
<1>2. dpc = "drain" /\ UNCHANGED <<dpc, initialized>>
  BY <1>1 DEF Receive
<1>3. Books'
  <2>1. CASE IgnoreEvent(e)
    BY <1>0, <2>1, BooksFrame DEF IgnoreEvent
  <2>2. CASE CommitEvent(e)
    BY <1>0, <1>1, <2>2, CommitNodeBooks DEF CommitEvent
  <2>3. CASE DiscardEvent(e)
    BY <1>0, <1>1, <2>3, CancelNodeBooks DEF DiscardEvent
  <2>4. CASE FailEvent(e)
    <3>1. Kind(e) \in ErrorKind /\ Kind(e) # "Internal"
      BY <2>4 DEF FailEvent, Commits, Discards, Kind
    <3>. QED BY <1>0, <1>1, <2>4, <3>1, FailNodeBooks DEF FailEvent
  <2>. QED BY <2>1, <2>2, <2>3, <2>4
<1>. QED BY <1>0, <1>2, <1>3 DEF FirstPoll, Submitting

LEMMA BookDriver ==
    ASSUME BookInv, DriverStep \/ BeginPoll PROVE Books' /\ FirstPoll' /\ Submitting'
<1>0. TypeOK /\ Books /\ FirstPoll /\ Submitting
  BY DEF BookInv
<1> USE DEF GoTo
<1>1. CASE BeginPoll \/ RegisterCancelDriver \/ RegisterQueueDriver
  <2>1. UNCHANGED <<nodeVars, initialized>>
        /\ dpc \in {"idle", "regCancel", "regQueue"} /\ dpc' \in {"regCancel", "regQueue", "init"}
    BY <1>1 DEF BeginPoll, RegisterCancelDriver, RegisterQueueDriver
  <2>. QED BY <1>0, <2>1, BooksFrame DEF FirstPoll, Submitting, NodeInit, nodeVars
<1>2. CASE Initialize
  <2>1. initialized' = TRUE /\ dpc' = "drain"
    BY <1>2 DEF Initialize
  <2>2. Books'
    BY <1>0, <1>2, BooksFrame, CancelUnstartedBooks, QueueRootsBooks DEF Initialize, FirstPoll
  <2>. QED BY <2>1, <2>2 DEF FirstPoll, Submitting
<1>3. CASE DrainEmpty \/ LaunchEnd \/ DispatchAccepted \/ Finish \/ Continue
  <2>1. UNCHANGED <<nodeVars, initialized>> /\ dpc \in {"drain", "launch", "dispatch", "check"}
        /\ dpc' # "dispatch"
    BY <1>3 DEF DrainEmpty, LaunchEnd, DispatchAccepted, Finish, Continue
  <2>. QED BY <1>0, <2>1, BooksFrame DEF FirstPoll, Submitting
<1>4. CASE Sweep
  <2>1. initialized' = initialized /\ dpc = "sweep" /\ dpc' = "launch"
    BY <1>4 DEF Sweep
  <2>2. Books'
    BY <1>0, <1>4, BooksFrame, CancelUnstartedBooks DEF Sweep
  <2>. QED BY <1>0, <2>1, <2>2 DEF FirstPoll, Submitting
<1>5. CASE Launch
  <2>1. ready # <<>> /\ ready' = Tail(ready) /\ initialized' = initialized /\ dpc = "launch"
    BY <1>5 DEF Launch
  <2>2. /\ Head(ready) \in Node /\ status[Head(ready)] = "Ready"
        /\ Pred(Head(ready)) \subseteq outputs
    BY <1>0, <2>1, HeadIsReady
  <2>3. Submit(Head(ready))
    BY <1>5, <2>2 DEF Launch
  <2>4. Books'
    BY <1>0, <2>1, <2>3, StartHeadBooks DEF Submit
  <2>5. Submitting'
    BY <1>0, <2>2, <2>3 DEF Submit, Submitting, TypeOK, NodeTypeOK
  <2>6. FirstPoll'
    BY <1>0, <2>1 DEF FirstPoll
  <2>. QED BY <2>4, <2>5, <2>6
<1>6. CASE DispatchRejected
  <2>1. /\ dpc = "dispatch" /\ dpc' = "launch" /\ initialized' = initialized
        /\ FailNode(current, "Dispatch") /\ ready' = ready
    BY <1>6 DEF DispatchRejected
  <2>2. current \in Node /\ status[current] = "Running"
    BY <1>0, <2>1 DEF TypeOK, DriverTypeOK, Submitting
  <2>3. Books'
    BY <1>0, <2>1, <2>2, FailNodeBooks
  <2>. QED BY <1>0, <2>1, <2>3 DEF FirstPoll, Submitting
<1>7. ASSUME NEW e \in [node : Node, kind : Event],
             IgnoreEvent(e) \/ CommitEvent(e) \/ DiscardEvent(e) \/ FailEvent(e)
      PROVE  Books' /\ FirstPoll' /\ Submitting'
  BY <1>7, BookEvent
<1>. QED BY <1>1, <1>2, <1>3, <1>4, <1>5, <1>6, <1>7 DEF DriverStep, PollRun

LEMMA BookStep == BookInv /\ [Next]_vars => BookInv'
<1> SUFFICES ASSUME BookInv, [Next]_vars PROVE BookInv'
  OBVIOUS
<1>0. TypeOK' /\ TypeOK /\ Books /\ FirstPoll /\ Submitting
  BY TypeStep DEF BookInv
<1>1. ASSUME UNCHANGED <<nodeVars, initialized>>,
             UNCHANGED <<dpc, current>> \/ (dpc' = "dropped")
      PROVE  BookInv'
  BY <1>0, <1>1, BooksFrame DEF BookInv, FirstPoll, Submitting, NodeInit, nodeVars
<1> USE DEF runVars, drvVars
<1>2. CASE UNCHANGED vars
  BY <1>1, <1>2 DEF vars
<1>3. ASSUME NEW n \in Node, JobStep(n) \/ Fire(n) \/ HostDrop(n) \/ BeginJobPoll(n)
      PROVE  BookInv'
  <2>1. UNCHANGED runVars
    BY <1>0, <1>3, JobKinds, InwardFrame, PushFrame, WakeFrame
  <2>. QED BY <1>1, <2>1
<1>4. ASSUME NEW c \in Calls, BeginCall(c) \/ CallStep(c) PROVE BookInv'
  BY <1>1, <1>4 DEF BeginCall, GoTo, CallStep, StoreCancelled, StoreAborted, TakeDriver,
                    TakeWaiters, WakeTaken
<1>5. CASE DriverStep \/ BeginPoll
  BY <1>0, <1>5, BookDriver DEF BookInv
<1>. QED BY <1>2, <1>3, <1>4, <1>5 DEF Next, SpuriousPoll, Finished

\* The ready queue and the countdown agree with the statuses and the committed
\* outputs, for every plan and every host: no node starts twice or too early, and
\* none of those that still can start is forgotten.
THEOREM BooksAreKept == Spec => []Bookkeeping
<1>1. BookInv => Bookkeeping
  BY DEF BookInv, Books, Bookkeeping
<1>. QED BY <1>1, BookInit, BookStep, PTL DEF Spec

-----------------------------------------------------------------------------
(* The refinement of RunContract: every step is a step of the contract or    *)
(* leaves it alone.  First, what the contract sees of a state.               *)

View(n) ==
    IF status[n] \in {"Pending", "Ready"} THEN "waiting"
    ELSE IF status[n] = "Running" THEN (IF n \in claimed THEN "running" ELSE "waiting")
    ELSE IF status[n] = "Succeeded" THEN "succeeded"
    ELSE IF status[n] = "Failed" THEN "failed"
    ELSE IF status[n] = "Cancelled" THEN "cancelled"
    ELSE "blocked"

LEMMA PhaseIsView ==
    /\ NodeTypeOK => phase = [n \in Node |-> View(n)]
    /\ NodeTypeOK' => phase' = [n \in Node |-> View(n)']
<1>1. ASSUME NodeTypeOK PROVE phase = [n \in Node |-> View(n)]
  <2>1. \A n \in Node : status[n] \in Status
    BY <1>1 DEF NodeTypeOK
  <2>. QED BY <2>1 DEF phase, View
<1>2. ASSUME NodeTypeOK' PROVE phase' = [n \in Node |-> View(n)']
  <2>1. \A n \in Node : status'[n] \in Status
    BY <1>2 DEF NodeTypeOK
  <2>. QED BY <2>1 DEF phase, View
<1>. QED BY <1>1, <1>2

LEMMA WhatContractSees ==
    ASSUME Books
    PROVE  /\ Contract!Open = Undecided
           /\ Contract!In({"succeeded"}) = outputs
           /\ Contract!In({"failed"}) = {n \in Node : status[n] = "Failed"}
<1>0. NodeTypeOK /\ outputs = {n \in Node : status[n] = "Succeeded"}
  BY DEF Books, RemainingExact
<1>1. phase = [n \in Node |-> View(n)]
  BY <1>0, PhaseIsView
<1>2. \A n \in Node : status[n] \in Status
  BY <1>0 DEF NodeTypeOK
<1>. QED BY <1>0, <1>1, <1>2
         DEF Contract!Open, Contract!In, Contract!Node, Undecided, View, Node

-----------------------------------------------------------------------------
(* The inductive invariant: who was claimed, and what a stop explains. *)

\* A task runs, or has run to a result, only in a node that was claimed.
ClaimsKept ==
    /\ \A n \in Node : jpc[n] = "none" => n \notin claimed
    /\ \A n \in Node : jpc[n] \in {"invoke", "child"} \/ holds[n] = "future" => n \in claimed
    /\ \A n \in Node : event[n] = "ok" => n \in claimed
    /\ \A i \in DOMAIN events : events[i].kind = "ok" => events[i].node \in claimed

\* An abort is a cancellation, a retired run is never polled again, and a job
\* says that it was cancelled only if one of the two is the case.
StopsFounded ==
    /\ aborted => cancelled
    /\ \A c \in Calls : cpc[c] = "storeAborted" => cancelled
    /\ retired => dpc = "dropped"
    /\ \A n \in Node : jpc[n] \in DOMAIN Pushing /\ event[n] = "Cancelled"
                        => cancelled \/ retired
    /\ \A i \in DOMAIN events : events[i].kind = "Cancelled" => cancelled \/ retired

\* Behind a report everything has settled and the driver is at its end.
OutcomeLast == outcome # "none" => dpc \in {"done", "dropped"} /\ Undecided = {}

ContractInv ==
    BookInv /\ EventInv /\ ClaimsKept /\ StopsFounded /\ OutcomeLast /\ FailuresRecorded

LEMMA ContractInit == Init => ContractInv
<1>1. Init => ClaimsKept
  BY DEF Init, ClaimsKept
<1>2. Init => StopsFounded
  BY DEF Init, StopsFounded, Pushing
<1>3. Init => OutcomeLast /\ FailuresRecorded
  BY DEF Init, NodeInit, OutcomeLast, FailuresRecorded
<1>. QED BY <1>1, <1>2, <1>3, BookInit, EventInit DEF ContractInv

\* The settling of a Running node, for a reason the contract accepts.
Settles(n) ==
    /\ status[n] = "Running"
    /\ \/ n \in claimed /\ ~cancelled /\ CommitNode(n)
       \/ cancelled /\ CancelNode(n)
       \/ \E k \in ErrorKind \ {"none"} : FailNode(n, k)

\* A Ready node is handed out; its task has not been claimed yet.
HandsOut(n) ==
    /\ status[n] = "Ready" /\ n \notin claimed
    /\ status' = [status EXCEPT ![n] = "Running"]
    /\ UNCHANGED <<remaining, outputs, failure, blockedBy>>

\* What a step of the driver does to the nodes.
NodeStep ==
    \/ UNCHANGED nodeVars
    \/ cancelled /\ CancelUnstarted
    \/ NodeInit /\ QueueRoots
    \/ \E n \in Node : Settles(n) \/ HandsOut(n)

LEMMA ReceiveKinds ==
    ASSUME ContractInv, NEW e \in [node : Node, kind : Event],
           IgnoreEvent(e) \/ CommitEvent(e) \/ DiscardEvent(e) \/ FailEvent(e)
    PROVE  NodeStep
<1>1. Receive(e) /\ e.node \in Node /\ e.kind \in Event
  BY DEF IgnoreEvent, CommitEvent, DiscardEvent, FailEvent
<1>2. ClaimsKept /\ StopsFounded /\ TypeOK
  BY DEF ContractInv, EventInv
<1>3. dpc = "drain" /\ events # <<>> /\ e = events[1]
  BY <1>1 DEF Receive
<1>4. 1 \in DOMAIN events
  BY <1>2, <1>3 DEF TypeOK, SharedTypeOK
<1>5. e.kind = "ok" => e.node \in claimed
  BY <1>2, <1>3, <1>4 DEF ClaimsKept
<1>6. e.kind = "Cancelled" => cancelled
  BY <1>2, <1>3, <1>4 DEF StopsFounded
<1>7. CASE IgnoreEvent(e)
  BY <1>7 DEF IgnoreEvent, NodeStep
<1>8. CASE CommitEvent(e)
  BY <1>1, <1>5, <1>8 DEF CommitEvent, Commits, NodeStep, Settles
<1>9. CASE DiscardEvent(e)
  BY <1>1, <1>6, <1>9 DEF DiscardEvent, Discards, NodeStep, Settles
<1>10. CASE FailEvent(e)
  <2>1. Kind(e) \in ErrorKind \ {"none"}
    BY <1>1, <1>10 DEF FailEvent, Commits, Discards, Kind
  <2>. QED BY <1>1, <1>10, <2>1 DEF FailEvent, NodeStep, Settles
<1>. QED BY <1>7, <1>8, <1>9, <1>10

LEMMA DriverKinds == ASSUME ContractInv, DriverStep \/ BeginPoll PROVE NodeStep
<1>0. /\ TypeOK /\ Books /\ FirstPoll /\ Submitting /\ JobsStarted
      /\ ClaimsKept /\ StopsFounded
  BY DEF ContractInv, BookInv, EventInv
<1>1. CASE BeginPoll \/ RegisterCancelDriver \/ RegisterQueueDriver
  BY <1>1 DEF BeginPoll, RegisterCancelDriver, RegisterQueueDriver, NodeStep
<1>2. CASE Initialize
  BY <1>0, <1>2 DEF Initialize, FirstPoll, NodeStep
<1>3. CASE DrainEmpty \/ LaunchEnd \/ DispatchAccepted \/ Finish \/ Continue
  BY <1>3 DEF DrainEmpty, LaunchEnd, DispatchAccepted, Finish, Continue, NodeStep
<1>4. CASE Sweep
  BY <1>0, <1>4 DEF Sweep, StopsFounded, NodeStep
<1>5. CASE Launch
  <2>1. ready # <<>>
    BY <1>5 DEF Launch
  <2>2. /\ Head(ready) \in Node /\ status[Head(ready)] = "Ready"
        /\ Pred(Head(ready)) \subseteq outputs
    BY <1>0, <2>1, HeadIsReady
  <2>3. Submit(Head(ready))
    BY <1>5, <2>2 DEF Launch
  <2>4. Head(ready) \notin claimed
    BY <1>0, <2>2 DEF JobsStarted, ClaimsKept
  <2>. QED BY <2>2, <2>3, <2>4 DEF Submit, HandsOut, NodeStep
<1>6. CASE DispatchRejected
  <2>1. dpc = "dispatch" /\ FailNode(current, "Dispatch")
    BY <1>6 DEF DispatchRejected
  <2>2. current \in Node /\ status[current] = "Running"
    BY <1>0, <2>1 DEF TypeOK, DriverTypeOK, Submitting
  <2>. QED BY <2>1, <2>2 DEF Settles, NodeStep
<1>7. ASSUME NEW e \in [node : Node, kind : Event],
             IgnoreEvent(e) \/ CommitEvent(e) \/ DiscardEvent(e) \/ FailEvent(e)
      PROVE  NodeStep
  BY <1>7, ReceiveKinds
<1>. QED BY <1>1, <1>2, <1>3, <1>4, <1>5, <1>6, <1>7 DEF DriverStep, PollRun

\* What a step of the driver leaves alone.
LEMMA DriverFrame ==
    ASSUME ContractInv, DriverStep \/ BeginPoll
    PROVE  /\ UNCHANGED <<flagVars, claimed, event, cpc>>
           /\ dpc \notin {"done", "dropped"}
           /\ \A m \in Node : \/ jpc'[m] = jpc[m] /\ holds'[m] = holds[m]
                              \/ jpc[m] = "none" /\ jpc'[m] = "idle" /\ holds'[m] = "task"
           /\ events' = events \/ (events # <<>> /\ events' = Tail(events))
           /\ \/ outcome' = outcome
              \/ dpc' = "done" /\ Undecided = {} /\ UNCHANGED nodeVars
<1>0. TypeOK /\ Books /\ JobsStarted
  BY DEF ContractInv, BookInv, EventInv
<1> USE DEF flagVars, jobVars, ctlVars
<1>1. CASE BeginPoll \/ RegisterCancelDriver \/ RegisterQueueDriver
  BY <1>1 DEF BeginPoll, RegisterCancelDriver, RegisterQueueDriver
<1>2. CASE Initialize \/ Sweep
  BY <1>2 DEF Initialize, Sweep
<1>3. CASE DrainEmpty \/ LaunchEnd \/ DispatchAccepted \/ DispatchRejected
  BY <1>3 DEF DrainEmpty, LaunchEnd, DispatchAccepted, DispatchRejected
<1>4. CASE Finish \/ Continue
  BY <1>4 DEF Finish, Continue, GoTo
<1>5. CASE Launch
  <2>1. /\ ready # <<>> /\ dpc = "launch"
        /\ UNCHANGED <<events, flagVars, claimed, event, cpc, outcome>>
    BY <1>5 DEF Launch
  <2>2. /\ Head(ready) \in Node /\ status[Head(ready)] = "Ready"
        /\ Pred(Head(ready)) \subseteq outputs
    BY <1>0, <2>1, HeadIsReady
  <2>3. Submit(Head(ready))
    BY <1>5, <2>2 DEF Launch
  <2>4. jpc[Head(ready)] = "none"
    BY <1>0, <2>2 DEF JobsStarted
  <2>. QED BY <1>0, <2>1, <2>2, <2>3, <2>4 DEF Submit, TypeOK, JobTypeOK
<1>6. ASSUME NEW e \in [node : Node, kind : Event],
             IgnoreEvent(e) \/ CommitEvent(e) \/ DiscardEvent(e) \/ FailEvent(e)
      PROVE  Receive(e)
  BY <1>6 DEF IgnoreEvent, CommitEvent, DiscardEvent, FailEvent
<1>7. CASE \E e \in [node : Node, kind : Event] : Receive(e)
  BY <1>7 DEF Receive
<1>. QED BY <1>1, <1>2, <1>3, <1>4, <1>5, <1>6, <1>7 DEF DriverStep, PollRun

\* The entries of a shortened queue were in the queue.
LEMMA TailEntries ==
    ASSUME NEW E, NEW q \in Seq(E), q # <<>>
    PROVE  \A i \in DOMAIN Tail(q) : i + 1 \in DOMAIN q /\ Tail(q)[i] = q[i + 1]
  OBVIOUS

LEMMA ClaimDriver ==
    ASSUME ContractInv, DriverStep \/ BeginPoll
    PROVE  ClaimsKept' /\ StopsFounded'
<1>0. TypeOK /\ ClaimsKept /\ StopsFounded
  BY DEF ContractInv, EventInv
<1>1. /\ UNCHANGED <<flagVars, claimed, event, cpc>> /\ dpc # "dropped"
      /\ \A m \in Node : \/ jpc'[m] = jpc[m] /\ holds'[m] = holds[m]
                         \/ jpc[m] = "none" /\ jpc'[m] = "idle" /\ holds'[m] = "task"
      /\ events' = events \/ (events # <<>> /\ events' = Tail(events))
  BY DriverFrame
<1>2. \A i \in DOMAIN events' : \E j \in DOMAIN events : events'[i] = events[j]
  BY <1>0, <1>1, TailEntries DEF TypeOK, SharedTypeOK
<1>3. ClaimsKept'
  BY <1>0, <1>1, <1>2 DEF ClaimsKept
<1>4. StopsFounded'
  BY <1>0, <1>1, <1>2 DEF StopsFounded, Pushing, flagVars
<1>. QED BY <1>3, <1>4

LEMMA ClaimJob ==
    ASSUME ContractInv, NEW n \in Node, Inward(n) \/ PushEvent(n) \/ WakeDriver(n)
    PROVE  ClaimsKept' /\ StopsFounded'
<1>0. TypeOK /\ ClaimsKept /\ StopsFounded
  BY DEF ContractInv, EventInv
<1>1. UNCHANGED <<flagVars, cpc, dpc>>
  BY <1>0, InwardFrame, PushFrame, WakeFrame DEF runVars, drvVars, ctlVars
<1>2. ASSUME UNCHANGED events, claimed \subseteq claimed',
             jpc[n] # "none", jpc'[n] = "none" => n \notin claimed',
             \A m \in Node \ {n} : /\ jpc'[m] = jpc[m] /\ holds'[m] = holds[m]
                                   /\ event'[m] = event[m]
                                   /\ m \in claimed' => m \in claimed,
             jpc'[n] \in {"invoke", "child"} \/ holds'[n] = "future" => n \in claimed',
             event'[n] = "ok" => n \in claimed',
             jpc'[n] \in DOMAIN Pushing /\ event'[n] = "Cancelled" => cancelled \/ retired
      PROVE  ClaimsKept' /\ StopsFounded'
  <2>1. ClaimsKept'
    BY <1>0, <1>2 DEF ClaimsKept
  <2>2. StopsFounded'
    BY <1>0, <1>1, <1>2 DEF StopsFounded, flagVars
  <2>. QED BY <2>1, <2>2
<1>3. Results \subseteq {"ok", "invalid", "user", "checkpoint", "panic"}
  BY HostAssumption
<1>a. /\ jpc \in [Node -> JobPc] /\ event \in [Node -> Event] /\ claimed \subseteq Node
      /\ holds \in [Node -> {"nothing", "task", "future"}]
  BY <1>0 DEF TypeOK, JobTypeOK
<1> USE DEF Become, Release, Report, Pushing, jobVars
<1>4. CASE BeginJobPoll(n) \/ LoadAborted(n)
  BY <1>0, <1>a, <1>2, <1>4 DEF BeginJobPoll, LoadAborted, ClaimsKept, StopsFounded
<1>5. CASE Claim(n)
  BY <1>0, <1>a, <1>2, <1>5 DEF Claim, ClaimsKept, StopsFounded
<1>6. CASE InvokeSync(n) \/ InvokeAsync(n) \/ ChildPending(n)
  BY <1>0, <1>a, <1>2, <1>3, <1>6
     DEF InvokeSync, InvokeAsync, ChildPending, ClaimsKept, StopsFounded
<1>7. CASE ChildReady(n)
  BY <1>0, <1>a, <1>2, <1>3, <1>7 DEF ChildReady, ClaimsKept, StopsFounded
<1>8. CASE RegisterWaiter(n) \/ RecheckRetired(n) \/ RecheckAborted(n)
  BY <1>0, <1>a, <1>2, <1>8
     DEF RegisterWaiter, RecheckRetired, RecheckAborted, ClaimsKept, StopsFounded
<1>9. CASE DropFields(n) \/ HostDrop(n)
  BY <1>0, <1>a, <1>2, <1>9 DEF DropFields, HostDrop, ClaimsKept, StopsFounded
<1>10. CASE Fire(n)
  BY <1>0, <1>1, <1>10 DEF Fire, ClaimsKept, StopsFounded, flagVars
<1>11. CASE WakeDriver(n)
  BY <1>0, <1>a, <1>2, <1>11 DEF WakeDriver, Waking, ClaimsKept, StopsFounded
<1>12. CASE PushEvent(n)
  <2> DEFINE pushed == [node |-> n, kind |-> event[n]]
  <2>1. /\ events' = Append(events, pushed) /\ jpc[n] \in DOMAIN Pushing
        /\ jpc'[n] \in {"wake", "lockedWake", "dropWake"}
        /\ \A m \in Node \ {n} : jpc'[m] = jpc[m]
        /\ UNCHANGED <<holds, event, claimed>>
    BY <1>a, <1>12 DEF PushEvent
  <2>2. \A i \in DOMAIN events' :
           (i \in DOMAIN events /\ events'[i] = events[i]) \/ events'[i] = pushed
    <3>1. events \in Seq([node : Node, kind : Event])
      BY <1>0 DEF TypeOK, SharedTypeOK
    <3> HIDE DEF pushed
    <3>. QED BY <2>1, <3>1
  <2>3. pushed.node = n /\ pushed.kind = event[n]
    OBVIOUS
  <2> HIDE DEF pushed
  <2>4. ClaimsKept'
    BY <1>0, <2>1, <2>2, <2>3 DEF ClaimsKept
  <2>5. StopsFounded'
    BY <1>0, <1>1, <2>1, <2>2, <2>3 DEF StopsFounded, flagVars
  <2>. QED BY <2>4, <2>5
<1>. QED BY <1>4, <1>5, <1>6, <1>7, <1>8, <1>9, <1>10, <1>11, <1>12 DEF Inward

LEMMA ClaimCall ==
    ASSUME ContractInv, NEW c \in Calls, BeginCall(c) \/ CallStep(c)
    PROVE  ClaimsKept' /\ StopsFounded'
<1>0. TypeOK /\ ClaimsKept /\ StopsFounded
  BY DEF ContractInv, EventInv
<1>a. cpc \in [Calls -> CallPc]
  BY <1>0 DEF TypeOK, CallTypeOK
<1>1. UNCHANGED <<jobVars, events>>
  BY DEF BeginCall, CallStep, StoreCancelled, StoreAborted, TakeDriver, TakeWaiters, WakeTaken
<1>2. ClaimsKept'
  BY <1>0, <1>1 DEF ClaimsKept, jobVars
<1>3. /\ (cancelled => cancelled') /\ (retired => retired')
      /\ (retired' => dpc' = "dropped") /\ (aborted' => cancelled')
      /\ \A d \in Calls : cpc'[d] = "storeAborted" => cancelled'
  <2> USE DEF Goes, GoTo, runVars, drvVars, flagVars
  <2>1. CASE BeginCall(c)
    BY <1>0, <1>a, <2>1 DEF BeginCall, StopsFounded
  <2>2. CASE StoreCancelled(c) \/ StoreAborted(c)
    BY <1>0, <1>a, <2>2 DEF StoreCancelled, StoreAborted, StopsFounded
  <2>3. CASE TakeDriver(c) \/ TakeWaiters(c) \/ WakeTaken(c)
    BY <1>0, <1>a, <2>3 DEF TakeDriver, TakeWaiters, WakeTaken, StopsFounded
  <2>. QED BY <2>1, <2>2, <2>3 DEF CallStep
<1>4. StopsFounded'
  <2>1. UNCHANGED <<jpc, event, events>>
    BY <1>1 DEF jobVars
  <2>2. /\ \A n \in Node : jpc'[n] \in DOMAIN Pushing /\ event'[n] = "Cancelled"
                            => cancelled' \/ retired'
        /\ \A i \in DOMAIN events' : events'[i].kind = "Cancelled" => cancelled' \/ retired'
    BY <1>0, <1>3, <2>1 DEF StopsFounded
  <2>. QED BY <1>3, <2>2 DEF StopsFounded, Pushing
<1>. QED BY <1>2, <1>4

LEMMA ContractJobNodes ==
    ASSUME ContractInv, NEW n \in Node, Inward(n) \/ PushEvent(n) \/ WakeDriver(n)
    PROVE  UNCHANGED <<nodeVars, outcome, dpc, flagVars>>
<1>1. TypeOK
  BY DEF ContractInv, EventInv
<1>. QED BY <1>1, InwardFrame, PushFrame, WakeFrame DEF runVars, drvVars

\* A driver step keeps the record of failures, whatever it does to the nodes.
LEMMA FailuresKept ==
    ASSUME ContractInv, NodeStep
    PROVE  FailuresRecorded'
<1>0. Books /\ FailuresRecorded /\ NodeTypeOK
  BY DEF ContractInv, BookInv, Books
<1>1. CASE UNCHANGED nodeVars
  BY <1>0, <1>1 DEF nodeVars, FailuresRecorded
<1>2. CASE CancelUnstarted
  BY <1>0, <1>2 DEF CancelUnstarted, FailuresRecorded, NodeTypeOK
<1>3. CASE NodeInit /\ QueueRoots
  BY <1>0, <1>3 DEF NodeInit, QueueRoots, FailuresRecorded, NodeTypeOK
<1>4. ASSUME NEW n \in Node, CommitNode(n), status[n] = "Running" PROVE FailuresRecorded'
  BY <1>0, <1>4 DEF CommitNode, FailuresRecorded, NodeTypeOK
<1>5. ASSUME NEW n \in Node, CancelNode(n), status[n] = "Running" PROVE FailuresRecorded'
  BY <1>0, <1>5 DEF CancelNode, FailuresRecorded, NodeTypeOK
<1>6. ASSUME NEW n \in Node, status[n] = "Running",
             \E k \in ErrorKind \ {"none"} : FailNode(n, k)
      PROVE  FailuresRecorded'
  BY <1>0, <1>6, FailuresFail
<1>7. ASSUME NEW n \in Node, HandsOut(n) PROVE FailuresRecorded'
  BY <1>0, <1>7 DEF HandsOut, FailuresRecorded, NodeTypeOK
<1>. QED BY <1>1, <1>2, <1>3, <1>4, <1>5, <1>6, <1>7 DEF NodeStep, Settles

LEMMA ContractDriver ==
    ASSUME ContractInv, DriverStep \/ BeginPoll
    PROVE  OutcomeLast' /\ FailuresRecorded'
<1>1. NodeStep /\ FailuresRecorded' /\ OutcomeLast
  BY DriverKinds, FailuresKept DEF ContractInv
<1>2. /\ dpc \notin {"done", "dropped"}
      /\ outcome' = outcome \/ (dpc' = "done" /\ Undecided = {} /\ UNCHANGED nodeVars)
  BY DriverFrame
<1>. QED BY <1>1, <1>2 DEF OutcomeLast, Undecided, nodeVars

LEMMA ContractStep == ContractInv /\ [Next]_vars => ContractInv'
<1> SUFFICES ASSUME ContractInv, [Next]_vars PROVE ContractInv'
  OBVIOUS
<1>0. /\ BookInv' /\ EventInv' /\ TypeOK
      /\ ClaimsKept /\ StopsFounded /\ OutcomeLast /\ FailuresRecorded
  BY BookStep, EventStep DEF ContractInv, EventInv
<1>1. CASE DriverStep \/ BeginPoll
  BY <1>0, <1>1, ClaimDriver, ContractDriver DEF ContractInv
<1>2. ASSUME UNCHANGED <<nodeVars, outcome>>, dpc' = dpc \/ dpc' = "dropped"
      PROVE  OutcomeLast' /\ FailuresRecorded'
  BY <1>0, <1>2 DEF OutcomeLast, FailuresRecorded, Undecided, nodeVars
<1>3. ASSUME NEW n \in Node, JobStep(n) \/ Fire(n) \/ HostDrop(n) \/ BeginJobPoll(n)
      PROVE  ContractInv'
  <2>1. Inward(n) \/ PushEvent(n) \/ WakeDriver(n)
    BY <1>3, JobKinds
  <2>2. UNCHANGED <<nodeVars, outcome, dpc>>
    BY <2>1, ContractJobNodes
  <2>. QED BY <1>0, <1>2, <2>1, <2>2, ClaimJob DEF ContractInv
<1>4. ASSUME NEW c \in Calls, BeginCall(c) \/ CallStep(c) PROVE ContractInv'
  <2>1. UNCHANGED <<nodeVars, outcome>> /\ (dpc' = dpc \/ dpc' = "dropped")
    BY <1>4 DEF BeginCall, GoTo, CallStep, StoreCancelled, StoreAborted, TakeDriver,
                TakeWaiters, WakeTaken, runVars, drvVars
  <2>. QED BY <1>0, <1>2, <1>4, <2>1, ClaimCall DEF ContractInv
<1>5. CASE UNCHANGED vars
  <2>1. UNCHANGED <<nodeVars, outcome, dpc>>
    BY <1>5 DEF vars, runVars, drvVars
  <2>2. ClaimsKept' /\ StopsFounded'
    BY <1>0, <1>5 DEF vars, runVars, drvVars, jobVars, flagVars, ctlVars, ClaimsKept,
                      StopsFounded, Pushing
  <2>. QED BY <1>0, <1>2, <2>1, <2>2 DEF ContractInv
<1>. QED BY <1>1, <1>3, <1>4, <1>5 DEF Next, SpuriousPoll, Finished

-----------------------------------------------------------------------------
(* Blame. *)

LEMMA BlameStep ==
    ContractInv /\ BlameLeadsToFailure /\ [Next]_vars => BlameLeadsToFailure'
<1> SUFFICES ASSUME ContractInv, BlameLeadsToFailure, [Next]_vars
             PROVE  BlameLeadsToFailure'
  OBVIOUS
<1>0. Books /\ NodeTypeOK
  BY DEF ContractInv, BookInv, Books
<1>1. CASE UNCHANGED nodeVars
  BY <1>1, BlameFrame DEF nodeVars
<1>2. CASE CancelUnstarted
  <2>1. /\ blockedBy' = blockedBy
        /\ \A m \in Node : status[m] \in {"Failed", "Blocked"} \/ status'[m] = "Blocked"
                           => status'[m] = status[m]
    BY <1>0, <1>2 DEF CancelUnstarted, NodeTypeOK
  <2>. QED BY <2>1, BlameFrame
<1>3. CASE NodeInit /\ QueueRoots
  <2>1. /\ blockedBy' = blockedBy
        /\ \A m \in Node : status[m] \in {"Failed", "Blocked"} \/ status'[m] = "Blocked"
                           => status'[m] = status[m]
    BY <1>3 DEF NodeInit, QueueRoots
  <2>. QED BY <2>1, BlameFrame
<1>4. ASSUME NEW n \in Node, Settles(n) \/ HandsOut(n) PROVE BlameLeadsToFailure'
  <2>1. CASE \E k \in ErrorKind \ {"none"} : status[n] = "Running" /\ FailNode(n, k)
    BY <1>0, <2>1, BlameFail DEF Settled
  <2>2. CASE status[n] = "Running" /\ (CommitNode(n) \/ CancelNode(n))
    <3>1. /\ blockedBy' = blockedBy
          /\ \A m \in Node : status[m] \in {"Failed", "Blocked"} \/ status'[m] = "Blocked"
                             => status'[m] = status[m]
      BY <1>0, <2>2 DEF CommitNode, CancelNode, NodeTypeOK
    <3>. QED BY <3>1, BlameFrame
  <2>3. CASE HandsOut(n)
    <3>1. /\ blockedBy' = blockedBy
          /\ \A m \in Node : status[m] \in {"Failed", "Blocked"} \/ status'[m] = "Blocked"
                             => status'[m] = status[m]
      BY <1>0, <2>3 DEF HandsOut, NodeTypeOK
    <3>. QED BY <3>1, BlameFrame
  <2>. QED BY <1>4, <2>1, <2>2, <2>3 DEF Settles
<1>5. CASE DriverStep \/ BeginPoll
  BY <1>1, <1>2, <1>3, <1>4, <1>5, DriverKinds DEF NodeStep
<1>6. ASSUME NEW n \in Node, JobStep(n) \/ Fire(n) \/ HostDrop(n) \/ BeginJobPoll(n)
      PROVE  BlameLeadsToFailure'
  <2>1. Inward(n) \/ PushEvent(n) \/ WakeDriver(n)
    BY <1>6, JobKinds DEF ContractInv, EventInv
  <2>. QED BY <1>1, <2>1, ContractJobNodes
<1>7. ASSUME NEW c \in Calls, BeginCall(c) \/ CallStep(c) PROVE BlameLeadsToFailure'
  BY <1>1, <1>7 DEF BeginCall, GoTo, CallStep, StoreCancelled, StoreAborted, TakeDriver,
                    TakeWaiters, WakeTaken, runVars, drvVars
<1>. QED BY <1>1, <1>5, <1>6, <1>7 DEF Next, SpuriousPoll, Finished, vars, runVars

\* In a dispatched run too a blocked node blames a direct dependency that failed
\* or is blocked, and no other node blames anyone, for every plan and host.
THEOREM DispatchBlameIsFounded == Spec => []BlameLeadsToFailure
<1>1. Init => BlameLeadsToFailure
  BY BlameInit DEF Init
<1>. QED BY <1>1, BlameStep, ContractInit, ContractStep, PTL DEF Spec

-----------------------------------------------------------------------------
(* Every step is a step of the contract, or none that it sees. *)

LEMMA ContractPlan ==
    /\ Contract!Node = Node
    /\ \A n \in Node : Contract!Succ(n) = Succ(n) /\ Contract!Pred(n) = Pred(n)
    /\ \A n \in Node, O \in SUBSET Node : Contract!Downstream(n, O) = Downstream(n, O)
  BY DEF Contract!Node, Node, Contract!Succ, Succ, Contract!ToSet, ToSet, Contract!Pred, Pred,
         Contract!Downstream, Downstream

LEMMA MapStutter ==
    ASSUME UNCHANGED <<status, claimed, cancelled, outcome>> PROVE UNCHANGED Contract!vars
  BY DEF phase, Contract!vars

\* A Running node commits, is discarded, or fails and blocks its dependents.
LEMMA MapSettles ==
    ASSUME Books, Books', NEW n \in Node, Settles(n), outcome = "none",
           UNCHANGED <<claimed, cancelled, outcome>>
    PROVE  Contract!Next
<1>0. /\ NodeTypeOK /\ NodeTypeOK' /\ RunningHasInputs /\ status[n] = "Running"
      /\ outputs \subseteq Node
  BY DEF Books, Settles, NodeTypeOK
<1>1. phase = [m \in Node |-> View(m)] /\ phase' = [m \in Node |-> View(m)']
  BY <1>0, PhaseIsView
<1>2. Contract!Open = Undecided /\ Contract!In({"succeeded"}) = outputs
  BY WhatContractSees
<1>3. n \in Undecided /\ Pred(n) \subseteq outputs
  BY <1>0 DEF Undecided, RunningHasInputs
<1>4. CASE n \in claimed /\ ~cancelled /\ CommitNode(n)
  <2>1. phase[n] = "running"
    BY <1>0, <1>1, <1>4 DEF View
  <2>2. \A m \in Node : View(m)' = IF m = n THEN "succeeded" ELSE View(m)
    BY <1>0, <1>4 DEF CommitNode, View
  <2>3. phase' = [phase EXCEPT ![n] = "succeeded"]
    BY <1>1, <2>2
  <2>. QED BY <1>4, <2>1, <2>3, ContractPlan DEF Contract!Next, Contract!Commit
<1>5. CASE cancelled /\ CancelNode(n)
  <2>1. \A m \in Node : View(m)' = IF m \in {n} THEN "cancelled" ELSE View(m)
    BY <1>0, <1>5 DEF CancelNode, View, NodeTypeOK
  <2>2. phase' = [m \in Node |-> IF m \in {n} THEN "cancelled" ELSE phase[m]]
    BY <1>1, <2>1
  <2>3. Contract!Discard({n})
    BY <1>2, <1>3, <1>5, <2>2, ContractPlan DEF Contract!Discard
  <2>. QED BY <2>3, ContractPlan DEF Contract!Next
<1>6. ASSUME NEW k \in ErrorKind \ {"none"}, FailNode(n, k) PROVE Contract!Fail(n)
  <2> DEFINE hit == Downstream(n, Undecided \ {n})
  <2>1. status' = [m \in Node |-> IF m = n THEN "Failed" ELSE IF m \in hit THEN "Blocked"
                                  ELSE status[m]]
    BY <1>6 DEF FailNode
  <2>2. Undecided \ {n} \in SUBSET Node
    BY DEF Undecided
  <2>3. Contract!Downstream(n, Undecided \ {n}) = hit
    BY <2>2, ContractPlan
  <2> HIDE DEF hit
  <2>4. \A m \in Node : View(m)' = IF m = n THEN "failed" ELSE IF m \in hit THEN "blocked"
                                   ELSE View(m)
    BY <1>0, <2>1 DEF View
  <2>5. phase' = [m \in Node |-> IF m = n THEN "failed" ELSE IF m \in hit THEN "blocked"
                                 ELSE phase[m]]
    BY <1>1, <2>4
  <2>. QED BY <1>2, <1>3, <2>3, <2>5, ContractPlan DEF Contract!Fail
<1>. QED BY <1>4, <1>5, <1>6, ContractPlan DEF Settles, Contract!Next

\* Whatever the driver does to the nodes is a step of the contract.
LEMMA MapNodeStep ==
    ASSUME ContractInv, Books', NodeStep, outcome = "none",
           UNCHANGED <<claimed, cancelled, outcome>>
    PROVE  [Contract!Next]_(Contract!vars)
<1>0. Books /\ JobsStarted /\ ClaimsKept /\ NodeTypeOK /\ NodeTypeOK'
  BY DEF ContractInv, BookInv, EventInv, Books
<1>1. phase = [m \in Node |-> View(m)] /\ phase' = [m \in Node |-> View(m)']
  BY <1>0, PhaseIsView
<1>2. ASSUME \A m \in Node : View(m)' = View(m) PROVE UNCHANGED Contract!vars
  BY <1>1, <1>2 DEF Contract!vars
<1>3. CASE UNCHANGED nodeVars
  BY <1>3, MapStutter DEF nodeVars
<1>4. CASE cancelled /\ CancelUnstarted
  <2> DEFINE S == {m \in Node : status[m] \in {"Pending", "Ready"}}
  <2>1. \A m \in Node : View(m)' = IF m \in S THEN "cancelled" ELSE View(m)
    BY <1>0, <1>4 DEF CancelUnstarted, View
  <2>2. phase' = [m \in Node |-> IF m \in S THEN "cancelled" ELSE phase[m]]
    BY <1>1, <2>1
  <2>3. S \subseteq Contract!Open
    BY <1>0, WhatContractSees DEF Undecided
  <2> HIDE DEF S
  <2>4. Contract!Discard(S)
    BY <1>4, <2>2, <2>3, ContractPlan DEF Contract!Discard
  <2>5. S \in SUBSET Node
    BY DEF S
  <2>. QED BY <2>4, <2>5, ContractPlan DEF Contract!Next
<1>5. CASE NodeInit /\ QueueRoots
  <2>1. \A m \in Node : View(m)' = View(m)
    BY <1>0, <1>5 DEF NodeInit, QueueRoots, View
  <2>. QED BY <1>2, <2>1
<1>6. ASSUME NEW n \in Node, HandsOut(n) PROVE UNCHANGED Contract!vars
  <2>1. \A m \in Node : View(m)' = View(m)
    BY <1>0, <1>6 DEF HandsOut, View, NodeTypeOK
  <2>. QED BY <1>2, <2>1
<1>. QED BY <1>0, <1>3, <1>4, <1>5, <1>6, MapSettles DEF NodeStep

\* The report is the one the contract asks for.
LEMMA MapFinish == ASSUME ContractInv, Finish PROVE Contract!Return
<1>0. Books /\ OutcomeLast /\ FailuresRecorded
  BY DEF ContractInv, BookInv
<1>1. /\ Contract!Open = Undecided
      /\ Contract!In({"failed"}) = {n \in Node : status[n] = "Failed"}
  BY <1>0, WhatContractSees
<1>2. UNCHANGED <<status, claimed, cancelled>> /\ Undecided = {} /\ outcome = "none"
  BY <1>0 DEF Finish, nodeVars, jobVars, flagVars, OutcomeLast
<1>3. (Contract!In({"failed"}) # {}) <=> \E n \in Node : failure[n] # "none"
  BY <1>0, <1>1 DEF FailuresRecorded
<1>4. phase' = phase
  BY <1>2 DEF phase
<1>. QED BY <1>1, <1>2, <1>3, <1>4 DEF Finish, Contract!Return

LEMMA MapDriver ==
    ASSUME ContractInv, ContractInv', DriverStep \/ BeginPoll
    PROVE  [Contract!Next]_(Contract!vars)
<1>1. NodeStep /\ Books' /\ OutcomeLast
  BY DriverKinds DEF ContractInv, BookInv
<1>2. UNCHANGED <<claimed, cancelled>> /\ dpc \notin {"done", "dropped"}
  BY DriverFrame DEF flagVars
<1>3. outcome = "none"
  BY <1>1, <1>2 DEF OutcomeLast
<1>4. CASE Finish
  BY <1>4, MapFinish DEF Contract!Next
<1>5. CASE UNCHANGED outcome
  BY <1>1, <1>2, <1>3, <1>5, MapNodeStep
<1>6. Finish \/ UNCHANGED outcome
  BY DEF DriverStep, PollRun, BeginPoll, RegisterCancelDriver, RegisterQueueDriver, Initialize,
         Receive, IgnoreEvent, CommitEvent, DiscardEvent, FailEvent, DrainEmpty, Sweep, Launch,
         LaunchEnd, DispatchAccepted, DispatchRejected, Continue
<1>. QED BY <1>4, <1>5, <1>6

\* A job that takes its factory is the claim of the contract, except that of a
\* node the driver has given up on: the contract takes no notice of it.
LEMMA MapJob ==
    ASSUME ContractInv, NEW n \in Node, Inward(n) \/ PushEvent(n) \/ WakeDriver(n)
    PROVE  [Contract!Next]_(Contract!vars)
<1>0. Books /\ NodeTypeOK /\ TypeOK /\ OutcomeLast /\ RunningHasInputs
  BY DEF ContractInv, BookInv, Books
<1>1. UNCHANGED <<nodeVars, outcome, cancelled, retired>>
  BY ContractJobNodes DEF flagVars
<1>2. NodeTypeOK'
  BY <1>0, <1>1 DEF NodeTypeOK, nodeVars
<1>3. phase = [m \in Node |-> View(m)] /\ phase' = [m \in Node |-> View(m)']
  BY <1>0, <1>2, PhaseIsView
<1>4. CASE UNCHANGED claimed
  BY <1>1, <1>4, MapStutter DEF nodeVars
<1>5. CASE ~UNCHANGED claimed
  <2>1. claimed' = claimed \cup {n} /\ ~cancelled
    BY <1>0, <1>5 DEF Inward, BeginJobPoll, LoadAborted, Claim, InvokeSync, InvokeAsync,
                      ChildReady, ChildPending, RegisterWaiter, RecheckRetired, RecheckAborted,
                      DropFields, Fire, HostDrop, PushEvent, WakeDriver, jobVars
  <2>2. CASE status[n] = "Running"
    <3>1. n \notin claimed
      BY <1>5, <2>1
    <3>2. phase[n] = "waiting" /\ Pred(n) \subseteq outputs
      BY <1>0, <1>3, <2>2, <3>1 DEF View, RunningHasInputs
    <3>3. \A m \in Node : View(m)' = IF m = n THEN "running" ELSE View(m)
      BY <1>1, <2>1, <2>2 DEF View, nodeVars
    <3>4. phase' = [phase EXCEPT ![n] = "running"]
      BY <1>3, <3>3
    <3>5. outcome = "none"
      BY <1>0, <2>2 DEF OutcomeLast, Undecided
    <3>6. Contract!In({"succeeded"}) = outputs
      BY <1>0, WhatContractSees
    <3>. QED BY <1>1, <2>1, <3>2, <3>4, <3>5, <3>6, ContractPlan
             DEF Contract!Next, Contract!Claim
  <2>3. CASE status[n] # "Running"
    <3>1. \A m \in Node : View(m)' = View(m)
      BY <1>1, <2>1, <2>3 DEF View, nodeVars
    <3>. QED BY <1>1, <1>3, <3>1 DEF Contract!vars
  <2>. QED BY <2>2, <2>3
<1>. QED BY <1>4, <1>5

LEMMA MapCall ==
    ASSUME NEW c \in Calls, BeginCall(c) \/ CallStep(c)
    PROVE  [Contract!Next]_(Contract!vars)
<1>1. UNCHANGED <<status, claimed, outcome>> /\ (cancelled' = cancelled \/ cancelled' = TRUE)
  BY DEF BeginCall, CallStep, StoreCancelled, StoreAborted, TakeDriver, TakeWaiters, WakeTaken,
         runVars, drvVars, nodeVars, flagVars, jobVars
<1>2. CASE UNCHANGED cancelled
  BY <1>1, <1>2, MapStutter
<1>3. CASE cancelled' = TRUE
  <2>1. phase' = phase
    BY <1>1 DEF phase
  <2>. QED BY <1>1, <1>3, <2>1 DEF Contract!Next, Contract!RequestStop
<1>. QED BY <1>1, <1>2, <1>3

\* A dispatched run implements the contract, for every plan, whatever the tasks do,
\* whatever liberties the host takes and whatever calls reach it and when: a node is
\* claimed with its inputs committed and before any stop, settles once, fails with
\* everything that depends on it, and the one report says what became of the nodes.
THEOREM DispatchKeepsContract == Spec => ImplementsContract
<1>1. Init => Contract!Init
  <2> SUFFICES ASSUME Init PROVE Contract!Init
    OBVIOUS
  <2>1. NodeTypeOK /\ \A n \in Node : View(n) = "waiting"
    BY NodeInitType DEF Init, NodeInit, View
  <2>2. phase = [n \in Node |-> "waiting"]
    BY <2>1, PhaseIsView
  <2>. QED BY <2>2, ContractPlan DEF Init, Contract!Init
<1>2. ContractInv /\ ContractInv' /\ [Next]_vars => [Contract!Next]_(Contract!vars)
  <2> SUFFICES ASSUME ContractInv, ContractInv', [Next]_vars
               PROVE  [Contract!Next]_(Contract!vars)
    OBVIOUS
  <2>1. CASE DriverStep \/ BeginPoll
    BY <2>1, MapDriver
  <2>2. ASSUME NEW n \in Node, JobStep(n) \/ Fire(n) \/ HostDrop(n) \/ BeginJobPoll(n)
        PROVE  [Contract!Next]_(Contract!vars)
    BY <2>2, JobKinds, MapJob
  <2>3. ASSUME NEW c \in Calls, BeginCall(c) \/ CallStep(c)
        PROVE  [Contract!Next]_(Contract!vars)
    BY <2>3, MapCall
  <2>4. CASE UNCHANGED vars
    BY <2>4, MapStutter DEF vars, runVars, drvVars, nodeVars, jobVars, flagVars
  <2>. QED BY <2>1, <2>2, <2>3, <2>4 DEF Next, SpuriousPoll, Finished
<1>. QED BY <1>1, <1>2, ContractInit, ContractStep, PTL
         DEF Spec, ImplementsContract, Contract!Spec

-----------------------------------------------------------------------------
(* Reports wait for the jobs. *)

\* A job that has still to push its event belongs to a Running node, unless the
\* dispatcher rejected it; and an event is queued by a job that is done with it.
OwesRunning ==
    \A n \in Node : jpc[n] # "none" /\ ~Acknowledged(n) /\ failure[n] # "Dispatch"
                        => status[n] = "Running"
QueuedAcked == \A n \in Node : Queued(n) => Acknowledged(n)

AckInv == ContractInv /\ OwesRunning /\ QueuedAcked

\* The driver settles a Running node when its event arrives or its dispatch fails.
LEMMA DriverSettles ==
    ASSUME ContractInv, DriverStep \/ BeginPoll
    PROVE  /\ \A m \in Node : status[m] = "Running" =>
                  status'[m] = "Running" \/ Queued(m) \/ failure'[m] = "Dispatch"
           /\ \A m \in Node : failure[m] = "Dispatch" => failure'[m] = "Dispatch"
           /\ \A m \in Node : jpc'[m] # jpc[m] => status'[m] = "Running"
<1>0. /\ TypeOK /\ NodeTypeOK /\ Books /\ FirstPoll /\ Submitting /\ FailuresRecorded
  BY DEF ContractInv, BookInv, TypeOK
<1>t. /\ status \in [Node -> Status] /\ failure \in [Node -> ErrorKind]
      /\ jpc \in [Node -> JobPc]
  BY <1>0 DEF TypeOK, NodeTypeOK, JobTypeOK
<1>1. CASE BeginPoll \/ RegisterCancelDriver \/ RegisterQueueDriver
  BY <1>1 DEF BeginPoll, RegisterCancelDriver, RegisterQueueDriver, nodeVars, jobVars
<1>2. CASE Initialize
  <2>1. UNCHANGED jpc /\ (UNCHANGED nodeVars \/ CancelUnstarted \/ (NodeInit /\ QueueRoots))
    BY <1>0, <1>2 DEF Initialize, FirstPoll, jobVars
  <2>. QED BY <1>t, <2>1 DEF CancelUnstarted, QueueRoots, NodeInit, nodeVars
<1>3. CASE DrainEmpty \/ LaunchEnd \/ DispatchAccepted \/ Finish \/ Continue
  BY <1>3 DEF DrainEmpty, LaunchEnd, DispatchAccepted, Finish, Continue, nodeVars, jobVars
<1>4. CASE Sweep
  BY <1>t, <1>4 DEF Sweep, CancelUnstarted, nodeVars, jobVars
<1>5. CASE Launch
  <2>1. ready # <<>>
    BY <1>5 DEF Launch
  <2>2. /\ Head(ready) \in Node /\ status[Head(ready)] = "Ready"
        /\ Pred(Head(ready)) \subseteq outputs
    BY <1>0, <2>1, HeadIsReady
  <2>3. Submit(Head(ready))
    BY <1>5, <2>2 DEF Launch
  <2>. QED BY <1>t, <2>2, <2>3 DEF Submit
<1>6. CASE DispatchRejected
  <2>1. dpc = "dispatch" /\ FailNode(current, "Dispatch") /\ UNCHANGED jpc
    BY <1>6 DEF DispatchRejected, jobVars
  <2>2. current \in Node /\ status[current] = "Running"
    BY <1>0, <2>1 DEF TypeOK, DriverTypeOK, Submitting
  <2>3. \A m \in Node \ {current} : status'[m] = status[m] \/ status[m] = "Pending"
    BY <1>0, <2>1, <2>2, FailNodeSpares
  <2>4. failure'[current] = "Dispatch" /\ \A m \in Node \ {current} : failure'[m] = failure[m]
    BY <1>t, <2>1, <2>2 DEF FailNode
  <2>. QED BY <2>1, <2>3, <2>4
<1>7. ASSUME NEW e \in [node : Node, kind : Event],
             IgnoreEvent(e) \/ CommitEvent(e) \/ DiscardEvent(e) \/ FailEvent(e)
      PROVE  /\ \A m \in Node : status[m] = "Running" =>
                    status'[m] = "Running" \/ Queued(m) \/ failure'[m] = "Dispatch"
             /\ \A m \in Node : failure[m] = "Dispatch" => failure'[m] = "Dispatch"
             /\ UNCHANGED jpc
  <2>1. Receive(e) /\ e.node \in Node
    BY <1>7 DEF IgnoreEvent, CommitEvent, DiscardEvent, FailEvent
  <2>2. Queued(e.node) /\ UNCHANGED jpc
    <3>1. events \in Seq([node : Node, kind : Event]) /\ events # <<>> /\ e = events[1]
      BY <1>0, <2>1 DEF Receive, TypeOK, SharedTypeOK
    <3>2. 1 \in DOMAIN events
      BY <3>1
    <3>. QED BY <2>1, <3>1, <3>2 DEF Receive, Queued, jobVars
  <2>3. /\ \A m \in Node \ {e.node} : status[m] = "Running" => status'[m] = "Running"
        /\ \A m \in Node : failure[m] = "Dispatch" => failure'[m] = "Dispatch"
    <3>1. CASE IgnoreEvent(e)
      BY <3>1 DEF IgnoreEvent, nodeVars
    <3>2. CASE CommitEvent(e)
      BY <1>t, <2>1, <3>2 DEF CommitEvent, CommitNode
    <3>3. CASE DiscardEvent(e)
      BY <1>t, <2>1, <3>3 DEF DiscardEvent, CancelNode
    <3>4. CASE FailEvent(e)
      <4>1. FailNode(e.node, Kind(e)) /\ status[e.node] = "Running"
        BY <3>4 DEF FailEvent
      <4>2. \A m \in Node \ {e.node} : status'[m] = status[m] \/ status[m] = "Pending"
        BY <1>0, <2>1, <4>1, FailNodeSpares
      <4>3. \A m \in Node \ {e.node} : failure'[m] = failure[m]
        BY <1>t, <2>1, <4>1 DEF FailNode
      <4>4. failure[e.node] = "none"
        BY <1>0, <2>1, <4>1 DEF FailuresRecorded
      <4>. QED BY <4>2, <4>3, <4>4
    <3>. QED BY <1>7, <3>1, <3>2, <3>3, <3>4
  <2>. QED BY <2>1, <2>2, <2>3
<1>. QED BY <1>1, <1>2, <1>3, <1>4, <1>5, <1>6, <1>7 DEF DriverStep, PollRun

LEMMA AckDriver ==
    ASSUME AckInv, DriverStep \/ BeginPoll PROVE OwesRunning' /\ QueuedAcked'
<1>0. ContractInv /\ TypeOK /\ OwesRunning /\ QueuedAcked
  BY DEF AckInv, ContractInv, EventInv
<1>1. /\ \A m \in Node : status[m] = "Running" =>
              status'[m] = "Running" \/ Queued(m) \/ failure'[m] = "Dispatch"
      /\ \A m \in Node : failure[m] = "Dispatch" => failure'[m] = "Dispatch"
      /\ \A m \in Node : jpc'[m] # jpc[m] => status'[m] = "Running"
  BY <1>0, DriverSettles
<1>2. OwesRunning'
  BY <1>0, <1>1 DEF OwesRunning, QueuedAcked, Acknowledged
<1>3. /\ \A m \in Node : jpc'[m] = jpc[m] \/ jpc[m] = "none"
      /\ events' = events \/ (events # <<>> /\ events' = Tail(events))
  BY <1>0, DriverFrame
<1>4. \A i \in DOMAIN events' : \E j \in DOMAIN events : events'[i] = events[j]
  BY <1>0, <1>3, TailEntries DEF TypeOK, SharedTypeOK
<1>5. \A m \in Node : Queued(m)' => Queued(m)
  BY <1>4 DEF Queued
<1>6. \A m \in Node : Acknowledged(m) => Acknowledged(m)'
  BY <1>3 DEF Acknowledged
<1>. QED BY <1>0, <1>2, <1>5, <1>6 DEF QueuedAcked

LEMMA AckJob ==
    ASSUME AckInv, NEW n \in Node, Inward(n) \/ PushEvent(n) \/ WakeDriver(n)
    PROVE  OwesRunning' /\ QueuedAcked'
<1>0. /\ ContractInv /\ TypeOK /\ OwesRunning /\ QueuedAcked
      /\ events \in Seq([node : Node, kind : Event]) /\ jpc \in [Node -> JobPc]
  BY DEF AckInv, ContractInv, EventInv, TypeOK, SharedTypeOK, JobTypeOK
<1>1. UNCHANGED <<status, failure>>
  BY <1>0, ContractJobNodes DEF nodeVars
<1>2. /\ \A m \in Node : Acknowledged(m) => Acknowledged(m)'
      /\ \A m \in Node : jpc[m] = "none" => jpc'[m] = "none"
  <2> USE DEF Acknowledged
  <2>1. CASE Inward(n)
    <3>1. \A m \in Node \ {n} : jpc'[m] = jpc[m]
      BY <1>0, <2>1, InwardFrame
    <3>2. /\ jpc[n] \in DOMAIN Waking \/ jpc[n] = "none" => jpc'[n] = jpc[n]
      BY <1>0, <2>1, InwardFrame
    <3>3. jpc[n] \in {"dropFields", "done"} => jpc'[n] \in {"dropFields", "done"}
      BY <1>0, <2>1 DEF Inward, BeginJobPoll, LoadAborted, Claim, InvokeSync, InvokeAsync,
                        ChildReady, ChildPending, RegisterWaiter, RecheckRetired, RecheckAborted,
                        DropFields, Fire, HostDrop, Become, jobVars
    <3>. QED BY <3>1, <3>2, <3>3 DEF Waking
  <2>2. CASE PushEvent(n)
    BY <1>0, <2>2, PushFrame DEF Waking, Pushing
  <2>3. CASE WakeDriver(n)
    BY <1>0, <2>3, WakeFrame DEF Waking
  <2>. QED BY <2>1, <2>2, <2>3
<1>3. OwesRunning'
  BY <1>0, <1>1, <1>2 DEF OwesRunning
<1>4. \A m \in Node : Queued(m)' => Queued(m) \/ Acknowledged(m)'
  <2>1. CASE Inward(n) \/ WakeDriver(n)
    BY <1>0, <2>1, InwardFrame, WakeFrame DEF Queued
  <2>2. CASE PushEvent(n)
    <3> DEFINE pushed == [node |-> n, kind |-> event[n]]
    <3>1. events' = Append(events, pushed) /\ Acknowledged(n)'
      BY <1>0, <2>2, PushFrame DEF Waking, Acknowledged
    <3>2. pushed.node = n
      OBVIOUS
    <3> HIDE DEF pushed
    <3>3. \A i \in DOMAIN events' :
             (i \in DOMAIN events /\ events'[i] = events[i]) \/ events'[i] = pushed
      BY <1>0, <3>1
    <3>. QED BY <3>1, <3>2, <3>3 DEF Queued
  <2>. QED BY <2>1, <2>2
<1>. QED BY <1>0, <1>2, <1>3, <1>4 DEF QueuedAcked

LEMMA AckStep == AckInv /\ [Next]_vars => AckInv'
<1> SUFFICES ASSUME AckInv, [Next]_vars PROVE AckInv'
  OBVIOUS
<1>0. ContractInv' /\ OwesRunning /\ QueuedAcked
  BY ContractStep DEF AckInv
<1>1. ASSUME UNCHANGED <<nodeVars, jobVars, events>> PROVE AckInv'
  BY <1>0, <1>1 DEF AckInv, OwesRunning, QueuedAcked, Acknowledged, Queued, nodeVars, jobVars
<1>2. CASE DriverStep \/ BeginPoll
  BY <1>0, <1>2, AckDriver DEF AckInv
<1>3. ASSUME NEW n \in Node, JobStep(n) \/ Fire(n) \/ HostDrop(n) \/ BeginJobPoll(n)
      PROVE  AckInv'
  BY <1>0, <1>3, JobKinds, AckJob DEF AckInv
<1>4. ASSUME NEW c \in Calls, BeginCall(c) \/ CallStep(c) PROVE AckInv'
  BY <1>1, <1>4 DEF BeginCall, CallStep, StoreCancelled, StoreAborted, TakeDriver,
                    TakeWaiters, WakeTaken, runVars
<1>5. CASE UNCHANGED vars
  BY <1>1, <1>5 DEF vars, runVars
<1>. QED BY <1>2, <1>3, <1>4, <1>5 DEF Next, SpuriousPoll, Finished

\* The report does not overtake the jobs: when poll returns it, no accepted job of
\* the run can still run user code or push an event.
THEOREM ReportsWait == Spec => []ReportAfterAcks
<1>1. Init => OwesRunning /\ QueuedAcked
  BY DEF Init, OwesRunning, QueuedAcked, Queued
<1>2. Init => AckInv
  BY <1>1, ContractInit DEF AckInv
<1>3. AckInv => ReportAfterAcks
  BY DEF AckInv, ContractInv, OutcomeLast, Undecided, OwesRunning, ReportAfterAcks
<1>. QED BY <1>2, <1>3, AckStep, PTL DEF Spec

-----------------------------------------------------------------------------
(* Stops reach the jobs. *)

\* The flags are read again only behind a stop, and a task that watches its token
\* has its one catch-up wake before it when it gets there.
CatchUpLate ==
    /\ \A n \in Node : catchUp[n] \/ jpc[n] \in {"recheckRetired", "recheckAborted"}
                        => cancelled
    /\ \A n \in Aware : jpc[n] \in {"register", "recheckRetired", "recheckAborted"}
                        => ~catchUp[n]

\* A sleeping job can be woken: it is runnable, or its waker is registered or taken
\* by a call that is about to wake it.
Reachable ==
    /\ \A c \in Calls : taken[c].jobs # {} => cpc[c] = "wake"
    /\ \A n \in Node : jpc[n] \in {"idle", "recheckRetired", "recheckAborted"} =>
          jobWoken[n] \/ n \in waiters \/ \E c \in Calls : n \in taken[c].jobs

DeafInv == ContractInv /\ CatchUpLate /\ Reachable /\ NoDeafJob

LEMMA DeafDriver ==
    ASSUME DeafInv, DriverStep \/ BeginPoll
    PROVE  CatchUpLate' /\ Reachable' /\ NoDeafJob'
<1>0. ContractInv /\ TypeOK /\ CatchUpLate /\ Reachable /\ NoDeafJob
  BY DEF DeafInv, ContractInv, EventInv
<1>t. jpc \in [Node -> JobPc] /\ jobWoken \in [Node -> BOOLEAN]
  BY <1>0 DEF TypeOK, JobTypeOK, HostTypeOK
<1>1. UNCHANGED <<cancelled, aborted, cpc>>
  BY <1>0, DriverFrame DEF flagVars
<1>2. /\ UNCHANGED <<catchUp, waiters, taken>>
      /\ \A m \in Node : \/ jpc'[m] = jpc[m] /\ jobWoken'[m] = jobWoken[m]
                         \/ jpc'[m] = "idle" /\ jobWoken'[m]
  <2> USE DEF jobVars, hostVars, wakeVars, ctlVars
  <2>1. CASE BeginPoll \/ RegisterCancelDriver \/ RegisterQueueDriver
    BY <2>1 DEF BeginPoll, RegisterCancelDriver, RegisterQueueDriver
  <2>2. CASE Initialize \/ Sweep
    BY <2>2 DEF Initialize, Sweep
  <2>3. CASE DrainEmpty \/ LaunchEnd \/ DispatchAccepted \/ DispatchRejected
    BY <2>3 DEF DrainEmpty, LaunchEnd, DispatchAccepted, DispatchRejected
  <2>4. CASE Finish \/ Continue
    BY <2>4 DEF Finish, Continue
  <2>5. CASE Launch
    <3>1. ready # <<>> /\ UNCHANGED <<catchUp, waiters, taken>>
      BY <2>5 DEF Launch
    <3>2. /\ Head(ready) \in Node /\ status[Head(ready)] = "Ready"
          /\ Pred(Head(ready)) \subseteq outputs
      BY <1>0, <3>1, HeadIsReady DEF ContractInv, BookInv
    <3>3. Submit(Head(ready))
      BY <2>5, <3>2 DEF Launch
    <3>. QED BY <1>t, <3>1, <3>2, <3>3 DEF Submit
  <2>6. ASSUME NEW e \in [node : Node, kind : Event],
               IgnoreEvent(e) \/ CommitEvent(e) \/ DiscardEvent(e) \/ FailEvent(e)
        PROVE  Receive(e)
    BY <2>6 DEF IgnoreEvent, CommitEvent, DiscardEvent, FailEvent
  <2>7. CASE \E e \in [node : Node, kind : Event] : Receive(e)
    BY <2>7 DEF Receive
  <2>. QED BY <2>1, <2>2, <2>3, <2>4, <2>5, <2>6, <2>7 DEF DriverStep, PollRun
<1>3. Aware \subseteq Node
  BY HostAssumption
<1>4. CatchUpLate'
  BY <1>0, <1>1, <1>2, <1>3 DEF CatchUpLate
<1>5. Reachable'
  BY <1>0, <1>1, <1>2 DEF Reachable
<1>6. NoDeafJob'
  BY <1>0, <1>1, <1>2 DEF NoDeafJob, Stopping
<1>. QED BY <1>4, <1>5, <1>6

LEMMA DeafJob ==
    ASSUME DeafInv, NEW n \in Node, Inward(n) \/ PushEvent(n) \/ WakeDriver(n)
    PROVE  CatchUpLate' /\ Reachable' /\ NoDeafJob'
<1>0. ContractInv /\ TypeOK /\ CatchUpLate /\ Reachable /\ NoDeafJob /\ StopsFounded
  BY DEF DeafInv, ContractInv, EventInv
<1>t. /\ jpc \in [Node -> JobPc] /\ jobWoken \in [Node -> BOOLEAN]
      /\ catchUp \in [Node -> BOOLEAN]
  BY <1>0 DEF TypeOK, JobTypeOK, HostTypeOK
<1>1. UNCHANGED <<cancelled, aborted, cpc, taken>>
  BY <1>0, ContractJobNodes, InwardFrame, PushFrame, WakeFrame DEF flagVars, ctlVars
<1>h. Aware \subseteq Node /\ (aborted => cancelled)
  BY <1>0, HostAssumption DEF StopsFounded
\* Of the other jobs nothing changes, and no waker is taken from n.
<1>2. /\ \A m \in Node \ {n} : /\ jpc'[m] = jpc[m] /\ jobWoken'[m] = jobWoken[m]
                               /\ catchUp'[m] = catchUp[m]
      /\ waiters \subseteq waiters'
  <2> USE DEF Become, jobVars, hostVars, wakeVars
  <2>1. CASE BeginJobPoll(n) \/ LoadAborted(n) \/ Claim(n) \/ InvokeSync(n)
    BY <1>t, <2>1 DEF BeginJobPoll, LoadAborted, Claim, InvokeSync
  <2>2. CASE InvokeAsync(n) \/ ChildReady(n) \/ ChildPending(n) \/ RegisterWaiter(n)
    BY <1>t, <2>2 DEF InvokeAsync, ChildReady, ChildPending, RegisterWaiter
  <2>3. CASE RecheckRetired(n) \/ RecheckAborted(n) \/ DropFields(n)
    BY <1>t, <2>3 DEF RecheckRetired, RecheckAborted, DropFields
  <2>4. CASE Fire(n) \/ HostDrop(n) \/ PushEvent(n) \/ WakeDriver(n)
    BY <1>t, <2>4 DEF Fire, HostDrop, PushEvent, WakeDriver
  <2>. QED BY <2>1, <2>2, <2>3, <2>4 DEF Inward
\* What becomes of n itself.
<1>3. /\ catchUp'[n] \/ jpc'[n] \in {"recheckRetired", "recheckAborted"} => cancelled
      /\ n \in Aware /\ jpc'[n] \in {"register", "recheckRetired", "recheckAborted"}
            => ~catchUp'[n]
  <2> USE DEF Become, jobVars, CatchUpLate
  <2>1. CASE BeginJobPoll(n) \/ LoadAborted(n) \/ Claim(n) \/ InvokeSync(n)
    BY <1>0, <1>t, <2>1 DEF BeginJobPoll, LoadAborted, Claim, InvokeSync
  <2>2. CASE InvokeAsync(n) \/ ChildReady(n) \/ ChildPending(n)
    BY <1>0, <1>t, <2>2 DEF InvokeAsync, ChildReady, ChildPending
  <2>3. CASE RegisterWaiter(n) \/ RecheckRetired(n)
    BY <1>0, <1>t, <1>h, <2>3 DEF RegisterWaiter, RecheckRetired
  <2>4. CASE RecheckAborted(n) \/ DropFields(n)
    BY <1>0, <1>t, <1>h, <2>4 DEF RecheckAborted, DropFields
  <2>5. CASE Fire(n) \/ HostDrop(n)
    BY <1>0, <1>t, <2>5 DEF Fire, HostDrop
  <2>6. CASE PushEvent(n) \/ WakeDriver(n)
    BY <1>0, <1>t, <2>6 DEF PushEvent, WakeDriver, Pushing, Waking
  <2>. QED BY <2>1, <2>2, <2>3, <2>4, <2>5, <2>6 DEF Inward
<1>4. jpc'[n] \in {"idle", "recheckRetired", "recheckAborted"} =>
        \/ jobWoken'[n]
        \/ n \in waiters' /\ ~(cancelled \/ aborted)
        \/ n \in waiters' /\ jpc'[n] # "idle"
        \/ jpc'[n] = "idle" /\ ~aborted /\ ~(cancelled /\ n \in Aware)
           /\ (n \in waiters' \/ \E c \in Calls : n \in taken[c].jobs)
        \/ jpc'[n] = jpc[n] /\ jobWoken'[n] = jobWoken[n]
        \/ jpc'[n] = "recheckAborted" /\ jpc[n] = "recheckRetired"
           /\ jobWoken'[n] = jobWoken[n]
  <2> USE DEF Become, jobVars, hostVars, wakeVars
  <2>1. CASE BeginJobPoll(n) \/ LoadAborted(n) \/ Claim(n) \/ InvokeSync(n)
    BY <1>t, <2>1 DEF BeginJobPoll, LoadAborted, Claim, InvokeSync
  <2>2. CASE InvokeAsync(n) \/ ChildReady(n) \/ ChildPending(n)
    BY <1>t, <2>2 DEF InvokeAsync, ChildReady, ChildPending
  <2>3. CASE RegisterWaiter(n) \/ RecheckRetired(n)
    BY <1>t, <2>3 DEF RegisterWaiter, RecheckRetired
  <2>4. CASE RecheckAborted(n)
    <3>1. CASE aborted
      BY <1>t, <2>4, <3>1 DEF RecheckAborted
    <3>2. CASE ~aborted
      <4>1. /\ jpc[n] = "recheckAborted" /\ jpc'[n] = "idle" /\ waiters' = waiters
            /\ jobWoken'[n] = (jobWoken[n] \/ ~catchUp[n])
        BY <1>t, <2>4, <3>2 DEF RecheckAborted
      <4>2. jobWoken[n] \/ n \in waiters \/ \E c \in Calls : n \in taken[c].jobs
        BY <1>0, <4>1 DEF Reachable
      <4>3. n \in Aware => ~catchUp[n]
        BY <1>0, <4>1 DEF CatchUpLate
      <4>. QED BY <3>2, <4>1, <4>2, <4>3
    <3>. QED BY <3>1, <3>2
  <2>5. CASE DropFields(n) \/ Fire(n) \/ HostDrop(n)
    BY <1>t, <2>5 DEF DropFields, Fire, HostDrop
  <2>6. CASE PushEvent(n) \/ WakeDriver(n)
    BY <1>t, <2>6 DEF PushEvent, WakeDriver, Pushing, Waking
  <2>. QED BY <2>1, <2>2, <2>3, <2>4, <2>5, <2>6 DEF Inward
<1>5. CatchUpLate'
  BY <1>0, <1>1, <1>2, <1>3, <1>h DEF CatchUpLate
<1>6. Reachable'
  BY <1>0, <1>1, <1>2, <1>4 DEF Reachable
<1>7. NoDeafJob'
  BY <1>0, <1>1, <1>2, <1>4 DEF NoDeafJob, Stopping
<1>. QED BY <1>5, <1>6, <1>7

\* A call stores its flags before it takes the wakers, and wakes what it took.
LEMMA DeafCall ==
    ASSUME DeafInv, NEW c \in Calls, BeginCall(c) \/ CallStep(c)
    PROVE  CatchUpLate' /\ Reachable' /\ NoDeafJob'
<1>0. ContractInv /\ TypeOK /\ CatchUpLate /\ Reachable /\ NoDeafJob
  BY DEF DeafInv, ContractInv, EventInv
<1>t. /\ cpc \in [Calls -> CallPc]
      /\ taken \in [Calls -> [driver : BOOLEAN, jobs : SUBSET Node]]
      /\ jobWoken \in [Node -> BOOLEAN]
  BY <1>0 DEF TypeOK, CallTypeOK, HostTypeOK
<1>1. UNCHANGED <<jpc, catchUp>> /\ (cancelled => cancelled')
      /\ \A d \in Calls \ {c} : cpc'[d] = cpc[d]
  BY <1>t DEF BeginCall, CallStep, StoreCancelled, StoreAborted, TakeDriver, TakeWaiters,
              WakeTaken, Goes, jobVars, flagVars
<1>2. CatchUpLate'
  BY <1>0, <1>1 DEF CatchUpLate
<1>3. CASE BeginCall(c)
  <2>1. /\ UNCHANGED <<aborted, waiters, jobWoken, taken>> /\ cpc[c] = "idle"
        /\ IF c = "drop" THEN UNCHANGED cancelled ELSE Stopping(c)'
    BY <1>t, <1>3 DEF BeginCall, Goes, Stopping, wakeVars, hostVars
  <2>2. Reachable'
    BY <1>0, <1>1, <2>1 DEF Reachable
  <2>3. NoDeafJob'
    BY <1>0, <1>1, <2>1 DEF NoDeafJob, Reachable, Stopping
  <2>. QED BY <1>2, <2>2, <2>3
<1>4. CASE StoreCancelled(c) \/ StoreAborted(c)
  <2>1. UNCHANGED <<waiters, jobWoken, taken>> /\ Stopping(c)' /\ cpc[c] # "wake"
    BY <1>t, <1>4 DEF StoreCancelled, StoreAborted, Goes, Stopping, wakeVars, hostVars
  <2>2. Reachable'
    BY <1>0, <1>1, <2>1 DEF Reachable
  <2>3. NoDeafJob'
    BY <1>0, <1>1, <2>1 DEF NoDeafJob, Reachable, Stopping
  <2>. QED BY <1>2, <2>2, <2>3
<1>5. CASE TakeDriver(c)
  <2>1. /\ UNCHANGED <<waiters, jobWoken, cancelled, aborted>>
        /\ cpc[c] = "takeDriver" /\ cpc'[c] = "takeWaiters"
        /\ \A d \in Calls : taken'[d].jobs = taken[d].jobs
    BY <1>t, <1>5 DEF TakeDriver, Goes, hostVars, flagVars
  <2>2. Reachable'
    BY <1>0, <1>1, <2>1 DEF Reachable
  <2>3. NoDeafJob'
    BY <1>0, <1>1, <2>1 DEF NoDeafJob, Stopping
  <2>. QED BY <1>2, <2>2, <2>3
<1>6. CASE TakeWaiters(c)
  <2>1. /\ UNCHANGED <<jobWoken, cancelled, aborted>>
        /\ cpc[c] = "takeWaiters" /\ cpc'[c] = "wake"
        /\ taken'[c].jobs = waiters /\ waiters' = {}
        /\ \A d \in Calls \ {c} : taken'[d].jobs = taken[d].jobs
    BY <1>t, <1>6 DEF TakeWaiters, Goes, hostVars, flagVars
  <2>2. taken[c].jobs = {}
    BY <1>0, <2>1 DEF Reachable
  <2>3. Reachable'
    BY <1>0, <1>1, <2>1, <2>2 DEF Reachable
  <2>4. NoDeafJob'
    BY <1>0, <1>1, <2>1, <2>2 DEF NoDeafJob, Stopping
  <2>. QED BY <1>2, <2>3, <2>4
<1>7. CASE WakeTaken(c)
  <2>1. /\ UNCHANGED <<waiters, cancelled, aborted>>
        /\ cpc[c] = "wake" /\ cpc'[c] = "done"
        /\ taken'[c].jobs = {} /\ \A d \in Calls \ {c} : taken'[d].jobs = taken[d].jobs
        /\ \A m \in Node : jobWoken'[m] = (jobWoken[m] \/ m \in taken[c].jobs)
    BY <1>t, <1>7 DEF WakeTaken, Goes, wakeVars, flagVars
  <2>2. Reachable'
    BY <1>0, <1>1, <2>1 DEF Reachable
  <2>3. NoDeafJob'
    BY <1>0, <1>1, <2>1 DEF NoDeafJob, Stopping
  <2>. QED BY <1>2, <2>2, <2>3
<1>. QED BY <1>3, <1>4, <1>5, <1>6, <1>7 DEF CallStep

LEMMA DeafStep == DeafInv /\ [Next]_vars => DeafInv'
<1> SUFFICES ASSUME DeafInv, [Next]_vars PROVE DeafInv'
  OBVIOUS
<1>0. ContractInv' /\ CatchUpLate /\ Reachable /\ NoDeafJob
  BY ContractStep DEF DeafInv
<1>1. CASE DriverStep \/ BeginPoll
  BY <1>0, <1>1, DeafDriver DEF DeafInv
<1>2. ASSUME NEW n \in Node, JobStep(n) \/ Fire(n) \/ HostDrop(n) \/ BeginJobPoll(n)
      PROVE  DeafInv'
  BY <1>0, <1>2, JobKinds, DeafJob DEF DeafInv
<1>3. ASSUME NEW c \in Calls, BeginCall(c) \/ CallStep(c) PROVE DeafInv'
  BY <1>0, <1>3, DeafCall DEF DeafInv
<1>4. CASE UNCHANGED vars
  <2>1. UNCHANGED <<jpc, catchUp, cancelled, aborted, waiters, jobWoken, taken, cpc>>
    BY <1>4 DEF vars, jobVars, flagVars, wakeVars, hostVars, ctlVars
  <2>2. CatchUpLate' /\ Reachable' /\ NoDeafJob'
    BY <1>0, <2>1 DEF CatchUpLate, Reachable, NoDeafJob, Stopping
  <2>. QED BY <1>0, <2>2 DEF DeafInv
<1>. QED BY <1>1, <1>2, <1>3, <1>4 DEF Next, SpuriousPoll, Finished

\* No stop is lost on a sleeping job it concerns: for any calls, however they
\* interleave with the registration of its waker, the job is runnable or a call is
\* about to wake it.
THEOREM NoJobIsDeaf == Spec => []NoDeafJob
<1>1. Init => CatchUpLate /\ Reachable /\ NoDeafJob
  BY HostAssumption DEF Init, CatchUpLate, Reachable, NoDeafJob
<1>2. Init => DeafInv
  BY <1>1, ContractInit DEF DeafInv
<1>3. DeafInv => NoDeafJob
  BY DEF DeafInv
<1>. QED BY <1>2, <1>3, DeafStep, PTL DEF Spec

-----------------------------------------------------------------------------
(* What is proved of the contract, then, holds of the run.                 *)

Promises == INSTANCE RunContract_proof WITH stop <- cancelled

LEMMA SamePlan ==
    /\ Promises!Node = Contract!Node
    /\ \A n : Promises!Succ(n) = Contract!Succ(n) /\ Promises!Pred(n) = Contract!Pred(n)
    /\ \A n, O : Promises!Downstream(n, O) = Contract!Downstream(n, O)
    /\ \A p : Promises!In(p) = Contract!In(p)
    /\ Promises!Open = Contract!Open
  BY DEF Contract!Node, Contract!Succ, Contract!ToSet, Contract!Pred, Contract!In,
         Contract!Open, Contract!Downstream, Promises!Node, Promises!Succ, Promises!ToSet,
         Promises!Pred, Promises!In, Promises!Open, Promises!Downstream

LEMMA SameContract == Contract!Spec => Promises!Spec
<1>1. Contract!Init => Promises!Init
  BY SamePlan DEF Contract!Init, Promises!Init
<1>2. [Contract!Next]_(Contract!vars) => [Promises!Next]_(Promises!vars)
  BY SamePlan
     DEF Contract!Next, Contract!RequestStop, Contract!Claim, Contract!Commit, Contract!Fail,
         Contract!Discard, Contract!Return, Contract!vars, Promises!Next,
         Promises!RequestStop, Promises!Claim, Promises!Commit, Promises!Fail,
         Promises!Discard, Promises!Return, Promises!vars
<1>. QED BY <1>1, <1>2, PTL DEF Contract!Spec, Promises!Spec

LEMMA SameInvariant == Promises!Inv <=> Contract!Inv
  BY SamePlan
     DEF Promises!Inv, Promises!TypeOK, Promises!Phase, Promises!Outcome,
         Promises!StartedAfterInputs, Promises!FailureSettles, Promises!BlockedHasCause,
         Promises!BlockedNeedsFailure, Promises!BlocksFollowFailures, Promises!Dependents,
         Promises!DiscardNeedsStop, Promises!OutcomeTruthful,
         Contract!Inv, Contract!TypeOK, Contract!Phase, Contract!Outcome,
         Contract!StartedAfterInputs, Contract!FailureSettles, Contract!BlockedHasCause,
         Contract!BlockedNeedsFailure, Contract!BlocksFollowFailures, Contract!Dependents,
         Contract!DiscardNeedsStop, Contract!OutcomeTruthful

\* In a dispatched run too nothing waits for a node that can never start, a report
\* is truthful and complete, a settled node keeps its verdict and no job claims its
\* task after a stop, for every plan, host and set of control calls.
THEOREM DispatchKeepsPromises ==
    Spec => []Contract!Inv /\ Contract!SettledIsFinal /\ Contract!StopFreezes
<1>1. Spec => Promises!Spec
  BY DispatchKeepsContract, SameContract DEF ImplementsContract
<1> USE PlanAssumption
    DEF Promises!Node, Node, Promises!IsInjective, IsInjective, Promises!ToSet, ToSet
<1>2. Promises!Spec => []Promises!Inv
  BY Promises!ContractInvariant
<1>3. Promises!Spec => Promises!SettledIsFinal
  BY Promises!SettledStays
<1>4. Promises!Spec => Promises!StopFreezes
  BY Promises!StopIsFinal
<1>5. [Promises!SettledStep]_(Promises!vars) => [Contract!SettledStep]_(Contract!vars)
  BY SamePlan DEF Promises!SettledStep, Promises!Settled, Promises!vars,
                  Contract!SettledStep, Contract!Settled, Contract!vars
<1>6. [Promises!StopFreezesStep]_(Promises!vars) => [Contract!StopFreezesStep]_(Contract!vars)
  BY SamePlan DEF Promises!StopFreezesStep, Promises!vars,
                  Contract!StopFreezesStep, Contract!vars
<1>. QED BY <1>1, <1>2, <1>3, <1>4, <1>5, <1>6, SameInvariant, PTL
         DEF Promises!SettledIsFinal, Promises!StopFreezes,
             Contract!SettledIsFinal, Contract!StopFreezes
=============================================================================
