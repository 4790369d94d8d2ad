---------------------------- MODULE DispatchRun ----------------------------
(***************************************************************************)
(* One run of a compiled graph with an external dispatcher (GraphRun,      *)
(* NodeJob, JobQueue and CancelState in src/runtime.rs), cut at every      *)
(* access to state that threads share.                                     *)
(*                                                                         *)
(* Actors:                                                                 *)
(*   - the driver: the executor task that polls GraphRun.  It alone owns   *)
(*     the statuses, the ready queue and the outputs;                      *)
(*   - one NodeJob per dispatched node, polled or dropped by the host;     *)
(*   - control calls from other threads: RunControl::cancel and ::abort,   *)
(*     and the drop of the GraphRun ("drop"), which retires its jobs;      *)
(*   - the host: wakers, dispatcher verdicts, events user tasks wait for.  *)
(*                                                                         *)
(* A waker only makes its target runnable (driverWoken, jobWoken); a task  *)
(* is polled when it is runnable, or spuriously if the host may do that.   *)
(***************************************************************************)
EXTENDS RunNodes

CONSTANTS Results,     \* how a user task may end
          Aware,       \* nodes whose task watches its cancellation token
          Responsive,  \* nodes whose task is eventually ready to complete
          Calls,       \* the control calls made, each at most once
          HostMay      \* liberties of the host: "drop" an accepted job,
                       \* "reject" a dispatch, poll "spurious"ly

ASSUME HostAssumption ==
    /\ Results \subseteq {"ok", "invalid", "user", "checkpoint", "panic"}
    /\ Aware \subseteq Node /\ Responsive \subseteq Node
    /\ Calls \subseteq {"cancel", "abort", "drop"}
    /\ HostMay \subseteq {"drop", "reject", "spurious"}

VARIABLES
    \* GraphRun, owned by the driver
    dpc,           \* where GraphRun::poll is; "idle" between polls
    initialized,   \* the first poll has filled the ready queue
    progressed,    \* this iteration of the poll loop did something
    current,       \* node being handed to the dispatcher, 0 for none
    outcome,       \* Poll::Ready value of the run, "none" before
    \* shared: CancelState and JobQueue
    cancelled, aborted, retired,   \* the three AtomicBools
    gate,          \* start_gate is locked
    cancelDriver,  \* CancelState::driver holds the driver's waker
    waiters,       \* jobs whose waker CancelState::waiters holds
    queueDriver,   \* JobQueue::driver holds the driver's waker
    events,        \* JobQueue::events
    \* NodeJob
    jpc,           \* where the job is; "none" before it is dispatched
    holds,         \* what of the user's the job still owns
    event,         \* kind of JobEvent the job is about to push
    catchUp,       \* cancel_catch_up_scheduled
    claimed,       \* nodes whose factory was invoked (history)
    \* executor, host and control calls
    driverWoken, jobWoken, fired,
    cpc,           \* where each control call is
    taken          \* wakers wake_all took and has still to wake

drvVars  == <<dpc, initialized, progressed, current, outcome>>
runVars  == <<drvVars, nodeVars>>
flagVars == <<cancelled, aborted, retired>>
wakeVars == <<cancelDriver, waiters, queueDriver>>
jobVars  == <<jpc, holds, event, catchUp, claimed>>
hostVars == <<driverWoken, jobWoken, fired>>
ctlVars  == <<cpc, taken>>
vars == <<runVars, flagVars, gate, wakeVars, events, jobVars, hostVars, ctlVars>>

Event == {"ok", "invalid", "user", "checkpoint", "panic", "Dropped", "Cancelled"}
DriverPc == {"idle", "regCancel", "regQueue", "init", "drain", "sweep", "launch",
             "dispatch", "check", "done", "dropped"}
\* "locked..." is the branch of NodeJob::poll that pushes under start_gate.
JobPc == {"none", "idle", "retired", "aborted", "claim", "lockedPush", "lockedWake",
          "invoke", "child", "register", "recheckRetired", "recheckAborted",
          "push", "wake", "dropPush", "dropWake", "dropFields", "done"}
CallPc == {"idle", "storeCancelled", "storeAborted", "takeDriver", "takeWaiters",
           "wake", "done"}

DriverTypeOK ==
    /\ dpc \in DriverPc
    /\ initialized \in BOOLEAN /\ progressed \in BOOLEAN
    /\ current \in 0..N /\ (dpc = "dispatch" => current \in Node)
    /\ outcome \in {"none", "Ok", "Failed", "Cancelled"}

SharedTypeOK ==
    /\ cancelled \in BOOLEAN /\ aborted \in BOOLEAN /\ retired \in BOOLEAN
    /\ gate \in BOOLEAN
    /\ cancelDriver \in BOOLEAN /\ queueDriver \in BOOLEAN
    /\ waiters \subseteq Node
    /\ events \in Seq([node : Node, kind : Event])

JobTypeOK ==
    /\ jpc \in [Node -> JobPc]
    /\ holds \in [Node -> {"nothing", "task", "future"}]
    /\ event \in [Node -> Event]
    /\ catchUp \in [Node -> BOOLEAN]
    /\ claimed \subseteq Node

HostTypeOK ==
    /\ driverWoken \in BOOLEAN
    /\ jobWoken \in [Node -> BOOLEAN]
    /\ fired \subseteq Node

CallTypeOK ==
    /\ cpc \in [Calls -> CallPc]
    /\ taken \in [Calls -> [driver : BOOLEAN, jobs : SUBSET Node]]

TypeOK == NodeTypeOK /\ DriverTypeOK /\ SharedTypeOK /\ JobTypeOK /\ HostTypeOK /\ CallTypeOK

Init ==
    /\ dpc = "idle"
    /\ NodeInit
    /\ initialized = FALSE /\ progressed = FALSE /\ current = 0 /\ outcome = "none"
    /\ cancelled = FALSE /\ aborted = FALSE /\ retired = FALSE /\ gate = FALSE
    /\ cancelDriver = FALSE /\ queueDriver = FALSE /\ waiters = {}
    /\ events = <<>>
    /\ jpc = [n \in Node |-> "none"]
    /\ holds = [n \in Node |-> "nothing"]
    /\ event = [n \in Node |-> "Cancelled"]
    /\ catchUp = [n \in Node |-> FALSE]
    /\ claimed = {}
    /\ driverWoken = TRUE
    /\ jobWoken = [n \in Node |-> FALSE]
    /\ fired = {}
    /\ cpc = [c \in Calls |-> "idle"]
    /\ taken = [c \in Calls |-> [driver |-> FALSE, jobs |-> {}]]

-----------------------------------------------------------------------------
(* GraphRun::poll. *)

GoTo(pc) == dpc' = pc

BeginPoll ==
    /\ dpc = "idle" /\ GoTo("regCancel")
    /\ driverWoken' = FALSE
    /\ UNCHANGED <<initialized, progressed, current, outcome, nodeVars, flagVars, gate,
                   wakeVars, events, jobVars, jobWoken, fired, ctlVars>>

PollRun == driverWoken /\ BeginPoll

RegisterCancelDriver ==
    /\ dpc = "regCancel" /\ GoTo("regQueue")
    /\ cancelDriver' = TRUE
    /\ UNCHANGED <<initialized, progressed, current, outcome, nodeVars, flagVars, gate,
                   waiters, queueDriver, events, jobVars, hostVars, ctlVars>>

RegisterQueueDriver ==
    /\ dpc = "regQueue" /\ GoTo("init")
    /\ queueDriver' = TRUE
    /\ UNCHANGED <<initialized, progressed, current, outcome, nodeVars, flagVars, gate,
                   cancelDriver, waiters, events, jobVars, hostVars, ctlVars>>

\* The first poll queues the roots, unless it is too late.
Initialize ==
    /\ dpc = "init" /\ GoTo("drain")
    /\ initialized' = TRUE /\ progressed' = FALSE
    /\ IF initialized THEN UNCHANGED nodeVars
       ELSE IF cancelled THEN CancelUnstarted ELSE QueueRoots
    /\ UNCHANGED <<current, outcome, flagVars, gate, wakeVars, events, jobVars,
                   hostVars, ctlVars>>

\* The verdict on an event e of a Running node.
Commits(e)  == e.kind = "ok" /\ ~cancelled
Discards(e) == e.kind = "Cancelled"
               \/ (e.kind \in {"ok", "checkpoint", "Dropped"} /\ cancelled)
Kind(e) == CASE e.kind = "invalid"    -> "InvalidOutputs"
             [] e.kind = "user"       -> "Task"
             [] e.kind = "checkpoint" -> "Cancelled"
             [] e.kind = "panic"      -> "Panic"
             [] e.kind = "Dropped"    -> "Dispatch"

Receive(e) ==
    /\ dpc = "drain" /\ events # <<>>
    /\ e = Head(events) /\ events' = Tail(events)
    /\ progressed' = TRUE
    /\ UNCHANGED <<dpc, initialized, current, outcome, flagVars, gate, wakeVars, jobVars,
                   hostVars, ctlVars>>

IgnoreEvent(e)  == Receive(e) /\ status[e.node] # "Running" /\ UNCHANGED nodeVars
CommitEvent(e)  == Receive(e) /\ status[e.node] = "Running" /\ Commits(e)
                              /\ CommitNode(e.node)
DiscardEvent(e) == Receive(e) /\ status[e.node] = "Running" /\ Discards(e)
                              /\ CancelNode(e.node)
FailEvent(e)    == Receive(e) /\ status[e.node] = "Running"
                              /\ ~Commits(e) /\ ~Discards(e)
                              /\ FailNode(e.node, Kind(e)) /\ UNCHANGED ready

DrainEmpty ==
    /\ dpc = "drain" /\ events = <<>> /\ GoTo("sweep")
    /\ UNCHANGED <<initialized, progressed, current, outcome, nodeVars, flagVars, gate,
                   wakeVars, events, jobVars, hostVars, ctlVars>>

\* The abort branch also drops inline futures, which a dispatched run has none of.
Sweep ==
    /\ dpc = "sweep" /\ GoTo("launch")
    /\ IF aborted \/ cancelled THEN CancelUnstarted ELSE UNCHANGED nodeVars
    /\ UNCHANGED <<initialized, progressed, current, outcome, flagVars, gate, wakeVars,
                   events, jobVars, hostVars, ctlVars>>

\* Hands Ready node n to the dispatcher; the executor it reaches may poll the
\* job at once, before dispatch returns.
Submit(n) ==
    /\ GoTo("dispatch") /\ current' = n
    /\ status' = [status EXCEPT ![n] = "Running"]
    /\ jpc' = [jpc EXCEPT ![n] = "idle"]
    /\ holds' = [holds EXCEPT ![n] = "task"]
    /\ jobWoken' = [jobWoken EXCEPT ![n] = TRUE]
    /\ UNCHANGED <<remaining, outputs, failure, blockedBy>>

\* One Ready node: build_inputs reads the slots of its sources.
Launch ==
    /\ dpc = "launch" /\ ~cancelled /\ ready # <<>>
    /\ ready' = Tail(ready)
    /\ LET n == Head(ready)
       IN  IF status[n] # "Ready"
           THEN UNCHANGED <<dpc, current, progressed, status, remaining, outputs, failure,
                            blockedBy, jpc, holds, jobWoken>>
           ELSE /\ progressed' = TRUE
                /\ IF Pred(n) \subseteq outputs
                   THEN Submit(n)
                   ELSE FailNode(n, "Internal")
                        /\ UNCHANGED <<dpc, current, jpc, holds, jobWoken>>
    /\ UNCHANGED <<initialized, outcome, flagVars, gate, wakeVars, events, event, catchUp,
                   claimed, driverWoken, fired, ctlVars>>

LaunchEnd ==
    /\ dpc = "launch" /\ (cancelled \/ ready = <<>>) /\ GoTo("check")
    /\ UNCHANGED <<initialized, progressed, current, outcome, nodeVars, flagVars, gate,
                   wakeVars, events, jobVars, hostVars, ctlVars>>

DispatchAccepted ==
    /\ dpc = "dispatch" /\ GoTo("launch") /\ current' = 0
    /\ UNCHANGED <<initialized, progressed, outcome, nodeVars, flagVars, gate, wakeVars,
                   events, jobVars, hostVars, ctlVars>>

\* Slip: the dependents of a rejected node are left waiting.
DispatchRejectedAlone ==
    /\ "reject" \in HostMay
    /\ dpc = "dispatch" /\ GoTo("launch") /\ current' = 0
    /\ status' = [status EXCEPT ![current] = "Failed"]
    /\ failure' = [failure EXCEPT ![current] = "Dispatch"]
    /\ UNCHANGED <<remaining, ready, outputs, blockedBy, initialized, progressed, outcome,
                   flagVars, gate, wakeVars, events, jobVars, hostVars, ctlVars>>

\* dispatch returned Err or panicked, whatever it did with the job.
DispatchRejected ==
    /\ "reject" \in HostMay
    /\ dpc = "dispatch" /\ GoTo("launch") /\ current' = 0
    /\ FailNode(current, "Dispatch") /\ UNCHANGED ready
    /\ UNCHANGED <<initialized, progressed, outcome, flagVars, gate, wakeVars, events,
                   jobVars, hostVars, ctlVars>>

\* is_terminal, and the second load of the cancel flag.
Finish ==
    /\ dpc = "check" /\ Undecided = {} /\ GoTo("done")
    /\ outcome' = IF cancelled THEN "Cancelled"
                  ELSE IF \E n \in Node : failure[n] # "none" THEN "Failed" ELSE "Ok"
    /\ UNCHANGED <<initialized, progressed, current, nodeVars, flagVars, gate, wakeVars,
                   events, jobVars, hostVars, ctlVars>>

Continue ==
    /\ dpc = "check" /\ Undecided # {}
    /\ GoTo(IF progressed THEN "drain" ELSE "idle") /\ progressed' = FALSE
    /\ UNCHANGED <<initialized, current, outcome, nodeVars, flagVars, gate, wakeVars,
                   events, jobVars, hostVars, ctlVars>>

DriverStep ==
    \/ PollRun \/ RegisterCancelDriver \/ RegisterQueueDriver \/ Initialize
    \/ \E e \in [node : Node, kind : Event] :
          IgnoreEvent(e) \/ CommitEvent(e) \/ DiscardEvent(e) \/ FailEvent(e)
    \/ DrainEmpty \/ Sweep \/ Launch \/ LaunchEnd
    \/ DispatchAccepted \/ DispatchRejected
    \/ Finish \/ Continue

-----------------------------------------------------------------------------
(* NodeJob::poll and the drop of a NodeJob, by the host. *)

Become(n, pc) == jpc' = [jpc EXCEPT ![n] = pc]
Release(n)    == holds' = [holds EXCEPT ![n] = "nothing"]
Report(n, k)  == event' = [event EXCEPT ![n] = k]

\* A poll begins with the load of the retired flag.
BeginJobPoll(n) ==
    /\ jpc[n] = "idle"
    /\ jobWoken' = [jobWoken EXCEPT ![n] = FALSE]
    /\ IF retired THEN Become(n, "done") /\ Release(n)
                  ELSE Become(n, "aborted") /\ UNCHANGED holds
    /\ UNCHANGED <<runVars, flagVars, gate, wakeVars, events, event, catchUp, claimed,
                   driverWoken, fired, ctlVars>>

PollJob(n) == jobWoken[n] /\ BeginJobPoll(n)

\* Slip: an aborted job ends without telling the driver.
LoadAbortedSilent(n) ==
    /\ jpc[n] = "aborted"
    /\ IF aborted THEN Become(n, "done") /\ Release(n)
       ELSE /\ Become(n, IF holds[n] = "future" THEN "child" ELSE "claim")
            /\ UNCHANGED holds
    /\ UNCHANGED <<runVars, flagVars, gate, wakeVars, events, event, catchUp, claimed,
                   hostVars, ctlVars>>

LoadAborted(n) ==
    /\ jpc[n] = "aborted"
    /\ IF aborted THEN Become(n, "push") /\ Release(n) /\ Report(n, "Cancelled")
       ELSE /\ Become(n, IF holds[n] = "future" THEN "child" ELSE "claim")
            /\ UNCHANGED <<holds, event>>
    /\ UNCHANGED <<runVars, flagVars, gate, wakeVars, events, catchUp, claimed, hostVars,
                   ctlVars>>

\* Slip: the cancel flag is not read under the gate.
ClaimUnchecked(n) ==
    /\ jpc[n] = "claim" /\ ~gate
    /\ claimed' = claimed \cup {n} /\ Become(n, "invoke")
    /\ UNCHANGED <<runVars, flagVars, gate, wakeVars, events, holds, event, catchUp, hostVars,
                   ctlVars>>

\* Under start_gate: the factory is taken only if the run was not told to stop;
\* otherwise the job reports Cancelled before it lets go of the gate.
Claim(n) ==
    /\ jpc[n] = "claim" /\ ~gate
    /\ IF retired \/ cancelled
       THEN /\ gate' = TRUE
            /\ Become(n, "lockedPush") /\ Release(n) /\ Report(n, "Cancelled")
            /\ UNCHANGED claimed
       ELSE /\ claimed' = claimed \cup {n}
            /\ Become(n, "invoke")
            /\ UNCHANGED <<gate, holds, event>>
    /\ UNCHANGED <<runVars, flagVars, wakeVars, events, catchUp, hostVars, ctlVars>>

\* The factory runs: it returns a result, panics, or returns a future.
InvokeSync(n) ==
    /\ jpc[n] = "invoke" /\ Become(n, "push") /\ Release(n)
    /\ \E r \in Results : Report(n, r)
    /\ UNCHANGED <<runVars, flagVars, gate, wakeVars, events, catchUp, claimed, hostVars,
                   ctlVars>>

InvokeAsync(n) ==
    /\ jpc[n] = "invoke" /\ Become(n, "child")
    /\ holds' = [holds EXCEPT ![n] = "future"]
    /\ UNCHANGED <<runVars, flagVars, gate, wakeVars, events, event, catchUp, claimed,
                   hostVars, ctlVars>>

\* The user future is polled.  It completes once what it waits for has
\* happened, or at a checkpoint of its token if it watches it.
ChildReady(n) ==
    /\ jpc[n] = "child" /\ Become(n, "push") /\ Release(n)
    /\ \/ n \in fired /\ \E r \in Results : Report(n, r)
       \/ n \in Aware /\ cancelled /\ Report(n, "checkpoint")
    /\ UNCHANGED <<runVars, flagVars, gate, wakeVars, events, catchUp, claimed, hostVars,
                   ctlVars>>

ChildPending(n) ==
    /\ jpc[n] = "child" /\ Become(n, "register")
    /\ n \notin fired /\ ~(n \in Aware /\ cancelled)
    /\ UNCHANGED <<runVars, flagVars, gate, wakeVars, events, holds, event, catchUp,
                   claimed, hostVars, ctlVars>>

\* Slip: the flags are not read again once the waiter is registered.
RegisterWaiterBlindly(n) ==
    /\ jpc[n] = "register" /\ Become(n, "idle")
    /\ waiters' = waiters \cup {n}
    /\ UNCHANGED <<runVars, flagVars, gate, cancelDriver, queueDriver, events, holds,
                   event, catchUp, claimed, hostVars, ctlVars>>

\* register_waiter: the flags are read under the waiter mutex.
RegisterWaiter(n) ==
    /\ jpc[n] = "register"
    /\ waiters' = waiters \cup {n}
    /\ Become(n, IF cancelled \/ aborted THEN "recheckRetired" ELSE "idle")
    /\ UNCHANGED <<runVars, flagVars, gate, cancelDriver, queueDriver, events, holds,
                   event, catchUp, claimed, hostVars, ctlVars>>

RecheckRetired(n) ==
    /\ jpc[n] = "recheckRetired"
    /\ IF retired THEN Become(n, "done") /\ Release(n)
                  ELSE Become(n, "recheckAborted") /\ UNCHANGED holds
    /\ UNCHANGED <<runVars, flagVars, gate, wakeVars, events, event, catchUp, claimed,
                   hostVars, ctlVars>>

\* Slip: the catch-up wake is given every time.
RecheckAbortedWaking(n) ==
    /\ jpc[n] = "recheckAborted"
    /\ IF aborted
       THEN Become(n, "push") /\ Release(n) /\ Report(n, "Cancelled") /\ UNCHANGED jobWoken
       ELSE Become(n, "idle") /\ jobWoken' = [jobWoken EXCEPT ![n] = TRUE]
            /\ UNCHANGED <<holds, event>>
    /\ UNCHANGED <<runVars, flagVars, gate, wakeVars, events, catchUp, claimed, driverWoken,
                   fired, ctlVars>>

\* Aborted: drop the future.  Otherwise one catch-up wake, the first time.
RecheckAborted(n) ==
    /\ jpc[n] = "recheckAborted"
    /\ IF aborted
       THEN Become(n, "push") /\ Release(n) /\ Report(n, "Cancelled")
            /\ UNCHANGED <<catchUp, jobWoken>>
       ELSE /\ Become(n, "idle")
            /\ catchUp' = [catchUp EXCEPT ![n] = TRUE]
            /\ jobWoken' = [jobWoken EXCEPT ![n] = jobWoken[n] \/ ~catchUp[n]]
            /\ UNCHANGED <<holds, event>>
    /\ UNCHANGED <<runVars, flagVars, gate, wakeVars, events, claimed, driverWoken, fired,
                   ctlVars>>

\* JobQueue::push: queue the event, then take and wake the driver's waker.
Pushing == [push |-> "wake", lockedPush |-> "lockedWake", dropPush |-> "dropWake"]
Waking  == [wake |-> "done", lockedWake |-> "done", dropWake |-> "dropFields"]

PushEvent(n) ==
    /\ jpc[n] \in DOMAIN Pushing /\ Become(n, Pushing[jpc[n]])
    /\ events' = Append(events, [node |-> n, kind |-> event[n]])
    /\ UNCHANGED <<runVars, flagVars, gate, wakeVars, holds, event, catchUp, claimed,
                   hostVars, ctlVars>>

\* Slip: the waker is taken out of the queue and dropped.
WakeDriverLost(n) ==
    /\ jpc[n] \in DOMAIN Waking /\ Become(n, Waking[jpc[n]])
    /\ queueDriver' = FALSE /\ gate' = (gate /\ jpc[n] # "lockedWake")
    /\ UNCHANGED <<runVars, flagVars, cancelDriver, waiters, events, holds, event, catchUp,
                   claimed, hostVars, ctlVars>>

WakeDriver(n) ==
    /\ jpc[n] \in DOMAIN Waking /\ Become(n, Waking[jpc[n]])
    /\ driverWoken' = (driverWoken \/ queueDriver)
    /\ queueDriver' = FALSE
    /\ gate' = (gate /\ jpc[n] # "lockedWake")
    /\ UNCHANGED <<runVars, flagVars, cancelDriver, waiters, events, holds, event, catchUp,
                   claimed, jobWoken, fired, ctlVars>>

\* The drop glue frees the user's task or future after Drop::drop returned.
DropFields(n) ==
    /\ jpc[n] = "dropFields" /\ Become(n, "done") /\ Release(n)
    /\ UNCHANGED <<runVars, flagVars, gate, wakeVars, events, event, catchUp, claimed,
                   hostVars, ctlVars>>

JobStep(n) ==
    \/ PollJob(n) \/ LoadAborted(n) \/ Claim(n) \/ InvokeSync(n) \/ InvokeAsync(n)
    \/ ChildReady(n) \/ ChildPending(n)
    \/ RegisterWaiter(n) \/ RecheckRetired(n) \/ RecheckAborted(n)
    \/ PushEvent(n) \/ WakeDriver(n) \/ DropFields(n)

-----------------------------------------------------------------------------
(* Control calls: RunControl::cancel and ::abort, GraphRun::retire. *)

Goes(c, pc) == cpc' = [cpc EXCEPT ![c] = pc]

\* cancel stores its flag and releases the gate in one critical section; abort
\* has stored one of two flags and retire one of three, and still hold it.
BeginCall(c) ==
    /\ cpc[c] = "idle" /\ ~gate
    /\ IF c = "drop"
       THEN /\ dpc \in {"idle", "done"} /\ GoTo("dropped")
            /\ retired' = TRUE
            /\ Goes(c, "storeCancelled")
            /\ UNCHANGED cancelled
       ELSE /\ cancelled' = TRUE
            /\ Goes(c, IF c = "abort" THEN "storeAborted" ELSE "takeDriver")
            /\ UNCHANGED <<dpc, retired>>
    /\ gate' = (c # "cancel")
    /\ UNCHANGED <<initialized, progressed, current, outcome, nodeVars, aborted, wakeVars,
                   events, jobVars, hostVars, taken>>

StoreCancelled(c) ==
    /\ cpc[c] = "storeCancelled" /\ Goes(c, "storeAborted")
    /\ cancelled' = TRUE
    /\ UNCHANGED <<runVars, aborted, retired, gate, wakeVars, events, jobVars, hostVars,
                   taken>>

StoreAborted(c) ==
    /\ cpc[c] = "storeAborted" /\ Goes(c, "takeDriver")
    /\ aborted' = TRUE
    /\ gate' = FALSE
    /\ UNCHANGED <<runVars, cancelled, retired, wakeVars, events, jobVars, hostVars, taken>>

\* Slips: a waker is taken out of CancelState and dropped.
TakeDriverLost(c) ==
    /\ cpc[c] = "takeDriver" /\ Goes(c, "takeWaiters")
    /\ cancelDriver' = FALSE
    /\ UNCHANGED <<runVars, flagVars, gate, waiters, queueDriver, events, jobVars, hostVars,
                   taken>>
TakeWaitersLost(c) ==
    /\ cpc[c] = "takeWaiters" /\ Goes(c, "wake")
    /\ waiters' = {}
    /\ UNCHANGED <<runVars, flagVars, gate, cancelDriver, queueDriver, events, jobVars,
                   hostVars, taken>>

\* wake_all: take the driver's waker, take the waiters, then wake them all.
TakeDriver(c) ==
    /\ cpc[c] = "takeDriver" /\ Goes(c, "takeWaiters")
    /\ taken' = [taken EXCEPT ![c].driver = cancelDriver]
    /\ cancelDriver' = FALSE
    /\ UNCHANGED <<runVars, flagVars, gate, waiters, queueDriver, events, jobVars, hostVars>>

TakeWaiters(c) ==
    /\ cpc[c] = "takeWaiters" /\ Goes(c, "wake")
    /\ taken' = [taken EXCEPT ![c].jobs = waiters]
    /\ waiters' = {}
    /\ UNCHANGED <<runVars, flagVars, gate, cancelDriver, queueDriver, events, jobVars,
                   hostVars>>

WakeTaken(c) ==
    /\ cpc[c] = "wake" /\ Goes(c, "done")
    /\ driverWoken' = (driverWoken \/ taken[c].driver)
    /\ jobWoken' = [n \in Node |-> jobWoken[n] \/ n \in taken[c].jobs]
    /\ taken' = [taken EXCEPT ![c] = [driver |-> FALSE, jobs |-> {}]]
    /\ UNCHANGED <<runVars, flagVars, gate, wakeVars, events, jobVars, fired>>

CallStep(c) ==
    \/ StoreCancelled(c) \/ StoreAborted(c)
    \/ TakeDriver(c) \/ TakeWaiters(c) \/ WakeTaken(c)

-----------------------------------------------------------------------------
(* The host. *)

\* What the future of n waits for happens, and wakes the job.
Fire(n) ==
    /\ holds[n] = "future" /\ n \notin fired
    /\ fired' = fired \cup {n}
    /\ jobWoken' = [jobWoken EXCEPT ![n] = TRUE]
    /\ UNCHANGED <<runVars, flagVars, gate, wakeVars, events, jobVars, driverWoken, ctlVars>>

\* Slip: a dropped job does not say so.
HostDropSilent(n) ==
    /\ "drop" \in HostMay
    /\ jpc[n] = "idle" /\ Become(n, "dropFields")
    /\ UNCHANGED <<runVars, flagVars, gate, wakeVars, events, holds, event, catchUp, claimed,
                   hostVars, ctlVars>>

\* The host drops an accepted job between two polls: Drop for NodeJob.
HostDrop(n) ==
    /\ "drop" \in HostMay
    /\ jpc[n] = "idle"
    /\ IF retired THEN Become(n, "dropFields") /\ UNCHANGED event
                  ELSE Become(n, "dropPush") /\ Report(n, "Dropped")
    /\ UNCHANGED <<runVars, flagVars, gate, wakeVars, events, holds, catchUp, claimed,
                   hostVars, ctlVars>>

SpuriousPoll ==
    /\ "spurious" \in HostMay
    /\ \/ ~driverWoken /\ BeginPoll
       \/ \E n \in Node : ~jobWoken[n] /\ BeginJobPoll(n)

\* The run returned or was dropped, and no job is left.
Finished ==
    /\ dpc \in {"done", "dropped"}
    /\ \A n \in Node : jpc[n] \in {"none", "done"}
    /\ UNCHANGED vars

Next ==
    \/ DriverStep
    \/ \E n \in Node : JobStep(n) \/ Fire(n) \/ HostDrop(n)
    \/ \E c \in Calls : BeginCall(c) \/ CallStep(c)
    \/ SpuriousPoll
    \/ Finished

Spec == Init /\ [][Next]_vars

\* Executors poll what was woken (NodeDispatcher's contract: an accepted job is
\* polled to completion or dropped), calls that began go on, and only the tasks
\* in Responsive are sure to become ready.  A call need never be made.
Fairness ==
    /\ WF_vars(DriverStep)
    /\ \A n \in Node : WF_vars(JobStep(n))
    /\ \A c \in Calls : WF_vars(CallStep(c))
    /\ \A n \in Responsive : WF_vars(Fire(n))

FairSpec == Spec /\ Fairness

-----------------------------------------------------------------------------
(* Safety. *)

\* However jobs end, fail, are dropped or rejected, no event is counted twice or
\* lost: the countdown and the ready queue agree with the statuses and with the
\* outputs committed so far (commit_node, fail_node, cancel_unstarted).
Bookkeeping == TypeOK /\ ReadyQueueExact /\ RemainingExact

\* The job of n is past its last chance to run user code or push an event.
Acknowledged(n) == jpc[n] \in {"wake", "lockedWake", "dropWake", "dropFields", "done"}
Queued(n) == \E i \in DOMAIN events : events[i].node = n

\* Every Running node of a live run has a job that still owes an event, or its
\* event is queued: no path of NodeJob ends without a word to the driver.
NoOrphan ==
    ~retired => \A n \in Node :
        status[n] = "Running" => jpc[n] # "none" /\ (~Acknowledged(n) \/ Queued(n))

\* The report is ready only after every job the dispatcher accepted has
\* acknowledged; a rejected one may still be in the host's hands.
ReportAfterAcks ==
    outcome # "none" => \A n \in Node :
        jpc[n] # "none" /\ failure[n] # "Dispatch" => Acknowledged(n)

\* A sleeping driver with an event in its queue is about to be woken.
NoStrandedEvent ==
    dpc = "idle" /\ events # <<>> =>
        \/ driverWoken
        \/ queueDriver /\ \E n \in Node : jpc[n] \in DOMAIN Waking

\* A call that stored its flag and has not yet taken the wakers.
Stopping(c) == cpc[c] \in {"storeCancelled", "storeAborted", "takeDriver"}

\* A sleeping driver of a stopped run with nodes to discard is about to be
\* woken: the stop cannot fall between its last look and its Poll::Pending.
NoStrandedStop ==
    dpc = "idle" /\ cancelled /\ (\E n \in Node : status[n] \in {"Pending", "Ready"}) =>
        \/ driverWoken
        \/ \E c \in Calls : taken[c].driver \/ (Stopping(c) /\ cancelDriver)

\* A sleeping job that a stop concerns (an abort, or a cancellation its task
\* watches for) is about to be woken.
NoDeafJob ==
    \A n \in Node :
        jpc[n] = "idle" /\ (aborted \/ (cancelled /\ n \in Aware)) =>
            \/ jobWoken[n]
            \/ \E c \in Calls : \/ n \in taken[c].jobs
                                \/ n \in waiters /\ (Stopping(c) \/ cpc[c] = "takeWaiters")

\* "Never invoke [a waker] while one of this run's coordination locks is held":
\* no job is inside start_gate when it wakes the driver.
WakeOutsideLocks == \A n \in Node : jpc[n] # "lockedWake"

-----------------------------------------------------------------------------
(* Liveness, under FairSpec. *)

Over == dpc \in {"done", "dropped"}

\* A run that was not aborted and has the future of a task that is not ready, nor
\* told by its token that the run is cancelled.
Held ==
    /\ ~aborted
    /\ \E n \in Node : holds[n] = "future" /\ n \notin fired /\ ~(cancelled /\ n \in Aware)

\* Every run returns, unless it waits for a task that never becomes ready, which
\* abort ends in any case and cancel ends for a task that watches its token.
RunReturns == <>Over \/ <>[]Held

\* After the drop of the run every job ends and frees what it owned, whatever
\* its task does.
DropEndsJobs == retired ~> \A n \in Node : jpc[n] \in {"none", "done"} /\ holds[n] = "nothing"

\* Cancellation does not turn a task that ignores it into a busy loop: from
\* some time on it is not polled any more.
IgnoringTaskSleeps == \A n \in Node : <>[](jpc[n] # "child")

-----------------------------------------------------------------------------
(* Refinement: what the statuses mean to the caller. *)

phase == [n \in Node |->
    CASE status[n] \in {"Pending", "Ready"} -> "waiting"
      [] status[n] = "Running"   -> IF n \in claimed THEN "running" ELSE "waiting"
      [] status[n] = "Succeeded" -> "succeeded"
      [] status[n] = "Failed"    -> "failed"
      [] status[n] = "Cancelled" -> "cancelled"
      [] status[n] = "Blocked"   -> "blocked"]

Contract == INSTANCE RunContract WITH stop <- cancelled

\* A dispatched run keeps the promises of RunContract.
ImplementsContract == Contract!Spec
=============================================================================
