----------------------------- MODULE InlineRun -----------------------------
(***************************************************************************)
(* One run of a compiled graph without a dispatcher: GraphRun::poll claims *)
(* Ready nodes under start_gate, invokes their factories itself and polls  *)
(* the futures they return with its own waker (src/runtime.rs).            *)
(*                                                                         *)
(* The driver is the only task; RunControl::cancel and ::abort arrive from *)
(* other threads.  User futures run inside the driver's poll, so a future  *)
(* that watches its token registers the driver's waker as a waiter.        *)
(***************************************************************************)
EXTENDS RunNodes

CONSTANTS Results,     \* how a user task may end
          Aware,       \* nodes whose task awaits CancellationToken::cancelled
          Responsive,  \* nodes whose task is eventually ready to complete
          Calls        \* the control calls made, each at most once

ASSUME InlineAssumption ==
    /\ Results \subseteq {"ok", "invalid", "user", "checkpoint", "panic"}
    /\ Aware \subseteq Node /\ Responsive \subseteq Node
    /\ Calls \subseteq {"cancel", "abort"}

VARIABLES
    dpc,           \* where GraphRun::poll is; "idle" between polls
    initialized,   \* the first poll has filled the ready queue
    progressed,    \* this iteration of the poll loop did something
    current,       \* node being invoked or polled, 0 for none
    result,        \* how the current node's task ended
    unpolled,      \* futures this iteration has still to poll
    futures,       \* nodes whose user future the run holds
    outcome,       \* Poll::Ready value of the run, "none" before
    cancelled, aborted,  \* the two AtomicBools of CancelState
    gate,          \* start_gate is locked
    cancelDriver,  \* CancelState::driver holds the driver's waker
    waiters,       \* CancelState::waiters holds the driver's waker
    driverWoken, fired,
    cpc,           \* where each control call is
    taken          \* calls of wake_all that hold a waker of the driver

pollVars == <<initialized, progressed, current, result, unpolled, futures, outcome>>
stopVars == <<cancelled, aborted, gate>>
wakeVars == <<cancelDriver, waiters, driverWoken, fired>>
ctlVars  == <<cpc, taken>>
vars == <<dpc, pollVars, nodeVars, stopVars, wakeVars, ctlVars>>

DriverPc == {"idle", "register", "init", "sweep", "sweepCancel", "launch", "claim",
             "invoke", "complete", "poll", "child", "childWaits", "check", "done"}
CallPc == {"idle", "storeAborted", "takeDriver", "takeWaiters", "wake", "done"}

TypeOK ==
    /\ NodeTypeOK
    /\ dpc \in DriverPc
    /\ initialized \in BOOLEAN /\ progressed \in BOOLEAN
    /\ current \in 0..N
    /\ result \in {"ok", "invalid", "user", "checkpoint", "panic"}
    /\ unpolled \subseteq Node /\ futures \subseteq Node
    /\ outcome \in {"none", "Ok", "Failed", "Cancelled"}
    /\ cancelled \in BOOLEAN /\ aborted \in BOOLEAN /\ gate \in BOOLEAN
    /\ cancelDriver \in BOOLEAN /\ waiters \in BOOLEAN /\ driverWoken \in BOOLEAN
    /\ fired \subseteq Node
    /\ cpc \in [Calls -> CallPc]
    /\ taken \subseteq Calls

Init ==
    /\ NodeInit
    /\ dpc = "idle"
    /\ initialized = FALSE /\ progressed = FALSE /\ current = 0 /\ result = "ok"
    /\ unpolled = {} /\ futures = {} /\ outcome = "none"
    /\ cancelled = FALSE /\ aborted = FALSE /\ gate = FALSE
    /\ cancelDriver = FALSE /\ waiters = FALSE /\ driverWoken = TRUE /\ fired = {}
    /\ cpc = [c \in Calls |-> "idle"] /\ taken = {}

GoTo(pc) == dpc' = pc

-----------------------------------------------------------------------------
(* GraphRun::poll up to the launch loop. *)

PollRun ==
    /\ dpc = "idle" /\ driverWoken /\ GoTo("register")
    /\ driverWoken' = FALSE
    /\ UNCHANGED <<pollVars, nodeVars, stopVars, cancelDriver, waiters, fired, ctlVars>>

RegisterDriver ==
    /\ dpc = "register" /\ GoTo("init")
    /\ cancelDriver' = TRUE
    /\ UNCHANGED <<pollVars, nodeVars, stopVars, waiters, driverWoken, fired, ctlVars>>

Initialize ==
    /\ dpc = "init" /\ GoTo("sweep")
    /\ initialized' = TRUE /\ progressed' = FALSE
    /\ IF initialized THEN UNCHANGED nodeVars
       ELSE IF cancelled THEN CancelUnstarted ELSE QueueRoots
    /\ UNCHANGED <<current, result, unpolled, futures, outcome, stopVars, wakeVars, ctlVars>>

\* Slip: the futures are dropped but their nodes stay Running.
DropFuturesOnly ==
    /\ futures' = {}
    /\ progressed' = (progressed \/ futures # {})
    /\ CancelUnstarted

\* An aborted run drops its futures and discards every node that had one.
DropFutures ==
    /\ futures' = {}
    /\ progressed' = (progressed \/ futures # {})
    /\ status' = [n \in Node |-> IF n \in futures \/ status[n] \in {"Pending", "Ready"}
                                 THEN "Cancelled" ELSE status[n]]
    /\ ready' = <<>>
    /\ UNCHANGED <<remaining, outputs, failure, blockedBy>>

SweepAborted ==
    /\ dpc = "sweep"
    /\ IF aborted THEN GoTo("launch") /\ DropFutures
                  ELSE GoTo("sweepCancel") /\ UNCHANGED <<nodeVars, futures, progressed>>
    /\ UNCHANGED <<initialized, current, result, unpolled, outcome, stopVars, wakeVars,
                   ctlVars>>

\* Slip: a cancellation discards nothing.
SweepNothing ==
    /\ dpc = "sweepCancel" /\ GoTo("launch")
    /\ UNCHANGED <<pollVars, nodeVars, stopVars, wakeVars, ctlVars>>

SweepCancelled ==
    /\ dpc = "sweepCancel" /\ GoTo("launch")
    /\ IF cancelled THEN CancelUnstarted ELSE UNCHANGED nodeVars
    /\ UNCHANGED <<pollVars, stopVars, wakeVars, ctlVars>>

-----------------------------------------------------------------------------
(* The launch loop: build_inputs, the claim, the factory. *)

Launch ==
    /\ dpc = "launch" /\ ~cancelled /\ ready # <<>>
    /\ ready' = Tail(ready)
    /\ LET n == Head(ready)
       IN  IF status[n] # "Ready"
           THEN UNCHANGED <<dpc, current, progressed, status, remaining, outputs, failure,
                            blockedBy>>
           ELSE /\ progressed' = TRUE
                /\ IF Pred(n) \subseteq outputs
                   THEN /\ GoTo("claim") /\ current' = n
                        /\ UNCHANGED <<status, remaining, outputs, failure, blockedBy>>
                   ELSE FailNode(n, "Internal") /\ UNCHANGED <<dpc, current>>
    /\ UNCHANGED <<initialized, result, unpolled, futures, outcome, stopVars, wakeVars,
                   ctlVars>>

\* Slip: the cancel flag is not read under the gate.
ClaimUnchecked ==
    /\ dpc = "claim" /\ ~gate /\ GoTo("invoke")
    /\ status' = [status EXCEPT ![current] = "Running"]
    /\ UNCHANGED <<remaining, ready, outputs, failure, blockedBy, initialized, progressed,
                   current, result, unpolled, futures, outcome, stopVars, wakeVars, ctlVars>>

Claim ==
    /\ dpc = "claim" /\ ~gate
    /\ status' = [status EXCEPT ![current] = IF cancelled THEN "Cancelled" ELSE "Running"]
    /\ GoTo(IF cancelled THEN "launch" ELSE "invoke")
    /\ current' = IF cancelled THEN 0 ELSE current
    /\ UNCHANGED <<remaining, ready, outputs, failure, blockedBy, initialized, progressed,
                   result, unpolled, futures, outcome, stopVars, wakeVars, ctlVars>>

\* The factory returns a result or panics ...
InvokeSync ==
    /\ dpc = "invoke" /\ GoTo("complete")
    /\ result' \in Results
    /\ UNCHANGED <<nodeVars, initialized, progressed, current, unpolled, futures, outcome,
                   stopVars, wakeVars, ctlVars>>

\* ... or returns a future.
InvokeAsync ==
    /\ dpc = "invoke" /\ GoTo("launch")
    /\ futures' = futures \cup {current} /\ current' = 0
    /\ UNCHANGED <<nodeVars, initialized, progressed, result, unpolled, outcome, stopVars,
                   wakeVars, ctlVars>>

LaunchEnd ==
    /\ dpc = "launch" /\ (cancelled \/ ready = <<>>) /\ GoTo("poll")
    /\ unpolled' = futures
    /\ UNCHANGED <<nodeVars, initialized, progressed, current, result, futures, outcome,
                   stopVars, wakeVars, ctlVars>>

\* complete_inline, for a result of either kind of task, and the panic branch.
\* Futures still to be polled tell which loop the task was run from.
Kind(r) == CASE r = "invalid"    -> "InvalidOutputs"
             [] r = "user"       -> "Task"
             [] r = "checkpoint" -> "Cancelled"
             [] r = "panic"      -> "Panic"

\* Slip: a result commits whether or not the run was stopped.
CompleteAlways ==
    /\ dpc = "complete"
    /\ CASE result = "ok"                      -> CommitNode(current)
         [] result = "checkpoint" /\ cancelled -> CancelNode(current)
         [] OTHER -> FailNode(current, Kind(result)) /\ UNCHANGED ready
    /\ GoTo(IF current \in unpolled THEN "poll" ELSE "launch")
    /\ unpolled' = unpolled \ {current} /\ current' = 0
    /\ UNCHANGED <<initialized, progressed, result, futures, outcome, stopVars, wakeVars,
                   ctlVars>>

CompleteInline ==
    /\ dpc = "complete"
    /\ CASE result = "ok" /\ ~cancelled                   -> CommitNode(current)
         [] result \in {"ok", "checkpoint"} /\ cancelled  -> CancelNode(current)
         [] OTHER -> FailNode(current, Kind(result)) /\ UNCHANGED ready
    /\ GoTo(IF current \in unpolled THEN "poll" ELSE "launch")
    /\ unpolled' = unpolled \ {current} /\ current' = 0
    /\ UNCHANGED <<initialized, progressed, result, futures, outcome, stopVars, wakeVars,
                   ctlVars>>

-----------------------------------------------------------------------------
(* The poll of the stored futures, in plan order, and the end of poll. *)

PollNext ==
    /\ dpc = "poll" /\ unpolled # {} /\ GoTo("child")
    /\ current' = CHOOSE n \in unpolled : \A m \in unpolled : n <= m
    /\ UNCHANGED <<nodeVars, initialized, progressed, result, unpolled, futures, outcome,
                   stopVars, wakeVars, ctlVars>>

\* The future ends: what it waits for has happened, or it watches its token.
ChildReady ==
    /\ dpc = "child" /\ GoTo("complete")
    /\ \/ current \in fired /\ result' \in Results
       \/ current \in Aware /\ cancelled /\ result' = "checkpoint"
    /\ futures' = futures \ {current} /\ progressed' = TRUE
    /\ UNCHANGED <<nodeVars, initialized, current, unpolled, outcome, stopVars, wakeVars,
                   ctlVars>>

\* It is pending; one that awaits cancelled() goes on to register_waiter.
ChildPending ==
    /\ dpc = "child" /\ current \notin fired /\ ~(current \in Aware /\ cancelled)
    /\ IF current \in Aware
       THEN GoTo("childWaits") /\ UNCHANGED <<current, unpolled>>
       ELSE GoTo("poll") /\ unpolled' = unpolled \ {current} /\ current' = 0
    /\ UNCHANGED <<nodeVars, initialized, progressed, result, futures, outcome, stopVars,
                   wakeVars, ctlVars>>

\* Cancelled::poll registers and reads the flags under the waiter mutex.
ChildWaits ==
    /\ dpc = "childWaits"
    /\ waiters' = TRUE
    /\ IF cancelled \/ aborted
       THEN /\ GoTo("complete") /\ result' = "checkpoint"
            /\ futures' = futures \ {current} /\ progressed' = TRUE
            /\ UNCHANGED <<current, unpolled>>
       ELSE /\ GoTo("poll") /\ unpolled' = unpolled \ {current} /\ current' = 0
            /\ UNCHANGED <<result, futures, progressed>>
    /\ UNCHANGED <<nodeVars, initialized, outcome, stopVars, cancelDriver, driverWoken,
                   fired, ctlVars>>

PollEnd ==
    /\ dpc = "poll" /\ unpolled = {} /\ GoTo("check")
    /\ UNCHANGED <<pollVars, nodeVars, stopVars, wakeVars, ctlVars>>

Finish ==
    /\ dpc = "check" /\ Undecided = {} /\ GoTo("done")
    /\ outcome' = IF cancelled THEN "Cancelled"
                  ELSE IF \E n \in Node : failure[n] # "none" THEN "Failed" ELSE "Ok"
    /\ UNCHANGED <<nodeVars, initialized, progressed, current, result, unpolled, futures,
                   stopVars, wakeVars, ctlVars>>

Continue ==
    /\ dpc = "check" /\ Undecided # {}
    /\ GoTo(IF progressed THEN "sweep" ELSE "idle") /\ progressed' = FALSE
    /\ UNCHANGED <<nodeVars, initialized, current, result, unpolled, futures, outcome,
                   stopVars, wakeVars, ctlVars>>

DriverStep ==
    \/ PollRun \/ RegisterDriver \/ Initialize \/ SweepAborted \/ SweepCancelled
    \/ Launch \/ Claim \/ InvokeSync \/ InvokeAsync \/ LaunchEnd \/ CompleteInline
    \/ PollNext \/ ChildReady \/ ChildPending \/ ChildWaits \/ PollEnd
    \/ Finish \/ Continue

-----------------------------------------------------------------------------
(* RunControl::cancel and ::abort: store under start_gate, then wake_all. *)

Goes(c, pc) == cpc' = [cpc EXCEPT ![c] = pc]

BeginCall(c) ==
    /\ cpc[c] = "idle" /\ ~gate
    /\ cancelled' = TRUE
    /\ gate' = (c = "abort")
    /\ Goes(c, IF c = "abort" THEN "storeAborted" ELSE "takeDriver")
    /\ UNCHANGED <<dpc, pollVars, nodeVars, aborted, wakeVars, taken>>

StoreAborted(c) ==
    /\ cpc[c] = "storeAborted" /\ Goes(c, "takeDriver")
    /\ aborted' = TRUE /\ gate' = FALSE
    /\ UNCHANGED <<dpc, pollVars, nodeVars, cancelled, wakeVars, taken>>

\* Slip: the waker is taken out of CancelState and dropped.
TakeDriverLost(c) ==
    /\ cpc[c] = "takeDriver" /\ Goes(c, "takeWaiters")
    /\ cancelDriver' = FALSE
    /\ UNCHANGED <<dpc, pollVars, nodeVars, stopVars, waiters, driverWoken, fired, taken>>

TakeDriver(c) ==
    /\ cpc[c] = "takeDriver" /\ Goes(c, "takeWaiters")
    /\ taken' = IF cancelDriver THEN taken \cup {c} ELSE taken
    /\ cancelDriver' = FALSE
    /\ UNCHANGED <<dpc, pollVars, nodeVars, stopVars, waiters, driverWoken, fired>>

TakeWaiters(c) ==
    /\ cpc[c] = "takeWaiters" /\ Goes(c, "wake")
    /\ taken' = IF waiters THEN taken \cup {c} ELSE taken
    /\ waiters' = FALSE
    /\ UNCHANGED <<dpc, pollVars, nodeVars, stopVars, cancelDriver, driverWoken, fired>>

WakeTaken(c) ==
    /\ cpc[c] = "wake" /\ Goes(c, "done")
    /\ driverWoken' = (driverWoken \/ c \in taken)
    /\ taken' = taken \ {c}
    /\ UNCHANGED <<dpc, pollVars, nodeVars, stopVars, cancelDriver, waiters, fired>>

CallStep(c) == StoreAborted(c) \/ TakeDriver(c) \/ TakeWaiters(c) \/ WakeTaken(c)

\* What the future of n waits for happens, and wakes the driver.
Fire(n) ==
    /\ n \in futures /\ n \notin fired
    /\ fired' = fired \cup {n} /\ driverWoken' = TRUE
    /\ UNCHANGED <<dpc, pollVars, nodeVars, stopVars, cancelDriver, waiters, ctlVars>>

Finished == dpc = "done" /\ UNCHANGED vars

Next ==
    \/ DriverStep
    \/ \E c \in Calls : BeginCall(c) \/ CallStep(c)
    \/ \E n \in Node : Fire(n)
    \/ Finished

Spec == Init /\ [][Next]_vars

\* The executor polls the run when it was woken, calls that began go on, and
\* only the tasks in Responsive are sure to become ready.
Fairness ==
    /\ WF_vars(DriverStep)
    /\ \A c \in Calls : WF_vars(CallStep(c))
    /\ \A n \in Responsive : WF_vars(Fire(n))

FairSpec == Spec /\ Fairness

-----------------------------------------------------------------------------
(* Safety. *)

\* Between two iterations of the launch loop the ready queue is exact; a node
\* that was popped is Running or discarded before the next one is.
ReadyQueueSound == dpc # "claim" => ReadyQueueExact

\* Outside the poll of one future, the Running nodes are those whose future the
\* run holds: no node runs without a future to poll, none outlives its node.
FutureIffRunning ==
    dpc \notin {"invoke", "complete"} =>
        futures = {n \in Node : status[n] = "Running"}

\* The bookkeeping of an inline run: types, the ready queue, the countdown, and
\* the futures agree with the statuses at every step of the driver.
Inv == TypeOK /\ ReadyQueueSound /\ RemainingExact /\ FutureIffRunning

\* A sleeping driver with something to discard (unstarted nodes of a cancelled
\* run, futures of an aborted one) or a future that can go on (its event
\* happened, or it watches its token) is about to be woken.
NoStrandedDriver ==
    dpc = "idle" /\ outcome = "none" /\
    (\/ cancelled /\ \E n \in Node : status[n] \in {"Pending", "Ready"}
     \/ aborted /\ futures # {}
     \/ futures \cap fired # {}
     \/ cancelled /\ futures \cap Aware # {}) =>
        \/ driverWoken
        \/ taken # {}
        \/ \E c \in Calls : cpc[c] \in {"storeAborted", "takeDriver"} /\ cancelDriver

-----------------------------------------------------------------------------
(* Liveness, under FairSpec. *)

Over == dpc = "done"

\* A run that was not aborted and has the future of a task that is not ready, nor
\* told by its token that the run is cancelled.
Held == ~aborted /\ \E n \in futures \ fired : ~(cancelled /\ n \in Aware)

\* Every run returns, unless it waits for a task that never becomes ready, which
\* abort ends in any case and cancel ends for a task that awaits its token.
RunReturns == <>Over \/ <>[]Held

-----------------------------------------------------------------------------
(* Refinement. *)

phase == [n \in Node |->
    CASE status[n] \in {"Pending", "Ready"} -> "waiting"
      [] status[n] = "Running"   -> "running"
      [] status[n] = "Succeeded" -> "succeeded"
      [] status[n] = "Failed"    -> "failed"
      [] status[n] = "Cancelled" -> "cancelled"
      [] status[n] = "Blocked"   -> "blocked"]

Contract == INSTANCE RunContract WITH stop <- cancelled

\* An inline run keeps the promises of RunContract.
ImplementsContract == Contract!Spec
=============================================================================
