------------------------------- MODULE Runner -------------------------------
(***************************************************************************)
(* A GraphRunner with a dispatcher and the runs that borrow it one after   *)
(* the other (GraphRunner, RunnerRun, RunScratch in src/runtime.rs).  The  *)
(* runs share the storage that the runner keeps; each has a cancellation   *)
(* state and a completion queue of its own, which its jobs may outlive it  *)
(* with.  A user value is the number of the start it belongs to, so that   *)
(* values of one generation can be told from those of another.             *)
(*                                                                         *)
(* The scheduling of one run is that of DispatchRun; here its nodes are    *)
(* independent and a step of the run is a step of RunContract.  RunControl *)
(* ::cancel and ::abort differ only in what DispatchRun shows.             *)
(***************************************************************************)
EXTENDS RunInputs

CONSTANTS Node,       \* nodes of the plan
          Active,     \* those whose outputs the report takes
          MaxStarts,  \* bound: starts of a run
          MaxValues   \* bound: values in a collection

VARIABLES bag,      \* RunInputs under construction
          refused,  \* keys the bag refused
          starts,   \* starts so far; a run is named by its start
          scratch,  \* RunScratch kept by the runner, Nothing without one
          run,      \* the live RunnerRun, Nothing without one
          given,    \* the bag the live run was started with (history)
          jobs,     \* NodeJobs the host still has
          queues,   \* JobQueue events per run
          retired,  \* runs whose JobQueue is retired
          stopped,  \* runs whose CancelState says cancelled
          asked,    \* runs somebody asked to stop (history)
          report    \* what the live run returned, Nothing before

coordination == <<queues, retired, stopped, asked>>
vars == <<bag, refused, starts, scratch, run, given, jobs, coordination, report>>

ASSUME ActiveAssumption == Active \subseteq Node
ASSUME BoundAssumption == MaxStarts \in Nat /\ MaxValues \in Nat

Gen == 1..MaxStarts
Nothing == [gen |-> 0]
Status == {"Pending", "Running", "Succeeded", "Failed", "Cancelled"}
Kind == {"ok", "failed", "cancelled"}

Empty == [status   |-> [n \in Node |-> "Pending"],
          external |-> [b \in Bound |-> <<>>],
          outputs  |-> [n \in Node |-> 0],
          errors   |-> [n \in Node |-> 0]]

\* RunScratch::reset.
Reset(s) == [s EXCEPT !.status   = [n \in Node |-> "Pending"],
                      !.external = [b \in Bound |-> <<>>],
                      !.outputs  = [n \in Node |-> 0],
                      !.errors   = [n \in Node |-> 0]]

\* Slip: all runs share one queue, one cancellation state.
Shared(gen) == 1

\* GraphRun::new makes a JobQueue and a CancelState for each run.
Queue(gen) == gen
Cancel(gen) == gen

Init ==
    /\ bag = <<>> /\ refused = {} /\ starts = 0
    /\ scratch = Nothing /\ run = Nothing /\ given = <<>>
    /\ jobs = {} /\ queues = [g \in Gen |-> <<>>] /\ retired = {}
    /\ stopped = {} /\ asked = {}
    /\ report = Nothing

-----------------------------------------------------------------------------
(* The caller. *)

Supply(key, shape, values) ==
    /\ run = Nothing /\ starts < MaxStarts
    /\ IF Taken(bag, key)
       THEN refused' = refused \cup {key} /\ UNCHANGED bag
       ELSE bag' = Append(bag, Entry(key, shape, values)) /\ UNCHANGED refused
    /\ UNCHANGED <<starts, scratch, run, given, jobs, coordination, report>>

Values == {[i \in 1..k |-> starts + 1] : k \in 0..MaxValues}

\* take_scratch and reset: the storage a new run begins with.
Storage == Reset(IF scratch = Nothing THEN Empty ELSE scratch)
Filled  == [Storage EXCEPT !.external = [b \in Bound |-> Moved(bag, b)]]

Borrow(store, error) ==
    /\ run' = [gen |-> starts + 1, store |-> store, error |-> error, finished |-> FALSE]
    /\ given' = bag
    /\ scratch' = Nothing

\* Slip: values are moved as they are validated, before the whole bag passed.
StartMoving ==
    /\ run = Nothing /\ starts < MaxStarts /\ starts' = starts + 1
    /\ IF StartError(bag) = "none" THEN Borrow(Filled, "none")
       ELSE scratch' = Filled /\ UNCHANGED <<run, given>>
    /\ bag' = <<>> /\ refused' = {}
    /\ UNCHANGED <<jobs, coordination, report>>

\* GraphRunner::start: a bag that does not pass leaves the runner its storage.
Start ==
    /\ run = Nothing /\ starts < MaxStarts
    /\ starts' = starts + 1
    /\ IF StartError(bag) = "none" THEN Borrow(Filled, "none")
       ELSE scratch' = Storage /\ UNCHANGED <<run, given>>
    /\ bag' = <<>> /\ refused' = {}
    /\ UNCHANGED <<jobs, coordination, report>>

\* GraphRunner::execute: the run reports the error at its first poll.
Execute ==
    /\ run = Nothing /\ starts < MaxStarts
    /\ starts' = starts + 1
    /\ Borrow(IF StartError(bag) = "none" THEN Filled ELSE Storage, StartError(bag))
    /\ bag' = <<>> /\ refused' = {}
    /\ UNCHANGED <<jobs, coordination, report>>

Trim ==
    /\ run = Nothing /\ scratch # Nothing
    /\ scratch' = Nothing
    /\ UNCHANGED <<bag, refused, starts, run, given, jobs, coordination, report>>

Retire(gen) ==
    /\ retired' = retired \cup {Queue(gen)}
    /\ stopped' = stopped \cup {Cancel(gen)}

\* Drop for RunnerRun: the run is retired, finished or not, and its storage
\* goes back empty.  Its report, if it returned one, left with the caller.
DropRun ==
    /\ run # Nothing
    /\ Retire(run.gen)
    /\ scratch' = Reset(run.store)
    /\ run' = Nothing /\ given' = <<>> /\ report' = Nothing
    /\ UNCHANGED <<bag, refused, starts, jobs, queues, asked>>

\* RunControl::cancel and ::abort, through a control that may outlive its run.
Ask(gen) ==
    /\ gen <= starts /\ gen \notin asked
    /\ run.gen = gen \/ gen \in retired
    /\ asked' = asked \cup {gen} /\ stopped' = stopped \cup {Cancel(gen)}
    /\ UNCHANGED <<bag, refused, starts, scratch, run, given, jobs, queues, retired, report>>

-----------------------------------------------------------------------------
(* The run. *)

Running == run # Nothing /\ ~run.finished /\ run.error = "none"
Stopped == Cancel(run.gen) \in stopped

ReturnStartError ==
    /\ run # Nothing /\ ~run.finished /\ run.error # "none"
    /\ run' = [run EXCEPT !.finished = TRUE]
    /\ UNCHANGED <<bag, refused, starts, scratch, given, jobs, coordination, report>>

\* A node is handed to the dispatcher with a snapshot of its inputs.
Launch(n) ==
    /\ Running /\ ~Stopped /\ run.store.status[n] = "Pending"
    /\ run' = [run EXCEPT !.store.status[n] = "Running"]
    /\ jobs' = jobs \cup {[gen |-> run.gen, node |-> n,
                           inputs |-> [b \in {x \in Bound : x.input[1] = n} |->
                                          run.store.external[b]]]}
    /\ UNCHANGED <<bag, refused, starts, scratch, given, coordination, report>>

\* cancel_unstarted, in a run that was told to stop.
Discard ==
    /\ Running /\ Stopped /\ \E n \in Node : run.store.status[n] = "Pending"
    /\ run' = [run EXCEPT !.store.status =
                  [n \in Node |-> IF @[n] = "Pending" THEN "Cancelled" ELSE @[n]]]
    /\ UNCHANGED <<bag, refused, starts, scratch, given, jobs, coordination, report>>

\* An event of the run's queue; one of a node that does not run is ignored.
Receive(e) ==
    /\ Running /\ queues[Queue(run.gen)] # <<>> /\ e = Head(queues[Queue(run.gen)])
    /\ queues' = [queues EXCEPT ![Queue(run.gen)] = Tail(@)]
    /\ run' = IF run.store.status[e.node] # "Running" THEN run
              ELSE IF e.kind = "cancelled" \/ (e.kind = "ok" /\ Stopped)
              THEN [run EXCEPT !.store.status[e.node] = "Cancelled"]
              ELSE IF e.kind = "ok"
              THEN [run EXCEPT !.store.status[e.node] = "Succeeded",
                               !.store.outputs[e.node] = e.gen]
              ELSE [run EXCEPT !.store.status[e.node] = "Failed",
                               !.store.errors[e.node] = e.gen]
    /\ UNCHANGED <<bag, refused, starts, scratch, given, jobs, retired, stopped, asked,
                   report>>

\* take_report: the outputs of active nodes and all errors leave the storage.
Return ==
    /\ Running /\ \A n \in Node : run.store.status[n] \notin {"Pending", "Running"}
    /\ report' = [gen |-> run.gen, outputs |-> [n \in Active |-> run.store.outputs[n]],
                  errors |-> run.store.errors]
    /\ run' = [run EXCEPT !.finished = TRUE,
                          !.store.outputs = [n \in Node |-> IF n \in Active THEN 0 ELSE @[n]],
                          !.store.errors  = [n \in Node |-> 0]]
    /\ UNCHANGED <<bag, refused, starts, scratch, given, jobs, coordination>>

-----------------------------------------------------------------------------
(* The jobs, on whatever threads the host has. *)

\* A job ends and reports; it may have looked at retired before the run went.
JobReports(j) ==
    /\ \E kind \in Kind :
          /\ kind = "cancelled" => Cancel(j.gen) \in stopped
          /\ queues' = [queues EXCEPT ![Queue(j.gen)] =
                           Append(@, [gen |-> j.gen, node |-> j.node, kind |-> kind])]
    /\ jobs' = jobs \ {j}
    /\ UNCHANGED <<bag, refused, starts, scratch, run, given, retired, stopped, asked, report>>

\* A job that finds its run retired ends in silence.
JobRetires(j) ==
    /\ Queue(j.gen) \in retired
    /\ jobs' = jobs \ {j}
    /\ UNCHANGED <<bag, refused, starts, scratch, run, given, coordination, report>>

Next ==
    \/ \E key \in Keys :
          \/ Supply(key, "One", <<starts + 1>>)
          \/ \E values \in Values : Supply(key, "Many", values)
    \/ Start \/ Execute \/ Trim \/ DropRun
    \/ \E gen \in Gen : Ask(gen)
    \/ ReturnStartError \/ Discard
    \/ \E n \in Node : Launch(n)
    \/ \E e \in [gen : Gen, node : Node, kind : Kind] : Receive(e)
    \/ Return
    \/ \E j \in jobs : JobReports(j) \/ JobRetires(j)

Spec == Init /\ [][Next]_vars

-----------------------------------------------------------------------------
(* Safety. *)

\* Nothing the caller or a task made stays in the storage of an idle runner,
\* after a run that ended, one that was abandoned, or a start that was refused.
IdleHoldsNothing == scratch # Nothing => scratch = Empty

\* A run sees values of its own generation only: in its storage, in what its
\* jobs were given, and in what it reports.
GenerationsApart ==
    /\ run # Nothing =>
          /\ \A b \in Bound : ToSet(run.store.external[b]) \subseteq {run.gen}
          /\ \A n \in Node : {run.store.outputs[n], run.store.errors[n]} \subseteq {0, run.gen}
    /\ \A j \in jobs : \A b \in DOMAIN j.inputs : ToSet(j.inputs[b]) \subseteq {j.gen}
    /\ report # Nothing =>
          /\ \A n \in Active : report.outputs[n] \in {0, report.gen}
          /\ \A n \in Node : report.errors[n] \in {0, report.gen}

\* A run is stopped by its own control only: not by the end of an earlier run
\* of the runner, nor by a control that the caller kept from one.
StopIsOwn ==
    run # Nothing /\ run.gen \notin asked =>
        \A n \in Node : run.store.status[n] # "Cancelled"

\* A run that started delivers everything it was given, each value to the input
\* whose key it came with, under the binding of this plan; a One input gets one
\* value at most and a Required input one at least.
InputsDelivered ==
    Running =>
        /\ \A i \in DOMAIN given : \E b \in Bound :
              /\ b.input = given[i].input /\ b.binding = given[i].binding
              /\ run.store.external[b] = given[i].values
        /\ \A b \in Bound :
              /\ ~b.many => Len(run.store.external[b]) <= 1
              /\ b.required => run.store.external[b] # <<>>

\* "The same exposed input was supplied more than once": the input of a key
\* that was refused is in the bag.
DuplicateIsSameInput ==
    \A key \in refused : \E i \in DOMAIN bag : bag[i].input = key.input
=============================================================================
