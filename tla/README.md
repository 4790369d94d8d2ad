# slot-graph in TLA+

Slot Graph (`src/`) declares a graph of typed tasks, compiles the part that the
active nodes need into an immutable plan, and runs that plan, either inline in
the task that polls the run or on jobs handed to a host's dispatcher. This
directory models the declaration and the handles into it, the compiler, the two
ways of running, what tasks read and return, the report and the reuse of run
storage, model-checks them with TLC, and proves with TLAPS the
theorems listed below: for every plan, host and set of control calls of the runs,
for every set of schemas, names and types of the declaration, and for every set
of bindings and keys of the runner.

Paths are relative to the repository; `runtime.rs`, `graph.rs`, `compiled.rs`,
`report.rs`, `schema.rs`, `handles.rs`, `value.rs` and `error.rs` are those of
`src/src/`.

## The system

| Component | State | Operations | What must be right |
|---|---|---|---|
| Declaration (`graph.rs`, `Graph`) | node and edge records (holes where one was removed), name index, exposed bindings, counters | add, rename, remove a node; activate; replace a schema; connect, connect_nodes, collect, reconnect, disconnect; expose; all by name or by handle | records, index, edges and bindings agree after any sequence of edits; an edit that fails changed nothing; identities never move |
| Compiler (`compiled.rs`, `compile_graph`) | none; produces `CompiledPlan` | reverse closure of the active nodes, required-input check, dense indices, deduplicated dependencies, Kahn's cycle check, lowering of inputs | the verdict is right, and the plan is what a run assumes: acyclic, no doubled successor, every source at its position |
| Run bookkeeping (`runtime.rs`, `GraphRun`) | status, remaining, ready, outputs, failure, blocked_by per node | `commit_node`, `fail_node`, `block_branch`, `cancel_unstarted`, `is_terminal` | the countdown is exact; a failure blocks every dependent once; settled is final |
| Driver (`GraphRun::poll`) | the above, the stored inline futures | drain events, sweep stops, launch, poll futures, finish | the report is ready when all is settled, and only then; no wakeup is lost |
| Dispatched job (`NodeJob`) | factory, inputs or future, `finished` | poll, drop | one answer per accepted job, on every path; the claim is serialised with stops |
| `JobQueue`, `CancelState` | events, driver waker, retired; two flags, start_gate, two waker stores | push; cancel, abort, retire, wake_all, register_waiter | no event and no stop is left with a sleeping receiver |
| `RunInputs`, `GraphRunner`, `RunnerRun`, `RunScratch` | the bag of supplied values; storage passed from run to run | insert, extend, start, execute, trim, drop | a run sees its own values only; an idle runner holds none |
| Schemas, keys, handles (`schema.rs`, `handles.rs`) | layout identities; a handle holds a node, a slot and a schema generation | validate, bind, resolve a key or a handle, use it later | a key or handle means the slot it was resolved on, or nothing |
| Task values (`value.rs`, `build_inputs`, `validate_outputs`) | the snapshot of a task's inputs; the bag of outputs it returns | read by name or key; insert; validate | a task reads its own inputs whole; a bag is committed whole or not at all |
| Reports (`report.rs`, `take_report`) | outcome, status, blame, outputs of active nodes | read, take | truthful about what happened, to handles of every age |
| Tasks, modes, errors | type-level distinctions | | checked by the compiler |

The parts meet as follows. `Graph::compile` reads the declaration and makes a
plan; a run takes the plan and the validated inputs. The driver is one executor
task. With a dispatcher, jobs run on the host's threads and talk to the driver
through `JobQueue::push` (queue an event, take the driver's waker, wake it);
`RunControl` and the drop of the run talk to both through `CancelState` (store a
flag under `start_gate`, take the driver's waker, take the jobs' wakers, wake
all). User code may be re-entered through wakers and drops.

What is hard here: every pair of (store something, wake somebody) and (register
a waker, look for something) is a race; a claim races a cancel; a dispatcher may
run a job to its end before `dispatch` returns and then return `Err`; a host may
drop a job at any time; an abandoned run leaves jobs behind that outlive it and
the next user of its storage; long legal sequences of edits; partial failure of
an edit or of a start; keys, handles and reports that live on while the
declaration they came from changes. `PROJECT.json` lists each hazard at its line
with the properties that would catch it.

## Modules

| Module | Models | Uses |
|---|---|---|
| `RunPlan` | what a run reads of a `CompiledPlan`; the walks over it without recursion (`Downstream`, `Orderings`) | |
| `RunContract` | abstract specification: what a run promises its caller | `RunPlan` |
| `RunNodes` | node bookkeeping shared by the two ways of running | `RunPlan` |
| `DispatchRun` | a dispatched run: driver, jobs, control calls and host, cut at each access to shared state | `RunNodes`; implements `RunContract` |
| `InlineRun` | a run without dispatcher: launch loop, stored futures, stops | `RunNodes`; implements `RunContract` |
| `BlockBranch` | `fail_node` and the recursive `block_branch`, call by call, compared with `Downstream` | `RunContract` |
| `Schema` | declarations of a node, their validation, keys resolved on them | |
| `GraphEdit` | the declaration and its edits | `Schema` |
| `SlotHandles` | typed handles that clients keep, and the edits that take them | `GraphEdit` |
| `Compile` | the passes of `compile_graph` | `GraphEdit` |
| `RunInputs` | the bag of inputs and its validation | |
| `TaskIO` | bags of outputs and their validation, snapshots of inputs and their accessors | `Schema` |
| `Reports` | a version from compilation to the last value taken, while the declaration is edited | `Compile`, `SlotHandles`, `TaskIO`, `RunPlan` |
| `ReportsContract` | `Reports` on one plan, seen as `RunContract` | `Reports`; implements `RunContract` |
| `Runner` | a runner, the runs that borrow it, their leftovers | `RunInputs` |
| `RunNodes_proof` | lemmas about plans, about queues of their nodes and about the node bookkeeping | `RunNodes` |
| `Flatten_proof` | lemmas about `FlattenSeq`, about sequences made step by step, and about counting | |
| `RunContract_proof` | theorems about the contract, what a failure blocks, and the walk that blocks it | `BlockBranch`, `Flatten_proof` |
| `DispatchRun_proof`, `InlineRun_proof` | theorems about the two ways of running, the refinement of the contract among them | `RunNodes_proof`; an instance of `RunContract_proof` |
| `Graph_proof` | theorems about the declaration under edits, about handles and about compilation | `SlotHandles`, `Compile`, `Flatten_proof` |
| `Runner_proof` | theorems about a runner and the runs that borrow it | `Flatten_proof` |
| `Reports_proof` | theorems about what tasks read and return, where values are, what reports answer, and the plan of a version and its run | `ReportsContract`, `Graph_proof`; an instance of `RunContract_proof` |
| `MC...` | small plans, schemas and keys for TLC | |

Definitions named as *slips* in a comment are deliberate mistakes next to the
definition they resemble. Next never reaches them; putting one in the place of
its original makes a property fail, which shows that the property looks at the
code in question.

### How the code maps to the models

*Node bookkeeping.* `status`, `remaining`, `ready`, `failure`, `blockedBy` are
the vectors of `GraphRun`; `outputs` is the set of nodes whose output slots are
filled. `CommitNode`, `FailNode`, `CancelUnstarted` and `QueueRoots` are the
functions of the same names (the last is the first poll). Output values are not
modelled here; that an output set is complete is part of the kind of a result
(`Reports` has the values).

*Driver.* `dpc` walks through `GraphRun::poll`: register both wakers, initialise,
drain, sweep the two stops, launch, check, and go round if there was progress.
Each load of a flag, each push and pop, and each use of a waker store is a step
of its own. A pop is joined with the load of the cancel flag that decides the
event (between them the driver touches nothing shared, and a stop that falls
there gives the same outcome as one before the pop).

*Jobs.* `jpc[n]` walks through `NodeJob::poll` and its `Drop`; `holds[n]` is what
the job owns (factory, future, nothing), `event[n]` what it will push. The entry
of a poll is joined with the load of `retired`; taking the driver's waker and
waking it in `JobQueue::push` are one step. A result (`Results`) is the kind of
what a task did: outputs that fit (`ok`) or do not (`invalid`), an error
(`user`), `Cancelled` from a checkpoint (`checkpoint`), a panic.

*Control calls.* `cpc[c]` walks through cancel, abort or the drop of the run;
each is made at most once. That bound is on a caller, and repeating a call
stores a flag that is already set and wakes again.

*Wakers* are bits: whether a store holds the driver's waker, which jobs have a
waiter. A wake makes its target runnable and nothing else; that a waker may run
foreign code on the spot is the question of `WakeOutsideLocks`.

*Inline runs.* The same with `futures` (the nodes whose user future is stored).
User code runs inside the driver, so a future that awaits `cancelled()` registers
the driver's own waker. Futures are polled in plan order.

*Runner.* Scheduling is abstracted to that of independent nodes: a value is the
number of the start it belongs to, and the question is which storage, queue and
flags carry which number when runs end, are dropped, fail to start or are
trimmed between them. The runner is the dispatched one, whose jobs outlive it.

*Declaration.* An id is the position of a record. An edit that is refused before
it writes is not a step, for nothing happened; `connect_nodes` and
`replace_schema`, which plan before they write, do report their failure, and
`FailureIsAtomic` says that nothing else changed.

*Handles.* A handle is a record of node, slot identity and schema generation,
with the type the client's program gives it. Clients ask for every handle they
can get, whenever they can (`Offered`), and never forget one; `issued` keeps it
with the slot it was asked for. The four edits of `SlotHandles` are those of
`GraphEdit` on the slots that two, or one, resolve to, or a refusal.

*Keys.* `Schema::bind` draws a layout number, so two bound schemas may agree in
all slots and differ in the layout; a key is a layout and an index. An address in
a bag, or of a read, is a name or a key (layout 0 stands for a name).

*Versions.* `Reports` runs the compiled version with the steps of `RunContract`,
which both executors implement, and adds the data: `external` and `outputs` are
the vectors of `GraphRun`, a value is its type, the node that made it and its
place in the bag. The tasks of a version may return any bag over all names,
types and keys of the program, so that replacing a task changes nothing. What
the run does with inputs and outputs is computed from the frozen records of the
version; handles are issued from the declaration that goes on changing.

*The plan of a version.* `RunContract` is about one plan, a version is compiled to
any. `ReportsContract` names a plan by two constants (`Size`, `After`) and maps
what a run of a version with this plan does to the contract; a version with
another plan, or none yet, leaves the contract at its initial state. The run
names the plan that a maker and a taker compile to; the theorem leaves the
constants open, so it speaks of all plans.

*The walk.* A walk of `block_branch` is the two vectors it writes and the calls
still to be made, the next one first: a call returns at a settled node, and at
any other marks it and puts its own calls in front.

## Runs

| Run | Instance | Question |
|---|---|---|
| `ContractPlan` | 6 nodes: two roots, joins, a shortcut, successors out of order | do the contract's promises and the inductive invariant `Inv` hold, and does the recursive walk end with what `Fail` says in every state? |
| `DispatchJoin` | 2 nodes feed 1; ok or user error; host drops, rejects | are countdown, ready queue, answers and event hand-over exact? |
| `DispatchStop` | 1 feeds 2; ok, panic, and a checkpoint of task 1, which watches its token; cancel and abort; spurious polls | is a stop ever missed, a report early, the contract broken? |
| `DispatchCancel` | task 1 watches its token, task 2 does not; cancel; host drops, rejects | does the run return, and is a task that ignores the stop left asleep? |
| `DispatchDrop` | one task that never gets ready; cancel, abort, drop of the run; host drops | does an aborted run return, and do abandoned jobs end? |
| `InlineJoin` | 2 feed 1; ok, user, invalid, panic; one task awaits its token; cancel and abort | the inline run: bookkeeping, wakeups, contract, return |
| `HandleEdits` | 2 nodes, 3 edges, 2 bindings, generation 2; five schemas (one invalid), 2 names and the empty one, 2 types; handles of every age | do edits keep the declaration consistent, and what do old handles mean? |
| `CompilePlans` | 3 nodes, 3 edges, 1 binding, two schemas | are verdict and plan right on everything edits can reach? |
| `VersionReports` | a maker of two outputs (two layouts) and a taker (Required One, Optional Many); 2 edges, 1 binding, 2 values; bags of at most 2 entries; generation 2 | what do tasks read and commit, where is each value, what does the report answer, and is the run one of `RunContract`? |
| `RunnerReuse` | 2 inputs (One, Many), a stale key, 2 nodes, 2 starts, collections of at most 2 values | does anything of one run reach another? |
| `WakeUnderGate` | one node, cancel | expected violation, see Findings |
| `ForeignKey` | one input, a key of another graph | expected violation, see Findings |

*Why the bounds are enough.* Joins need two predecessors, partial failure needs
a settled and an unsettled branch below one node, and a hand-over between jobs
needs a successor: plans of two to four nodes have these. A lost wakeup needs
one driver, one job and one caller; two calls are there because the first takes
the waiters that the second relies on. The dispatched plans are small because
one job has eighteen program points; the theorems lift all their safety
properties to all plans, as they lift those of the declaration to any number of
nodes and edits and those of the runner to any number of starts. Edits interact
through one or two nodes and the slots they share; a third node is what a cycle
through the active closure and a doubled edge need in `CompilePlans`.
`VersionReports` needs one producer of two values and one consumer: an input
with two sources, an empty neighbour, a bag that lacks an entry, repeats one or
has one too many, and a schema of each generation. `HandleEdits` keeps nodes
inactive (`NoTargets`), which only compilation reads, and treats names as
symmetric, but for the empty one, which every edit refuses: no property tells
the others apart. The first node of `VersionReports` is
a maker and the second a taker, under names in turn. Two starts are enough to
have a previous run.

The constants `MaxNodes`, `MaxEdges`, `MaxGeneration`, `MaxBindings`,
`MaxStarts`, `MaxValues`, `MaxEntries` and `MaxSupplied` are bounds of the
checks, not of the code. `ContractPlan`, `HandleEdits`, `CompilePlans`,
`VersionReports`, `RunnerReuse` and `ForeignKey` turn deadlock detection off,
because they stop at their bounds; the runs of a graph end in an explicit
`Finished` step, so any other stop is a deadlock.

### Properties

*Contract.* `StartedAfterInputs`, `FailureSettles`, `BlockedHasCause`,
`BlocksFollowFailures`, `OutcomeTruthful` (parts of `Inv`), `SettledIsFinal`,
`StopFreezes`. `BlocksFollowFailures` says what failures mean for the rest of a
run without mentioning an order of events: only dependents of failed nodes are
blocked, none of them ever starts, and without a stop all of them are blocked.
`ImplementsContract` carries these over to the two detailed runs, the statuses
seen through `phase`, the cancel flag as `stop`, and to the run of a version. A
node is *running* for the contract from the claim on, which for a job is the
moment under `start_gate` where it takes the factory.

*Wakeups.* `NoStrandedEvent`, `NoStrandedStop`, `NoDeafJob`, `NoStrandedDriver`:
whoever sleeps while there is something for it to do is about to be woken, by
someone named in the property.

*Answers.* `NoOrphan`: a Running node has a job that owes an event, or the event
is queued. `ReportAfterAcks`: no report before every accepted job is past its
last chance to run user code. A rejected job is exempt, since the host may still
hold it (`dispatch` takes it by value and may keep it in a pool it then closes).

*Bookkeeping.* `Bookkeeping` (`ReadyQueueExact` and `RemainingExact` with the
types) and the inline `Inv`; `BlameLeadsToFailure`; `WalkIsDownstream`.

*Liveness.* `RunReturns`: a run ends, unless it keeps a task that is not ready,
that no abort reached and, if cancelled, does not watch its token. It covers
every path by which a driver or a job could fall asleep for good.
`DropEndsJobs`: after the run was dropped every job ends and frees what it owned.
`IgnoringTaskSleeps`: the catch-up wake (`runtime.rs:239-268`) does not become a
busy loop.

*Declaration and plan.* `NamesExact`, `EdgesTyped`, `ProducersUnique`,
`BindingsSound`, `FailureIsAtomic`; `VerdictExact` (with a
definition of cycles and of missing inputs that follows no algorithm),
`PlanFitsRun` (what `PlanAssumption` takes for granted), `InputsResolvable`.

*Handles.* `HandlesMeanOneSlot`: an issued handle resolves to the slot it was
issued for, or to nothing. `StaleStaysStale`: a node, an edge or a handle that is
gone does not come back.

*Values and reports.* `InputsReadable`: a running task reads each input by its
own name or key with the one accessor that fits, and gets all and only the values
meant for it. `AcceptedExactly`: a bag is accepted if and only if it has one
fitting entry per output. `OutputsWhole`: each output of a node that succeeded is
in one place, and no other node left any. `ReportAnswers`: what the report says
to each handle, told from the state of the version and from what was taken, not
from the report's own tables. A handle that the graph issued never meets
`TypeMismatch`, as the property implies.

*Runner.* `IdleHoldsNothing`, `GenerationsApart`, `StopIsOwn`, `InputsDelivered`.

### Fairness

`FairSpec` assumes that the driver is polled when it was woken and then runs to
its next return; that a job which was woken is polled; that a control call, once
begun, goes on; and that the event a task in `Responsive` waits for happens. The
first is what an executor is. The second is `NodeDispatcher`'s contract
(`runtime.rs:357-369`, "must not be leaked") and `src/documents/design.md`
("must eventually poll or drop it"). Nothing is assumed about when calls are
made, about drops and rejections, or about tasks outside `Responsive`.

## Theorems

TLAPS checks all of the following, with no assumption but the named ones of the
modules:

- `PlanAssumption`: a finite acyclic plan without doubled successors, which
  `PlansFitRuns` proves of every plan that the compiler accepts, and which
  `VersionsKeepPromises` does without;
- `HostAssumption`, `InlineAssumption`: which results, calls and liberties exist;
- `SchemaAssumption`: schemas are sequences of slots with Boolean modes;
- `BindingAssumption`: a plan binds an input once, under one number, which
  `BindingsStaySound` and `InputsAreResolvable` give; `ActiveAssumption`: the active
  nodes are nodes;
- `LayoutAssumption`: layouts are numbered from 1 (`schema.rs:15`), so that no key
  is taken for a name;
- the `BoundAssumption` of `GraphEdit` and of `Runner` and the `EntryAssumption` of
  `Reports`: the bounds are numbers, however large. The theorems of these modules
  speak of behaviours of any length.

| Theorem | Says |
|---|---|
| `ContractInvariant` | `Inv` of `RunContract` holds in every reachable state |
| `FailuresSettle`, `ReportsTruthful` | two of its parts that a caller relies on |
| `FailuresDecide` | `BlocksFollowFailures`: what failed decides what is blocked, in whatever order things happened |
| `BranchIsBlocked` | `WalkIsDownstream`: the calls of `block_branch` end and have blocked exactly `Downstream` |
| `SettledStays`, `StopIsFinal` | the action properties `SettledIsFinal`, `StopFreezes` |
| `TypeCorrect` | the type invariant of `DispatchRun` |
| `EventsReachDriver` | `NoStrandedEvent`: `JobQueue` loses no wakeup |
| `StopsReachDriver` | `NoStrandedStop`: `CancelState` loses no wakeup of the driver |
| `NoJobIsDeaf` | `NoDeafJob`: `CancelState` loses no wakeup of a job |
| `NodesAreAnswered` | `NoOrphan`: every path of `NodeJob` ends with an answer |
| `ReportsWait` | `ReportAfterAcks`: a report comes after the last user code of every accepted job |
| `BooksAreKept` | `Bookkeeping` of a dispatched run: exact ready queue, right countdown |
| `InlineBooksAreKept` | `Inv` of `InlineRun`: the same, and one stored future per Running node |
| `BlameIsFounded`, `DispatchBlameIsFounded` | `BlameLeadsToFailure` in both ways of running |
| `InlineDriverIsWoken` | `NoStrandedDriver`: the inline driver sleeps through no stop and no future |
| `DispatchKeepsContract`, `InlineKeepsContract` | `ImplementsContract`: both ways of running implement `RunContract` |
| `DispatchKeepsPromises`, `InlineKeepsPromises` | what is proved of the contract, of the two runs |
| `NamesStayExact`, `EdgesStayTyped`, `ProducersStayUnique`, `BindingsStaySound` | the declaration is consistent after any sequence of edits |
| `FailuresAreAtomic` | `FailureIsAtomic`: an edit that reports a failure changed nothing |
| `HandlesStayTrue` | `HandlesMeanOneSlot`: a handle of any age means its slot or nothing |
| `StaleForGood` | `StaleStaysStale`: nothing that is gone comes back |
| `VerdictsAreExact` | `VerdictExact`: `compile` refuses exactly what cannot run, with the right reason |
| `PlansFitRuns`, `PlansStayFit` | `PlanFitsRun`: an accepted plan is what a run assumes, and stays so while the declaration is edited |
| `InputsAreResolvable` | `InputsResolvable`: what an input reads is an output of a predecessor, of its type |
| `StorageComesBackEmpty` | `IdleHoldsNothing`: an idle runner holds no value |
| `GenerationsStayApart` | `GenerationsApart`: no value of one run reaches another |
| `OnlyOwnStop` | `StopIsOwn`: a run is stopped by its own control only |
| `BagIsDelivered` | `InputsDelivered`: a bag that validation passes is delivered whole |
| `ReturnsAreChecked` | `AcceptedExactly`: the bags that fit the schema are accepted, and no other |
| `InputsAreRead` | `InputsReadable`: a running task reads its inputs, whole and in order, and only them |
| `OutputsStayWhole` | `OutputsWhole`: all outputs of a node or none, each in one place |
| `HandlesAreAnswered` | `ReportAnswers`: a report gives every handle the promised answer, and a value once |
| `VersionsKeepContract` | `ImplementsContract`: the run of a version implements `RunContract` on the plan it was compiled to |
| `VersionsKeepPromises` | what is proved of the contract, of the run of every version, with no assumption about its plan |

*The contract.* `OutcomeTruthful` is not inductive. An `Ok` report is truthful
because a run without failure blocks nothing (`BlockedNeedsFailure`) and a run
that was not stopped discards nothing (`DiscardNeedsStop`). That a failure blocks
exactly what it should rests on two lemmas about `Downstream`: the set is closed
under successors, and each member has a predecessor in it or is a successor of
the failed node. The steps preserve `Core`, which is `Inv` without
`BlocksFollowFailures`; that one follows in each state (`BlocksFollow`). A blocked
node has a cause, and the cause of a blocked node of least rank that depends on
no failed one would be such a node itself; and the nodes that did not start are
closed under successors, as without a stop the blocked ones are.

*The walk.* `Walking` holds between two calls of `block_branch`: what is blocked
depends on the failed node and blames a node that failed or is blocked, all else
is as it was, and each undecided successor of these nodes is blocked or called
from there. So a walk with no calls left has blocked a closed set, which is
`Downstream` (`WalkHits`). `Fuel` counts the calls to be made and the edges out of
nodes not blocked yet: each call burns one unit, since marking a node trades its
edges for its calls, and so the walk ends within as many calls as the plan has
edges (`WalkEnds`).

*Events.* `EventInv` adds to the types that the driver's waker is registered in
the queue whenever the driver is past `RegisterQueueDriver` and nobody took it,
that an event queued behind its back has a job about to wake it, and that only
nodes with a job are Running. The property follows: a driver that went to sleep
drained the queue after it had registered.

*Stops.* `StopInv` is its counterpart for `CancelState`: a stop that the driver's
last look missed has its call still before `TakeDriver`.

*Answers.* `OrphanInv` is `NoOrphan` with the types; the work is in `Receive`,
which removes the event and settles the node in one step.

*Bookkeeping.* `Books` is what every operation of `RunNodes` preserves: types,
`ReadyQueueExact`, `RemainingExact`, and `RunningHasInputs`. The last is why a
failure blocks Pending nodes only: a Ready or Running node downstream of the
failed one would need an output of a node that has none. `RunNodes_proof` has the
counting: the countdown drops by one exactly for the successors of the committed
node, and `Orderings` puts those that reach zero into the queue, each once.
`BookInv` adds for `DispatchRun` that nothing happens to the nodes before the
first poll fills the queue (`FirstPoll`), and that no event settles a node whose
job is still being submitted (`Submitting`).

*The inline run.* Between the removal of the head and its claim the queue is not
exact: a Ready node is in the driver's hands (`Claiming`), which is why `Inv`
asks for `ReadyQueueSound` only. `FuturesKept` says the same of futures while a
task is invoked or its end is looked at, and `UnpolledKept` that the loop over
futures meets none which an earlier turn removed. Each group of actions has its
lemma; control calls and finishing tasks leave all the driver owns alone (`DriverIdle`).

*Blame.* For both ways of running, `BlameFail` shows the step that matters:
`FailNode` blames the failed node or a node of the branch it blocks, and the
branch spares settled nodes.

*The refinement.* `ContractInv` adds to the bookkeeping what the mapping needs.
A job runs user code or owns a future only in a node that the contract saw
claimed (`ClaimsKept`, whose variable `claimed` is the history that the contract
speaks of); a job says `Cancelled` only if somebody stopped the run
(`StopsFounded`); behind a report everything has settled (`OutcomeLast`). With
these, every step is one step of the contract or leaves what it sees alone: the
lemmas `Map...` go through the actions. `DispatchKeepsPromises` and
`InlineKeepsPromises` then instantiate `RunContract_proof` with the mapping.

*Acknowledgements.* `AckInv` adds that a job which has not pushed its event
belongs to a Running node unless its dispatch failed (`OwesRunning`), and that an
event is queued by a job which has (`QueuedAcked`). A report needs every node
settled, hence every job past its push.

*Jobs and stops.* A job that sleeps has its waker in `waiters`, or a call took
it and is about to wake it, or it is runnable (`Reachable`). A stop that falls
between the return of the child and the registration is left to the catch-up
wake of `runtime.rs:239-268`, which a job has once: `CatchUpLate` says that none
is spent before a stop, and that a task which watches its token still has its
own when it gets there. `NoStrandedDriver` of the inline run asks the same of
one waker: each part of `StrandInv` names a place of the loop and the stops or
futures that its last look has missed, and whoever made one since has raised the
`Alarm`.

*Declaration.* `EditInv` is inductive because its parts hold each other up: an
edge is typed because its ends are slots of live nodes (`RecordsTyped`), and an
exposed input has no producer because each edit that adds an edge looks at the
bindings and each that adds a binding looks at the edges. The long cases are
`ConnectNodesKeeps`, where the plan that is pushed at the end must not conflict
with itself (`PlanHasNoConflict`: two matches of one plan have different
inputs), and `ReplaceSchemaKeeps`, where the edges and bindings that survive are
those whose slots the new schema has. `HandlesSound` is what makes handles true:
until its node ages, a handle names the slot it was issued for. Here a schema
generation is a number without bound, where the code adds with wrap-around in 64
bits: `HandlesStayTrue` says nothing of a node whose schema was replaced 2^64 times.

*Compilation.* The theorems are about `CompileSpec`, where any edits come before
the one `compile`; the run makes its declarations with fewer edits
(`MCCompile`). Both loops of the code are functions of the number of turns
(`Walk`, `Checks`), with a bound on the turns that the proof shows to be enough.
For the closure, `Fuel` counts what lies on the stack and the edges into nodes
not seen yet: each turn burns one unit, and an empty stack leaves a set that is
closed under producers and below `Upstream` (`Closing`). For the cycle check,
`Counted` relates counts, queue and visited nodes: a count is the number of
predecessors not visited, a node is visited or queued exactly when it has none
left, and the turn in which a node was visited is a rank. If the queue runs dry
before the end, the node of least rank among the rest would have been queued: so
there is no rank, and a cycle (`CheckExact`). `NeighboursAreFed` ties the lists to
the edges, and `InputCompiled` needs the invariants of the declaration: the
schema still has the output that an edge names, at one position, with the type
of the input.

*Runner.* `RunnerInv` says of each place where a value can be whose it is: the
live run's storage and bag (`LiveRun`, `RunApart`), the queues by number
(`QueuesOwn`), the jobs that outlive their run (`JobsApart`), the report
(`ReportApart`); and of each flag, who may have set it (`StopsExplained`).
`Delivery` is about validation alone: a bag without error has its values under
bindings of the plan, at most one per One input, one at least per required one.

*Bags and snapshots.* Both loops are functions of the number of turns (`Placed`,
`Extensions`). After n entries the bag is accepted if each is meant for an
output and no two for the same (`Resolving`), and with as many entries as
outputs that is one for each, by counting (`OneEach`). The n-th range of a
snapshot is the n-th group of values (`Sliced`), also when groups are empty.

*Versions and reports.* `ReportInv` has two halves. `DeclInv` ties the frozen
version to the declaration that is edited on: a node that was compiled is gone,
or has kept its schema, or is of a later generation (`NodesSince`). So a handle of
the generation that was compiled names a slot that was compiled, though it may
have been issued before or after (`HandlesFrozen`); what an input reads is an
output of its type, of a node with this one among its successors (`PlanFrozen`).
`RunInv` says where values are. Before the report each node that succeeded has
them all in the run (`Early`). After it, for the one `val` that was committed, an
entry of the report has the value unless it was taken (`Entry`), and what clients
have came from there, once (`HandedLate`): `TakeReportStep` and `TakeOutputStep`
are the long cases. `OutputsWhole` follows from a bijection between the outputs of
a node and the places of its values (`LocatedWhole`). That a running task finds
all its sources committed is `Ready` of `Early` with `PlanFrozen` (`GivenGroup`).

*Versions and the contract.* On the plan that the constants name, each step of a
run is one step of `RunContract`; off it the mapping stands still (`ContractSteps`).
That plan is any: if a version has it, it is one that a run can take, because
`compile` checked it and edits leave versions alone (`VersionStaysFit`,
`OnPlanGiven`). `VersionsKeepPromises` uses this in place of `PlanAssumption`: if
the constants name no such plan, no version has it and nothing moves; if they do,
`RunContract_proof` applies. This joins compiler and run: that the contract's
theorems hold of what `compile` makes is proved, not assumed.

*Sequences.* The library's induction theorems cannot be used, so `Flatten_proof`
argues from the least index at which a claim fails. `FlattenElements`,
`FlattenInjective` and `FlattenOne` are what the edits, the runner and reports
need; `TypedSteps` and `CountingUp` serve the loops of the compiler, of bags and of
snapshots.

### Model-checked only

- Liveness (`RunReturns`, `DropEndsJobs`, `IgnoringTaskSleeps`): out of the prover's reach.

Every other property of the passing runs is stated by a theorem.

## Findings

*A waker under a lock* (`WakeUnderGate`). `NodeJob::poll` pushes its Cancelled
event at `runtime.rs:208` while the guard of line 201 lives, and `push` wakes the
driver. The comment at `runtime.rs:77-78` says that a waker is never invoked
while one of the run's coordination locks is held. An executor that polls the
run, or drops it, inside `wake` would lock `start_gate` again.

*A duplicate that is none* (`ForeignKey`). `push_entry` (`runtime.rs:534`)
compares binding numbers, and each `Graph` numbers its own. A key of another
graph is refused as `DuplicateRunInput`, "The same exposed input was supplied
more than once" (`error.rs:187`), although its input was not supplied.

Two observations have no run of their own. In a chain whose first node fails,
`blocked_by` of the last names the second, which is Blocked and did not fail
(`runtime.rs:1119`; `report.rs:139` says "one direct failed dependency");
`BlameLeadsToFailure` states what does hold. And `Drop for NodeJob` pushes its
event before the fields of the job are dropped (`runtime.rs:290`), so that a
report can be taken while the host's thread still frees the user's task;
`ReportAfterAcks` counts the push as the acknowledgement.

## Not modelled

- `replace_task`: it changes the task only, and tasks do whatever they can in
  every model.
- Node selectors by name, and the lists of unmatched inputs that edits return:
  lookups without effect. Handles of another graph meet reports, not edits.
- Waker identity: `will_wake`, the growth of `waiters` (`runtime.rs:104`), and
  drop code of a replaced waker (`runtime.rs:757`).
- Weak memory: flags are sequentially consistent. The code stores and loads them
  with Release and Acquire, and the hand-over of wakers goes through mutexes.
- Foreign code that re-enters during a drop, other than as a separate call.
- Modes, downcasts, macros, error records and texts. The hash that makes slot
  identities from names: `MCSlotHandles` has a schema in which two collide.

## Plan

The order of the modules followed the weight of what can go wrong: contract and
dispatched run, its proofs, inline run, bookkeeping, declaration, compiler,
runner; then handles, task values and reports. The proofs went the same way:
wakeups, bookkeeping, the refinement of the contract, edits and handles, the
runner, the compiler, task values and reports; then the walk of `block_branch`
and the refinement that joins the compiler to the contract. Every component with
state of its own is modelled, and every safety property of the runs is proved.
What is left lies outside the prover: liveness, and sequentially consistent flags
in place of the orderings that the code names (see Not modelled).
