------------------------------- MODULE Reports -------------------------------
(***************************************************************************)
(* One compiled version from its compilation to the last value taken from  *)
(* its report, while the graph goes on being edited: what tasks read and   *)
(* return (TaskIO), what the run commits, the report it returns            *)
(* (take_report in src/runtime.rs, src/report.rs) and what the handles     *)
(* that clients kept (SlotHandles) get out of that report.                 *)
(*                                                                         *)
(* When nodes start, settle and stop is as in RunContract, which both      *)
(* executors implement, here on whatever plan was compiled (the module     *)
(* ReportsContract has the correspondence).  A task may                    *)
(* return any bag at any invocation: replace_task changes nothing here.    *)
(***************************************************************************)
EXTENDS Compile, SlotHandles, TaskIO

CONSTANTS MaxEntries,   \* bound: entries of a bag of outputs
          MaxSupplied   \* bound: values supplied to an exposed input

\* Layouts are numbered from 1 (NEXT_LAYOUT_ID).
ASSUME LayoutAssumption == \A s \in Schemas : s.layout \in Nat \ {0}
ASSUME EntryAssumption == MaxEntries \in Nat

VARIABLES phase, stop,   \* as in RunContract; phase is empty before the start
          external,   \* external[i][k]: values supplied to input k of node i
          outputs,    \* outputs[i][k]: committed value of output k of node i
          report,     \* what the run returned, NoReport before
          handed      \* values that left the report, in order (history)

runVars == <<phase, stop, external, outputs, report, handed>>
reportVars == <<allVars, version, runVars>>

Run == INSTANCE RunPlan WITH N <- Len(version.ids), Succs <- version.successors

P == DOMAIN version.ids
PhaseIn(phases) == {i \in P : phase[i] \in phases}
Open == PhaseIn({"waiting", "running"})
Ready(i) == Run!Pred(i) \subseteq PhaseIn({"succeeded"})
Frozen(i) == version.nodes[i]    \* CompiledNode: name, schema, generation, active
OutputsOf(i) == Frozen(i).schema.outputs
NoOutputs(i) == [k \in DOMAIN OutputsOf(i) |-> NoValue]

NoReport == [nodes |-> <<>>, failures |-> <<>>, targets |-> <<>>]

ReportInit ==
    /\ HandleInit /\ version = Refused("none")
    /\ phase = <<>> /\ stop = FALSE
    /\ external = <<>> /\ outputs = <<>> /\ report = NoReport /\ handed = <<>>

-----------------------------------------------------------------------------
(* The run. *)

\* Values for an exposed input that its validation lets pass (RunInputs).
Supplied(in, count) ==
    LET n == IF in.slot.many /\ in.slot.required /\ count = 0 THEN 1
             ELSE IF in.slot.many THEN count
             ELSE IF in.slot.required \/ count > 0 THEN 1 ELSE 0
    IN  IF ~in.external THEN <<>>
        ELSE [j \in 1..n |-> [type |-> in.slot.type, node |-> 0, entry |-> j]]

StartRun(count) ==
    /\ version.verdict = "Ok" /\ phase = <<>>
    /\ phase' = [i \in P |-> "waiting"]
    /\ outputs' = [i \in P |-> NoOutputs(i)]
    /\ external' = [i \in P |-> [k \in DOMAIN version.inputs[i] |->
                                    Supplied(version.inputs[i][k], count)]]
    /\ UNCHANGED <<stop, report, handed>>

\* Slip: the first source stands for all of them.
BuildInputsFirst(i) ==
    Snapshot([k \in DOMAIN version.inputs[i] |->
        LET in == version.inputs[i][k]
        IN  IF in.external THEN external[i][k]
            ELSE [s \in DOMAIN in.sources |->
                     outputs[in.sources[1].node][in.sources[1].output]]])

\* build_inputs: supplied values, or the outputs of the sources in edge order.
\* What a running node reads stays committed until the report is taken.
BuildInputs(i) ==
    Snapshot([k \in DOMAIN version.inputs[i] |->
        LET in == version.inputs[i][k]
        IN  IF in.external THEN external[i][k]
            ELSE [s \in DOMAIN in.sources |->
                     outputs[in.sources[s].node][in.sources[s].output]]])

Claim(i) ==
    /\ ~stop /\ phase[i] = "waiting" /\ Ready(i)
    /\ phase' = [phase EXCEPT ![i] = "running"]
    /\ UNCHANGED <<stop, external, outputs, report, handed>>

Fail(i) ==
    LET hit == Run!Downstream(i, Open \ {i})
    IN  /\ phase' = [j \in P |-> IF j = i THEN "failed"
                                 ELSE IF j \in hit THEN "blocked" ELSE phase[j]]
        /\ UNCHANGED outputs

\* The bags a task can put together: values under names, with any type, and
\* under the keys of any layout of the program, with the type of the key.
Entries ==
    {<<Named(name), type>> : name \in UNION {NamesOf(s.outputs) : s \in Schemas}, type \in Types}
    \cup {<<Keyed(key), key.type>> :
              key \in UNION {KeysIssued(s, s.outputs, Types) : s \in Schemas}}
Shapes == SeqOf(Entries, MaxEntries)
Bag(i, shape) ==
    [p \in DOMAIN shape |-> [address |-> shape[p][1],
                             value |-> [type |-> shape[p][2], node |-> i, entry |-> p]]]

\* Slip: a run that was told to stop commits all the same.
TaskReturnsLate(i, bag) ==
    LET checked == ValidateOutputs(Frozen(i).schema, bag)
    IN  /\ phase[i] = "running"
        /\ IF ~checked.ok THEN Fail(i)
           ELSE /\ phase' = [phase EXCEPT ![i] = "succeeded"]
                /\ outputs' = [outputs EXCEPT ![i] = checked.values]
        /\ UNCHANGED <<stop, external, report, handed>>

\* complete_inline and receive_event: the outputs are committed together,
\* discarded by a run that was told to stop, or they fail the node.
TaskReturns(i, bag) ==
    LET checked == ValidateOutputs(Frozen(i).schema, bag)
    IN  /\ phase[i] = "running"
        /\ IF ~checked.ok THEN Fail(i)
           ELSE IF stop THEN phase' = [phase EXCEPT ![i] = "cancelled"] /\ UNCHANGED outputs
           ELSE /\ phase' = [phase EXCEPT ![i] = "succeeded"]
                /\ outputs' = [outputs EXCEPT ![i] = checked.values]
        /\ UNCHANGED <<stop, external, report, handed>>

\* The task, or its dispatch, fails.
NodeFails(i) ==
    /\ i \in Open /\ Ready(i) /\ Fail(i)
    /\ UNCHANGED <<stop, external, report, handed>>

\* The run is told to stop; a stopping run discards undecided nodes.
Stop ==
    /\ ~stop /\ report = NoReport
    /\ stop' = TRUE
    /\ UNCHANGED <<phase, external, outputs, report, handed>>
Discard(i) ==
    /\ stop /\ i \in Open
    /\ phase' = [phase EXCEPT ![i] = "cancelled"]
    /\ UNCHANGED <<stop, external, outputs, report, handed>>

-----------------------------------------------------------------------------
(* The report. *)

Target(i, k) == [node |-> version.ids[i], slot |-> OutputsOf(i)[k].id,
                 generation |-> Frozen(i).generation, value |-> outputs[i][k], taken |-> FALSE]

TakeReport ==
    /\ Open = {} /\ report = NoReport
    /\ report' =
         [nodes    |-> [i \in P |->
              [node |-> version.ids[i], status |-> phase[i],
               slots |-> {<<out.id, Frozen(i).generation>> : out \in ToSet(OutputsOf(i))}]],
          failures |-> LET failed == InOrder(PhaseIn({"failed"}))
                       IN  [j \in DOMAIN failed |-> version.ids[failed[j]]],
          targets  |-> LET active == InOrder({i \in P : Frozen(i).active})
                       IN  FlattenSeq([j \in DOMAIN active |->
                               [k \in DOMAIN OutputsOf(active[j]) |-> Target(active[j], k)]])]
    /\ outputs' = [i \in P |-> IF Frozen(i).active THEN NoOutputs(i) ELSE outputs[i]]
    /\ UNCHANGED <<phase, stop, external, handed>>

NodesAt(h)   == {i \in DOMAIN report.nodes : report.nodes[i].node = h.node}

TargetsAt(h) == {t \in DOMAIN report.targets :
                    /\ report.targets[t].node = h.node /\ report.targets[t].slot = h.slot
                    /\ report.targets[t].generation = h.generation}

\* Slip: a slot is known whatever the generation of the handle.
KnownSlot(h) == \E i \in NodesAt(h) : \E s \in report.nodes[i].slots : s[1] = h.slot

\* target_index and output: what the report answers to a handle.
Known(h) == \E i \in NodesAt(h) : <<h.slot, h.generation>> \in report.nodes[i].slots

Answer(h) ==
    LET target == report.targets[CHOOSE t \in TargetsAt(h) : TRUE]
    IN  CASE h.graph # "own"     -> "ForeignHandle"
          [] h.graph = "own" /\ NodesAt(h) = {} -> "NotCollected"
          [] h.graph = "own" /\ NodesAt(h) # {} /\ ~Known(h) -> "StaleSlotHandle"
          [] h.graph = "own" /\ Known(h) /\ TargetsAt(h) = {} -> "NotCollected"
          [] OTHER -> IF target.value # NoValue
                      THEN IF target.value.type = h.type THEN "value" ELSE "TypeMismatch"
                      ELSE IF target.taken THEN "OutputTaken" ELSE "OutputUnavailable"

\* Slip: the report keeps its share of a value it hands out.
TakeOutputSharing(h) ==
    /\ Answer(h) = "value"
    /\ \E t \in TargetsAt(h) :
          /\ report' = [report EXCEPT !.targets[t].taken = TRUE]
          /\ handed' = Append(handed, [slot |-> h.slot, value |-> report.targets[t].value])
    /\ UNCHANGED <<phase, stop, external, outputs>>

\* take_output; an answer other than a value changes nothing.
TakeOutput(h) ==
    /\ Answer(h) = "value"
    /\ \E t \in TargetsAt(h) :
          /\ report' = [report EXCEPT !.targets[t].value = NoValue, !.targets[t].taken = TRUE]
          /\ handed' = Append(handed, [slot |-> h.slot, value |-> report.targets[t].value])
    /\ UNCHANGED <<phase, stop, external, outputs>>

-----------------------------------------------------------------------------

RunStep ==
    \/ \E count \in 0..MaxSupplied : StartRun(count)
    \/ /\ phase # <<>>
       /\ \/ Stop \/ TakeReport
          \/ \E i \in P : \/ Claim(i) \/ NodeFails(i) \/ Discard(i)
                          \/ \E shape \in Shapes : TaskReturns(i, Bag(i, shape))
    \/ \E h \in Held("out") : TakeOutput(h)

ReportNext ==
    \/ HandleNext /\ UNCHANGED <<version, runVars>>
    \/ CompileGraph /\ UNCHANGED <<issued, runVars>>
    \/ RunStep /\ UNCHANGED <<allVars, version>>

ReportSpec == ReportInit /\ [][ReportNext]_reportVars

-----------------------------------------------------------------------------
(* Safety. *)

\* What task i is given for input k: the supplied values, or one committed value
\* of each source, in edge order.
Given(i, k) ==
    LET in == version.inputs[i][k]
    IN  IF in.external THEN external[i][k]
        ELSE [s \in DOMAIN in.sources |-> outputs[in.sources[s].node][in.sources[s].output]]

InputAddresses ==
    (UNION {{Named(name) : name \in NamesOf(s.inputs)} : s \in Schemas})
    \cup (UNION {{Keyed(key) : key \in KeysIssued(s, s.inputs, Types)} : s \in Schemas})

\* The input an address is meant for: the one of that name, or the one its key
\* was resolved on, provided it was resolved on the schema of this very node.
Meant(schema, address) ==
    {k \in DOMAIN schema.inputs :
        \/ address = Named(schema.inputs[k].name)
        \/ address \in {Keyed(key) : key \in KeysOf(schema, schema.inputs,
                                          schema.inputs[k].name, schema.inputs[k].type)}}

\* A running task reads each of its inputs, by name or by key, with the one
\* accessor that fits its shape: the values meant for it and all of them, each
\* committed or supplied and of the type of the declaration, exactly one for a
\* Required One input; any other name, key, accessor or type is refused
\* (build_inputs, NodeInputs and its accessors).
InputsReadable ==
    \A i \in DOMAIN phase : phase[i] = "running" =>
        LET schema == Frozen(i).schema
        IN  \A address \in InputAddresses, accessor \in Accessors, type \in Types :
               LET read == Read(schema, BuildInputs(i), accessor, address, type)
                   fits == {k \in Meant(schema, address) : /\ schema.inputs[k].type = type
                                                           /\ MadeFor(accessor, schema.inputs[k])}
               IN  /\ read.ok <=> fits # {}
                   /\ \A k \in fits :
                         /\ read.values = Given(i, k)
                         /\ accessor = "required" => Len(read.values) = 1
                         /\ schema.inputs[k].required => read.values # <<>>
                         /\ \A v \in ToSet(read.values) : v.type = type

\* A bag is accepted exactly if it has one entry for each declared output, of
\* its type and under its name or a key of this very schema, and no other; each
\* value then lands at the output it was meant for (validate_outputs).
AcceptedExactly ==
    \A i \in DOMAIN phase : phase[i] = "running" => \A shape \in Shapes :
        LET schema  == Frozen(i).schema
            checked == ValidateOutputs(schema, Bag(i, shape))
            For(k)  == {<<Named(schema.outputs[k].name), schema.outputs[k].type>>}
                       \cup {<<Keyed(key), key.type>> :
                                key \in KeysOf(schema, schema.outputs, schema.outputs[k].name,
                                               schema.outputs[k].type)}
            Fit(p, k) == shape[p] \in For(k)
        IN  /\ checked.ok <=> /\ Len(shape) = Len(schema.outputs)
                              /\ \A k \in DOMAIN schema.outputs : \E p \in DOMAIN shape : Fit(p, k)
            /\ checked.ok => \A k \in DOMAIN schema.outputs :
                                 Fit(checked.values[k].entry, k)

\* Where a value of node i is: in the run, in the report, or with a client.
Committed == {x \in P \X (1..MaxEntries) : x[2] \in DOMAIN outputs[x[1]]}
Places(i) ==
    {p \in {[at |-> <<"run", x>>, value |-> outputs[x[1]][x[2]]] : x \in Committed}
           \cup {[at |-> <<"report", t>>, value |-> report.targets[t].value] :
                    t \in DOMAIN report.targets}
           \cup {[at |-> <<"client", j>>, value |-> handed[j].value] : j \in DOMAIN handed} :
        p.value # NoValue /\ p.value.node = i}

\* The outputs of a node are committed all or none: one value per declared
\* output of a node that succeeded, each in one place only, wherever commit,
\* report and clients have moved it, and nothing of a node that failed, was
\* blocked or was discarded.
OutputsWhole ==
    \A i \in DOMAIN phase :
        /\ Cardinality(Places(i)) = IF phase[i] = "succeeded" THEN Len(OutputsOf(i)) ELSE 0
        /\ \A x, y \in Places(i) : x.value = y.value => x = y

\* To every handle a client holds, of whatever age and side of an edit, the
\* report of the version gives the answer its documentation promises, and a
\* value only of the output the handle was issued for, once (target_index,
\* output, take_output).
ReportAnswers ==
    report # NoReport =>
        /\ \A i \in P : report.nodes[i].status = phase[i]
        /\ ToSet(report.failures) = {version.ids[i] : i \in PhaseIn({"failed"})}
        /\ \A x \in issued : x[1].side = "out" =>
             LET h      == x[1]
                 chosen == {i \in P : version.ids[i] = h.node}
                 same   == {i \in chosen : Frozen(i).generation = h.generation}
                 given  == {j \in DOMAIN handed : /\ handed[j].value.node \in same
                                                  /\ handed[j].slot = h.slot}
             IN  Answer(h) =
                    CASE chosen = {} -> "NotCollected"
                      [] chosen # {} /\ same = {} -> "StaleSlotHandle"
                      [] \E i \in same : ~Frozen(i).active -> "NotCollected"
                      [] \E i \in same : Frozen(i).active /\ phase[i] # "succeeded" ->
                            "OutputUnavailable"
                      [] OTHER -> IF given = {} THEN "value" ELSE "OutputTaken"
        /\ \A x \in issued : x[1].side = "out" =>
              /\ Answer([x[1] EXCEPT !.graph = "other"]) = "ForeignHandle"
              /\ Answer(x[1]) = "value" => \A t \in TargetsAt(x[1]) :
                    /\ report.targets[t].value.type = x[2].type
                    /\ version.ids[report.targets[t].value.node] = x[1].node
=============================================================================
