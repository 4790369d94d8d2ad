---------------------------- MODULE RunContract ----------------------------
(***************************************************************************)
(* What one run of a compiled graph promises its caller, whether the run   *)
(* polls its nodes inline or hands them to an external dispatcher: the     *)
(* abstract specification that DispatchRun, InlineRun and, on each plan    *)
(* that was compiled, Reports implement.                                   *)
(*                                                                         *)
(* A node waits, is claimed once (its task factory is invoked), and        *)
(* settles: it commits its outputs, fails and blocks everything that       *)
(* depends on it, or is discarded because the run was told to stop.  The   *)
(* run returns one report, when every node has settled.                    *)
(***************************************************************************)
EXTENDS RunPlan

VARIABLES phase,    \* phase[n]: what the run has decided about node n
          stop,     \* the run has been told to stop
          outcome   \* how the run returned, "none" before

vars == <<phase, stop, outcome>>

Phase   == {"waiting", "running", "succeeded", "failed", "cancelled", "blocked"}
Settled == {"succeeded", "failed", "cancelled", "blocked"}
Outcome == {"none", "Ok", "Failed", "Cancelled"}

TypeOK ==
    /\ phase \in [Node -> Phase]
    /\ stop \in BOOLEAN
    /\ outcome \in Outcome

Init ==
    /\ phase = [n \in Node |-> "waiting"]
    /\ stop = FALSE
    /\ outcome = "none"

In(p)  == {n \in Node : phase[n] \in p}
Open   == In({"waiting", "running"})

-----------------------------------------------------------------------------
\* RunControl::cancel, RunControl::abort or the drop of the run.
RequestStop ==
    /\ stop' = TRUE
    /\ UNCHANGED <<phase, outcome>>

\* The factory of n is invoked: its inputs are committed, no stop was requested.
Claim(n) ==
    /\ outcome = "none"
    /\ phase[n] = "waiting"
    /\ ~stop
    /\ Pred(n) \subseteq In({"succeeded"})
    /\ phase' = [phase EXCEPT ![n] = "running"]
    /\ UNCHANGED <<stop, outcome>>

\* Slip: a result that arrives after the stop commits all the same.
CommitLate(n) ==
    /\ outcome = "none" /\ phase[n] = "running"
    /\ phase' = [phase EXCEPT ![n] = "succeeded"]
    /\ UNCHANGED <<stop, outcome>>

\* The outputs of n are committed; never once the run was told to stop.
Commit(n) ==
    /\ outcome = "none"
    /\ phase[n] = "running"
    /\ ~stop
    /\ phase' = [phase EXCEPT ![n] = "succeeded"]
    /\ UNCHANGED <<stop, outcome>>

FailHitting(n, hit) ==
    /\ outcome = "none" /\ n \in Open
    /\ Pred(n) \subseteq In({"succeeded"})
    /\ phase' = [m \in Node |-> IF m = n THEN "failed"
                                ELSE IF m \in hit THEN "blocked" ELSE phase[m]]
    /\ UNCHANGED <<stop, outcome>>

\* Slips: only the direct successors are blocked; settled dependents are
\* blocked over.
FailDirect(n)  == FailHitting(n, Succ(n) \cap Open)
FailSettled(n) == FailHitting(n, Downstream(n, Node \ {n}))

\* Node n, whose inputs are committed, fails: its task, its outputs or its
\* dispatch.  Everything undecided that depends on it is blocked.
Fail(n) ==
    /\ outcome = "none"
    /\ n \in Open
    /\ Pred(n) \subseteq In({"succeeded"})
    /\ LET hit == Downstream(n, Open \ {n})
       IN  phase' = [m \in Node |-> IF m = n THEN "failed"
                                    ELSE IF m \in hit THEN "blocked"
                                    ELSE phase[m]]
    /\ UNCHANGED <<stop, outcome>>

\* A stopping run discards undecided nodes.
Discard(S) ==
    /\ outcome = "none"
    /\ stop
    /\ S \subseteq Open
    /\ phase' = [n \in Node |-> IF n \in S THEN "cancelled" ELSE phase[n]]
    /\ UNCHANGED <<stop, outcome>>

\* Slip: the report does not wait for the nodes that run.
ReturnEarly ==
    /\ outcome = "none" /\ In({"waiting"}) = {}
    /\ outcome' = IF stop THEN "Cancelled"
                  ELSE IF In({"failed"}) # {} THEN "Failed" ELSE "Ok"
    /\ UNCHANGED <<phase, stop>>

\* The report: every node has settled.
Return ==
    /\ outcome = "none"
    /\ Open = {}
    /\ outcome' = IF stop THEN "Cancelled"
                  ELSE IF In({"failed"}) # {} THEN "Failed" ELSE "Ok"
    /\ UNCHANGED <<phase, stop>>

Next ==
    \/ RequestStop
    \/ \E n \in Node : Claim(n) \/ Commit(n) \/ Fail(n)
    \/ \E S \in SUBSET Node : Discard(S)
    \/ Return

Spec == Init /\ [][Next]_vars

-----------------------------------------------------------------------------
\* A node that runs, committed, or failed had every input committed first.
StartedAfterInputs ==
    \A n \in In({"running", "succeeded", "failed"}) :
        Pred(n) \subseteq In({"succeeded"})

\* No dependent of a failed or blocked node is left undecided.
FailureSettles ==
    \A n \in In({"failed", "blocked"}) : Succ(n) \cap Open = {}

\* A node is blocked only by a direct predecessor that failed or was blocked.
BlockedHasCause ==
    \A n \in In({"blocked"}) : Pred(n) \cap In({"failed", "blocked"}) # {}

\* Nothing is blocked in a run where nothing failed.
BlockedNeedsFailure == In({"blocked"}) # {} => In({"failed"}) # {}

\* What failed decides what is blocked, in whatever order things happened: nothing
\* that depends on a failed node, however remotely, has started, only such nodes
\* are blocked, and in a run that nobody stopped all of them are.
Dependents == UNION {Downstream(n, Node) : n \in In({"failed"})}
BlocksFollowFailures ==
    /\ In({"blocked"}) \subseteq Dependents
    /\ Dependents \cap In({"running", "succeeded", "failed"}) = {}
    /\ ~stop => Dependents \subseteq In({"blocked"})

\* A node is discarded only by a run that was told to stop.
DiscardNeedsStop == In({"cancelled"}) # {} => stop

\* The report tells the truth: Ok means that every node committed, Failed
\* that one failed, and nothing is undecided behind any report.
OutcomeTruthful ==
    /\ outcome # "none" => Open = {}
    /\ outcome = "Ok" => In({"succeeded"}) = Node
    /\ outcome = "Failed" => In({"failed"}) # {} /\ In({"cancelled"}) = {}
    /\ outcome = "Cancelled" => stop

\* The conjunction that the steps preserve.  OutcomeTruthful needs the other
\* parts: an Ok report is truthful because nothing is blocked without a failure
\* and nothing is discarded without a stop.
Inv ==
    /\ TypeOK
    /\ StartedAfterInputs
    /\ FailureSettles
    /\ BlockedHasCause
    /\ BlockedNeedsFailure
    /\ BlocksFollowFailures
    /\ DiscardNeedsStop
    /\ OutcomeTruthful

\* A settled node keeps its verdict, and so does the report.
SettledStep ==
    /\ \A n \in Node : phase[n] \in Settled => phase'[n] = phase[n]
    /\ outcome # "none" => outcome' = outcome
SettledIsFinal == [][SettledStep]_vars

\* Once the run was told to stop, nothing is claimed and nothing commits.
StopFreezesStep ==
    stop => /\ stop'
            /\ \A n \in Node : phase'[n] \in {"running", "succeeded"}
                                  => phase'[n] = phase[n]
StopFreezes == [][StopFreezesStep]_vars
=============================================================================
