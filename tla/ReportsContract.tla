-------------------------- MODULE ReportsContract --------------------------
(***************************************************************************)
(* Reports runs whatever was compiled; RunContract is about one plan.      *)
(* Here the two meet: for any plan, named by constants, a run of a version *)
(* that was compiled to that plan is a run of RunContract.                 *)
(***************************************************************************)
EXTENDS Reports

CONSTANTS Size,     \* number of nodes of the plan
          After     \* After[n] is the sequence of successors of node n

\* A version with this plan has been started; any other leaves the contract at
\* its initial state.
OnPlan ==
    /\ version.verdict = "Ok" /\ phase # <<>>
    /\ Len(version.ids) = Size /\ version.successors = After

ContractPhase == IF OnPlan THEN phase ELSE [n \in 1..Size |-> "waiting"]
ContractStop == OnPlan /\ stop
ContractOutcome ==
    IF ~OnPlan \/ report = NoReport THEN "none"
    ELSE IF stop THEN "Cancelled" ELSE IF PhaseIn({"failed"}) # {} THEN "Failed" ELSE "Ok"

Contract == INSTANCE RunContract WITH
    N <- Size, Succs <- After,
    phase <- ContractPhase, stop <- ContractStop, outcome <- ContractOutcome

\* The run of a compiled version keeps the promises of RunContract while the
\* graph it was compiled from is edited: it claims a node whose inputs are
\* committed and before any stop, commits, fails with its whole branch or
\* discards, and reports once, when nothing is undecided.
ImplementsContract == Contract!Spec
=============================================================================
