------------------------------ MODULE Library ------------------------------
(***************************************************************************)
(* One user's library: the tagging pipeline and the content groups.  They   *)
(* share no state at their level of detail (a run deduplicates before it    *)
(* reads what it evaluates), so each behaviour follows one of them: plays.  *)
(***************************************************************************)
EXTENDS TaggingPipeline, ContentGroups

VARIABLE plays

vars == <<pipelineVars, groupVars, plays>>

(* the pipeline at rest: no service, and every picture evaluated *)
Init ==
    /\ GroupsInit
    /\ \/ plays = "pipeline" /\ PipelineInit
       \/ plays = "groups" /\ PipelineStart(<< >>, 1)

Next ==
    \/ plays = "pipeline" /\ PipelineNext /\ UNCHANGED <<groupVars, plays>>
    \/ plays = "groups" /\ GroupsNext /\ UNCHANGED <<pipelineVars, plays>>

Fairness ==
    /\ WF_run(plays = "pipeline" /\ RunStep)
    /\ WF_txn(plays = "pipeline" /\ PipelineTxnEnds)
    /\ WF_groupRun(plays = "groups" /\ GroupStep)
    /\ WF_arrivals(plays = "groups" /\ Classified)
    /\ WF_keep(plays = "groups" /\ KeepDone)

Spec == Init /\ [][Next]_vars /\ Fairness

(* The pipeline's state and that of the content groups have their types. *)
LibraryTypeOK == PipelineTypeOK /\ GroupsTypeOK
=============================================================================
