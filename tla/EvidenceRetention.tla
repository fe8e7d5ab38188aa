------------------------- MODULE EvidenceRetention -------------------------
(***************************************************************************)
(* What is left of a deletion, and its end: the reconciliations made later *)
(* (BackupReconciliationRunner, backup_reconciliation.py), the plan and    *)
(* the execution of evidence retention (backup_evidence_retention.py), and *)
(* the cleanup that resumes an execution that stopped half way             *)
(* (backup_evidence_retention_cleanup.py).                                 *)
(*                                                                         *)
(* The evidence of a deletion is a chain: reconciliations name the result, *)
(* the result names the manifest evidence by the hash of its request.  It  *)
(* is removed link by link, the reconciliations first.  Age is not         *)
(* modelled: a result may be 30 days old whenever a plan is made.          *)
(***************************************************************************)
EXTENDS DualDeletion, Sequences, SequencesExt

CONSTANTS MaxExecutions  \* bound: executions and cleanups per deletion

ASSUME MaxExecutionsAssumption == MaxExecutions \in Nat

VARIABLES
    recons,      \* deletions with a BackupReconciliationResult on the disk
    task,        \* per deletion: the execution or cleanup under way, or NoTask
    executions   \* executions saved, in the order they were saved

evidenceVars == <<recons, task, executions>>

NoTask == [kind |-> "none"]
Links == <<"reconciliation", "manifest", "deletion">>

EvidenceInit == /\ recons = {} /\ task = [d \in Deletions |-> NoTask]
                /\ executions = [d \in Deletions |-> <<>>]

----------------------------------------------------------------------------
\* BackupReconciliationActionService.execute: the manifest from the list or
\* from the evidence must be the one of the deletion.
ReconciliationManifest(d) == LET b == BackupOf[d] IN
    IF LocalListed(b) THEN b \notin protected ELSE d \in evidence
ReconcileAgain(d) ==
    /\ results[d] # NoResult /\ d \notin recons /\ ReconciliationManifest(d)
    /\ recons' = recons \union {d}
    /\ UNCHANGED <<task, executions, dualVars, copyVars>>

\* BackupEvidenceRetentionPlanner.plan_for_host: never an orphan, never a
\* result without its manifest, never what still needs attention.
Candidate(d) == /\ d \in evidence /\ results[d] # NoResult
                /\ ~results[d].attention /\ results[d].state = "both_deleted"

\* Mutant of ChainOf: the result is removed before its manifest.
ChainBackwards(d) == (IF d \in recons THEN <<"reconciliation">> ELSE <<>>) \o <<"deletion", "manifest">>

ChainOf(d) == (IF d \in recons THEN <<"reconciliation">> ELSE <<>>) \o <<"manifest", "deletion">>

\* BackupEvidenceRetentionExecutor.execute, up to its first removal.
Execute(d) ==
    /\ task[d] = NoTask /\ Candidate(d) /\ Len(executions[d]) < MaxExecutions
    /\ task' = [task EXCEPT ![d] = [kind |-> "execute", left |-> ChainOf(d), gone |-> <<>>]]
    /\ UNCHANGED <<recons, executions, dualVars, copyVars>>

\* BackupEvidenceRetentionExecutionStore.list_for_host: two executions of one
\* request, and nothing of the host is listed any more.
OwnExecutions(d) == SelectSeq(executions[d], LAMBDA e : e.kind = "execute")
ExecutionsListable == \A d \in Deletions : Len(OwnExecutions(d)) <= 1

\* BackupEvidenceRetentionCleanupService.execute and the checks of resume:
\* what is there must be the rest that the execution left.
Present(d) == SelectSeq(ChainOf(d), LAMBDA k : \/ k = "reconciliation"
                                               \/ k = "manifest" /\ d \in evidence
                                               \/ k = "deletion" /\ results[d] # NoResult)
Resumable(d, e) == /\ e.state # "completed" /\ e.left = Present(d)
                   /\ ("reconciliation" \in ToSet(e.gone)) => d \notin recons
Resume(d) ==
    /\ task[d] = NoTask /\ ExecutionsListable /\ Len(executions[d]) < MaxExecutions
    /\ \E e \in ToSet(executions[d]) :
          /\ Resumable(d, e)
          /\ task' = [task EXCEPT ![d] = [kind |-> "cleanup", left |-> e.left, gone |-> <<>>]]
    /\ UNCHANGED <<recons, executions, dualVars, copyVars>>

----------------------------------------------------------------------------
Unlink(d, link) ==
    /\ recons' = IF link = "reconciliation" THEN recons \ {d} ELSE recons
    /\ evidence' = IF link = "manifest" THEN evidence \ {d} ELSE evidence
    /\ results' = IF link = "deletion" THEN [results EXCEPT ![d] = NoResult] ELSE results

RemoveLink(d) ==
    /\ task[d] # NoTask /\ task[d].left # <<>>
    /\ Unlink(d, Head(task[d].left))
    /\ task' = [task EXCEPT ![d].left = Tail(@), ![d].gone = Append(@, Head(task[d].left))]
    /\ UNCHANGED <<executions, deletionVars, attemptVars, helperVars, copyVars>>

\* _validate_execution.
ValidExecution(e) == CASE e.state = "completed" -> e.left = <<>>
                       [] e.state = "partial" -> e.gone # <<>> /\ e.left # <<>>
                       [] e.state = "failed" -> e.gone = <<>> /\ e.left # <<>>

Persist(d, state) ==
    /\ LET execution == [kind |-> task[d].kind, state |-> state,
                         gone |-> task[d].gone, left |-> task[d].left]
       IN  /\ ValidExecution(execution)
           /\ executions' = [executions EXCEPT ![d] = Append(@, execution)]
    /\ task' = [task EXCEPT ![d] = NoTask]

\* A removal fails or the user cancels: what was done is saved, as it is.
StopHalfWay(d) ==
    /\ task[d] # NoTask /\ task[d].left # <<>> /\ MayHappen /\ Happens
    /\ Persist(d, IF task[d].gone = <<>> THEN "failed" ELSE "partial")
    /\ UNCHANGED <<recons, dualVars, copies, protection>>

Complete(d) == /\ task[d] # NoTask /\ task[d].left = <<>> /\ Persist(d, "completed")
               /\ UNCHANGED <<recons, dualVars, copyVars>>

\* The process dies, or the execution cannot be saved: no record of it.
Vanish(d) == /\ task[d] # NoTask /\ MayHappen /\ Happens
             /\ task' = [task EXCEPT ![d] = NoTask]
             /\ UNCHANGED <<recons, executions, dualVars, copies, protection>>

EvidenceStep(d) == RemoveLink(d) \/ StopHalfWay(d) \/ Complete(d)
=============================================================================
