--------------------------- MODULE BackupRemoval ---------------------------
(***************************************************************************)
(* Deletions, prunes and evidence retention over the two stores of one     *)
(* host, and the inventory from which the user starts them                 *)
(* (BackupInventoryService over BackupEvidenceRepository).  Nothing in the *)
(* program locks the stores: all of them interleave.                       *)
(***************************************************************************)
EXTENDS EvidenceRetention, BackupRetention

vars == <<copyVars, dualVars, evidenceVars, retentionVars>>

----------------------------------------------------------------------------
(* What the user is offered.                                               *)

\* The view of a backup is its newest result.  The user may also act on a
\* page that was read before that one was saved.
ResultsOf(b) == {d \in Deletions : BackupOf[d] = b /\ results[d] # NoResult}

\* list_for_host: from the lists alone, without verifying.
ListedState(b) == CombinedState(IF LocalListed(b) THEN "present" ELSE "absent",
                                IF ~RemoteListable THEN "unknown"
                                ELSE IF RemoteListed(b) THEN "present" ELSE "absent")

\* Executions that did not complete take the mutating actions away.
Interrupted(b) == \E d \in Deletions : BackupOf[d] = b /\ executions[d] # <<>>
                                       /\ Last(executions[d]).state # "completed"

\* _actions: the ones that lead to CoordinatedBackupDeletion.delete.
ActionOf(r, state) == CASE r.remote = "unknown" -> "recover_remote_result"
                        [] r.remote = "failed" /\ state = "both_available" -> "retry_remote_delete"
                        [] r.remote \in {"deleted", "already_absent"} /\ r.local = "failed"
                              /\ state = "local_only" -> "retry_local_delete"
                        [] OTHER -> "none"
Protected(b) == b \in protected \/ (RemoteListable /\ b \in held)
Offered(b) == IF Protected(b) THEN {}
              ELSE IF ResultsOf(b) = {}
              THEN IF ListedState(b) = "both_available" THEN {"start_dual_delete"} ELSE {}
              ELSE {ActionOf(results[d], ListedState(b)) : d \in ResultsOf(b)} \ {"none"}
Mutating == {"start_dual_delete", "retry_remote_delete", "retry_local_delete"}
MayDelete(b) == /\ ExecutionsListable
                /\ Offered(b) \ (IF Interrupted(b) THEN Mutating ELSE {}) # {}

\* RECONCILE_COPIES and RETRY_STAGING_CLEANUP.
MayReconcile(d) == ExecutionsListable /\ ListedState(BackupOf[d]) = "unknown"
RetryCleanup(d) == LET b == BackupOf[d] IN
    /\ ExecutionsListable /\ results[d] # NoResult /\ b \notin cleaned /\ RemoveStaging(b)
    /\ UNCHANGED <<deletionVars, deletionRecords, copies, protection>>

----------------------------------------------------------------------------
Init == CopiesInit /\ DualInit /\ EvidenceInit /\ RetentionInit

DeletionActs(d) == MayDelete(BackupOf[d]) /\ (Request(d) \/ SaveEvidence(d))
DeletionWorks(d) == DeletionActs(d) \/ DeletionStep(d) \/ Cancel(d) \/ Crash(d)
                    \/ RetryCleanup(d)

\* Deletions and their helpers.
DeletionNext == \/ \E d \in Deletions : DeletionWorks(d)
                \/ \E b \in Backups : HelperStep(b) \/ HelperDies(b)

EvidenceNext == \E d \in Deletions : \/ MayReconcile(d) /\ ReconcileAgain(d)
                                     \/ Execute(d) \/ Resume(d) \/ EvidenceStep(d) \/ Vanish(d)

PruneNext == \/ \E r \in Runs : RunStep(r) \/ RunDies(r)
             \/ \E q \in RemotePrunes : ClientStep(q) \/ ClientDies(q) \/ Again(q)

Next == \/ DeletionNext /\ UNCHANGED <<evidenceVars, retentionVars>>
        \/ EvidenceNext /\ UNCHANGED retentionVars
        \/ PruneNext /\ UNCHANGED <<dualVars, evidenceVars>>
        \/ (\E b \in Backups : SetProtected(b) \/ SetHeld(b)) /\ UNCHANGED <<dualVars, evidenceVars, retentionVars>>

Spec == Init /\ [][Next]_vars

----------------------------------------------------------------------------
(* Properties.                                                             *)

\* The original outlives the copy: a deletion takes the local backup apart
\* only when nothing restorable is left on the remote host, whatever was
\* lost, cancelled, answered late or answered to an earlier deletion of the
\* same backup.
OriginalGoesLast == [][\A d \in Deletions :
    dpc[d] = "items" /\ local'[BackupOf[d]] # local[BackupOf[d]] /\ dpc'[d] # dpc[d]
        => remote[BackupOf[d]] \in {"husk", "gone"}]_vars

\* What a saved result claims is so, and stays so: a copy called deleted,
\* already absent or removed by a prune is not listed or loadable, and a
\* result that asks for no attention is about a backup of which both copies
\* are gone.
ResultsAreTrue ==
    /\ \A d \in Deletions : LET b == BackupOf[d] IN results[d] # NoResult =>
          /\ results[d].remote \in {"deleted", "already_absent"} => remote[b] \in {"husk", "gone"}
          /\ results[d].local \in {"deleted", "already_absent"} => local[b] = "gone"
          /\ results[d].state = "both_deleted" => local[b] = "gone" /\ remote[b] \in {"husk", "gone"}
          /\ ~results[d].attention => results[d].state = "both_deleted"
    /\ \A r \in Runs : report[r] # NoReport => \A b \in report[r].removed :
          IF r \in LocalPrunes THEN local[b] \in {"husk", "gone"} ELSE remote[b] = "gone"

\* As long as anything about a deletion is in doubt, its manifest can still
\* be looked up: once the remote copy may have been touched, the evidence is
\* gone only after a result without attention, and goes before the result.
EvidenceOutlivesDoubt == \A d \in Deletions :
    /\ d \notin evidence /\ dpc[d] \notin {"request", "refused"}
         => local[BackupOf[d]] = "gone" /\ remote[BackupOf[d]] \in {"husk", "gone"}
    /\ d \in evidence /\ results[d] = NoResult => dpc[d] # "done"

\* A removal on the remote host is asked for once per backup and once per
\* prune, whatever retry, restart or second deletion follows.
SentOnce == /\ \A b \in Backups : sent[b] <= 1
            /\ \A q \in RemotePrunes : calls[q] <= 1

\* Prunes alone never take the last backup of a store, however many of them
\* meet and wherever they fail or die.  Each decides once, from the protection
\* it reads then: when the protection changes between two decisions, the two
\* together may take everything.
PrunesKeepOne ==
    (\A d \in Deletions : dpc[d] \in {"request", "refused"})
        => /\ "local" \notin changed => \E b \in Backups : local[b] = "whole"
           /\ "remote" \notin changed => \E b \in Backups : remote[b] = "whole"

\* The executions of evidence retention can be listed after a restart.
EvidenceReadable == ExecutionsListable
=============================================================================
