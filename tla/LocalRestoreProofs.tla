------------------------- MODULE LocalRestoreProofs -------------------------
(***************************************************************************)
(* Theorems about LocalRestore, for any number of restores, backups,       *)
(* contents and foreign writes: every safety property of the manual        *)
(* restore holds, and it implements RestoreContract.                       *)
(*                                                                         *)
(* The invariant speaks of one restore at a time: restores share nothing   *)
(* but the target, and what one of them or another program does to that is *)
(* kept in `raced`.                                                        *)
(***************************************************************************)
EXTENDS LocalRestore, TLAPS

\* The steps between the attempt record and the write.
Looking == {"audit_started", "bind", "verify", "read", "observe", "replace"}
Written == {"audit_committed", "persist_committed", "persist_unknown"}

\* What is known of a restore at each step: which records exist, whether it has
\* written, and that the item it is about to write is the reviewed one.
TaskInv(t) ==
    /\ pc[t] \notin {"preview", "done"} => preview[t] # NoPreview
    /\ preview[t] # NoPreview =>
           preview[t].backup \in Backups /\ preview[t].item = ItemOf[preview[t].backup]
    /\ pc[t] \in PreviewSteps \union {"attempt"} => t \notin attempts
    /\ pc[t] \in WorkSteps \ {"attempt"} => t \in attempts
    /\ pc[t] \in WorkSteps \ {"attempt", "audit_started"} => "started" \in audited[t]
    /\ pc[t] \in PreviewSteps \union {"attempt"} \union Looking => wrote[t] = NotYet
    /\ pc[t] \in Written => wrote[t] # NotYet
    /\ pc[t] = "persist_committed" => "committed" \in audited[t]
    /\ pc[t] \notin Ended => results[t] = "none" /\ shown[t] = "none"
    /\ pc[t] \in {"observe", "replace"} => item[t] = preview[t].item
    /\ pc[t] = "replace" => file = observed[t] \/ t \in raced
    /\ wrote[t] # NotYet => /\ t \in attempts /\ "started" \in audited[t]
                           /\ preview[t] # NoPreview /\ wrote[t] = preview[t].item
    /\ "committed" \in {results[t], shown[t]} => wrote[t] # NotYet /\ "committed" \in audited[t]

IInv == TypeOK /\ \A t \in Tasks : TaskInv(t)

Step(t) == Preview(t) \/ Approve(t) \/ Work(t) \/ Cancel(t) \/ Expire(t) \/ Crash(t)

\* Every step of a restore keeps the invariant, its own part and that of others.
LEMMA StepKeeps == ASSUME IInv, NEW t \in Tasks, Step(t) PROVE IInv'
<1> USE RestoreConstantsAssumption
<1> USE DEF IInv, TypeOK, TaskInv, Looking, Written, FileStates, Steps, PreviewSteps, WorkSteps,
    Ended, EvidenceStates, StoreStates, dialog, inputs, target, stores, records
<1> USE DEF At, Goto, Show, Raise, Fails, Appends, AppendRaises, LoadEvidence, Observation,
    Manifest, Happens
<1>1. CASE Preview(t)
  <2>1. /\ pc[t] = "preview" /\ UNCHANGED <<observed, item, inputs, target, events, stores, records>>
        /\ \/ \E b \in Backups : preview' = [preview EXCEPT ![t] = Manifest(b)] /\ Goto(t, "review")
           \/ UNCHANGED preview /\ Raise(t)
    BY <1>1 DEF Preview
  <2>2. CASE UNCHANGED preview /\ Raise(t)
    BY <2>1, <2>2
  <2>3. ASSUME NEW b \in Backups, preview' = [preview EXCEPT ![t] = Manifest(b)], Goto(t, "review")
        PROVE  IInv'
    <3>1. /\ Manifest(b) \in [backup : Backups, item : FileStates, protected : BOOLEAN]
          /\ Manifest(b) # NoPreview
          /\ Manifest(b).backup = b /\ Manifest(b).item = ItemOf[b]
      <4>1. (b \in protected) \in BOOLEAN OBVIOUS
      <4> QED BY <4>1 DEF NoPreview
    <3> HIDE DEF Manifest
    <3>2. preview'[t] = Manifest(b) /\ \A u \in Tasks \ {t} : preview'[u] = preview[u]
      BY <2>3
    <3>3. TypeOK'
      BY <2>1, <2>3, <3>1
    <3>4. TaskInv(t)'
      BY <2>1, <2>3, <3>1, <3>2
    <3>5. \A u \in Tasks \ {t} : TaskInv(u)'
      BY <2>1, <2>3, <3>2
    <3> QED BY <3>3, <3>4, <3>5
  <2> QED BY <2>1, <2>2, <2>3
<1>2. CASE Approve(t)
  <2>1. TypeOK' BY <1>2 DEF Approve
  <2>2. TaskInv(t)' BY <1>2 DEF Approve
  <2>3. ASSUME NEW u \in Tasks \ {t} PROVE TaskInv(u)' BY <1>2 DEF Approve
  <2> QED BY <2>1, <2>2, <2>3
<1>3. CASE Prepare(t)
  <2>1. TypeOK' BY <1>3, SMTT(30) DEF Prepare, SameManifest, ApprovalValid
  <2>2. TaskInv(t)' BY <1>3 DEF Prepare, SameManifest, ApprovalValid
  <2>3. ASSUME NEW u \in Tasks \ {t} PROVE TaskInv(u)' BY <1>3 DEF Prepare, SameManifest, ApprovalValid
  <2> QED BY <2>1, <2>2, <2>3
<1>4. CASE SaveAttempt(t)
  <2>1. TypeOK' BY <1>4 DEF SaveAttempt, LoadAttempt
  <2>2. TaskInv(t)' BY <1>4 DEF SaveAttempt, LoadAttempt
  <2>3. ASSUME NEW u \in Tasks \ {t} PROVE TaskInv(u)' BY <1>4 DEF SaveAttempt, LoadAttempt
  <2> QED BY <2>1, <2>2, <2>3
<1>5. CASE AuditStarted(t)
  <2>1. TypeOK' BY <1>5, SMTT(30) DEF AuditStarted
  <2>2. TaskInv(t)' BY <1>5 DEF AuditStarted
  <2>3. ASSUME NEW u \in Tasks \ {t} PROVE TaskInv(u)' BY <1>5 DEF AuditStarted
  <2> QED BY <2>1, <2>2, <2>3
<1>6. CASE CheckBinding(t)
  <2>1. TypeOK' BY <1>6 DEF CheckBinding, Binding
  <2>2. TaskInv(t)' BY <1>6 DEF CheckBinding, Binding
  <2>3. ASSUME NEW u \in Tasks \ {t} PROVE TaskInv(u)' BY <1>6 DEF CheckBinding, Binding
  <2> QED BY <2>1, <2>2, <2>3
<1>7. CASE VerifyBackup(t)
  <2>1. TypeOK' BY <1>7 DEF VerifyBackup
  <2>2. TaskInv(t)' BY <1>7 DEF VerifyBackup
  <2>3. ASSUME NEW u \in Tasks \ {t} PROVE TaskInv(u)' BY <1>7 DEF VerifyBackup
  <2> QED BY <2>1, <2>2, <2>3
<1>8. CASE ReadItem(t)
  <2>1. TypeOK' BY <1>8 DEF ReadItem
  <2>2. TaskInv(t)' BY <1>8 DEF ReadItem
  <2>3. ASSUME NEW u \in Tasks \ {t} PROVE TaskInv(u)' BY <1>8 DEF ReadItem
  <2> QED BY <2>1, <2>2, <2>3
<1>9. CASE ObserveAgain(t)
  <2>1. TypeOK' BY <1>9 DEF ObserveAgain
  <2>2. TaskInv(t)' BY <1>9 DEF ObserveAgain
  <2>3. ASSUME NEW u \in Tasks \ {t} PROVE TaskInv(u)' BY <1>9 DEF ObserveAgain
  <2> QED BY <2>1, <2>2, <2>3
<1>10. CASE Replace(t)
  <2>1. /\ pc[t] = "replace" /\ UNCHANGED <<preview, observed, item, inputs, events, stores, records>>
        /\ \/ Put(t) /\ (Goto(t, "audit_committed") \/ Fails(t))
           \/ UNCHANGED target /\ Fails(t)
    BY <1>10 DEF Replace
  <2>2. CASE UNCHANGED target /\ Fails(t)
    BY <2>1, <2>2
  <2>3. CASE Put(t) /\ (Goto(t, "audit_committed") \/ Fails(t))
    <3> USE DEF Put, Overtaken
    <3>1. /\ wrote'[t] = preview[t].item /\ wrote'[t] # NotYet
          /\ \A u \in Tasks \ {t} : wrote'[u] = wrote[u] /\ pc'[u] = pc[u]
      BY <2>1, <2>3
    <3>2. TypeOK'
      BY <2>1, <2>3
    <3>3. TaskInv(t)'
      BY <2>1, <2>3, <3>1
    <3>4. ASSUME NEW u \in Tasks \ {t} PROVE TaskInv(u)'
      BY <2>1, <2>3, <3>1
    <3> QED BY <3>2, <3>3, <3>4
  <2> QED BY <2>1, <2>2, <2>3
<1>11. CASE AuditCommitted(t)
  <2>1. TypeOK' BY <1>11 DEF AuditCommitted
  <2>2. TaskInv(t)' BY <1>11 DEF AuditCommitted
  <2>3. ASSUME NEW u \in Tasks \ {t} PROVE TaskInv(u)' BY <1>11 DEF AuditCommitted
  <2> QED BY <2>1, <2>2, <2>3
<1>12. CASE PersistCommitted(t)
  <2>1. TypeOK' BY <1>12 DEF PersistCommitted, Persist
  <2>2. TaskInv(t)' BY <1>12 DEF PersistCommitted, Persist
  <2>3. ASSUME NEW u \in Tasks \ {t} PROVE TaskInv(u)' BY <1>12 DEF PersistCommitted, Persist
  <2> QED BY <2>1, <2>2, <2>3
<1>13. CASE PersistFailed(t)
  <2>1. TypeOK' BY <1>13 DEF PersistFailed, Persist
  <2>2. TaskInv(t)' BY <1>13 DEF PersistFailed, Persist
  <2>3. ASSUME NEW u \in Tasks \ {t} PROVE TaskInv(u)' BY <1>13 DEF PersistFailed, Persist
  <2> QED BY <2>1, <2>2, <2>3
<1>14. CASE PersistUnknown(t)
  <2>1. TypeOK' BY <1>14 DEF PersistUnknown, Persist
  <2>2. TaskInv(t)' BY <1>14 DEF PersistUnknown, Persist
  <2>3. ASSUME NEW u \in Tasks \ {t} PROVE TaskInv(u)' BY <1>14 DEF PersistUnknown, Persist
  <2> QED BY <2>1, <2>2, <2>3
<1>15. CASE Cancel(t)
  <2>1. TypeOK' BY <1>15 DEF Cancel
  <2>2. TaskInv(t)' BY <1>15 DEF Cancel
  <2>3. ASSUME NEW u \in Tasks \ {t} PROVE TaskInv(u)' BY <1>15 DEF Cancel
  <2> QED BY <2>1, <2>2, <2>3
<1>16. CASE Expire(t)
  <2>1. TypeOK' BY <1>16 DEF Expire
  <2>2. TaskInv(t)' BY <1>16 DEF Expire
  <2>3. ASSUME NEW u \in Tasks \ {t} PROVE TaskInv(u)' BY <1>16 DEF Expire
  <2> QED BY <2>1, <2>2, <2>3
<1>17. CASE Crash(t)
  <2>1. TypeOK' BY <1>17 DEF Crash, RecordStores
  <2>2. TaskInv(t)' BY <1>17 DEF Crash
  <2>3. ASSUME NEW u \in Tasks \ {t} PROVE TaskInv(u)' BY <1>17 DEF Crash
  <2> QED BY <2>1, <2>2, <2>3
<1> QED BY <1>1, <1>2, <1>3, <1>4, <1>5, <1>6, <1>7, <1>8, <1>9, <1>10, <1>11, <1>12, <1>13, <1>14, <1>15, <1>16, <1>17 DEF Step, Work, Execute

\* Other programs keep it: a task about to write is put into `raced`.
LEMMA WorldKeeps ==
    ASSUME IInv, EditTarget \/ ApplyCrashes \/ \E b \in Backups : SpoilBackup(b) \/ SetProtected(b)
    PROVE  IInv'
<1> USE RestoreConstantsAssumption
<1> USE DEF IInv, TypeOK, TaskInv, Looking, Written, FileStates, Steps, PreviewSteps, WorkSteps,
    Ended, EvidenceStates, StoreStates, dialog, inputs, target, stores, records
<1> USE DEF At, Goto, Show, Raise, Fails, Appends, AppendRaises, LoadEvidence, Observation,
    Manifest, Happens
<1>1. CASE EditTarget
  BY <1>1 DEF EditTarget, Overtaken
<1>2. CASE ApplyCrashes
  BY <1>2 DEF ApplyCrashes, RecordStores
<1>3. ASSUME NEW b \in Backups, SpoilBackup(b) PROVE IInv'
  BY <1>3 DEF SpoilBackup, Decodes
<1>4. ASSUME NEW b \in Backups, SetProtected(b) PROVE IInv'
  BY <1>4 DEF SetProtected, Decodes
<1> QED BY <1>1, <1>2, <1>3, <1>4

\* It holds when the tasks are started.
LEMMA Initially == ASSUME Init PROVE IInv
<1> USE RestoreConstantsAssumption
<1> USE DEF Init, FileStates, Steps, PreviewSteps, WorkSteps, Ended, EvidenceStates, StoreStates,
    NoPreview
<1>1. TypeOK
  BY DEF TypeOK
<1>2. \A t \in Tasks : TaskInv(t)
  BY DEF TaskInv, Looking, Written
<1> QED BY <1>1, <1>2 DEF IInv

\* Every step keeps it.
LEMMA NextKeeps == IInv /\ [Next]_vars => IInv'
<1> SUFFICES ASSUME IInv, [Next]_vars PROVE IInv'
  OBVIOUS
<1>1. ASSUME NEW t \in Tasks, Step(t) PROVE IInv'
  BY <1>1, StepKeeps
<1>2. CASE EditTarget \/ ApplyCrashes \/ \E b \in Backups : SpoilBackup(b) \/ SetProtected(b)
  BY <1>2, WorldKeeps
<1>3. CASE UNCHANGED vars
  <2>1. UNCHANGED <<pc, preview, observed, item, shown, cancelled, expired, file, wrote, raced,
                    events, store, protected, strays, attempts, results, audited>>
    BY <1>3 DEF vars, dialog, inputs, target, stores, records
  <2>2. TypeOK'
    BY <2>1 DEF IInv, TypeOK
  <2>3. \A t \in Tasks : TaskInv(t)'
    BY <2>1 DEF IInv, TaskInv
  <2> QED BY <2>2, <2>3 DEF IInv
<1> QED BY <1>1, <1>2, <1>3 DEF Next, Step

\* The invariant holds in every reachable state of any number of restores.
THEOREM Invariance == Spec => []IInv
<1>1. Init => IInv
  BY Initially
<1> QED BY <1>1, NextKeeps, PTL DEF Spec

\* Every variable keeps its type.
THEOREM TypeCorrectness == Spec => []TypeOK
<1>1. IInv => TypeOK
  BY DEF IInv
<1> QED BY <1>1, Invariance, PTL

\* The records agree with what a restore did, whichever call of
\* LocalRestoreCoordinator.execute failed; and wherever the inventory can be
\* read, it marks every restore that is in doubt.
THEOREM EvidenceAlwaysTrue == Spec => []EvidenceIsTrue
<1>1. ASSUME IInv, NEW t \in Tasks
      PROVE  /\ wrote[t] # NotYet => t \in attempts /\ "started" \in audited[t]
             /\ "committed" \in {results[t], shown[t]} => wrote[t] # NotYet /\ "committed" \in audited[t]
  BY <1>1 DEF IInv, TaskInv
<1>2. ASSUME IInv, NEW t \in Tasks, wrote[t] # NotYet, results[t] # "committed", ~Inventory.raised
      PROVE  \E i \in Inventory.items : i.backup = preview[t].backup /\ i.requires_attention
  <2> DEFINE b == preview[t].backup
  <2>1. b \in Backups /\ t \in RestoresOf(b)
    BY <1>2 DEF IInv, TaskInv, RestoresOf
  <2>2. ~InventoryRaises
    BY <1>2 DEF Inventory
  <2>3. b \in {c \in Identifiers : ~InventoryRaises}
    BY <2>1, <2>2 DEF Identifiers
  <2>4. NeedsAttention(b)
    BY <1>2, <2>1 DEF NeedsAttention, ViewNeedsAttention
  <2>5. Item(b) \in Inventory.items
    BY <2>3 DEF Inventory
  <2>6. Item(b).backup = b /\ Item(b).requires_attention
    BY <2>4 DEF Item
  <2> QED BY <2>5, <2>6
<1>3. IInv => EvidenceIsTrue
  BY <1>1, <1>2 DEF EvidenceIsTrue
<1> QED BY <1>3, Invariance, PTL

\* What is put at the target is what the reviewed preview showed, whatever
\* became of the backup.
THEOREM ContentIsReviewed == Spec => []ReviewedContent
<1>1. IInv => ReviewedContent
  BY DEF IInv, TaskInv, ReviewedContent
<1> QED BY <1>1, Invariance, PTL

----------------------------------------------------------------------------
(* What a single step does to the records and the target.                  *)

\* Only Replace writes the target for a task, and only once.
LEMMA StepWrites ==
    ASSUME NEW t \in Tasks, Step(t)
    PROVE  UNCHANGED wrote \/ (Replace(t) /\ Put(t))
  BY DEF Step, Work, Execute, Preview, Approve, Prepare, SaveAttempt, AuditStarted, CheckBinding,
     VerifyBackup, ReadItem, ObserveAgain, Replace, AuditCommitted, PersistCommitted,
     PersistFailed, PersistUnknown, Persist, Cancel, Expire, Crash, target

\* Other programs touch none of the records.
LEMMA WorldDoesNot ==
    ASSUME EditTarget \/ ApplyCrashes \/ \E b \in Backups : SpoilBackup(b) \/ SetProtected(b)
    PROVE  UNCHANGED <<attempts, wrote, results>>
  BY DEF EditTarget, ApplyCrashes, SpoilBackup, SetProtected, records, target

\* Nothing older than the last look of a restore is lost by it.
THEOREM NothingLostBlindly == Spec => NoBlindOverwrite
<1>1. ASSUME IInv, [Next]_vars, NEW u \in Tasks, wrote'[u] # wrote[u]
      PROVE  file = observed[u] \/ u \in raced
  <2>1. ~UNCHANGED wrote
    BY <1>1
  <2>2. PICK t \in Tasks : Step(t)
    BY <1>1, <2>1, WorldDoesNot DEF Next, Step, vars, target
  <2>3. pc[t] = "replace" /\ wrote' = [wrote EXCEPT ![t] = item[t]]
    BY <2>1, <2>2, StepWrites DEF Replace, Put, At
  <2>4. u = t
    BY <1>1, <2>3 DEF IInv, TypeOK
  <2> QED BY <1>1, <2>3, <2>4 DEF IInv, TaskInv
<1>2. IInv /\ [Next]_vars =>
         [\A t \in Tasks : wrote'[t] # wrote[t] => file = observed[t] \/ t \in raced]_vars
  BY <1>1
<1> QED BY <1>2, Invariance, PTL DEF Spec, NoBlindOverwrite

----------------------------------------------------------------------------
(* The refinement of the contract.                                         *)

\* A step of a task uses up its authorization, or puts, or settles it, or
\* none of the three.
LEMMA StepRecords ==
    ASSUME NEW t \in Tasks, Step(t)
    PROVE  \/ /\ pc[t] = "attempt" /\ UNCHANGED <<wrote, results>>
              /\ attempts' \in {attempts, attempts \union {t}}
           \/ pc[t] = "replace" /\ Put(t) /\ UNCHANGED <<attempts, results>>
           \/ /\ UNCHANGED <<attempts, wrote>>
              /\ \E v \in EvidenceStates :
                     /\ pc[t] \in {"persist_committed", "persist_failed", "persist_unknown"}
                     /\ v = "committed" => pc[t] = "persist_committed"
                     /\ results' = [results EXCEPT ![t] = v]
           \/ UNCHANGED <<attempts, wrote, results>>
<1>1. CASE SaveAttempt(t)
  BY <1>1 DEF SaveAttempt, At, target
<1>2. CASE Replace(t)
  BY <1>2 DEF Replace, At, target, records
<1>3. CASE PersistCommitted(t) \/ PersistFailed(t) \/ PersistUnknown(t)
  BY <1>3 DEF PersistCommitted, PersistFailed, PersistUnknown, Persist, At, target, EvidenceStates
<1>4. CASE Preview(t) \/ Approve(t) \/ Prepare(t) \/ AuditStarted(t) \/ CheckBinding(t)
           \/ VerifyBackup(t) \/ ReadItem(t) \/ ObserveAgain(t) \/ AuditCommitted(t)
           \/ Cancel(t) \/ Expire(t) \/ Crash(t)
  BY <1>4 DEF Preview, Approve, Prepare, AuditStarted, CheckBinding, VerifyBackup, ReadItem,
     ObserveAgain, AuditCommitted, Cancel, Expire, Crash, target, records
<1> QED BY <1>1, <1>2, <1>3, <1>4 DEF Step, Work, Execute

\* A restore task keeps the contract of the manual restore routes.
LEMMA StepRefines ==
    ASSUME IInv, NEW t \in Tasks, Step(t)
    PROVE  [Contract!Next]_Contract!vars
<1>1. CASE UNCHANGED <<attempts, wrote, results>>
  BY <1>1 DEF Contract!vars, puts
<1>2. CASE /\ pc[t] = "attempt" /\ UNCHANGED <<wrote, results>>
           /\ attempts' = attempts \union {t}
  <2>1. t \notin attempts
    BY <1>2 DEF IInv, TaskInv
  <2>2. UNCHANGED puts
    BY <1>2 DEF puts
  <2>3. Contract!Consume(t)
    BY <1>2, <2>1, <2>2 DEF Contract!Consume
  <2> QED BY <2>3 DEF Contract!Next
<1>3. CASE pc[t] = "replace" /\ Put(t) /\ UNCHANGED <<attempts, results>>
  <2>1. t \in attempts /\ wrote[t] = NotYet /\ results[t] = "none"
    BY <1>3 DEF IInv, TaskInv, WorkSteps, Looking, Ended
  <2>2. item[t] # NotYet
    BY RestoreConstantsAssumption DEF IInv, TypeOK
  <2>3. puts[t] = 0 /\ puts' = [puts EXCEPT ![t] = 1]
    BY <1>3, <2>1, <2>2 DEF Put, puts, IInv, TypeOK
  <2>4. Contract!Put(t)
    BY <1>3, <2>1, <2>3 DEF Contract!Put
  <2> QED BY <2>4 DEF Contract!Next
<1>4. ASSUME UNCHANGED <<attempts, wrote>>, NEW v \in EvidenceStates,
             pc[t] \in {"persist_committed", "persist_failed", "persist_unknown"},
             v = "committed" => pc[t] = "persist_committed",
             results' = [results EXCEPT ![t] = v]
      PROVE  [Contract!Next]_Contract!vars
  <2>1. t \in attempts /\ results[t] = "none"
    BY <1>4 DEF IInv, TaskInv, WorkSteps, Ended
  <2>2. UNCHANGED puts /\ (v = "committed" => puts[t] = 1)
    BY <1>4 DEF puts, IInv, TaskInv, Written
  <2>3. Contract!Settle(t, v)
    BY <1>4, <2>1, <2>2 DEF Contract!Settle
  <2> QED BY <2>3 DEF Contract!Next, EvidenceStates
<1>5. CASE pc[t] = "attempt" /\ UNCHANGED <<wrote, results>> /\ attempts' = attempts
  BY <1>1, <1>5
<1> QED BY <1>1, <1>2, <1>3, <1>4, <1>5, StepRecords

\* The manual restore of the local route implements RestoreContract: used up
\* before it writes, one write, one result after it.
THEOREM RestoreImplementsContract == Spec => ImplementsContract
<1>1. Init => Contract!Init
  BY DEF Init, Contract!Init, puts
<1>2. IInv /\ [Next]_vars => [Contract!Next]_Contract!vars
  <2> SUFFICES ASSUME IInv, [Next]_vars PROVE [Contract!Next]_Contract!vars
    OBVIOUS
  <2>1. ASSUME NEW t \in Tasks, Step(t) PROVE [Contract!Next]_Contract!vars
    BY <2>1, StepRefines
  <2>2. CASE EditTarget \/ ApplyCrashes \/ \E b \in Backups : SpoilBackup(b) \/ SetProtected(b)
    BY <2>2, WorldDoesNot DEF Contract!vars, puts
  <2>3. CASE UNCHANGED vars
    BY <2>3 DEF vars, target, records, Contract!vars, puts
  <2> QED BY <2>1, <2>2, <2>3 DEF Next, Step
<1> QED BY <1>1, <1>2, Invariance, PTL DEF Spec, ImplementsContract, Contract!Spec
=============================================================================
