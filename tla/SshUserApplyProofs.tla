------------------------- MODULE SshUserApplyProofs -------------------------
(***************************************************************************)
(* Theorems about SshUserApply, for any contents and any number of edits   *)
(* by others: the invariant IInv below is inductive, and it implies every  *)
(* safety property of the route and the refinement of ApplyContract.       *)
(*                                                                         *)
(* The idea of the invariant: the three helpers run at their own pace, so  *)
(* each part ties what a helper may have done to the furthest step the     *)
(* coordinator can be at (PastRecover, PastApply, PastRollback), and each  *)
(* fact that the coordinator relies on later to the file it was read from. *)
(***************************************************************************)
EXTENDS SshUserApply, TLAPS

----------------------------------------------------------------------------
(* Where the coordinator is.                                               *)

InRun(steps) == pc[1] = "run" /\ pc[2] \in steps
In(k, steps) == pc[1] = k /\ pc[2] \in steps
Ended == InRun({"done", "crashed"})

Early == {"task", "identify", "login", "home", "map", "build", "approved_audit", "approval",
          "host", "capture"}
Looks == {"wait", "read", "reread"}

\* The steps from which on the helper of a kind may have been started.
PastRollback == \/ In("rollback", Looks)
                \/ InRun({"rb_audit", "rb_close", "rb_failed", "rb_failed_audit"})
PastApply == \/ In("apply", Looks) \/ pc[1] = "rollback" \/ PastRollback
             \/ InRun({"mark_validating", "validate", "commit_audit", "commit_journal", "failed",
                       "abandon", "abandon_close", "abandon_audit", "rb_open", "rb_prepare",
                       "rb_bind"})
PastRecover == \/ In("recover", Looks) \/ pc[1] = "apply" \/ PastApply
               \/ InRun({"verify", "render", "verified_audit", "open_journal"})

----------------------------------------------------------------------------
(* The inductive invariant, by concern.                                    *)

\* Every staging directory has its three files, or their absence.
Shape == staged = [k \in Kinds |-> [items |-> staged[k].items, request |-> staged[k].request,
                                    result |-> staged[k].result]]

\* A helper is started once, after the step that starts it.
OnceInv == /\ ~In("recover", {"reread"})
           /\ helper["recover"] # "none" => PastRecover \/ Ended
           /\ helper["apply"] # "none" => PastApply \/ Ended
           /\ helper["rollback"] # "none" => PastRollback \/ Ended

\* What a helper works on is what the coordinator asked for, and its result
\* is the last thing it leaves.
StagingInv ==
    /\ InRun(Early) => \A k \in Kinds : staged[k] = EmptyStaging
    /\ \A k \in Kinds : helper[k] \in {"working", "written"} => staged[k].request = RequestOf[k]
    /\ \A k \in Kinds : staged[k].result # NoDoc => helper[k] = "exited"

\* A receipt is there only of a whole copy, which nobody touches any more.
ReceiptInv ==
    /\ receipt => helper["recover"] = "exited" /\ remoteCopy = "complete"
    /\ staged["recover"].result # NoDoc => remoteCopy = "complete"
    /\ helper["recover"] = "written" => remoteCopy = "complete"

\* From the render on both copies are known to be whole, and of the content
\* the plan was made from.
Prepared == localCopy = "complete" /\ receipt /\ snap = Before
PreparedInv ==
    /\ InRun({"render"}) => localCopy = "complete" /\ receipt
    /\ InRun({"verified_audit", "open_journal"}) \/ pc[1] = "apply" \/ PastApply => Prepared
    /\ helper["apply"] # "none" => Prepared

\* The journal is open before the apply is sent, and nobody moves it on
\* before there is a result.
JournalInv ==
    /\ pc[1] = "apply" \/ InRun({"mark_validating"}) => journal = "applying"
    /\ PastApply \/ helper["apply"] # "none" => journal # "none"

\* The apply has published its result: its helper is gone.
Proven == helper["apply"] = "exited" /\ ApplyResultMatches(staged["apply"].result)
ProofInv ==
    /\ InRun({"mark_validating", "validate", "commit_audit", "commit_journal", "rb_open",
              "rb_prepare", "rb_bind"}) \/ pc[1] = "rollback" \/ PastRollback => Proven
    /\ InRun({"failed"}) /\ journal # "applying" => Proven
    /\ helper["rollback"] # "none" => Proven
    /\ outcome \in {"committed", "rolled_back"} => Proven

\* The rollback has published its result wherever it is relied on.
RestoredInv ==
    /\ InRun({"rb_audit", "rb_close"}) => staged["rollback"].result # NoDoc
    /\ journal = "rolled_back" => staged["rollback"].result # NoDoc
    /\ outcome = "rolled_back" => staged["rollback"].result # NoDoc

\* Who can have written the target last.
WriterInv ==
    /\ writer = "apply" => helper["apply"] \in {"written", "exited"}
    /\ writer = "restore" => helper["rollback"] \in {"written", "exited"}
    /\ staged["apply"].result # NoDoc \/ helper["apply"] = "written" => writer # "none"
    /\ staged["rollback"].result # NoDoc \/ helper["rollback"] = "written" =>
           writer \in {"restore", "editor"}

OutcomeInv ==
    /\ InRun({"done"}) <=> outcome # "none"
    /\ outcome \in {"refused", "approved"} => helper["apply"] = "none"
    /\ outcome = "committed" => helper["rollback"] = "none"

IInv == /\ TypeOK /\ Shape /\ OnceInv /\ StagingInv /\ ReceiptInv /\ PreparedInv /\ JournalInv
        /\ ProofInv /\ RestoredInv /\ WriterInv /\ OutcomeInv

----------------------------------------------------------------------------
\* The steps of the coordinator itself keep the invariant.
LEMMA RunKeeps == ASSUME IInv, Run PROVE IInv'
<1> USE DEF IInv, TypeOK, Shape, OnceInv, StagingInv, ReceiptInv, PreparedInv, JournalInv,
    ProofInv, RestoredInv, WriterInv, OutcomeInv, Proven, Prepared, PastRecover, PastApply,
    PastRollback, InRun, In, Ended, Early, Looks
<1> USE DEF ApplyResultMatches, RollbackResultMatches, ReceiptMatches, ApplyRequest, RequestOf,
    RecoveryRequest, RollbackRequest, Kinds, EmptyStaging, PCs, RunSteps, TransportSteps,
    Outcomes, Events, JournalStatus, JournalTransitions
<1> USE DEF At, Goto, Return, target, copies, remote, record, Passes, Appends, AppendRaises,
    Updates, UpdateRaises, LoadReceipt, KeepReceipt, Contents, NoDoc, Torn, HelperStates
<1>1. CASE CheckTask
  BY <1>1 DEF CheckTask
<1>2. CASE IdentifyHost
  <2> USE <1>2 DEF IdentifyHost
  <2>1. TypeOK' OBVIOUS
  <2>2. Shape' OBVIOUS
  <2>3. OnceInv' OBVIOUS
  <2>4. StagingInv' OBVIOUS
  <2>5. ReceiptInv' OBVIOUS
  <2>6. PreparedInv' OBVIOUS
  <2>7. JournalInv' OBVIOUS
  <2>8. ProofInv' OBVIOUS
  <2>9. RestoredInv' OBVIOUS
  <2>10. WriterInv' OBVIOUS
  <2>11. OutcomeInv' OBVIOUS
  <2> QED BY <2>1, <2>2, <2>3, <2>4, <2>5, <2>6, <2>7, <2>8, <2>9, <2>10, <2>11
<1>3. CASE Login
  <2> USE <1>3 DEF Login
  <2>1. TypeOK' OBVIOUS
  <2>2. Shape' OBVIOUS
  <2>3. OnceInv' OBVIOUS
  <2>4. StagingInv' OBVIOUS
  <2>5. ReceiptInv' OBVIOUS
  <2>6. PreparedInv' OBVIOUS
  <2>7. JournalInv' OBVIOUS
  <2>8. ProofInv' OBVIOUS
  <2>9. RestoredInv' OBVIOUS
  <2>10. WriterInv' OBVIOUS
  <2>11. OutcomeInv' OBVIOUS
  <2> QED BY <2>1, <2>2, <2>3, <2>4, <2>5, <2>6, <2>7, <2>8, <2>9, <2>10, <2>11
<1>4. CASE ResolveHome
  BY <1>4 DEF ResolveHome
<1>5. CASE MapTarget
  BY <1>5 DEF MapTarget
<1>6. CASE BuildRoute
  BY <1>6 DEF BuildRoute
<1>7. CASE AuditApproved
  BY <1>7 DEF AuditApproved
<1>8. CASE CheckApproval
  BY <1>8 DEF CheckApproval
<1>9. CASE CheckHost
  BY <1>9 DEF CheckHost
<1>10. CASE CaptureRemote
  BY <1>10 DEF CaptureRemote
<1>11. CASE SaveLocal
  BY <1>11 DEF SaveLocal
<1>12. CASE SaveAttempt
  <2>1. attempt' \in BOOLEAN BY <1>12, Zenon DEF SaveAttempt
  <2>2. (pc' = <<"recover", "stage">> /\ outcome' = outcome) \/ Goto("verify") BY <1>12, Zenon DEF
      SaveAttempt
  <2>3. UNCHANGED <<cancelled, target, localCopy, snap, receipt, remoteCopy, remote, record>> BY
      <1>12 DEF SaveAttempt
  <2>4. At("attempt") BY <1>12 DEF SaveAttempt
  <2> QED BY <2>1, <2>2, <2>3, <2>4
<1>13. CASE VerifyCopies
  <2>1. receipt' \in BOOLEAN BY <1>13 DEF VerifyCopies
  <2>2. TypeOK' BY <1>13, <2>1 DEF VerifyCopies
  <2>3. ReceiptInv' BY <1>13, <2>1 DEF VerifyCopies
  <2> USE <1>13, <2>1 DEF VerifyCopies
  <2>4. Shape' OBVIOUS
  <2>5. OnceInv' OBVIOUS
  <2>6. StagingInv' OBVIOUS
  <2>7. PreparedInv' OBVIOUS
  <2>8. JournalInv' OBVIOUS
  <2>9. ProofInv' OBVIOUS
  <2>10. RestoredInv' OBVIOUS
  <2>11. WriterInv' OBVIOUS
  <2>12. OutcomeInv' OBVIOUS
  <2> QED BY <2>2, <2>4, <2>5, <2>6, <2>3, <2>7, <2>8, <2>9, <2>10, <2>11, <2>12
<1>14. CASE Render
  BY <1>14 DEF Render
<1>15. CASE AuditVerified
  BY <1>15 DEF AuditVerified
<1>16. CASE OpenJournal
  BY <1>16 DEF OpenJournal
<1>17. CASE MarkValidating
  BY <1>17 DEF MarkValidating
<1>18. CASE Validate
  BY <1>18 DEF Validate
<1>19. CASE AuditCommitted
  BY <1>19 DEF AuditCommitted
<1>20. CASE CommitJournal
  <2> USE <1>20 DEF CommitJournal
  <2>1. TypeOK' OBVIOUS
  <2>2. Shape' OBVIOUS
  <2>3. OnceInv' OBVIOUS
  <2>4. StagingInv' OBVIOUS
  <2>5. ReceiptInv' OBVIOUS
  <2>6. PreparedInv' OBVIOUS
  <2>7. JournalInv' OBVIOUS
  <2>8. ProofInv' OBVIOUS
  <2>9. RestoredInv' OBVIOUS
  <2>10. WriterInv' OBVIOUS
  <2>11. OutcomeInv' OBVIOUS
  <2> QED BY <2>1, <2>2, <2>3, <2>4, <2>5, <2>6, <2>7, <2>8, <2>9, <2>10, <2>11
<1>21. CASE Failed
  <2> USE <1>21 DEF Failed
  <2>1. TypeOK' OBVIOUS
  <2>2. Shape' OBVIOUS
  <2>3. OnceInv' OBVIOUS
  <2>4. StagingInv' OBVIOUS
  <2>5. ReceiptInv' OBVIOUS
  <2>6. PreparedInv' OBVIOUS
  <2>7. JournalInv' OBVIOUS
  <2>8. ProofInv' OBVIOUS
  <2>9. RestoredInv' OBVIOUS
  <2>10. WriterInv' OBVIOUS
  <2>11. OutcomeInv' OBVIOUS
  <2> QED BY <2>1, <2>2, <2>3, <2>4, <2>5, <2>6, <2>7, <2>8, <2>9, <2>10, <2>11
<1>22. CASE Abandon
  <2> USE <1>22 DEF Abandon
  <2>1. TypeOK' OBVIOUS
  <2>2. Shape' OBVIOUS
  <2>3. OnceInv' OBVIOUS
  <2>4. StagingInv' OBVIOUS
  <2>5. ReceiptInv' OBVIOUS
  <2>6. PreparedInv' OBVIOUS
  <2>7. JournalInv' OBVIOUS
  <2>8. ProofInv' OBVIOUS
  <2>9. RestoredInv' OBVIOUS
  <2>10. WriterInv' OBVIOUS
  <2>11. OutcomeInv' OBVIOUS
  <2> QED BY <2>1, <2>2, <2>3, <2>4, <2>5, <2>6, <2>7, <2>8, <2>9, <2>10, <2>11
<1>23. CASE AbandonClose
  <2> USE <1>23 DEF AbandonClose
  <2>1. TypeOK' OBVIOUS
  <2>2. Shape' OBVIOUS
  <2>3. OnceInv' OBVIOUS
  <2>4. StagingInv' OBVIOUS
  <2>5. ReceiptInv' OBVIOUS
  <2>6. PreparedInv' OBVIOUS
  <2>7. JournalInv' OBVIOUS
  <2>8. ProofInv' OBVIOUS
  <2>9. RestoredInv' OBVIOUS
  <2>10. WriterInv' OBVIOUS
  <2>11. OutcomeInv' OBVIOUS
  <2> QED BY <2>1, <2>2, <2>3, <2>4, <2>5, <2>6, <2>7, <2>8, <2>9, <2>10, <2>11
<1>24. CASE AbandonAudit
  BY <1>24 DEF AbandonAudit
<1>25. CASE RollbackOpen
  BY <1>25 DEF RollbackOpen
<1>26. CASE PrepareRollback
  <2>1. receipt' \in BOOLEAN BY <1>26 DEF PrepareRollback
  <2>2. receipt => receipt' BY <1>26 DEF PrepareRollback
  <2>3. receipt' => receipt \/ staged["recover"].result # NoDoc BY <1>26 DEF PrepareRollback
  <2>4. Goto("rb_bind") \/ Goto("rb_failed") BY <1>26, Zenon DEF PrepareRollback
  <2>5. UNCHANGED <<cancelled, target, localCopy, snap, attempt, remoteCopy, remote, record>> BY
      <1>26 DEF PrepareRollback
  <2>6. At("rb_prepare") BY <1>26 DEF PrepareRollback
  <2> QED BY <2>1, <2>2, <2>3, <2>4, <2>5, <2>6
<1>27. CASE BindRollback
  <2>1. bound' \in BOOLEAN BY <1>27, Zenon DEF BindRollback
  <2>2. (pc' = <<"rollback", "stage">> /\ outcome' = outcome) \/ Goto("rb_failed") BY <1>27, Zenon
      DEF BindRollback
  <2>3. UNCHANGED <<cancelled, target, copies, remote, journal, lastEvent>> BY <1>27 DEF
      BindRollback
  <2>4. At("rb_bind") BY <1>27 DEF BindRollback
  <2> QED BY <2>1, <2>2, <2>3, <2>4
<1>28. CASE AuditRolledBack
  BY <1>28 DEF AuditRolledBack
<1>29. CASE CloseRolledBack
  BY <1>29 DEF CloseRolledBack
<1>30. CASE RollbackFailed
  BY <1>30 DEF RollbackFailed
<1>31. CASE AuditRollbackFailed
  BY <1>31 DEF AuditRollbackFailed
<1> QED BY <1>1, <1>2, <1>3, <1>4, <1>5, <1>6, <1>7, <1>8, <1>9, <1>10, <1>11, <1>12, <1>13,
    <1>14, <1>15, <1>16, <1>17, <1>18, <1>19, <1>20, <1>21, <1>22, <1>23, <1>24, <1>25, <1>26,
    <1>27, <1>28, <1>29, <1>30, <1>31 DEF Run

----------------------------------------------------------------------------
(* One file is put below the staging directory of one kind.                *)

LEMMA ItemsPut ==
    ASSUME Shape, NEW k \in Kinds, NEW v, staged' = [staged EXCEPT ![k].items = v]
    PROVE  /\ Shape' /\ \A j \in Kinds \ {k} : staged'[j] = staged[j]
           /\ staged'[k].items = v
           /\ staged'[k].request = staged[k].request /\ staged'[k].result = staged[k].result
<1>1. /\ staged = [j \in Kinds |-> staged[j]]
      /\ \A j \in Kinds : staged[j] = [items |-> staged[j].items, request |-> staged[j].request,
                                       result |-> staged[j].result]
  BY DEF Shape
<1>2. staged' = [j \in Kinds |-> IF j = k THEN [staged[k] EXCEPT !.items = v] ELSE staged[j]]
  BY <1>1
<1>3. \A j \in Kinds \ {k} : staged'[j] = staged[j]
  BY <1>2
<1>4. /\ staged'[k] = [items |-> staged'[k].items, request |-> staged'[k].request,
                        result |-> staged'[k].result]
      /\ staged'[k].items = v
      /\ staged'[k].request = staged[k].request /\ staged'[k].result = staged[k].result
  BY <1>1, <1>2
<1>5. Shape'
  <2>1. \A j \in Kinds : staged'[j] = [items |-> staged'[j].items, request |-> staged'[j].request,
                                      result |-> staged'[j].result]
    BY <1>1, <1>3, <1>4
  <2> QED BY <1>2, <2>1 DEF Shape
<1> QED BY <1>3, <1>4, <1>5

LEMMA RequestPut ==
    ASSUME Shape, NEW k \in Kinds, NEW v, staged' = [staged EXCEPT ![k].request = v]
    PROVE  /\ Shape' /\ \A j \in Kinds \ {k} : staged'[j] = staged[j]
           /\ staged'[k].request = v
           /\ staged'[k].items = staged[k].items /\ staged'[k].result = staged[k].result
<1>1. /\ staged = [j \in Kinds |-> staged[j]]
      /\ \A j \in Kinds : staged[j] = [items |-> staged[j].items, request |-> staged[j].request,
                                       result |-> staged[j].result]
  BY DEF Shape
<1>2. staged' = [j \in Kinds |-> IF j = k THEN [staged[k] EXCEPT !.request = v] ELSE staged[j]]
  BY <1>1
<1>3. \A j \in Kinds \ {k} : staged'[j] = staged[j]
  BY <1>2
<1>4. /\ staged'[k] = [items |-> staged'[k].items, request |-> staged'[k].request,
                        result |-> staged'[k].result]
      /\ staged'[k].request = v
      /\ staged'[k].items = staged[k].items /\ staged'[k].result = staged[k].result
  BY <1>1, <1>2
<1>5. Shape'
  <2>1. \A j \in Kinds : staged'[j] = [items |-> staged'[j].items, request |-> staged'[j].request,
                                      result |-> staged'[j].result]
    BY <1>1, <1>3, <1>4
  <2> QED BY <1>2, <2>1 DEF Shape
<1> QED BY <1>3, <1>4, <1>5

LEMMA ResultPut ==
    ASSUME Shape, NEW k \in Kinds, NEW v, staged' = [staged EXCEPT ![k].result = v]
    PROVE  /\ Shape' /\ \A j \in Kinds \ {k} : staged'[j] = staged[j]
           /\ staged'[k].result = v
           /\ staged'[k].items = staged[k].items /\ staged'[k].request = staged[k].request
<1>1. /\ staged = [j \in Kinds |-> staged[j]]
      /\ \A j \in Kinds : staged[j] = [items |-> staged[j].items, request |-> staged[j].request,
                                       result |-> staged[j].result]
  BY DEF Shape
<1>2. staged' = [j \in Kinds |-> IF j = k THEN [staged[k] EXCEPT !.result = v] ELSE staged[j]]
  BY <1>1
<1>3. \A j \in Kinds \ {k} : staged'[j] = staged[j]
  BY <1>2
<1>4. /\ staged'[k] = [items |-> staged'[k].items, request |-> staged'[k].request,
                        result |-> staged'[k].result]
      /\ staged'[k].result = v
      /\ staged'[k].items = staged[k].items /\ staged'[k].request = staged[k].request
  BY <1>1, <1>2
<1>5. Shape'
  <2>1. \A j \in Kinds : staged'[j] = [items |-> staged'[j].items, request |-> staged'[j].request,
                                      result |-> staged'[j].result]
    BY <1>1, <1>3, <1>4
  <2> QED BY <1>2, <2>1 DEF Shape
<1> QED BY <1>3, <1>4, <1>5

----------------------------------------------------------------------------
(* What the steps of a transport do.                                       *)

Moving(k) == \/ Stage(k) \/ UploadItems(k) \/ UploadRequest(k)
             \/ Invoke(k) \/ Wait(k) \/ ReadResult(k) \/ Reread(k)

Moves(k, step) == (pc' = <<k, step>> /\ UNCHANGED outcome) \/ Lost(k) \/ CancelStops(k)

ItemsUploaded(k) ==
    /\ pc = <<k, "items">> /\ Moves(k, "request")
    /\ UNCHANGED <<cancelled, target, copies, helper, expired, record>>
    /\ Shape' /\ \A j \in Kinds \ {k} : staged'[j] = staged[j]
    /\ staged'[k].items \in {"none", "torn", "whole"}
    /\ staged'[k].request = staged[k].request /\ staged'[k].result = staged[k].result

\* The effect of an upload: one file of its own kind, whatever the call came to.
LEMMA UploadItemsEffect ==
    ASSUME Shape, NEW k \in Kinds, staged[k].items \in {"none", "torn", "whole"}, UploadItems(k)
    PROVE  ItemsUploaded(k)
<1> USE DEF ItemsUploaded
<1>1. /\ pc = <<k, "items">> /\ UNCHANGED <<cancelled, target, copies, helper, expired, record>>
      /\ Moves(k, "request")
  BY DEF UploadItems, Moves
<1>2. \/ UNCHANGED staged
      \/ \E v \in {"none", "torn", "whole"} : staged' = [staged EXCEPT ![k].items = v]
  BY DEF UploadItems
<1>3. CASE UNCHANGED staged
  BY <1>1, <1>3 DEF Shape
<1>4. ASSUME NEW v \in {"none", "torn", "whole"}, staged' = [staged EXCEPT ![k].items = v]
      PROVE  /\ Shape' /\ \A j \in Kinds \ {k} : staged'[j] = staged[j]
             /\ staged'[k].items \in {"none", "torn", "whole"}
             /\ staged'[k].request = staged[k].request /\ staged'[k].result = staged[k].result
  BY <1>4, ItemsPut
<1> QED BY <1>1, <1>2, <1>3, <1>4

RequestUploaded(k) ==
    /\ pc = <<k, "request">> /\ Moves(k, "invoke")
    /\ UNCHANGED <<cancelled, target, copies, helper, expired, record>>
    /\ Shape' /\ \A j \in Kinds \ {k} : staged'[j] = staged[j]
    /\ staged'[k].request \in {staged[k].request, NoDoc, Torn, RequestOf[k]}
    /\ staged'[k].items = staged[k].items /\ staged'[k].result = staged[k].result

LEMMA UploadRequestEffect ==
    ASSUME Shape, NEW k \in Kinds, UploadRequest(k)
    PROVE  RequestUploaded(k)
<1> USE DEF RequestUploaded
<1>1. /\ pc = <<k, "request">> /\ UNCHANGED <<cancelled, target, copies, helper, expired, record>>
      /\ Moves(k, "invoke")
  BY DEF UploadRequest, Moves
<1>2. \/ UNCHANGED staged
      \/ \E v \in {NoDoc, Torn, RequestOf[k]} : staged' = [staged EXCEPT ![k].request = v]
  BY DEF UploadRequest
<1>3. CASE UNCHANGED staged
  BY <1>1, <1>3 DEF Shape
<1>4. ASSUME NEW v \in {NoDoc, Torn, RequestOf[k]}, staged' = [staged EXCEPT ![k].request = v]
      PROVE  /\ Shape' /\ \A j \in Kinds \ {k} : staged'[j] = staged[j]
             /\ staged'[k].request \in {staged[k].request, NoDoc, Torn, RequestOf[k]}
             /\ staged'[k].items = staged[k].items /\ staged'[k].result = staged[k].result
  BY <1>4, RequestPut
<1> QED BY <1>1, <1>2, <1>3, <1>4

\* A result is relied on only when it is the one that was asked for.
LEMMA ReadResultEffect ==
    ASSUME NEW k \in Kinds, receipt \in BOOLEAN, ReadResult(k)
    PROVE  /\ pc = <<k, "read">>
           /\ UNCHANGED <<cancelled, target, localCopy, snap, attempt, remoteCopy, remote, record>>
           /\ \/ Lost(k) \/ CancelStops(k)
              \/ Answered(k) /\ UNCHANGED outcome /\ ResultMatches(k, staged[k].result)
                 /\ (k = "recover" => receipt')
           /\ receipt' \in BOOLEAN /\ (receipt => receipt')
           /\ receipt' => receipt \/ ReceiptMatches(staged["recover"].result)
<1>1. /\ pc = <<k, "read">>
      /\ UNCHANGED <<cancelled, target, localCopy, snap, attempt, remoteCopy, remote, record>>
  BY DEF ReadResult
<1>2. \/ Lost(k) \/ CancelStops(k)
      \/ Answered(k) /\ UNCHANGED outcome /\ ResultMatches(k, staged[k].result)
         /\ (k = "recover" => receipt')
  BY Zenon DEF ReadResult, KeepReceipt
<1>3. \/ UNCHANGED receipt
      \/ receipt' = TRUE /\ k = "recover" /\ ReceiptMatches(staged[k].result)
  BY DEF ReadResult, KeepReceipt, ResultMatches
<1> QED BY <1>1, <1>2, <1>3

LEMMA RereadEffect ==
    ASSUME NEW k \in Kinds, Reread(k)
    PROVE  /\ pc = <<k, "reread">> /\ UNCHANGED <<cancelled, target, copies, remote, record>>
           /\ \/ Answered(k) /\ UNCHANGED outcome /\ ResultMatches(k, staged[k].result)
              \/ Goto(IF k = "apply" THEN "failed" ELSE "rb_failed")
  BY Zenon DEF Reread

----------------------------------------------------------------------------
\* An upload changes one file of the own kind, which nobody has used yet.
LEMMA ItemsKeep == ASSUME IInv, NEW k \in Kinds, ItemsUploaded(k) PROVE IInv'
<1> USE DEF ItemsUploaded
<1> USE DEF IInv, TypeOK, OnceInv, StagingInv, ReceiptInv, PreparedInv, JournalInv, ProofInv,
    RestoredInv, WriterInv, OutcomeInv, Proven, Prepared, PastRecover, PastApply, PastRollback,
    InRun, In, Ended, Early, Looks
<1> USE DEF ApplyResultMatches, RollbackResultMatches, ReceiptMatches, ApplyRequest, RequestOf,
    RecoveryRequest, RollbackRequest, Kinds, EmptyStaging, PCs, RunSteps, TransportSteps,
    Outcomes, Events, JournalStatus, JournalTransitions
<1> USE DEF At, Goto, Return, target, copies, remote, record, KeepReceipt, Contents, NoDoc, Torn,
    HelperStates
<1> USE DEF CancelStops, Lost, LostTo, Token, Answered, ResultMatches, Moves
<1>1. TypeOK' OBVIOUS
<1>2. OnceInv' OBVIOUS
<1>3. StagingInv' OBVIOUS
<1>4. ReceiptInv' OBVIOUS
<1>5. PreparedInv' OBVIOUS
<1>6. JournalInv' OBVIOUS
<1>7. ProofInv' OBVIOUS
<1>8. RestoredInv' OBVIOUS
<1>9. WriterInv' OBVIOUS
<1>10. OutcomeInv' OBVIOUS
<1> QED BY <1>1, <1>2, <1>3, <1>4, <1>5, <1>6, <1>7, <1>8, <1>9, <1>10

\* The request goes last: its helper is not started yet.
LEMMA RequestKeep == ASSUME IInv, NEW k \in Kinds, RequestUploaded(k) PROVE IInv'
<1> USE DEF RequestUploaded
<1> USE DEF IInv, TypeOK, OnceInv, StagingInv, ReceiptInv, PreparedInv, JournalInv, ProofInv,
    RestoredInv, WriterInv, OutcomeInv, Proven, Prepared, PastRecover, PastApply, PastRollback,
    InRun, In, Ended, Early, Looks
<1> USE DEF ApplyResultMatches, RollbackResultMatches, ReceiptMatches, ApplyRequest, RequestOf,
    RecoveryRequest, RollbackRequest, Kinds, EmptyStaging, PCs, RunSteps, TransportSteps,
    Outcomes, Events, JournalStatus, JournalTransitions
<1> USE DEF At, Goto, Return, target, copies, remote, record, KeepReceipt, Contents, NoDoc, Torn,
    HelperStates
<1> USE DEF CancelStops, Lost, LostTo, Token, Answered, ResultMatches, Moves
<1>1. TypeOK' OBVIOUS
<1>2. OnceInv' OBVIOUS
<1>3. StagingInv' OBVIOUS
<1>4. ReceiptInv' OBVIOUS
<1>5. PreparedInv' OBVIOUS
<1>6. JournalInv' OBVIOUS
<1>7. ProofInv' OBVIOUS
<1>8. RestoredInv' OBVIOUS
<1>9. WriterInv' OBVIOUS
<1>10. OutcomeInv' OBVIOUS
<1> QED BY <1>1, <1>2, <1>3, <1>4, <1>5, <1>6, <1>7, <1>8, <1>9, <1>10

\* The steps of a transport keep the invariant.
LEMMA TransportKeeps == ASSUME IInv, NEW k \in Kinds, Moving(k) PROVE IInv'
<1>1. CASE UploadItems(k)
  <2>1. Shape /\ staged[k].items \in {"none", "torn", "whole"} BY DEF IInv, TypeOK
  <2> QED BY <1>1, <2>1, UploadItemsEffect, ItemsKeep
<1>2. CASE UploadRequest(k)
  <2>1. Shape BY DEF IInv
  <2> QED BY <1>2, <2>1, UploadRequestEffect, RequestKeep
<1> USE DEF IInv, TypeOK, OnceInv, StagingInv, ReceiptInv, PreparedInv, JournalInv, ProofInv,
    RestoredInv, WriterInv, OutcomeInv, Proven, Prepared, PastRecover, PastApply, PastRollback,
    InRun, In, Ended, Early, Looks
<1> USE DEF ApplyResultMatches, RollbackResultMatches, ReceiptMatches, ApplyRequest, RequestOf,
    RecoveryRequest, RollbackRequest, Kinds, EmptyStaging, PCs, RunSteps, TransportSteps,
    Outcomes, Events, JournalStatus, JournalTransitions
<1> USE DEF At, Goto, Return, target, copies, remote, record, KeepReceipt, Contents, NoDoc, Torn,
    HelperStates
<1> USE DEF CancelStops, Lost, LostTo, Token, Answered, ResultMatches, Moves
<1>3. CASE Stage(k)
  BY <1>3 DEF Stage, Shape
<1>4. CASE Invoke(k)
  BY <1>4 DEF Invoke, Shape
<1>5. CASE Wait(k)
  BY <1>5 DEF Wait, Shape
<1>6. CASE ReadResult(k)
  BY <1>6, ReadResultEffect DEF Shape
<1>7. CASE Reread(k)
  BY <1>7, RereadEffect DEF Shape
<1> QED BY <1>3, <1>1, <1>2, <1>4, <1>5, <1>6, <1>7 DEF Moving

----------------------------------------------------------------------------
(* What the steps of a helper do.                                          *)

\* A helper accepts nothing but the request of its own kind.
LEMMA HelperChecksEffect ==
    ASSUME NEW k \in Kinds, staged[k].request \in {NoDoc, Torn, RequestOf[k]}, Accepted(k)
    PROVE  staged[k].request = RequestOf[k]
<1>1. \E d : d \in {NoDoc, Torn, RequestOf[k]} /\ d = staged[k].request /\ Decodes(k, d)
  BY DEF Accepted, RecoveryAccepted, ApplyAccepted, RollbackAccepted
<1>2. ~Decodes(k, NoDoc) /\ ~Decodes(k, Torn)
  BY DEF Decodes, ValidRecoveryRequest, ValidApplyRequest, ValidRollbackRequest,
         IsRecoveryRequest, IsApplyRequest, IsRollbackRequest, NoDoc, Torn
<1> QED BY <1>1, <1>2

\* What a helper reports after its own verification is what is expected.
LEMMA ResultIsExpected ==
    ASSUME NEW k \in Kinds, staged[k].request = RequestOf[k], Verified(k)
    PROVE  ResultMatches(k, ResultOf(k))
<1>1. CASE k = "recover"
  BY <1>1 DEF ResultMatches, ReceiptMatches, ResultOf, Receipt, RequestOf, RecoveryRequest
<1>2. CASE k = "apply"
  BY <1>2 DEF ResultMatches, ApplyResultMatches, ResultOf, ApplyResult, RequestOf, ApplyRequest,
     Verified
<1>3. CASE k = "rollback"
  BY <1>3 DEF ResultMatches, RollbackResultMatches, ResultOf, RollbackResult, RequestOf,
     RollbackRequest, Verified
<1> QED BY <1>1, <1>2, <1>3 DEF Kinds

Reported(k) ==
    /\ helper[k] = "written" /\ helper' = [helper EXCEPT ![k] = "exited"]
    /\ Keep /\ UNCHANGED <<target, remoteCopy>>
    /\ Shape' /\ \A j \in Kinds \ {k} : staged'[j] = staged[j]
    /\ staged'[k].items = staged[k].items /\ staged'[k].request = staged[k].request
    /\ staged'[k].result = staged[k].result \/ ResultMatches(k, staged'[k].result)

LEMMA HelperReportsEffect ==
    ASSUME Shape, NEW k \in Kinds, staged[k].request = RequestOf[k], HelperReports(k)
    PROVE  Reported(k)
<1> USE DEF Reported
<1>1. /\ helper[k] = "written" /\ helper' = [helper EXCEPT ![k] = "exited"]
      /\ Keep /\ UNCHANGED <<target, remoteCopy>>
      /\ \/ UNCHANGED staged
         \/ Verified(k) /\ staged' = [staged EXCEPT ![k].result = ResultOf(k)]
  BY DEF HelperReports, At2, HelperGoes
<1>2. CASE UNCHANGED staged
  BY <1>1, <1>2 DEF Shape
<1>3. CASE Verified(k) /\ staged' = [staged EXCEPT ![k].result = ResultOf(k)]
  <2>1. ResultMatches(k, ResultOf(k)) BY <1>3, ResultIsExpected
  <2> QED BY <1>1, <1>3, <2>1, ResultPut
<1> QED BY <1>1, <1>2, <1>3

\* A helper that accepts its request, or gives up, keeps the invariant.
LEMMA ChecksKeep ==
    ASSUME IInv, NEW k \in Kinds,
           NEW s \in {"working", "exited"}, helper[k] = "started",
           helper' = [helper EXCEPT ![k] = s], Keep, UNCHANGED <<target, remoteCopy, staged>>,
           s = "working" => staged[k].request = RequestOf[k]
    PROVE  IInv'
<1> USE DEF IInv, TypeOK, OnceInv, StagingInv, ReceiptInv, PreparedInv, JournalInv, ProofInv,
    RestoredInv, WriterInv, OutcomeInv, Proven, Prepared, PastRecover, PastApply, PastRollback,
    InRun, In, Ended, Early, Looks
<1> USE DEF ApplyResultMatches, RollbackResultMatches, ReceiptMatches, ApplyRequest, RequestOf,
    RecoveryRequest, RollbackRequest, Kinds, EmptyStaging, PCs, RunSteps, TransportSteps,
    Outcomes, Events, JournalStatus, JournalTransitions
<1> USE DEF At, Goto, Return, target, copies, remote, record, KeepReceipt, Contents, NoDoc, Torn,
    HelperStates
<1> USE DEF At2, HelperGoes, Keep
<1>1. TypeOK' OBVIOUS
<1>2. OnceInv' OBVIOUS
<1>3. StagingInv' OBVIOUS
<1>4. ReceiptInv' OBVIOUS
<1>5. PreparedInv' OBVIOUS
<1>6. JournalInv' OBVIOUS
<1>7. ProofInv' OBVIOUS
<1>8. RestoredInv' OBVIOUS
<1>9. WriterInv' OBVIOUS
<1>10. OutcomeInv' OBVIOUS
<1>11. Shape' BY DEF Shape
<1> QED BY <1>1, <1>2, <1>3, <1>4, <1>5, <1>6, <1>7, <1>8, <1>9, <1>10, <1>11

\* A helper that reports keeps the invariant.
LEMMA ReportKeeps == ASSUME IInv, NEW k \in Kinds, Reported(k) PROVE IInv'
<1> USE DEF Reported
<1> USE DEF IInv, TypeOK, OnceInv, StagingInv, ReceiptInv, PreparedInv, JournalInv, ProofInv,
    RestoredInv, WriterInv, OutcomeInv, Proven, Prepared, PastRecover, PastApply, PastRollback,
    InRun, In, Ended, Early, Looks
<1> USE DEF ApplyResultMatches, RollbackResultMatches, ReceiptMatches, ApplyRequest, RequestOf,
    RecoveryRequest, RollbackRequest, Kinds, EmptyStaging, PCs, RunSteps, TransportSteps,
    Outcomes, Events, JournalStatus, JournalTransitions
<1> USE DEF At, Goto, Return, target, copies, remote, record, KeepReceipt, Contents, NoDoc, Torn,
    HelperStates
<1> USE DEF At2, HelperGoes, Keep
<1>1. TypeOK' OBVIOUS
<1>2. OnceInv' OBVIOUS
<1>3. StagingInv' OBVIOUS
<1>4. ReceiptInv' OBVIOUS
<1>5. PreparedInv' OBVIOUS
<1>6. JournalInv' OBVIOUS
<1>7. ProofInv' OBVIOUS
<1>8. RestoredInv' OBVIOUS
<1>9. WriterInv' OBVIOUS
<1>10. OutcomeInv' OBVIOUS
<1>11. Shape' BY DEF Shape
<1> QED BY <1>1, <1>2, <1>3, <1>4, <1>5, <1>6, <1>7, <1>8, <1>9, <1>10, <1>11

\* The steps of the helpers keep the invariant.
LEMMA HelpersKeep == ASSUME IInv, Helpers PROVE IInv'
<1>1. ASSUME NEW k \in Kinds, HelperChecks(k) PROVE IInv'
  <2>1. staged[k].request \in {NoDoc, Torn, RequestOf[k]} BY DEF IInv, TypeOK
  <2>2. PICK s \in {"working", "exited"} :
            /\ helper' = [helper EXCEPT ![k] = s] /\ (s = "working" => Accepted(k))
    BY <1>1 DEF HelperChecks, HelperGoes
  <2>3. helper[k] = "started" /\ Keep /\ UNCHANGED <<target, remoteCopy, staged>>
    BY <1>1 DEF HelperChecks, At2
  <2>4. s = "working" => staged[k].request = RequestOf[k]
    BY <2>1, <2>2, HelperChecksEffect
  <2> QED BY <2>2, <2>3, <2>4, ChecksKeep
<1>2. ASSUME NEW k \in Kinds, HelperReports(k) PROVE IInv'
  <2>1. Shape /\ staged[k].request = RequestOf[k]
    BY <1>2 DEF IInv, StagingInv, HelperReports, At2
  <2> QED BY <1>2, <2>1, HelperReportsEffect, ReportKeeps
<1> USE DEF IInv, TypeOK, OnceInv, StagingInv, ReceiptInv, PreparedInv, JournalInv, ProofInv,
    RestoredInv, WriterInv, OutcomeInv, Proven, Prepared, PastRecover, PastApply, PastRollback,
    InRun, In, Ended, Early, Looks
<1> USE DEF ApplyResultMatches, RollbackResultMatches, ReceiptMatches, ApplyRequest, RequestOf,
    RecoveryRequest, RollbackRequest, Kinds, EmptyStaging, PCs, RunSteps, TransportSteps,
    Outcomes, Events, JournalStatus, JournalTransitions
<1> USE DEF At, Goto, Return, target, copies, remote, record, KeepReceipt, Contents, NoDoc, Torn,
    HelperStates
<1> USE DEF At2, HelperGoes, Keep
<1>3. CASE EnterPassword
  <2> USE <1>3 DEF EnterPassword, Shape
  <2>1. TypeOK' OBVIOUS
  <2>2. OnceInv' OBVIOUS
  <2>3. StagingInv' OBVIOUS
  <2>4. ReceiptInv' OBVIOUS
  <2>5. PreparedInv' OBVIOUS
  <2>6. JournalInv' OBVIOUS
  <2>7. ProofInv' OBVIOUS
  <2>8. RestoredInv' OBVIOUS
  <2>9. WriterInv' OBVIOUS
  <2>10. OutcomeInv' OBVIOUS
  <2>11. Shape' OBVIOUS
  <2> QED BY <2>1, <2>2, <2>3, <2>4, <2>5, <2>6, <2>7, <2>8, <2>9, <2>10, <2>11
<1>4. CASE StoreCopy
  <2> USE <1>4 DEF StoreCopy, Shape
  <2>1. TypeOK' OBVIOUS
  <2>2. OnceInv' OBVIOUS
  <2>3. StagingInv' OBVIOUS
  <2>4. ReceiptInv' OBVIOUS
  <2>5. PreparedInv' OBVIOUS
  <2>6. JournalInv' OBVIOUS
  <2>7. ProofInv' OBVIOUS
  <2>8. RestoredInv' OBVIOUS
  <2>9. WriterInv' OBVIOUS
  <2>10. OutcomeInv' OBVIOUS
  <2>11. Shape' OBVIOUS
  <2> QED BY <2>1, <2>2, <2>3, <2>4, <2>5, <2>6, <2>7, <2>8, <2>9, <2>10, <2>11
<1>5. CASE ReplaceTarget
  <2> USE <1>5 DEF ReplaceTarget, Shape
  <2>1. TypeOK' OBVIOUS
  <2>2. OnceInv' OBVIOUS
  <2>3. StagingInv' OBVIOUS
  <2>4. ReceiptInv' OBVIOUS
  <2>5. PreparedInv' OBVIOUS
  <2>6. JournalInv' OBVIOUS
  <2>7. ProofInv' OBVIOUS
  <2>8. RestoredInv' OBVIOUS
  <2>9. WriterInv' OBVIOUS
  <2>10. OutcomeInv' OBVIOUS
  <2>11. Shape' OBVIOUS
  <2> QED BY <2>1, <2>2, <2>3, <2>4, <2>5, <2>6, <2>7, <2>8, <2>9, <2>10, <2>11
<1>6. CASE RestoreTarget
  <2> USE <1>6 DEF RestoreTarget, Shape
  <2>1. TypeOK' OBVIOUS
  <2>2. OnceInv' OBVIOUS
  <2>3. StagingInv' OBVIOUS
  <2>4. ReceiptInv' OBVIOUS
  <2>5. PreparedInv' OBVIOUS
  <2>6. JournalInv' OBVIOUS
  <2>7. ProofInv' OBVIOUS
  <2>8. RestoredInv' OBVIOUS
  <2>9. WriterInv' OBVIOUS
  <2>10. OutcomeInv' OBVIOUS
  <2>11. Shape' OBVIOUS
  <2> QED BY <2>1, <2>2, <2>3, <2>4, <2>5, <2>6, <2>7, <2>8, <2>9, <2>10, <2>11
<1>7. ASSUME NEW k \in Kinds, HelperDies(k) PROVE IInv'
  <2> USE <1>7 DEF HelperDies, Shape
  <2>1. TypeOK' OBVIOUS
  <2>2. OnceInv' OBVIOUS
  <2>3. StagingInv' OBVIOUS
  <2>4. ReceiptInv' OBVIOUS
  <2>5. PreparedInv' OBVIOUS
  <2>6. JournalInv' OBVIOUS
  <2>7. ProofInv' OBVIOUS
  <2>8. RestoredInv' OBVIOUS
  <2>9. WriterInv' OBVIOUS
  <2>10. OutcomeInv' OBVIOUS
  <2>11. Shape' OBVIOUS
  <2> QED BY <2>1, <2>2, <2>3, <2>4, <2>5, <2>6, <2>7, <2>8, <2>9, <2>10, <2>11
<1> QED BY <1>3, <1>4, <1>5, <1>6, <1>1, <1>2, <1>7 DEF Helpers

\* Cancelling, a crash, a deadline and the edits of others keep the invariant.
LEMMA WorldKeeps == ASSUME IInv, World PROVE IInv'
<1> USE DEF IInv, TypeOK, OnceInv, StagingInv, ReceiptInv, PreparedInv, JournalInv, ProofInv,
    RestoredInv, WriterInv, OutcomeInv, Proven, Prepared, PastRecover, PastApply, PastRollback,
    InRun, In, Ended, Early, Looks
<1> USE DEF ApplyResultMatches, RollbackResultMatches, ReceiptMatches, ApplyRequest, RequestOf,
    RecoveryRequest, RollbackRequest, Kinds, EmptyStaging, PCs, RunSteps, TransportSteps,
    Outcomes, Events, JournalStatus, JournalTransitions
<1> USE DEF At, Goto, Return, target, copies, remote, record, KeepReceipt, Contents, NoDoc, Torn,
    HelperStates
<1> USE DEF Shape, Running
<1>1. CASE Cancel
  <2> USE <1>1 DEF Cancel
  <2>1. TypeOK' OBVIOUS
  <2>2. OnceInv' OBVIOUS
  <2>3. StagingInv' OBVIOUS
  <2>4. ReceiptInv' OBVIOUS
  <2>5. PreparedInv' OBVIOUS
  <2>6. JournalInv' OBVIOUS
  <2>7. ProofInv' OBVIOUS
  <2>8. RestoredInv' OBVIOUS
  <2>9. WriterInv' OBVIOUS
  <2>10. OutcomeInv' OBVIOUS
  <2>11. Shape' OBVIOUS
  <2> QED BY <2>1, <2>2, <2>3, <2>4, <2>5, <2>6, <2>7, <2>8, <2>9, <2>10, <2>11
<1>2. CASE Crash
  <2> USE <1>2 DEF Crash
  <2>1. TypeOK' OBVIOUS
  <2>2. OnceInv' OBVIOUS
  <2>3. StagingInv' OBVIOUS
  <2>4. ReceiptInv' OBVIOUS
  <2>5. PreparedInv' OBVIOUS
  <2>6. JournalInv' OBVIOUS
  <2>7. ProofInv' OBVIOUS
  <2>8. RestoredInv' OBVIOUS
  <2>9. WriterInv' OBVIOUS
  <2>10. OutcomeInv' OBVIOUS
  <2>11. Shape' OBVIOUS
  <2> QED BY <2>1, <2>2, <2>3, <2>4, <2>5, <2>6, <2>7, <2>8, <2>9, <2>10, <2>11
<1>3. ASSUME NEW k \in Kinds, Expire(k) PROVE IInv'
  <2> USE <1>3 DEF Expire
  <2>1. TypeOK' OBVIOUS
  <2>2. OnceInv' OBVIOUS
  <2>3. StagingInv' OBVIOUS
  <2>4. ReceiptInv' OBVIOUS
  <2>5. PreparedInv' OBVIOUS
  <2>6. JournalInv' OBVIOUS
  <2>7. ProofInv' OBVIOUS
  <2>8. RestoredInv' OBVIOUS
  <2>9. WriterInv' OBVIOUS
  <2>10. OutcomeInv' OBVIOUS
  <2>11. Shape' OBVIOUS
  <2> QED BY <2>1, <2>2, <2>3, <2>4, <2>5, <2>6, <2>7, <2>8, <2>9, <2>10, <2>11
<1>4. ASSUME NEW c \in Contents, Edit(c) PROVE IInv'
  <2> USE <1>4, SshBoundsAssumption DEF Edit
  <2>1. TypeOK' OBVIOUS
  <2>2. OnceInv' OBVIOUS
  <2>3. StagingInv' OBVIOUS
  <2>4. ReceiptInv' OBVIOUS
  <2>5. PreparedInv' OBVIOUS
  <2>6. JournalInv' OBVIOUS
  <2>7. ProofInv' OBVIOUS
  <2>8. RestoredInv' OBVIOUS
  <2>9. WriterInv' OBVIOUS
  <2>10. OutcomeInv' OBVIOUS
  <2>11. Shape' OBVIOUS
  <2> QED BY <2>1, <2>2, <2>3, <2>4, <2>5, <2>6, <2>7, <2>8, <2>9, <2>10, <2>11
<1> QED BY <1>1, <1>2, <1>3, <1>4 DEF World

\* The invariant holds at the start.
LEMMA Initially == ASSUME Init PROVE IInv
<1> USE DEF IInv, TypeOK, OnceInv, StagingInv, ReceiptInv, PreparedInv, JournalInv, ProofInv,
    RestoredInv, WriterInv, OutcomeInv, Proven, Prepared, PastRecover, PastApply, PastRollback,
    InRun, In, Ended, Early, Looks
<1> USE DEF ApplyResultMatches, RollbackResultMatches, ReceiptMatches, ApplyRequest, RequestOf,
    RecoveryRequest, RollbackRequest, Kinds, EmptyStaging, PCs, RunSteps, TransportSteps,
    Outcomes, Events, JournalStatus, JournalTransitions
<1> USE DEF At, Goto, Return, target, copies, remote, record, KeepReceipt, Contents, NoDoc, Torn,
    HelperStates
<1> USE SshBoundsAssumption DEF Init
<1>1. TypeOK
  <2>1. pc \in PCs OBVIOUS
  <2>2. \A k \in Kinds : staged[k] = EmptyStaging OBVIOUS
  <2>3. \A k \in Kinds : /\ staged[k].items \in {"none", "torn", "whole"}
                        /\ staged[k].request \in {NoDoc, Torn, RequestOf[k]}
    BY <2>2
  <2>4. helper \in [Kinds -> HelperStates] OBVIOUS
  <2>5. edits \in 0..MaxEdits OBVIOUS
  <2> QED BY <2>1, <2>3, <2>4, <2>5
<1>2. OnceInv OBVIOUS
<1>3. StagingInv OBVIOUS
<1>4. ReceiptInv OBVIOUS
<1>5. PreparedInv OBVIOUS
<1>6. JournalInv OBVIOUS
<1>7. ProofInv OBVIOUS
<1>8. RestoredInv OBVIOUS
<1>9. WriterInv OBVIOUS
<1>10. OutcomeInv OBVIOUS
<1>11. Shape BY DEF Shape
<1> QED BY <1>1, <1>2, <1>3, <1>4, <1>5, <1>6, <1>7, <1>8, <1>9, <1>10, <1>11

----------------------------------------------------------------------------
\* Every step keeps the invariant.
LEMMA NextKeeps == IInv /\ [Next]_vars => IInv'
<1> SUFFICES ASSUME IInv, [Next]_vars PROVE IInv'
  OBVIOUS
<1>1. CASE Run
  BY <1>1, RunKeeps
<1>2. CASE Transport
  <2>1. PICK k \in Kinds : Moving(k)
    BY <1>2 DEF Transport, Moving
  <2> QED BY <2>1, TransportKeeps
<1>3. CASE Helpers
  BY <1>3, HelpersKeep
<1>4. CASE World
  BY <1>4, WorldKeeps
<1>5. CASE UNCHANGED vars
  <2>1. UNCHANGED <<pc, outcome, cancelled, file, writer, edits, localCopy, snap, attempt, receipt,
                    remoteCopy, staged, helper, expired, journal, bound, lastEvent>>
    BY <1>5 DEF vars, target, copies, remote, record
  <2> USE <2>1 DEF IInv
  <2>2. TypeOK' BY DEF TypeOK, RequestOf, RecoveryRequest, ApplyRequest, RollbackRequest
  <2>3. Shape' BY DEF Shape
  <2>4. OnceInv' BY DEF OnceInv, PastRecover, PastApply, PastRollback, In, InRun, Ended
  <2>5. StagingInv' BY DEF StagingInv, InRun, RequestOf, RecoveryRequest, ApplyRequest,
      RollbackRequest
  <2>6. ReceiptInv' BY DEF ReceiptInv
  <2>7. PreparedInv' BY DEF PreparedInv, Prepared, PastApply, PastRollback, In, InRun
  <2>8. JournalInv' BY DEF JournalInv, PastApply, PastRollback, In, InRun
  <2>9. ProofInv' BY DEF ProofInv, Proven, PastRollback, In, InRun, ApplyResultMatches,
      ApplyRequest
  <2>10. RestoredInv' BY DEF RestoredInv, InRun
  <2>11. WriterInv' BY DEF WriterInv
  <2>12. OutcomeInv' BY DEF OutcomeInv, InRun
  <2> QED BY <2>2, <2>3, <2>4, <2>5, <2>6, <2>7, <2>8, <2>9, <2>10, <2>11, <2>12
<1> QED BY <1>1, <1>2, <1>3, <1>4, <1>5 DEF Next

\* The invariant holds in every reachable state.
THEOREM Invariance == Spec => []IInv
<1>1. Init => IInv
  BY Initially
<1> QED BY <1>1, NextKeeps, PTL DEF Spec

\* Every variable keeps its type.
THEOREM TypeCorrectness == Spec => []TypeOK
<1>1. IInv => TypeOK
  BY DEF IInv
<1> QED BY <1>1, Invariance, PTL

\* No apply helper is started before both copies of the backup exist and hold
\* what the plan was made from, whatever is lost, late or asked for twice.
THEOREM CopiesComeFirst == Spec => []BothCopiesFirst
<1>1. IInv => BothCopiesFirst
  BY DEF IInv, BothCopiesFirst, PreparedInv, Prepared, ReceiptInv
<1> QED BY <1>1, Invariance, PTL

\* The rollback helper never runs beside the apply helper: it is started only
\* against a published result.
THEOREM RollbackNeedsProof == Spec => []RollbackOnProof
<1>1. IInv => RollbackOnProof
  BY DEF IInv, RollbackOnProof, ProofInv, Proven
<1> QED BY <1>1, Invariance, PTL

\* While the target holds what the apply wrote, the journal never says that
\* nothing happened or that it was rolled back.
THEOREM JournalRemembers == Spec => []NothingForgotten
<1>1. IInv => NothingForgotten
  <2> SUFFICES ASSUME IInv, writer = "apply" PROVE journal \notin {"none", "rolled_back"}
    BY DEF NothingForgotten
  <2>1. helper["apply"] # "none" BY DEF IInv, WriterInv
  <2>2. journal # "none" BY <2>1 DEF IInv, JournalInv
  <2>3. staged["rollback"].result = NoDoc BY DEF IInv, WriterInv
  <2>4. journal # "rolled_back" BY <2>3 DEF IInv, RestoredInv
  <2> QED BY <2>2, <2>4
<1> QED BY <1>1, Invariance, PTL

----------------------------------------------------------------------------
(* The steps of the desktop program leave the target and the helpers alone, *)
(* except for the start of a helper.                                        *)

\* The coordinator itself touches nothing on the remote host.
LEMMA RunStaysLocal == Run => UNCHANGED <<target, remoteCopy, remote>>
  BY DEF Run, CheckTask, IdentifyHost, Login, ResolveHome, MapTarget, BuildRoute, Passes,
     AuditApproved, CheckApproval, CheckHost, CaptureRemote, SaveLocal, SaveAttempt,
     VerifyCopies, Render, AuditVerified, OpenJournal, MarkValidating, Validate,
     AuditCommitted, CommitJournal, Failed, Abandon, AbandonClose, AbandonAudit,
     RollbackOpen, PrepareRollback, BindRollback, AuditRolledBack, CloseRolledBack,
     RollbackFailed, AuditRollbackFailed, copies

\* A transport starts a helper and does not touch the target.
LEMMA TransportStaysLocal ==
    ASSUME NEW k \in Kinds, TypeOK, Moving(k)
    PROVE  /\ UNCHANGED target
           /\ \/ UNCHANGED helper
              \/ /\ pc = <<k, "invoke">>
                 /\ \E s \in HelperStates : helper' = [helper EXCEPT ![k] = s]
<1>1. CASE Invoke(k)
  <2>1. UNCHANGED target
    BY <1>1 DEF Invoke
  <2>2. UNCHANGED helper \/ \E s \in {"started", "prompt"} : helper' = [helper EXCEPT ![k] = s]
    BY <1>1 DEF Invoke
  <2> QED BY <1>1, <2>1, <2>2 DEF Invoke, HelperStates
<1> QED BY <1>1 DEF Moving, Stage, UploadItems, UploadRequest, Wait, ReadResult, Reread, copies,
    remote

\* A step that starts the apply or the rollback finds that helper not started
\* before, whichever calls were lost.
THEOREM AtMostOneStart == Spec => SentOnce
<1>1. ASSUME IInv, [Next]_vars, NEW k \in {"apply", "rollback"}, helper'[k] = "started"
      PROVE  helper[k] \in {"none", "started"}
  <2> USE DEF Kinds
  <2>0. helper \in [Kinds -> HelperStates] /\ TypeOK
    BY <1>1 DEF IInv, TypeOK
  <2>1. CASE Run
    BY <1>1, <2>1, RunStaysLocal DEF remote
  <2>2. CASE Transport
    <3>1. PICK j \in Kinds : Moving(j)
      BY <2>2 DEF Transport, Moving
    <3>2. CASE UNCHANGED helper
      BY <1>1, <3>2
    <3>3. CASE pc = <<j, "invoke">> /\ \E s \in HelperStates : helper' = [helper EXCEPT ![j] = s]
      <4>1. CASE j = k
        <5>1. helper[k] = "none"
          BY <1>1, <3>3, <4>1 DEF IInv, OnceInv, PastApply, PastRollback, In, InRun, Looks, Ended
        <5> QED BY <5>1
      <4>2. CASE j # k
        BY <1>1, <2>0, <3>3, <4>2
      <4> QED BY <4>1, <4>2
    <3> QED BY <2>0, <3>1, <3>2, <3>3, TransportStaysLocal
  <2>3. CASE Helpers
    <3>1. helper'[k] = "started" => helper[k] = "started"
      BY <1>1, <2>0, <2>3 DEF Helpers, EnterPassword, StoreCopy, ReplaceTarget, RestoreTarget,
         HelperChecks, HelperReports, HelperDies, At2, HelperGoes
    <3> QED BY <1>1, <3>1
  <2>4. CASE World
    BY <1>1, <2>4 DEF World, Cancel, Crash, Expire, Edit, remote
  <2>5. CASE UNCHANGED vars
    BY <1>1, <2>5 DEF vars, remote
  <2> QED BY <1>1, <2>1, <2>2, <2>3, <2>4, <2>5 DEF Next
<1>2. IInv /\ [Next]_vars =>
        [\A k \in {"apply", "rollback"} : helper'[k] = "started" => helper[k] \in {"none", "started"}]_vars
  BY <1>1
<1> QED BY <1>2, Invariance, PTL DEF Spec, SentOnce

----------------------------------------------------------------------------
(* The refinement of the contract.                                         *)

\* Only an operation that is open, or asks for attention, has a helper that
\* can still write.
LEMMA WritersAreAwaited ==
    ASSUME IInv, helper["apply"] = "working" \/ helper["rollback"] = "working"
    PROVE  phase = "open" \/ phase = "attention"
<1> USE DEF IInv
<1>1. outcome \notin {"refused", "approved"}
  BY DEF OutcomeInv, ProofInv, Proven
<1>2. outcome # "committed"
  BY DEF OutcomeInv, ProofInv, Proven
<1>3. outcome # "rolled_back"
  BY DEF RestoredInv, StagingInv, ProofInv, Proven, Kinds
<1>4. outcome \in {"none", "recovery_required", "raised"}
  BY <1>1, <1>2, <1>3 DEF TypeOK, Outcomes
<1> QED BY <1>4 DEF phase

\* The step that ends the operation closes the contract in its phase.
LEMMA ClosingRefines ==
    ASSUME IInv, IInv', UNCHANGED writer, outcome = "none" \/ UNCHANGED outcome
    PROVE  [Contract!Next]_Contract!vars
<1>1. UNCHANGED holds
  BY DEF holds
<1>2. CASE UNCHANGED outcome
  BY <1>1, <1>2 DEF Contract!vars, phase
<1>3. CASE outcome = "none" /\ outcome' # "none"
  <2>1. phase = "open"
    BY <1>3 DEF phase
  <2>2. holds["target"] = Holding[writer] /\ writer' = writer
    BY DEF holds
  <2>3. outcome' \in Outcomes
    BY <1>3 DEF IInv, TypeOK
  <2>4. /\ writer \in {"none", "apply", "restore", "editor"}
        /\ outcome' \in {"refused", "approved"} => writer \in {"none", "editor"}
        /\ outcome' = "committed" => writer \in {"apply", "editor"}
        /\ outcome' = "rolled_back" => writer \in {"restore", "editor"}
    <3> USE DEF IInv
    <3>1. writer' \in {"none", "apply", "restore", "editor"}
      BY DEF TypeOK
    <3>2. outcome' \in {"refused", "approved"} => writer' \in {"none", "editor"}
      BY <3>1 DEF OutcomeInv, WriterInv, ProofInv, Proven
    <3>3. outcome' = "committed" => writer' \in {"apply", "editor"}
      BY <3>1 DEF OutcomeInv, WriterInv, ProofInv, Proven, ApplyResultMatches, NoDoc
    <3>4. outcome' = "rolled_back" => writer' \in {"restore", "editor"}
      BY DEF RestoredInv, WriterInv
    <3> QED BY <2>2, <3>1, <3>2, <3>3, <3>4
  <2>5. Holding[writer] \in Contract!Holdings
    BY <2>4 DEF Holding, Contract!Holdings
  <2>6. CASE outcome' \in {"refused", "approved"}
    <3>1. phase' = "untouched" /\ Holding[writer] \in {"original", "foreign"}
      BY <2>4, <2>6 DEF phase, Holding
    <3> QED BY <1>1, <2>1, <2>2, <3>1 DEF Contract!Next, Contract!Close
  <2>7. CASE outcome' = "committed"
    <3>1. phase' = "committed" /\ Holding[writer] \in {"changed", "foreign"}
      BY <2>4, <2>7 DEF phase, Holding
    <3> QED BY <1>1, <2>1, <2>2, <3>1 DEF Contract!Next, Contract!Close
  <2>8. CASE outcome' = "rolled_back"
    <3>1. phase' = "restored" /\ Holding[writer] \in {"original", "restored", "foreign"}
      BY <2>4, <2>8 DEF phase, Holding
    <3> QED BY <1>1, <2>1, <2>2, <3>1 DEF Contract!Next, Contract!Close
  <2>9. CASE outcome' \in {"recovery_required", "raised"}
    <3>1. phase' = "attention"
      BY <2>9 DEF phase
    <3> QED BY <1>1, <2>1, <2>2, <2>5, <3>1 DEF Contract!Next, Contract!Close
  <2> QED BY <2>3, <2>6, <2>7, <2>8, <2>9 DEF Outcomes
<1> QED BY <1>2, <1>3

\* A write of a helper is a write of the operation.
LEMMA WritingRefines ==
    ASSUME UNCHANGED outcome, phase = "open" \/ phase = "attention",
           writer' \in {"apply", "restore"}
    PROVE  Contract!Next
<1>1. UNCHANGED phase
  BY DEF phase
<1>2. holds' = [holds EXCEPT !["target"] = Holding[writer']]
  BY DEF holds
<1>3. Holding[writer'] \in {"changed", "restored"}
  BY DEF Holding
<1>4. Contract!Write("target")
  BY <1>1, <1>2, <1>3 DEF Contract!Write
<1> QED BY <1>4 DEF Contract!Next

\* A write of somebody else is foreign.
LEMMA EditingRefines ==
    ASSUME UNCHANGED outcome, writer' = "editor"
    PROVE  Contract!Next
<1>1. UNCHANGED phase
  BY DEF phase
<1>2. holds' = [holds EXCEPT !["target"] = "foreign"]
  BY DEF holds, Holding
<1>3. Contract!ForeignWrite("target")
  BY <1>1, <1>2 DEF Contract!ForeignWrite
<1> QED BY <1>3 DEF Contract!Next

\* The SSH route keeps the contract of all apply routes.
THEOREM RouteImplementsContract == Spec => ImplementsContract
<1>1. Init => Contract!Init
  <2> SUFFICES ASSUME Init PROVE Contract!Init
    OBVIOUS
  <2>1. phase = "open" BY DEF Init, phase
  <2>2. holds = [t \in {"target"} |-> "original"] BY DEF Init, holds, Holding, target
  <2> QED BY <2>1, <2>2 DEF Contract!Init
<1>2. ASSUME IInv, IInv', [Next]_vars PROVE [Contract!Next]_Contract!vars
  <2>1. CASE Run
    <3>1. UNCHANGED writer BY <2>1, RunStaysLocal DEF target
    <3>2. outcome = "none"
      <4>1. \E s \in RunSteps \ {"done", "crashed"} : At(s)
        BY <2>1 DEF RunSteps, Run, CheckTask, IdentifyHost, Login, ResolveHome, MapTarget,
           BuildRoute, Passes,
     AuditApproved, CheckApproval, CheckHost, CaptureRemote, SaveLocal, SaveAttempt,
     VerifyCopies, Render, AuditVerified, OpenJournal, MarkValidating, Validate,
     AuditCommitted, CommitJournal, Failed, Abandon, AbandonClose, AbandonAudit,
     RollbackOpen, PrepareRollback, BindRollback, AuditRolledBack, CloseRolledBack,
     RollbackFailed, AuditRollbackFailed
      <4>3. ~InRun({"done"}) BY <4>1 DEF InRun, At
      <4> QED BY <1>2, <4>3 DEF IInv, OutcomeInv
    <3> QED BY <1>2, <3>1, <3>2, ClosingRefines
  <2>2. CASE Transport
    <3>1. PICK k \in Kinds : Moving(k)
      BY <2>2 DEF Transport, Moving
    <3>2. UNCHANGED writer
      BY <1>2, <3>1, TransportStaysLocal DEF IInv, target
    <3>3. pc[1] = k
      BY <3>1 DEF Moving, Stage, UploadItems, UploadRequest, Invoke, Wait, ReadResult, Reread
    <3>4. ~InRun({"done"}) BY <3>3 DEF InRun, Kinds
    <3>5. outcome = "none" BY <1>2, <3>4 DEF IInv, OutcomeInv
    <3> QED BY <1>2, <3>2, <3>5, ClosingRefines
  <2>3. CASE Helpers
    <3>1. UNCHANGED outcome
      BY <2>3 DEF Helpers, EnterPassword, StoreCopy, ReplaceTarget, RestoreTarget, HelperChecks,
         HelperReports, HelperDies, Keep
    <3>2. CASE UNCHANGED writer
      BY <1>2, <3>1, <3>2, ClosingRefines
    <3>3. CASE ReplaceTarget \/ RestoreTarget
      <4>1. writer' \in {"apply", "restore"} BY <3>3 DEF ReplaceTarget, RestoreTarget
      <4>2. helper["apply"] = "working" \/ helper["rollback"] = "working"
        BY <3>3 DEF ReplaceTarget, RestoreTarget, At2
      <4> QED BY <1>2, <3>1, <4>1, <4>2, WritersAreAwaited, WritingRefines
    <3> QED BY <2>3, <3>2, <3>3 DEF Helpers, EnterPassword, StoreCopy, HelperChecks,
                                HelperReports, HelperDies, target
  <2>4. CASE World
    <3>1. UNCHANGED outcome BY <2>4 DEF World, Cancel, Crash, Expire, Edit
    <3>2. UNCHANGED writer \/ writer' = "editor" BY <2>4 DEF World, Cancel, Crash, Expire, Edit,
        target
    <3> QED BY <1>2, <3>1, <3>2, ClosingRefines, EditingRefines
  <2>5. CASE UNCHANGED vars
    BY <1>2, <2>5, ClosingRefines DEF vars, target
  <2> QED BY <1>2, <2>1, <2>2, <2>3, <2>4, <2>5 DEF Next
<1> QED BY <1>1, <1>2, Invariance, PTL DEF Spec, ImplementsContract, Contract!Spec
=============================================================================
