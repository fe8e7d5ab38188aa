-------------------------- MODULE RootRestoreProofs -------------------------
(***************************************************************************)
(* Theorems about RootRestore, for any number of requests, applies,        *)
(* contents and helpers: what a user is told of a restore is true, nothing *)
(* is overwritten blindly, and it implements RestoreContract.              *)
(*                                                                         *)
(* The invariant is about the helpers: which one used a request up         *)
(* (OwnerInv), who holds the target lock (LockInv), what is on record at   *)
(* each of its steps (HelperInv), and what that means for the dialog of    *)
(* the request (RequestInv).                                               *)
(***************************************************************************)
EXTENDS RootRestore, FiniteSetTheorems, TLAPS

\* The steps before a helper has an attempt, and after.
Before == {"none", "locking", "preflight", "origin", "begin"}
Looking == {"start_audit", "final_check", "stage", "recheck", "replace"}
Serving == {"validate", "service"}
Ending == {"postcheck", "finish_audit", "finish"}
Past == Looking \union Serving \union Ending
\* The dialogs before a review is saved.
Unsaved == {"inventory_new", "inventory_ready", "review_new", "review_ready"}

LockInv ==
    /\ \A h \in Helpers : pc[h] \in Working \ {"locking"} <=> h \in lock
    /\ \A a \in Applies : applying[a] \in {"locked", "captured"} <=> a \in lock
    /\ \A x, y \in lock : x = y

CommittedBy(r, h) ==
    /\ Req(h) = r /\ wrote[h] # NotYet /\ h \in validated /\ wrote[h] = review[r].backup

RequestInv(r) ==
    /\ ui[r] \in {"review_new", "review_ready"} => choice[r] \in Applies
    /\ ui[r] \in Unsaved => review[r].state # "saved"
    /\ ui[r] \in {"review_saved", "ready", "executing"} => review[r].state = "saved"
    /\ ui[r] \in Unsaved \union {"review_saved", "ready", "rejected"} => pc[<<r, 1>>] = "none"
    /\ r \notin attempts => events[r] = {} /\ results[r] = None
    /\ ui[r] \in {"committed", "was_committed"} => results[r] = "committed"
    /\ ui[r] \in {"failed", "was_failed"} => results[r] = "failed"
    /\ results[r] = "committed" => /\ events[r] = {"started", "finished"}
                                   /\ \E h \in Helpers : CommittedBy(r, h)

HelperInv(h) ==
    LET r == Req(h) IN
    /\ pc[h] # "none" => review[r].state = "saved"
    /\ pc[h] \in Before => verdict[h] = None
    /\ pc[h] \in Past => verdict[h] # None /\ results[r] = None
    /\ verdict[h] # None => r \in attempts
    /\ pc[h] = "start_audit" => events[r] = {}
    /\ pc[h] \in (Looking \ {"start_audit"}) \union Serving => events[r] = {"started"}
    /\ pc[h] \in Looking \union Serving => verdict[h] = "committed"
    /\ pc[h] \in Looking => wrote[h] = NotYet
    /\ pc[h] \in Serving => wrote[h] = review[r].backup
    /\ (pc[h] \in Ending /\ verdict[h] = "committed") =>
           /\ h \in validated /\ wrote[h] = review[r].backup
           /\ events[r] = IF pc[h] = "finish" THEN {"started", "finished"} ELSE {"started"}
    /\ pc[h] = "replace" => file = review[r].current \/ h \in raced
    /\ wrote[h] # NotYet => verdict[h] # None
    /\ told[h] \in States => results[r] = told[h]

OwnerInv == \A g, h \in Helpers :
    verdict[g] # None /\ verdict[h] # None /\ Req(g) = Req(h) => g = h

IInv == /\ TypeOK /\ LockInv /\ OwnerInv
        /\ \A r \in Requests : RequestInv(r)
        /\ \A h \in Helpers : HelperInv(h)

\* What a helper's identity says of its request.
LEMMA HelperFacts ==
    /\ \A h \in Helpers : Req(h) \in Requests
    /\ \A r \in Requests : <<r, 1>> \in Helpers /\ Req(<<r, 1>>) = r
    /\ \A r \in Requests : \A h \in Helpers : h[2] = 2 => h # <<r, 1>>
  BY RootConstantsAssumption DEF Helpers, Req

World == Setup \/ AdminEdit \/ AdminClears
Apply(a) == ApplyLock(a) \/ Capture(a) \/ ApplyReplace(a) \/ DamageOrigin(a)
Dialog(q) == \/ ListBackups(q) \/ Select(q) \/ Preview(q) \/ Approve(q) \/ Continue(q)
             \/ StartExecution(q) \/ ReceiveExecution(q) \/ CheckStatus(q) \/ CloseDialog(q)
             \/ Expire(q)
Execution(h) == StartByHand(h) \/ Execute(h) \/ Die(h)

\* Who takes a step.
LEMMA StepOf ==
    [Next]_vars <=> \/ World
                    \/ \E a \in Applies : Apply(a)
                    \/ \E q \in Requests : Dialog(q)
                    \/ \E h \in Helpers : Execution(h)
                    \/ UNCHANGED vars
  BY DEF Next, World, Apply, Dialog, Execution

----------------------------------------------------------------------------
(* What the steps that do more than move on change.                        *)

\* Before its review is saved a request has no helper at work.
LEMMA UnsavedIsIdle ==
    ASSUME IInv, NEW q \in Requests, ui[q] \in Unsaved, NEW h \in Helpers, Req(h) = q
    PROVE  pc[h] = "none"
  BY DEF IInv, RequestInv, HelperInv

\* An original that verifies is a selection of the right type.
LEMMA OriginTypes ==
    ASSUME IInv, NEW a \in Applies, Intact(a)
    PROVE  Selection(a) \in [state : {"seen"}, current : FileStates, backup : FileStates]
<1>1. origin[a] \in {NoOrigin, [state |-> "partial"], [state |-> "damaged"]} \union
                    [state : {"whole"}, original : FileStates]
  BY DEF IInv, TypeOK, ApplyTypes
<1>2. origin[a] \in [state : {"whole"}, original : FileStates]
  BY <1>1 DEF NoOrigin, Intact
<1> QED BY <1>2 DEF Selection, Observed, IInv, TypeOK, TargetTypes

\* A preview that succeeds shows a review; no helper works for the request yet.
LEMMA PreviewEffect ==
    ASSUME IInv, NEW q \in Requests, Preview(q)
    PROVE  /\ ui[q] = "review_new" /\ \A h \in Helpers : Req(h) = q => pc[h] = "none"
           /\ UNCHANGED <<target, applies, choice, expired, attempts, results, torn, audit, helpers,
                          history, count>>
           /\ choice[q] \in Applies
           /\ \/ Show(q, "review_failed") /\ UNCHANGED review
              \/ /\ Show(q, "review_ready")
                 /\ \E rv \in [state : {"seen"}, current : FileStates, backup : FileStates] :
                        review' = [review EXCEPT ![q] = rv]
<1>1. ui[q] = "review_new" /\ choice[q] \in Applies
  BY DEF Preview, IInv, RequestInv
<1>2. \A h \in Helpers : Req(h) = q => pc[h] = "none"
  BY <1>1, UnsavedIsIdle DEF Unsaved
<1>3. Selectable(choice[q]) =>
          Selection(choice[q]) \in [state : {"seen"}, current : FileStates, backup : FileStates]
  BY <1>1, OriginTypes DEF Selectable
<1> QED BY <1>1, <1>2, <1>3, Zenon DEF Preview

\* Saving a review changes its state and nothing else.
LEMMA SavesEffect ==
    ASSUME NEW q \in Requests, Saves(q), review = [r \in Requests |-> review[r]],
           review[q] \in [state : {"seen"}, current : FileStates, backup : FileStates]
    PROVE  \E rv \in [state : {"saved"}, current : FileStates, backup : FileStates] :
               review' = [review EXCEPT ![q] = rv]
<1>1. review[q] = [state |-> review[q].state, current |-> review[q].current,
                   backup |-> review[q].backup]
  OBVIOUS
<1>2. review' = [r \in Requests |-> IF r = q THEN [review[q] EXCEPT !.state = "saved"] ELSE review[r]]
  BY DEF Saves
<1>3. [review[q] EXCEPT !.state = "saved"] =
          [state |-> "saved", current |-> review[q].current, backup |-> review[q].backup]
  BY <1>1
<1>4. review' = [review EXCEPT ![q] = [review[q] EXCEPT !.state = "saved"]]
  BY <1>2
<1> QED BY <1>3, <1>4

\* An approval saves the review that was shown, or nothing.
LEMMA ApproveEffect ==
    ASSUME IInv, NEW q \in Requests, Approve(q)
    PROVE  /\ ui[q] = "review_ready" /\ \A h \in Helpers : Req(h) = q => pc[h] = "none"
           /\ UNCHANGED <<target, applies, choice, expired, attempts, results, audit, helpers,
                          history, count>>
           /\ choice[q] \in Applies /\ torn' \subseteq Requests
           /\ \/ Show(q, "review_failed") /\ UNCHANGED review
              \/ /\ Show(q, "review_saved") \/ Show(q, "review_failed")
                 /\ \E rv \in [state : {"saved"}, current : FileStates, backup : FileStates] :
                        review' = [review EXCEPT ![q] = rv]
<1>1. ui[q] = "review_ready" /\ choice[q] \in Applies
  BY DEF Approve, IInv, RequestInv
<1>2. \A h \in Helpers : Req(h) = q => pc[h] = "none"
  BY <1>1, UnsavedIsIdle DEF Unsaved
<1>3. ASSUME SameSelection(q), Saves(q)
      PROVE  \E rv \in [state : {"saved"}, current : FileStates, backup : FileStates] :
                 review' = [review EXCEPT ![q] = rv]
  <2>1. Intact(choice[q]) /\ review[q] = Selection(choice[q])
    BY <1>3 DEF SameSelection, Selectable
  <2>2. review[q] \in [state : {"seen"}, current : FileStates, backup : FileStates]
    BY <1>1, <2>1, OriginTypes
  <2>3. review = [r \in Requests |-> review[r]]
    BY DEF IInv, TypeOK, ReviewTypes
  <2> QED BY <1>3, <2>2, <2>3, SavesEffect
<1>4. torn' \subseteq Requests
  BY DEF Approve, PublishFails, IInv, TypeOK, RecordTypes
<1>5. /\ UNCHANGED <<target, applies, choice, expired, attempts, results, audit, helpers,
                     history, count>>
      /\ \/ Show(q, "review_failed") /\ UNCHANGED review
         \/ /\ Show(q, "review_saved") \/ Show(q, "review_failed")
            /\ SameSelection(q) /\ Saves(q)
  BY Zenon DEF Approve
<1> QED BY <1>1, <1>2, <1>3, <1>4, <1>5, Zenon

\* The dialog starts the first helper of its request, or is rejected.
LEMMA StartExecutionEffect ==
    ASSUME IInv, NEW q \in Requests, StartExecution(q)
    PROVE  \E k \in Helpers :
              /\ k = <<q, 1>> /\ Req(k) = q /\ pc[k] = "none" /\ ui[q] = "ready"
              /\ review[q].state = "saved" /\ \A r \in Requests \ {q} : <<r, 1>> # k
              /\ UNCHANGED <<target, applies, choice, expired, records, audit, verdict, dispatched,
                             told, history, count>>
              /\ \/ Show(q, "executing") /\ pc' = [pc EXCEPT ![k] = "locking"]
                 \/ Show(q, "rejected") /\ UNCHANGED pc
  BY HelperFacts DEF StartExecution, IInv, RequestInv, Unsaved

\* The dialog shows what the helper told, or that it is unconfirmed.
LEMMA ReceiveExecutionEffect ==
    ASSUME NEW q \in Requests, ReceiveExecution(q)
    PROVE  /\ ui[q] = "executing"
           /\ UNCHANGED <<target, applies, choice, expired, records, audit, helpers, history, count>>
           /\ \E s \in States \union {"unconfirmed"} :
                  Show(q, s) /\ (s # "unconfirmed" => told[<<q, 1>>] = s)
  BY DEF ReceiveExecution, Outcome, States

\* Begin uses the request up and takes its verdict, or exits.
LEMMA BeginEffect ==
    ASSUME IInv, NEW h \in Helpers, Begin(h)
    PROVE  /\ pc[h] = "begin" /\ torn' \subseteq Requests /\ verdict[h] = None
           /\ UNCHANGED <<file, served, staging, applies, choice, expired, review, results, audit, ui,
                          dispatched, history, count>>
           /\ attempts \subseteq attempts' /\ attempts' \subseteq attempts \union {Req(h)}
           /\ \/ /\ Req(h) \notin attempts /\ Req(h) \in attempts'
                 /\ events[Req(h)] = {} /\ results[Req(h)] = None
                 /\ \A g \in Helpers : Req(g) = Req(h) => verdict[g] = None
                 /\ pc' = [pc EXCEPT ![h] = "start_audit"]
                 /\ verdict' = [verdict EXCEPT ![h] = "committed"] /\ UNCHANGED <<told, lock>>
              \/ /\ pc' = [pc EXCEPT ![h] = "exited"] /\ UNCHANGED verdict
                 /\ told' = [told EXCEPT ![h] = "error"] /\ lock' = lock \ {h}
<1>1. /\ pc[h] = "begin" /\ torn' \subseteq Requests
      /\ attempts \subseteq attempts' /\ attempts' \subseteq attempts \union {Req(h)}
      /\ UNCHANGED <<file, served, staging, applies, choice, expired, review, results, audit, ui,
                     dispatched, history, count>>
      /\ \/ /\ Req(h) \notin attempts /\ Req(h) \in attempts'
            /\ pc' = [pc EXCEPT ![h] = "start_audit"]
            /\ verdict' = [verdict EXCEPT ![h] = "committed"] /\ UNCHANGED <<told, lock>>
         \/ /\ pc' = [pc EXCEPT ![h] = "exited"] /\ UNCHANGED verdict
            /\ told' = [told EXCEPT ![h] = "error"] /\ lock' = lock \ {h}
  BY HelperFacts DEF Begin, Unused, At, Goto, Reject, Exit, IInv, TypeOK, RecordTypes
<1>2. verdict[h] = None
  BY <1>1 DEF IInv, HelperInv, Before
<1>3. Req(h) \notin attempts => /\ events[Req(h)] = {} /\ results[Req(h)] = None
                                /\ \A g \in Helpers : Req(g) = Req(h) => verdict[g] = None
  BY HelperFacts DEF IInv, RequestInv, HelperInv
<1> QED BY <1>1, <1>2, <1>3

\* At its work a helper is the only one that ever used up its request.
LEMMA OnlyOwner ==
    ASSUME IInv, NEW h \in Helpers, pc[h] \in Past
    PROVE  /\ verdict[h] # None /\ results[Req(h)] = None /\ Req(h) \in attempts
           /\ \A g \in Helpers \ {h} : Req(g) = Req(h) =>
                  verdict[g] = None /\ pc[g] \notin Past /\ told[g] \notin States
<1>1. verdict[h] # None /\ results[Req(h)] = None /\ Req(h) \in attempts
  BY DEF IInv, HelperInv
<1>2. ASSUME NEW g \in Helpers \ {h}, Req(g) = Req(h)
      PROVE  verdict[g] = None /\ pc[g] \notin Past /\ told[g] \notin States
  <2>1. verdict[g] = None
    BY <1>1, <1>2 DEF IInv, OwnerInv
  <2> QED BY <1>1, <1>2, <2>1 DEF IInv, HelperInv, States, None
<1> QED BY <1>1, <1>2

\* The first event of a request, by the only helper that used it up.
LEMMA AuditStartedEffect ==
    ASSUME IInv, NEW h \in Helpers, AuditStarted(h)
    PROVE  /\ pc[h] = "start_audit" /\ chain' \in {"whole", "broken"}
           /\ UNCHANGED <<file, served, staging, lock, applies, choice, expired, records, dispatched,
                          told, ui, history, count>>
           /\ events[Req(h)] = {}
           /\ \/ /\ pc' = [pc EXCEPT ![h] = "final_check"] /\ UNCHANGED verdict
                 /\ events' = [events EXCEPT ![Req(h)] = {"started"}]
              \/ /\ pc' = [pc EXCEPT ![h] = "finish_audit"] /\ UNCHANGED events
                 /\ \E v \in {"failed", "unknown"} : verdict' = [verdict EXCEPT ![h] = v]
           /\ \A g \in Helpers \ {h} : Req(g) = Req(h) => verdict[g] = None /\ pc[g] \notin Past
<1>1. pc[h] = "start_audit"
  BY DEF AuditStarted, At
<1>2. events[Req(h)] = {} /\ events \in [Requests -> SUBSET {"started", "finished"}]
      /\ chain \in {"whole", "broken"}
  BY <1>1 DEF IInv, HelperInv, TypeOK, RecordTypes
<1>3. \A g \in Helpers \ {h} : Req(g) = Req(h) => verdict[g] = None /\ pc[g] \notin Past
  BY <1>1, OnlyOwner DEF Past, Looking
<1> QED BY <1>1, <1>2, <1>3, HelperFacts
        DEF AuditStarted, Appends, AppendRaises, Follows, Proceed, Fail, Goto, Worst

\* Staging touches the pending file only.
LEMMA StageEffect ==
    ASSUME NEW h \in Helpers, Stage(h)
    PROVE  /\ pc[h] = "stage" /\ staging' \in BOOLEAN
           /\ UNCHANGED <<file, served, lock, applies, choice, expired, records, audit, dispatched,
                          told, ui, history, count>>
           /\ \/ pc' = [pc EXCEPT ![h] = "recheck"] /\ UNCHANGED verdict
              \/ /\ pc' = [pc EXCEPT ![h] = "finish_audit"]
                 /\ \E v \in {"failed", "unknown"} : verdict' = [verdict EXCEPT ![h] = v]
<1>1. staging' \in BOOLEAN
  BY Zenon DEF Stage
<1>2. /\ pc[h] = "stage" /\ (Proceed(h, "recheck") \/ Fail(h))
      /\ UNCHANGED <<file, served, applies, choice, expired, records, audit, ui, history, count>>
  BY Zenon DEF Stage, At
<1> QED BY <1>1, <1>2 DEF Proceed, Fail, Goto, Worst

\* The replacement writes the reviewed backup, or nothing, inside the lock.
LEMMA ReplaceEffect ==
    ASSUME IInv, NEW h \in Helpers, Replace(h)
    PROVE  /\ pc[h] = "replace" /\ staging' \in BOOLEAN /\ review[Req(h)].backup \in FileStates
           /\ UNCHANGED <<served, lock, applies, choice, expired, records, audit, dispatched, told,
                          ui, raced, validated, count>>
           /\ \A g \in Helpers \ {h} : pc[g] # "replace"
           /\ \/ /\ file' = review[Req(h)].backup
                 /\ wrote' = [wrote EXCEPT ![h] = review[Req(h)].backup]
              \/ UNCHANGED <<file, wrote>>
           /\ \/ /\ pc' = [pc EXCEPT ![h] = "validate"] /\ UNCHANGED verdict
                 /\ wrote' = [wrote EXCEPT ![h] = review[Req(h)].backup]
              \/ /\ pc' = [pc EXCEPT ![h] = "finish_audit"]
                 /\ \E v \in {"failed", "unknown"} : verdict' = [verdict EXCEPT ![h] = v]
<1>1. /\ pc[h] = "replace"
      /\ staging' \in BOOLEAN
      /\ UNCHANGED <<served, applies, choice, expired, records, audit, ui, raced, validated, count>>
      /\ \/ /\ file' = review[Req(h)].backup
            /\ wrote' = [wrote EXCEPT ![h] = review[Req(h)].backup]
            /\ Proceed(h, "validate") \/ Fail(h)
         \/ UNCHANGED <<file, wrote>> /\ Fail(h)
  BY DEF Replace, Put, At, IInv, TypeOK, TargetTypes
<1>2. review[Req(h)].backup \in FileStates
  BY <1>1, HelperFacts DEF IInv, HelperInv, TypeOK, ReviewTypes, NoReview
<1>3. \A g \in Helpers \ {h} : pc[g] # "replace"
  BY <1>1 DEF IInv, LockInv, Working
<1> QED BY <1>1, <1>2, <1>3 DEF Proceed, Fail, Goto, Worst

\* A service that is not accepted costs the helper its verdict.
LEMMA ServiceEffect ==
    ASSUME IInv, NEW h \in Helpers, Service(h)
    PROVE  /\ pc[h] = "service" /\ served' \in FileStates
           /\ UNCHANGED <<file, staging, lock, applies, choice, expired, records, audit, dispatched,
                          told, ui, wrote, raced, count>>
           /\ validated \subseteq validated' /\ validated' \subseteq validated \union {h}
           /\ \/ /\ h \in validated' /\ pc' = [pc EXCEPT ![h] = "postcheck"] /\ UNCHANGED verdict
              \/ /\ \/ pc' = [pc EXCEPT ![h] = "postcheck"]
                    \/ pc' = [pc EXCEPT ![h] = "finish_audit"]
                 /\ \E v \in {"failed", "unknown"} : verdict' = [verdict EXCEPT ![h] = v]
  BY DEF Service, At, Proceed, Fail, Goto, Worst, IInv, TypeOK, TargetTypes

\* The second event of a request follows the first, or the verdict is lost.
LEMMA AuditFinishedEffect ==
    ASSUME IInv, NEW h \in Helpers, AuditFinished(h)
    PROVE  /\ pc[h] = "finish_audit" /\ pc' = [pc EXCEPT ![h] = "finish"]
           /\ chain' \in {"whole", "broken"}
           /\ UNCHANGED <<file, served, staging, lock, applies, choice, expired, records, dispatched,
                          told, ui, history, count>>
           /\ \/ /\ events[Req(h)] = {"started"} /\ UNCHANGED verdict
                 /\ events' = [events EXCEPT ![Req(h)] = {"started", "finished"}]
              \/ /\ UNCHANGED events
                 /\ \E v \in {"failed", "unknown"} : verdict' = [verdict EXCEPT ![h] = v]
           /\ \A g \in Helpers \ {h} : Req(g) = Req(h) => verdict[g] = None /\ pc[g] \notin Past
<1>1. pc[h] = "finish_audit"
  BY DEF AuditFinished, At
<1>2. events \in [Requests -> SUBSET {"started", "finished"}] /\ chain \in {"whole", "broken"}
  BY DEF IInv, TypeOK, RecordTypes
<1>3. \A g \in Helpers \ {h} : Req(g) = Req(h) => verdict[g] = None /\ pc[g] \notin Past
  BY <1>1, OnlyOwner DEF Past, Ending
<1> QED BY <1>1, <1>2, <1>3, HelperFacts
        DEF AuditFinished, Appends, AppendRaises, Follows, Proceed, Goto, Worst

\* The verdict of the owner becomes the result, once.
LEMMA FinishEffect ==
    ASSUME IInv, NEW h \in Helpers, Finish(h)
    PROVE  /\ pc[h] = "finish" /\ pc' = [pc EXCEPT ![h] = "exited"] /\ lock' = lock \ {h}
           /\ torn' \subseteq Requests
           /\ UNCHANGED <<file, served, staging, applies, choice, expired, review, attempts, audit,
                          verdict, dispatched, ui, history, count>>
           /\ results[Req(h)] = None /\ verdict[h] \in States /\ Req(h) \in attempts
           /\ \/ /\ results' = [results EXCEPT ![Req(h)] = verdict[h]]
                 /\ \/ told' = [told EXCEPT ![h] = verdict[h]]
                    \/ told' = [told EXCEPT ![h] = "unconfirmed"]
              \/ UNCHANGED results /\ told' = [told EXCEPT ![h] = "unconfirmed"]
           /\ \A g \in Helpers \ {h} : Req(g) = Req(h) =>
                  verdict[g] = None /\ pc[g] \notin Past /\ told[g] \notin States
<1>1. pc[h] = "finish"
  BY DEF Finish, At
<1>2. results[Req(h)] = None /\ verdict[h] \in States /\ Req(h) \in attempts
  BY <1>1, OnlyOwner DEF Past, Ending, IInv, TypeOK, HelperTypes
<1>3. \A g \in Helpers \ {h} : Req(g) = Req(h) =>
          verdict[g] = None /\ pc[g] \notin Past /\ told[g] \notin States
  BY <1>1, OnlyOwner DEF Past, Ending
<1>4. torn' \subseteq Requests
  BY HelperFacts DEF Finish, PublishFails, IInv, TypeOK, RecordTypes
<1> QED BY <1>1, <1>2, <1>3, <1>4 DEF Finish, At, Goto, Exit

----------------------------------------------------------------------------
(* The invariant, part by part.                                            *)

\* Types are kept.
LEMMA TypesKept == ASSUME IInv, [Next]_vars PROVE TypeOK'
<1> USE RootConstantsAssumption, HelperFacts
<1> USE DEF IInv, TypeOK, TargetTypes, ApplyTypes, ReviewTypes, RecordTypes, HelperTypes,
    HistoryTypes
<1> USE DEF Before, Looking, Serving, Ending, Past, Unsaved, FileStates, States, Working,
    DialogStates, None
<1> USE DEF target, applies, records, audit, helpers, history
<1> USE DEF Show, At, Goto, Exit, Reject, Fail, Proceed, Happens, Observed
<1>1. ASSUME World
      PROVE  TypeOK'
  <2>1. CASE Setup BY <2>1 DEF Setup, ProvisionKey
  <2>2. CASE AdminEdit BY <2>2 DEF AdminEdit, Overtaken
  <2>3. CASE AdminClears BY <2>3 DEF AdminClears
  <2> QED BY <1>1, <2>1, <2>2, <2>3 DEF World
<1>2. ASSUME NEW a \in Applies, Apply(a)
      PROVE  TypeOK'
  <2>1. CASE ApplyLock(a) BY <2>1 DEF ApplyLock, CanLock
  <2>2. CASE Capture(a)
    <3>1. TargetTypes' BY <2>2 DEF Capture, ApplyEnds, KeyAvailable, OriginRecord
    <3>2. ApplyTypes' BY <2>2 DEF Capture, ApplyEnds, KeyAvailable, OriginRecord
    <3>3. ReviewTypes' BY <2>2 DEF Capture, ApplyEnds, KeyAvailable, OriginRecord
    <3>4. RecordTypes' BY <2>2 DEF Capture, ApplyEnds, KeyAvailable, OriginRecord
    <3>5. HelperTypes' BY <2>2 DEF Capture, ApplyEnds, KeyAvailable, OriginRecord
    <3>6. HistoryTypes' BY <2>2 DEF Capture, ApplyEnds, KeyAvailable, OriginRecord
    <3> QED BY <3>1, <3>2, <3>3, <3>4, <3>5, <3>6
  <2>3. CASE ApplyReplace(a)
    <3>1. TargetTypes' BY <2>3 DEF ApplyReplace, ApplyEnds
    <3>2. ApplyTypes' BY <2>3 DEF ApplyReplace, ApplyEnds
    <3>3. ReviewTypes' BY <2>3 DEF ApplyReplace, ApplyEnds
    <3>4. RecordTypes' BY <2>3 DEF ApplyReplace, ApplyEnds
    <3>5. HelperTypes' BY <2>3 DEF ApplyReplace, ApplyEnds
    <3>6. HistoryTypes' BY <2>3 DEF ApplyReplace, ApplyEnds
    <3> QED BY <3>1, <3>2, <3>3, <3>4, <3>5, <3>6
  <2>4. CASE DamageOrigin(a) BY <2>4 DEF DamageOrigin, Intact
  <2> QED BY <1>2, <2>1, <2>2, <2>3, <2>4 DEF Apply
<1>3. ASSUME NEW q \in Requests, Dialog(q)
      PROVE  TypeOK'
  <2>1. CASE ListBackups(q) BY <2>1 DEF ListBackups
  <2>2. CASE Select(q) BY <2>2 DEF Select
  <2>3. CASE Preview(q)
    <3>1. TargetTypes' BY <2>3, PreviewEffect
    <3>2. ApplyTypes' BY <2>3, PreviewEffect
    <3>3. ReviewTypes'
      <4>1. UNCHANGED choice /\ (Show(q, "review_failed") \/ Show(q, "review_ready"))
        BY <2>3, PreviewEffect
      <4>3. ui' \in [Requests -> DialogStates]
        BY <4>1
      <4>2. review' \in [Requests -> {NoReview} \union
                [state : {"seen", "saved"}, current : FileStates, backup : FileStates]]
        BY <2>3, PreviewEffect
      <4> QED BY <4>1, <4>2, <4>3
    <3>4. RecordTypes' BY <2>3, PreviewEffect
    <3>5. HelperTypes' BY <2>3, PreviewEffect
    <3>6. HistoryTypes' BY <2>3, PreviewEffect
    <3> QED BY <3>1, <3>2, <3>3, <3>4, <3>5, <3>6
  <2>4. CASE Approve(q)
    <3>1. TargetTypes' BY <2>4, ApproveEffect
    <3>2. ApplyTypes' BY <2>4, ApproveEffect
    <3>3. ReviewTypes'
      <4>1. UNCHANGED choice /\ (Show(q, "review_failed") \/ Show(q, "review_saved"))
        BY <2>4, ApproveEffect
      <4>3. ui' \in [Requests -> DialogStates]
        BY <4>1
      <4>2. review' \in [Requests -> {NoReview} \union
                [state : {"seen", "saved"}, current : FileStates, backup : FileStates]]
        BY <2>4, ApproveEffect
      <4> QED BY <4>1, <4>2, <4>3
    <3>4. RecordTypes' BY <2>4, ApproveEffect
    <3>5. HelperTypes' BY <2>4, ApproveEffect
    <3>6. HistoryTypes' BY <2>4, ApproveEffect
    <3> QED BY <3>1, <3>2, <3>3, <3>4, <3>5, <3>6
  <2>5. CASE Continue(q) BY <2>5 DEF Continue
  <2>6. CASE StartExecution(q)
    <3>1. TargetTypes' BY <2>6, StartExecutionEffect
    <3>2. ApplyTypes' BY <2>6, StartExecutionEffect
    <3>3. ReviewTypes' BY <2>6, StartExecutionEffect
    <3>4. RecordTypes' BY <2>6, StartExecutionEffect
    <3>5. HelperTypes' BY <2>6, StartExecutionEffect
    <3>6. HistoryTypes' BY <2>6, StartExecutionEffect
    <3> QED BY <3>1, <3>2, <3>3, <3>4, <3>5, <3>6
  <2>7. CASE ReceiveExecution(q)
    <3>1. PICK s \in States \union {"unconfirmed"} :
              Show(q, s) /\ (s # "unconfirmed" => told[<<q, 1>>] = s)
      BY <2>7, ReceiveExecutionEffect
    <3>2. /\ ui[q] = "executing" /\ s \in DialogStates
          /\ UNCHANGED <<target, applies, choice, expired, records, audit, helpers, history, count>>
      BY <2>7, ReceiveExecutionEffect
    <3> QED BY <3>1, <3>2
  <2>8. CASE CheckStatus(q)
    BY <2>8 DEF CheckStatus, Reconciles, StoredReview, HistoryOf, ShownHistory
  <2>9. CASE CloseDialog(q) BY <2>9 DEF CloseDialog
  <2>10. CASE Expire(q) BY <2>10 DEF Expire
  <2> QED BY <1>3, <2>1, <2>2, <2>3, <2>4, <2>5, <2>6, <2>7, <2>8, <2>9, <2>10 DEF Dialog
<1>4. ASSUME NEW h \in Helpers, Execution(h)
      PROVE  TypeOK'
  <2>1. CASE StartByHand(h) BY <2>1 DEF StartByHand
  <2>2. CASE LockTarget(h)
    <3>1. TargetTypes' BY <2>2 DEF LockTarget, CanLock
    <3>2. ApplyTypes' BY <2>2 DEF LockTarget, CanLock
    <3>3. ReviewTypes' BY <2>2 DEF LockTarget, CanLock
    <3>4. RecordTypes' BY <2>2 DEF LockTarget, CanLock
    <3>5. HelperTypes'
      <4>1. /\ \/ pc' = [pc EXCEPT ![h] = "preflight"] /\ UNCHANGED told
               \/ pc' = [pc EXCEPT ![h] = "exited"] /\ told' = [told EXCEPT ![h] = "error"]
            /\ UNCHANGED <<verdict, dispatched>>
        BY <2>2 DEF LockTarget
      <4> QED BY <4>1
    <3>6. HistoryTypes' BY <2>2 DEF LockTarget, CanLock
    <3> QED BY <3>1, <3>2, <3>3, <3>4, <3>5, <3>6
  <2>3. CASE Preflight(h) BY <2>3 DEF Preflight
  <2>4. CASE ReadOrigin(h) BY <2>4 DEF ReadOrigin
  <2>5. CASE Begin(h)
    <3>1. TargetTypes' BY <2>5, BeginEffect
    <3>2. ApplyTypes' BY <2>5, BeginEffect
    <3>3. ReviewTypes' BY <2>5, BeginEffect
    <3>4. RecordTypes' BY <2>5, BeginEffect
    <3>5. HelperTypes'
      <4>1. pc' \in [Helpers -> Working \union {"none", "exited", "dead"}] BY <2>5, BeginEffect
      <4>2. verdict' \in [Helpers -> States \union {None}] BY <2>5, BeginEffect
      <4>3. /\ dispatched' \subseteq Helpers
            /\ told' \in [Helpers -> States \union {None, "error", "unconfirmed"}]
        BY <2>5, BeginEffect
      <4> QED BY <4>1, <4>2, <4>3
    <3>6. HistoryTypes' BY <2>5, BeginEffect
    <3> QED BY <3>1, <3>2, <3>3, <3>4, <3>5, <3>6
  <2>6. CASE AuditStarted(h)
    <3>1. TargetTypes' BY <2>6, AuditStartedEffect
    <3>2. ApplyTypes' BY <2>6, AuditStartedEffect
    <3>3. ReviewTypes' BY <2>6, AuditStartedEffect
    <3>4. RecordTypes' BY <2>6, AuditStartedEffect
    <3>5. HelperTypes'
      <4>1. pc' \in [Helpers -> Working \union {"none", "exited", "dead"}] BY <2>6, AuditStartedEffect
      <4>2. verdict' \in [Helpers -> States \union {None}] BY <2>6, AuditStartedEffect
      <4>3. /\ dispatched' \subseteq Helpers
            /\ told' \in [Helpers -> States \union {None, "error", "unconfirmed"}]
        BY <2>6, AuditStartedEffect
      <4> QED BY <4>1, <4>2, <4>3
    <3>6. HistoryTypes' BY <2>6, AuditStartedEffect
    <3> QED BY <3>1, <3>2, <3>3, <3>4, <3>5, <3>6
  <2>7. CASE FinalCheck(h) BY <2>7 DEF FinalCheck, Worst
  <2>8. CASE Stage(h)
    <3>1. TargetTypes' BY <2>8, StageEffect
    <3>2. ApplyTypes' BY <2>8, StageEffect
    <3>3. ReviewTypes' BY <2>8, StageEffect
    <3>4. RecordTypes' BY <2>8, StageEffect
    <3>5. HelperTypes'
      <4>1. pc' \in [Helpers -> Working \union {"none", "exited", "dead"}] BY <2>8, StageEffect
      <4>2. verdict' \in [Helpers -> States \union {None}] BY <2>8, StageEffect
      <4>3. /\ dispatched' \subseteq Helpers
            /\ told' \in [Helpers -> States \union {None, "error", "unconfirmed"}]
        BY <2>8, StageEffect
      <4> QED BY <4>1, <4>2, <4>3
    <3>6. HistoryTypes' BY <2>8, StageEffect
    <3> QED BY <3>1, <3>2, <3>3, <3>4, <3>5, <3>6
  <2>9. CASE Recheck(h) BY <2>9 DEF Recheck, Worst
  <2>10. CASE Replace(h)
    <3>1. TargetTypes' BY <2>10, ReplaceEffect
    <3>2. ApplyTypes' BY <2>10, ReplaceEffect
    <3>3. ReviewTypes' BY <2>10, ReplaceEffect
    <3>4. RecordTypes' BY <2>10, ReplaceEffect
    <3>5. HelperTypes'
      <4>1. pc' \in [Helpers -> Working \union {"none", "exited", "dead"}] BY <2>10, ReplaceEffect
      <4>2. verdict' \in [Helpers -> States \union {None}] BY <2>10, ReplaceEffect
      <4>3. /\ dispatched' \subseteq Helpers
            /\ told' \in [Helpers -> States \union {None, "error", "unconfirmed"}]
        BY <2>10, ReplaceEffect
      <4> QED BY <4>1, <4>2, <4>3
    <3>6. HistoryTypes' BY <2>10, ReplaceEffect
    <3> QED BY <3>1, <3>2, <3>3, <3>4, <3>5, <3>6
  <2>11. CASE Validate(h) BY <2>11 DEF Validate, Worst
  <2>12. CASE Service(h)
    <3>1. TargetTypes' BY <2>12, ServiceEffect
    <3>2. ApplyTypes' BY <2>12, ServiceEffect
    <3>3. ReviewTypes' BY <2>12, ServiceEffect
    <3>4. RecordTypes' BY <2>12, ServiceEffect
    <3>5. HelperTypes'
      <4>1. pc' \in [Helpers -> Working \union {"none", "exited", "dead"}] BY <2>12, ServiceEffect, SMTT(30)
      <4>2. verdict' \in [Helpers -> States \union {None}] BY <2>12, ServiceEffect
      <4>3. /\ dispatched' \subseteq Helpers
            /\ told' \in [Helpers -> States \union {None, "error", "unconfirmed"}]
        BY <2>12, ServiceEffect
      <4> QED BY <4>1, <4>2, <4>3
    <3>6. HistoryTypes' BY <2>12, ServiceEffect
    <3> QED BY <3>1, <3>2, <3>3, <3>4, <3>5, <3>6
  <2>13. CASE Postcheck(h) BY <2>13 DEF Postcheck, Worst, IsRestored
  <2>14. CASE AuditFinished(h)
    <3>1. TargetTypes' BY <2>14, AuditFinishedEffect
    <3>2. ApplyTypes' BY <2>14, AuditFinishedEffect
    <3>3. ReviewTypes' BY <2>14, AuditFinishedEffect
    <3>4. RecordTypes' BY <2>14, AuditFinishedEffect
    <3>5. HelperTypes'
      <4>1. pc' \in [Helpers -> Working \union {"none", "exited", "dead"}] BY <2>14, AuditFinishedEffect
      <4>2. verdict' \in [Helpers -> States \union {None}] BY <2>14, AuditFinishedEffect
      <4>3. /\ dispatched' \subseteq Helpers
            /\ told' \in [Helpers -> States \union {None, "error", "unconfirmed"}]
        BY <2>14, AuditFinishedEffect
      <4> QED BY <4>1, <4>2, <4>3
    <3>6. HistoryTypes' BY <2>14, AuditFinishedEffect
    <3> QED BY <3>1, <3>2, <3>3, <3>4, <3>5, <3>6
  <2>15. CASE Finish(h)
    <3>1. TargetTypes' BY <2>15, FinishEffect
    <3>2. ApplyTypes' BY <2>15, FinishEffect
    <3>3. ReviewTypes' BY <2>15, FinishEffect
    <3>4. RecordTypes' BY <2>15, FinishEffect
    <3>5. HelperTypes'
      <4>1. pc' \in [Helpers -> Working \union {"none", "exited", "dead"}] BY <2>15, FinishEffect
      <4>2. verdict' \in [Helpers -> States \union {None}] BY <2>15, FinishEffect
      <4>3. /\ dispatched' \subseteq Helpers
            /\ told' \in [Helpers -> States \union {None, "error", "unconfirmed"}]
        BY <2>15, FinishEffect
      <4> QED BY <4>1, <4>2, <4>3
    <3>6. HistoryTypes' BY <2>15, FinishEffect
    <3> QED BY <3>1, <3>2, <3>3, <3>4, <3>5, <3>6
  <2>16. CASE Die(h) BY <2>16 DEF Die
  <2> QED BY <1>4, <2>1, <2>2, <2>3, <2>4, <2>5, <2>6, <2>7, <2>8, <2>9, <2>10, <2>11, <2>12,
     <2>13, <2>14, <2>15, <2>16 DEF Execution, Execute
<1>5. CASE UNCHANGED vars BY <1>5 DEF vars
<1> QED BY <1>1, <1>2, <1>3, <1>4, <1>5, StepOf

\* The target lock has one holder, and only who works holds it.
LEMMA LockKept == ASSUME IInv, [Next]_vars PROVE LockInv'
<1> USE RootConstantsAssumption, HelperFacts
<1> USE DEF IInv, TypeOK, TargetTypes, ApplyTypes, HelperTypes, LockInv
<1> USE DEF Before, Looking, Serving, Ending, Past, Unsaved, FileStates, States, Working,
    DialogStates, None
<1> USE DEF target, applies, records, audit, helpers, history
<1> USE DEF Show, At, Goto, Exit, Reject, Fail, Proceed, Happens, Observed
<1>1. ASSUME World
      PROVE  LockInv'
  <2>1. CASE Setup BY <2>1 DEF Setup, ProvisionKey
  <2>2. CASE AdminEdit BY <2>2 DEF AdminEdit, Overtaken
  <2>3. CASE AdminClears BY <2>3 DEF AdminClears
  <2> QED BY <1>1, <2>1, <2>2, <2>3 DEF World
<1>2. ASSUME NEW a \in Applies, Apply(a)
      PROVE  LockInv'
  <2>1. CASE ApplyLock(a) BY <2>1 DEF ApplyLock, CanLock
  <2>2. CASE Capture(a) BY <2>2 DEF Capture, ApplyEnds, KeyAvailable, OriginRecord
  <2>3. CASE ApplyReplace(a) BY <2>3 DEF ApplyReplace, ApplyEnds
  <2>4. CASE DamageOrigin(a) BY <2>4 DEF DamageOrigin, Intact
  <2> QED BY <1>2, <2>1, <2>2, <2>3, <2>4 DEF Apply
<1>3. ASSUME NEW q \in Requests, Dialog(q)
      PROVE  LockInv'
  <2>1. CASE ListBackups(q) BY <2>1 DEF ListBackups
  <2>2. CASE Select(q) BY <2>2 DEF Select
  <2>3. CASE Preview(q) BY <2>3, PreviewEffect
  <2>4. CASE Approve(q) BY <2>4, ApproveEffect
  <2>5. CASE Continue(q) BY <2>5 DEF Continue
  <2>6. CASE StartExecution(q) BY <2>6, StartExecutionEffect
  <2>7. CASE ReceiveExecution(q) BY <2>7, ReceiveExecutionEffect
  <2>8. CASE CheckStatus(q)
    BY <2>8 DEF CheckStatus, Reconciles, StoredReview, HistoryOf, ShownHistory
  <2>9. CASE CloseDialog(q) BY <2>9 DEF CloseDialog
  <2>10. CASE Expire(q) BY <2>10 DEF Expire
  <2> QED BY <1>3, <2>1, <2>2, <2>3, <2>4, <2>5, <2>6, <2>7, <2>8, <2>9, <2>10 DEF Dialog
<1>4. ASSUME NEW h \in Helpers, Execution(h)
      PROVE  LockInv'
  <2>1. CASE StartByHand(h) BY <2>1 DEF StartByHand
  <2>2. CASE LockTarget(h) BY <2>2 DEF LockTarget, CanLock
  <2>3. CASE Preflight(h) BY <2>3 DEF Preflight
  <2>4. CASE ReadOrigin(h) BY <2>4 DEF ReadOrigin
  <2>5. CASE Begin(h) BY <2>5, BeginEffect
  <2>6. CASE AuditStarted(h) BY <2>6, AuditStartedEffect
  <2>7. CASE FinalCheck(h) BY <2>7 DEF FinalCheck, Worst
  <2>8. CASE Stage(h) BY <2>8, StageEffect
  <2>9. CASE Recheck(h) BY <2>9 DEF Recheck, Worst
  <2>10. CASE Replace(h) BY <2>10, ReplaceEffect
  <2>11. CASE Validate(h) BY <2>11 DEF Validate, Worst
  <2>12. CASE Service(h) BY <2>12, ServiceEffect
  <2>13. CASE Postcheck(h) BY <2>13 DEF Postcheck, Worst, IsRestored
  <2>14. CASE AuditFinished(h) BY <2>14, AuditFinishedEffect
  <2>15. CASE Finish(h) BY <2>15, FinishEffect
  <2>16. CASE Die(h) BY <2>16 DEF Die
  <2> QED BY <1>4, <2>1, <2>2, <2>3, <2>4, <2>5, <2>6, <2>7, <2>8, <2>9, <2>10, <2>11, <2>12,
     <2>13, <2>14, <2>15, <2>16 DEF Execution, Execute
<1>5. CASE UNCHANGED vars BY <1>5 DEF vars
<1> QED BY <1>1, <1>2, <1>3, <1>4, <1>5, StepOf

\* A request is used up by one helper only.
LEMMA OwnerKept == ASSUME IInv, [Next]_vars PROVE OwnerInv'
<1> USE RootConstantsAssumption, HelperFacts
<1> USE DEF IInv, TypeOK, HelperTypes, OwnerInv
<1> USE DEF Before, Looking, Serving, Ending, Past, Unsaved, FileStates, States, Working,
    DialogStates, None
<1> USE DEF target, applies, records, audit, helpers, history
<1> USE DEF Show, At, Goto, Exit, Reject, Fail, Proceed, Happens, Observed
<1>1. ASSUME World
      PROVE  OwnerInv'
  <2>1. CASE Setup BY <2>1 DEF Setup, ProvisionKey
  <2>2. CASE AdminEdit BY <2>2 DEF AdminEdit, Overtaken
  <2>3. CASE AdminClears BY <2>3 DEF AdminClears
  <2> QED BY <1>1, <2>1, <2>2, <2>3 DEF World
<1>2. ASSUME NEW a \in Applies, Apply(a)
      PROVE  OwnerInv'
  <2>1. CASE ApplyLock(a) BY <2>1 DEF ApplyLock, CanLock
  <2>2. CASE Capture(a) BY <2>2 DEF Capture, ApplyEnds, KeyAvailable, OriginRecord
  <2>3. CASE ApplyReplace(a) BY <2>3 DEF ApplyReplace, ApplyEnds
  <2>4. CASE DamageOrigin(a) BY <2>4 DEF DamageOrigin, Intact
  <2> QED BY <1>2, <2>1, <2>2, <2>3, <2>4 DEF Apply
<1>3. ASSUME NEW q \in Requests, Dialog(q)
      PROVE  OwnerInv'
  <2>1. CASE ListBackups(q) BY <2>1 DEF ListBackups
  <2>2. CASE Select(q) BY <2>2 DEF Select
  <2>3. CASE Preview(q) BY <2>3, PreviewEffect
  <2>4. CASE Approve(q) BY <2>4, ApproveEffect
  <2>5. CASE Continue(q) BY <2>5 DEF Continue
  <2>6. CASE StartExecution(q) BY <2>6, StartExecutionEffect
  <2>7. CASE ReceiveExecution(q) BY <2>7, ReceiveExecutionEffect
  <2>8. CASE CheckStatus(q)
    BY <2>8 DEF CheckStatus, Reconciles, StoredReview, HistoryOf, ShownHistory
  <2>9. CASE CloseDialog(q) BY <2>9 DEF CloseDialog
  <2>10. CASE Expire(q) BY <2>10 DEF Expire
  <2> QED BY <1>3, <2>1, <2>2, <2>3, <2>4, <2>5, <2>6, <2>7, <2>8, <2>9, <2>10 DEF Dialog
<1>4. ASSUME NEW h \in Helpers, Execution(h)
      PROVE  OwnerInv'
  <2>1. CASE StartByHand(h) BY <2>1 DEF StartByHand
  <2>2. CASE LockTarget(h) BY <2>2 DEF LockTarget, CanLock
  <2>3. CASE Preflight(h) BY <2>3 DEF Preflight
  <2>4. CASE ReadOrigin(h) BY <2>4 DEF ReadOrigin
  <2>5. CASE Begin(h) BY <2>5, BeginEffect
  <2>6. CASE AuditStarted(h)
    BY <2>6, OnlyOwner, AuditStartedEffect
  <2>7. CASE FinalCheck(h)
    BY <2>7, OnlyOwner DEF FinalCheck, Worst
  <2>8. CASE Stage(h)
    BY <2>8, OnlyOwner, StageEffect
  <2>9. CASE Recheck(h)
    BY <2>9, OnlyOwner DEF Recheck, Worst
  <2>10. CASE Replace(h)
    BY <2>10, OnlyOwner, ReplaceEffect
  <2>11. CASE Validate(h)
    BY <2>11, OnlyOwner DEF Validate, Worst
  <2>12. CASE Service(h)
    BY <2>12, OnlyOwner, ServiceEffect
  <2>13. CASE Postcheck(h)
    BY <2>13, OnlyOwner DEF Postcheck, Worst, IsRestored
  <2>14. CASE AuditFinished(h)
    BY <2>14, OnlyOwner, AuditFinishedEffect
  <2>15. CASE Finish(h) BY <2>15, FinishEffect
  <2>16. CASE Die(h) BY <2>16 DEF Die
  <2> QED BY <1>4, <2>1, <2>2, <2>3, <2>4, <2>5, <2>6, <2>7, <2>8, <2>9, <2>10, <2>11, <2>12,
     <2>13, <2>14, <2>15, <2>16 DEF Execution, Execute
<1>5. CASE UNCHANGED vars BY <1>5 DEF vars
<1> QED BY <1>1, <1>2, <1>3, <1>4, <1>5, StepOf

\* What is known of a request stays true.
LEMMA RequestKept == ASSUME IInv, [Next]_vars, NEW r \in Requests PROVE RequestInv(r)'
<1> USE RootConstantsAssumption, HelperFacts
<1> USE DEF IInv, TypeOK, ReviewTypes, RecordTypes, HelperTypes, HistoryTypes, RequestInv,
    HelperInv, CommittedBy
<1> USE DEF Before, Looking, Serving, Ending, Past, Unsaved, FileStates, States, Working,
    DialogStates, None
<1> USE DEF target, applies, records, audit, helpers, history
<1> USE DEF Show, At, Goto, Exit, Reject, Fail, Proceed, Happens, Observed
<1>1. ASSUME World
      PROVE  RequestInv(r)'
  <2>1. CASE Setup BY <2>1 DEF Setup, ProvisionKey
  <2>2. CASE AdminEdit BY <2>2 DEF AdminEdit, Overtaken
  <2>3. CASE AdminClears BY <2>3 DEF AdminClears
  <2> QED BY <1>1, <2>1, <2>2, <2>3 DEF World
<1>2. ASSUME NEW a \in Applies, Apply(a)
      PROVE  RequestInv(r)'
  <2>1. CASE ApplyLock(a) BY <2>1 DEF ApplyLock, CanLock
  <2>2. CASE Capture(a) BY <2>2 DEF Capture, ApplyEnds, KeyAvailable, OriginRecord
  <2>3. CASE ApplyReplace(a) BY <2>3 DEF ApplyReplace, ApplyEnds
  <2>4. CASE DamageOrigin(a) BY <2>4 DEF DamageOrigin, Intact
  <2> QED BY <1>2, <2>1, <2>2, <2>3, <2>4 DEF Apply
<1>3. ASSUME NEW q \in Requests, Dialog(q)
      PROVE  RequestInv(r)'
  <2>1. CASE ListBackups(q) BY <2>1 DEF ListBackups
  <2>2. CASE Select(q) BY <2>2 DEF Select
  <2>3. CASE Preview(q) BY <2>3, PreviewEffect
  <2>4. CASE Approve(q) BY <2>4, ApproveEffect
  <2>5. CASE Continue(q) BY <2>5 DEF Continue
  <2>6. CASE StartExecution(q) BY <2>6, StartExecutionEffect
  <2>7. CASE ReceiveExecution(q)
    <3>1. PICK s \in States \union {"unconfirmed"} :
              Show(q, s) /\ (s # "unconfirmed" => told[<<q, 1>>] = s)
      BY <2>7, ReceiveExecutionEffect
    <3>2. /\ ui[q] = "executing" /\ s \in DialogStates
          /\ UNCHANGED <<target, applies, choice, expired, records, audit, helpers, history, count>>
      BY <2>7, ReceiveExecutionEffect
    <3>3. CASE r = q BY <3>1, <3>2, <3>3
    <3>4. CASE r # q BY <3>1, <3>2, <3>4
    <3> QED BY <3>3, <3>4
  <2>8. CASE CheckStatus(q)
    BY <2>8 DEF CheckStatus, Reconciles, StoredReview, HistoryOf, ShownHistory
  <2>9. CASE CloseDialog(q) BY <2>9 DEF CloseDialog
  <2>10. CASE Expire(q) BY <2>10 DEF Expire
  <2> QED BY <1>3, <2>1, <2>2, <2>3, <2>4, <2>5, <2>6, <2>7, <2>8, <2>9, <2>10 DEF Dialog
<1>4. ASSUME NEW h \in Helpers, Execution(h)
      PROVE  RequestInv(r)'
  <2>1. CASE StartByHand(h) BY <2>1 DEF StartByHand
  <2>2. CASE LockTarget(h) BY <2>2 DEF LockTarget, CanLock
  <2>3. CASE Preflight(h) BY <2>3 DEF Preflight
  <2>4. CASE ReadOrigin(h) BY <2>4 DEF ReadOrigin
  <2>5. CASE Begin(h)
    <3>1. CASE r = Req(h) BY <3>1, <2>5, BeginEffect
    <3>2. CASE r # Req(h) BY <3>2, <2>5, BeginEffect
    <3> QED BY <3>1, <3>2
  <2>6. CASE AuditStarted(h)
    <3>1. CASE r = Req(h) BY <3>1, <2>6, AuditStartedEffect
    <3>2. CASE r # Req(h) BY <3>2, <2>6, AuditStartedEffect
    <3> QED BY <3>1, <3>2
  <2>7. CASE FinalCheck(h) BY <2>7 DEF FinalCheck, Worst
  <2>8. CASE Stage(h) BY <2>8, StageEffect
  <2>9. CASE Recheck(h) BY <2>9 DEF Recheck, Worst
  <2>10. CASE Replace(h)
    <3>1. CASE r = Req(h)
      BY <3>1, <2>10, ReplaceEffect
    <3>2. CASE r # Req(h)
      <4>1. \A g \in Helpers : CommittedBy(r, g) => CommittedBy(r, g)'
        BY <3>2, <2>10, ReplaceEffect
      <4>2. UNCHANGED <<ui, choice, review, attempts, events, results>> /\ pc'[<<r, 1>>] = pc[<<r, 1>>]
        BY <3>2, <2>10, ReplaceEffect
      <4> HIDE DEF CommittedBy
      <4> QED BY <4>1, <4>2
    <3> QED BY <3>1, <3>2
  <2>11. CASE Validate(h) BY <2>11 DEF Validate, Worst
  <2>12. CASE Service(h)
    <3>1. CASE r = Req(h) BY <3>1, <2>12, ServiceEffect
    <3>2. CASE r # Req(h) BY <3>2, <2>12, ServiceEffect
    <3> QED BY <3>1, <3>2
  <2>13. CASE Postcheck(h) BY <2>13 DEF Postcheck, Worst, IsRestored
  <2>14. CASE AuditFinished(h)
    <3>1. CASE r = Req(h) BY <3>1, <2>14, AuditFinishedEffect
    <3>2. CASE r # Req(h) BY <3>2, <2>14, AuditFinishedEffect
    <3> QED BY <3>1, <3>2
  <2>15. CASE Finish(h)
    <3>1. CASE r # Req(h)
      BY <3>1, <2>15, FinishEffect
    <3>2. CASE r = Req(h) /\ UNCHANGED results
      BY <3>2, <2>15, FinishEffect
    <3>3. ASSUME r = Req(h), results' = [results EXCEPT ![r] = verdict[h]] PROVE RequestInv(r)'
      <4>1. ui[r] \notin {"committed", "failed", "was_committed", "was_failed"}
        BY <3>3, <2>15, FinishEffect
      <4>2. HelperInv(h) /\ pc[h] = "finish"
        BY <2>15, FinishEffect
      <4>3. verdict[h] = "committed" =>
                events[r] = {"started", "finished"} /\ h \in validated /\ wrote[h] = review[r].backup
        BY <4>2, <3>3
      <4>4. review[r].backup \in FileStates
        BY <4>2, <3>3 DEF NoReview
      <4> QED BY <3>3, <4>1, <4>3, <4>4, <2>15, FinishEffect
    <3> QED BY <3>1, <3>2, <3>3, <2>15, FinishEffect
  <2>16. CASE Die(h) BY <2>16 DEF Die
  <2> QED BY <1>4, <2>1, <2>2, <2>3, <2>4, <2>5, <2>6, <2>7, <2>8, <2>9, <2>10, <2>11, <2>12,
     <2>13, <2>14, <2>15, <2>16 DEF Execution, Execute
<1>5. CASE UNCHANGED vars BY <1>5 DEF vars
<1> QED BY <1>1, <1>2, <1>3, <1>4, <1>5, StepOf

\* What is known of a helper stays true.
LEMMA HelperKept == ASSUME IInv, [Next]_vars, NEW g \in Helpers PROVE HelperInv(g)'
<1> USE RootConstantsAssumption, HelperFacts
<1> USE DEF IInv, TypeOK, ReviewTypes, RecordTypes, HelperTypes, HistoryTypes, RequestInv,
    HelperInv
<1> USE DEF Before, Looking, Serving, Ending, Past, Unsaved, FileStates, States, Working,
    DialogStates, None
<1> USE DEF target, applies, records, audit, helpers, history
<1> USE DEF Show, At, Goto, Exit, Reject, Fail, Proceed, Happens, Observed
<1>1. ASSUME World
      PROVE  HelperInv(g)'
  <2>1. CASE Setup BY <2>1 DEF Setup, ProvisionKey
  <2>2. CASE AdminEdit BY <2>2 DEF AdminEdit, Overtaken
  <2>3. CASE AdminClears BY <2>3 DEF AdminClears
  <2> QED BY <1>1, <2>1, <2>2, <2>3 DEF World
<1>2. ASSUME NEW a \in Applies, Apply(a)
      PROVE  HelperInv(g)'
  <2>1. CASE ApplyLock(a) BY <2>1 DEF ApplyLock, CanLock
  <2>2. CASE Capture(a) BY <2>2 DEF Capture, ApplyEnds, KeyAvailable, OriginRecord
  <2>3. CASE ApplyReplace(a)
    BY <2>3 DEF ApplyReplace, ApplyEnds, LockInv, TargetTypes, ApplyTypes
  <2>4. CASE DamageOrigin(a) BY <2>4 DEF DamageOrigin, Intact
  <2> QED BY <1>2, <2>1, <2>2, <2>3, <2>4 DEF Apply
<1>3. ASSUME NEW q \in Requests, Dialog(q)
      PROVE  HelperInv(g)'
  <2>1. CASE ListBackups(q) BY <2>1 DEF ListBackups
  <2>2. CASE Select(q) BY <2>2 DEF Select
  <2>3. CASE Preview(q) BY <2>3, PreviewEffect
  <2>4. CASE Approve(q) BY <2>4, ApproveEffect
  <2>5. CASE Continue(q) BY <2>5 DEF Continue
  <2>6. CASE StartExecution(q) BY <2>6, StartExecutionEffect
  <2>7. CASE ReceiveExecution(q)
    <3>1. UNCHANGED <<target, applies, choice, expired, records, audit, helpers, history, count>>
      BY <2>7, ReceiveExecutionEffect
    <3> QED BY <3>1
  <2>8. CASE CheckStatus(q)
    BY <2>8 DEF CheckStatus, Reconciles, StoredReview, HistoryOf, ShownHistory
  <2>9. CASE CloseDialog(q) BY <2>9 DEF CloseDialog
  <2>10. CASE Expire(q) BY <2>10 DEF Expire
  <2> QED BY <1>3, <2>1, <2>2, <2>3, <2>4, <2>5, <2>6, <2>7, <2>8, <2>9, <2>10 DEF Dialog
<1>4. ASSUME NEW h \in Helpers, Execution(h)
      PROVE  HelperInv(g)'
  <2>1. CASE StartByHand(h) BY <2>1 DEF StartByHand
  <2>2. CASE LockTarget(h) BY <2>2 DEF LockTarget, CanLock
  <2>3. CASE Preflight(h) BY <2>3 DEF Preflight
  <2>4. CASE ReadOrigin(h) BY <2>4 DEF ReadOrigin
  <2>5. CASE Begin(h)
    <3>1. CASE g = h BY <3>1, <2>5, BeginEffect
    <3>2. CASE g # h BY <3>2, <2>5, BeginEffect
    <3> QED BY <3>1, <3>2
  <2>6. CASE AuditStarted(h)
    <3>1. CASE g = h BY <3>1, <2>6, AuditStartedEffect
    <3>2. CASE g # h BY <3>2, <2>6, AuditStartedEffect
    <3> QED BY <3>1, <3>2
  <2>7. CASE FinalCheck(h) BY <2>7 DEF FinalCheck, Worst
  <2>8. CASE Stage(h) BY <2>8, StageEffect
  <2>9. CASE Recheck(h) BY <2>9 DEF Recheck, Worst
  <2>10. CASE Replace(h)
    <3>1. CASE g = h BY <3>1, <2>10, ReplaceEffect
    <3>2. CASE g # h BY <3>2, <2>10, ReplaceEffect
    <3> QED BY <3>1, <3>2
  <2>11. CASE Validate(h) BY <2>11 DEF Validate, Worst
  <2>12. CASE Service(h)
    <3>1. HelperInv(h) /\ Req(h) \in Requests
      OBVIOUS
    <3>2. /\ verdict[h] = "committed" /\ events[Req(h)] = {"started"} /\ Req(h) \in attempts
          /\ wrote[h] = review[Req(h)].backup /\ results[Req(h)] = None
          /\ review[Req(h)].state = "saved" /\ told[h] \notin States
      BY <3>1, <2>12, ServiceEffect
    <3>3. UNCHANGED <<review, attempts, results, events, wrote, raced, told, file>>
      BY <2>12, ServiceEffect
    <3>4. \/ pc'[h] = "postcheck" /\ verdict'[h] = "committed" /\ h \in validated'
          \/ pc'[h] \in {"postcheck", "finish_audit"} /\ verdict'[h] \in {"failed", "unknown"}
      BY <3>2, <2>12, ServiceEffect
    <3>5. HelperInv(h)'
      BY <3>2, <3>3, <3>4
    <3>6. CASE g # h
      BY <3>6, <2>12, ServiceEffect
    <3> QED BY <3>5, <3>6
  <2>13. CASE Postcheck(h) BY <2>13 DEF Postcheck, Worst, IsRestored
  <2>14. CASE AuditFinished(h)
    <3>1. HelperInv(h) /\ Req(h) \in Requests
      OBVIOUS
    <3>2. /\ verdict[h] = "committed" => h \in validated /\ wrote[h] = review[Req(h)].backup
          /\ verdict[h] # None /\ Req(h) \in attempts /\ results[Req(h)] = None
          /\ review[Req(h)].state = "saved" /\ told[h] \notin States
      BY <3>1, <2>14, AuditFinishedEffect
    <3>3. UNCHANGED <<review, attempts, results, wrote, raced, validated, told, file>>
      BY <2>14, AuditFinishedEffect
    <3>4. /\ pc'[h] = "finish"
          /\ \/ verdict'[h] = verdict[h] /\ events'[Req(h)] = {"started", "finished"}
             \/ verdict'[h] \in {"failed", "unknown"}
      BY <3>1, <2>14, AuditFinishedEffect
    <3>5. HelperInv(h)'
      BY <3>2, <3>3, <3>4
    <3>6. CASE g # h
      BY <3>6, <2>14, AuditFinishedEffect
    <3> QED BY <3>5, <3>6
  <2>15. CASE Finish(h)
    <3>1. CASE g = h BY <3>1, <2>15, FinishEffect
    <3>2. CASE g # h BY <3>2, <2>15, FinishEffect
    <3> QED BY <3>1, <3>2
  <2>16. CASE Die(h) BY <2>16 DEF Die
  <2> QED BY <1>4, <2>1, <2>2, <2>3, <2>4, <2>5, <2>6, <2>7, <2>8, <2>9, <2>10, <2>11, <2>12,
     <2>13, <2>14, <2>15, <2>16 DEF Execution, Execute
<1>5. CASE UNCHANGED vars BY <1>5 DEF vars
<1> QED BY <1>1, <1>2, <1>3, <1>4, <1>5, StepOf

\* It holds at first.
LEMMA Initially == ASSUME Init PROVE IInv
<1> USE RootConstantsAssumption DEF Init, FileStates, None
<1>1. TypeOK
  <2>1. TargetTypes /\ ApplyTypes
    BY DEF TargetTypes, ApplyTypes
  <2>2. ReviewTypes
    BY DEF ReviewTypes, DialogStates
  <2>3. RecordTypes /\ HelperTypes
    BY DEF RecordTypes, HelperTypes
  <2>4. HistoryTypes
    BY DEF HistoryTypes
  <2> QED BY <2>1, <2>2, <2>3, <2>4 DEF TypeOK
<1>2. LockInv /\ OwnerInv
  BY DEF LockInv, OwnerInv, Working
<1>3. \A r \in Requests : RequestInv(r)
  BY HelperFacts DEF RequestInv, NoReview
<1>4. \A h \in Helpers : HelperInv(h)
  BY HelperFacts DEF HelperInv, Past, Looking, Serving, Ending, States
<1> QED BY <1>1, <1>2, <1>3, <1>4 DEF IInv

\* Every step keeps it.
LEMMA NextKeeps == IInv /\ [Next]_vars => IInv'
  BY TypesKept, LockKept, OwnerKept, RequestKept, HelperKept DEF IInv

\* The invariant holds in every reachable state, whatever the number of
\* requests, applies and helpers.
THEOREM Invariance == Spec => []IInv
<1>1. Init => IInv
  BY Initially
<1> QED BY <1>1, NextKeeps, PTL DEF Spec

\* Every variable keeps its type.
THEOREM TypeCorrectness == Spec => []TypeOK
<1>1. IInv => TypeOK
  BY DEF IInv
<1> QED BY <1>1, Invariance, PTL

\* What the dialogs and the status command say of a root restore is true of
\* the target, however late the answer and whatever died
\* (receive_execution, reconcile).
THEOREM ToldIsTrue == Spec => []ToldTruth
<1>1. ASSUME IInv, NEW r \in Requests, ui[r] \in {"committed", "was_committed"}
      PROVE  /\ results[r] = "committed" /\ events[r] = {"started", "finished"}
             /\ \E h \in Writers(r) : h \in validated /\ wrote[h] = review[r].backup
  BY <1>1 DEF IInv, RequestInv, CommittedBy, Writers
<1>2. ASSUME IInv, NEW r \in Requests, ui[r] \in {"failed", "was_failed"}
      PROVE  results[r] = "failed"
  BY <1>2 DEF IInv, RequestInv
<1>3. ASSUME IInv, NEW r \in Requests, Writers(r) # {} PROVE HistoryOf(r) # "review_only"
  <2>1. PICK h \in Helpers : Req(h) = r /\ wrote[h] # NotYet
    BY <1>3 DEF Writers
  <2>2. r \in attempts
    BY <1>3, <2>1 DEF IInv, HelperInv
  <2>3. results[r] # "review_only"
    BY <1>3 DEF IInv, TypeOK, RecordTypes, States, None
  <2> QED BY <2>2, <2>3 DEF HistoryOf
<1>4. ASSUME IInv, NEW r \in Requests, ui[r] = "rejected" PROVE pc[<<r, 1>>] = "none"
  BY <1>4 DEF IInv, RequestInv
<1>5. IInv => ToldTruth
  BY <1>1, <1>2, <1>3, <1>4 DEF ToldTruth
<1> QED BY <1>5, Invariance, PTL

----------------------------------------------------------------------------
(* What a single step does to the records and the target.                  *)

\* Everybody but the execution helpers leaves attempts, results and what the
\* helpers wrote alone.
LEMMA OthersDoNot ==
    ASSUME World \/ (\E a \in Applies : Apply(a)) \/ (\E q \in Requests : Dialog(q))
    PROVE  UNCHANGED <<attempts, wrote, results>>
<1>1. CASE World
  BY <1>1 DEF World, Setup, AdminEdit, AdminClears, records, history
<1>2. ASSUME NEW a \in Applies, Apply(a) PROVE UNCHANGED <<attempts, wrote, results>>
  BY <1>2 DEF Apply, ApplyLock, Capture, ApplyReplace, DamageOrigin, records, history
<1>3. ASSUME NEW q \in Requests, Dialog(q) PROVE UNCHANGED <<attempts, wrote, results>>
  BY <1>3 DEF Dialog, ListBackups, Select, Preview, Approve, Continue, StartExecution,
     ReceiveExecution, CheckStatus, CloseDialog, Expire, records, history
<1> QED BY <1>1, <1>2, <1>3

\* An execution helper uses up its request, or puts, or settles it, or none
\* of the three.
LEMMA HelperRecords ==
    ASSUME NEW h \in Helpers, Execution(h)
    PROVE  \/ /\ pc[h] = "begin" /\ UNCHANGED <<wrote, results>>
              /\ Req(h) \notin attempts /\ attempts' = attempts \union {Req(h)}
           \/ pc[h] = "replace" /\ Put(h) /\ UNCHANGED <<attempts, results>>
           \/ /\ pc[h] = "finish" /\ UNCHANGED <<attempts, wrote>>
              /\ results[Req(h)] = None /\ results' = [results EXCEPT ![Req(h)] = verdict[h]]
           \/ UNCHANGED <<attempts, wrote, results>>
<1>1. CASE Begin(h)
  BY <1>1 DEF Begin, Unused, At, history
<1>2. CASE Replace(h)
  BY <1>2 DEF Replace, At, records
<1>3. CASE Finish(h)
  BY <1>3 DEF Finish, At, history
<1>4. CASE \/ StartByHand(h) \/ LockTarget(h) \/ Preflight(h) \/ ReadOrigin(h) \/ AuditStarted(h)
           \/ FinalCheck(h) \/ Stage(h) \/ Recheck(h)
  BY <1>4 DEF StartByHand, LockTarget, Preflight, ReadOrigin, AuditStarted, FinalCheck, Stage,
     Recheck, records, history
<1>5. CASE Validate(h) \/ Service(h) \/ Postcheck(h) \/ AuditFinished(h) \/ Die(h)
  BY <1>5 DEF Validate, Service, Postcheck, AuditFinished, Die, records, history
<1> QED BY <1>1, <1>2, <1>3, <1>4, <1>5 DEF Execution, Execute

\* A restore replaces only the content that its review showed, unless an
\* administrator changed it after the second snapshot
\* (locked_root_target, restore).
THEOREM NothingLostBlindly == Spec => NoBlindOverwrite
<1>1. ASSUME IInv, [Next]_vars, NEW g \in Helpers, wrote'[g] # wrote[g]
      PROVE  /\ file = review[Req(g)].current \/ g \in raced
             /\ review[Req(g)].current = Absent => file = Absent
  <2>1. ~UNCHANGED wrote
    BY <1>1
  <2>2. PICK h \in Helpers : Execution(h)
    BY <1>1, <2>1, OthersDoNot, StepOf DEF vars, history
  <2>3. pc[h] = "replace" /\ Put(h)
    BY <2>1, <2>2, HelperRecords
  <2>4. g = h
    BY <1>1, <2>3 DEF Put, IInv, TypeOK, HistoryTypes
  <2>5. HelperInv(h)
    BY <1>1 DEF IInv
  <2>6. file = review[Req(h)].current \/ h \in raced
    BY <2>3, <2>5 DEF HelperInv
  <2> QED BY <2>3, <2>4, <2>6 DEF Put, CanPut
<1>2. IInv /\ [Next]_vars =>
         [\A h \in Helpers : wrote'[h] # wrote[h] =>
              LET rv == review[Req(h)] IN
              /\ file = rv.current \/ h \in raced
              /\ rv.current = Absent => file = Absent]_vars
  BY <1>1
<1> QED BY <1>2, Invariance, PTL DEF Spec, NoBlindOverwrite

----------------------------------------------------------------------------
(* The refinement of the contract.                                         *)

\* A request has one writer at most: the helper that used it up.
LEMMA OneWriter ==
    ASSUME IInv, NEW h \in Helpers, verdict[h] # None
    PROVE  /\ puts[Req(h)] = IF wrote[h] = NotYet THEN 0 ELSE 1
           /\ Writers(Req(h)) = IF wrote[h] = NotYet THEN {} ELSE {h}
<1>1. \A g \in Helpers : Req(g) = Req(h) /\ wrote[g] # NotYet => g = h
  BY DEF IInv, OwnerInv, HelperInv
<1>2. Writers(Req(h)) = IF wrote[h] = NotYet THEN {} ELSE {h}
  BY <1>1 DEF Writers
<1>3. puts[Req(h)] = Cardinality(Writers(Req(h)))
  BY HelperFacts DEF puts
<1> QED BY <1>2, <1>3, FS_EmptySet, FS_Singleton

\* An execution helper keeps the contract of the manual restore routes.
LEMMA HelperRefines ==
    ASSUME IInv, NEW h \in Helpers, Execution(h)
    PROVE  [Contract!Next]_Contract!vars
<1>1. CASE UNCHANGED <<attempts, wrote, results>>
  BY <1>1 DEF Contract!vars, puts, Writers
<1>2. CASE /\ UNCHANGED <<wrote, results>> /\ Req(h) \notin attempts
           /\ attempts' = attempts \union {Req(h)}
  <2>1. UNCHANGED puts
    BY <1>2 DEF puts, Writers
  <2>2. Contract!Consume(Req(h))
    BY <1>2, <2>1 DEF Contract!Consume
  <2> QED BY <2>2, HelperFacts DEF Contract!Next
<1>3. CASE pc[h] = "replace" /\ Put(h) /\ UNCHANGED <<attempts, results>>
  <2>1. /\ verdict[h] # None /\ Req(h) \in attempts /\ results[Req(h)] = None
        /\ wrote[h] = NotYet /\ review[Req(h)].backup \in FileStates
    <3>1. HelperInv(h) /\ review[Req(h)] \in {NoReview} \union
              [state : {"seen", "saved"}, current : FileStates, backup : FileStates]
      BY HelperFacts DEF IInv, TypeOK, ReviewTypes
    <3> QED BY <1>3, <3>1 DEF HelperInv, NoReview, Past, Looking
  <2>2. wrote'[h] # NotYet /\ \A g \in Helpers \ {h} : wrote'[g] = wrote[g]
    BY <1>3, <2>1, RootConstantsAssumption DEF Put, IInv, TypeOK, HistoryTypes
  <2>3. Writers(Req(h)) = {} /\ puts[Req(h)] = 0
    BY <2>1, OneWriter
  <2>4. Writers(Req(h))' = {h}
    BY <2>2, <2>3 DEF Writers
  <2>5. \A r \in Requests \ {Req(h)} : Writers(r)' = Writers(r)
    BY <2>2 DEF Writers
  <2>6. puts' = [puts EXCEPT ![Req(h)] = 1]
    <3>1. \A r \in Requests : puts'[r] = IF r = Req(h) THEN 1 ELSE puts[r]
      BY <2>4, <2>5, FS_Singleton DEF puts
    <3>2. puts = [r \in Requests |-> puts[r]] /\ puts' = [r \in Requests |-> puts'[r]]
      BY DEF puts
    <3> QED BY <3>1, <3>2
  <2>7. Contract!Put(Req(h))
    BY <1>3, <2>1, <2>3, <2>6 DEF Contract!Put, None
  <2> QED BY <2>7, HelperFacts DEF Contract!Next
<1>4. CASE /\ pc[h] = "finish" /\ UNCHANGED <<attempts, wrote>>
           /\ results[Req(h)] = None /\ results' = [results EXCEPT ![Req(h)] = verdict[h]]
  <2>1. HelperInv(h) /\ verdict[h] \in States \union {None}
        /\ review[Req(h)] \in {NoReview} \union
              [state : {"seen", "saved"}, current : FileStates, backup : FileStates]
    BY HelperFacts DEF IInv, TypeOK, ReviewTypes, HelperTypes
  <2>2. Req(h) \in attempts /\ verdict[h] \in States /\ verdict[h] # None
    BY <1>4, <2>1 DEF HelperInv, Past, Ending
  <2>3. verdict[h] = "committed" => wrote[h] # NotYet
    <3>1. verdict[h] = "committed" => wrote[h] = review[Req(h)].backup
      BY <1>4, <2>1 DEF HelperInv, Ending
    <3>2. review[Req(h)].backup \in FileStates
      BY <1>4, <2>1 DEF HelperInv, NoReview
    <3> QED BY <3>1, <3>2, RootConstantsAssumption
  <2>4. verdict[h] = "committed" => puts[Req(h)] = 1
    BY <2>2, <2>3, OneWriter
  <2>5. UNCHANGED puts
    BY <1>4 DEF puts, Writers
  <2>6. Contract!Settle(Req(h), verdict[h])
    BY <1>4, <2>2, <2>4, <2>5 DEF Contract!Settle, None
  <2> QED BY <2>2, <2>6, HelperFacts DEF Contract!Next, States
<1> QED BY <1>1, <1>2, <1>3, <1>4, HelperRecords

\* The manual restore of the root target implements RestoreContract: a
\* request is used up before it writes, it writes once, and its one result
\* comes after that, although its entry can be started again by hand
\* (RootRestoreStore.begin and finish).
THEOREM RestoreImplementsContract == Spec => ImplementsContract
<1>1. Init => Contract!Init
  <2> SUFFICES ASSUME Init PROVE Contract!Init
    OBVIOUS
  <2>1. \A r \in Requests : Writers(r) = {}
    BY DEF Init, Writers
  <2>2. puts = [r \in Requests |-> 0]
    BY <2>1, FS_EmptySet DEF puts
  <2> QED BY <2>2 DEF Init, Contract!Init, None
<1>2. IInv /\ [Next]_vars => [Contract!Next]_Contract!vars
  <2> SUFFICES ASSUME IInv, [Next]_vars PROVE [Contract!Next]_Contract!vars
    OBVIOUS
  <2>1. ASSUME NEW h \in Helpers, Execution(h) PROVE [Contract!Next]_Contract!vars
    BY <2>1, HelperRefines
  <2>2. CASE World \/ (\E a \in Applies : Apply(a)) \/ (\E q \in Requests : Dialog(q))
    BY <2>2, OthersDoNot DEF Contract!vars, puts, Writers
  <2>3. CASE UNCHANGED vars
    BY <2>3 DEF vars, history, records, Contract!vars, puts, Writers
  <2> QED BY <2>1, <2>2, <2>3, StepOf
<1> QED BY <1>1, <1>2, Invariance, PTL DEF Spec, ImplementsContract, Contract!Spec
=============================================================================
