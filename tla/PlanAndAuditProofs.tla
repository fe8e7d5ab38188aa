--------------------------- MODULE PlanAndAuditProofs ---------------------------
(***************************************************************************)
(* What lies around a change: what is planned, what the root helper        *)
(* accepts, and what is written down.                                      *)
(*                                                                         *)
(* What the planning operators promise for every report, plan and          *)
(* observation: a plan never holds two actionable recommendations for one  *)
(* setting, a built change set is bound to the report it was planned from  *)
(* and never mixes privileges, and an approval is valid only for the plan  *)
(* it was given for, within the life of that plan.                         *)
(*                                                                         *)
(* The root helper runs the request that was hashed, in its time, in a     *)
(* form it knows, and once; and what the coordinator prepares is such a    *)
(* request until the plan or the approval ends.                            *)
(*                                                                         *)
(* With one writer at a time, whatever fails and wherever its process      *)
(* dies, the audit log stays append-only and HEAD at most one event        *)
(* behind.  What makes that inductive is what each step of append knows of *)
(* the files it has read: nobody else has changed them since.              *)
(***************************************************************************)
EXTENDS ApplyRouting, HelperRequests, AuditLog, FiniteSetTheorems, TLAPS

-----------------------------------------------------------------------------
(* Chains of guards                                                       *)

\* A chain that lets its value through has no failing guard.
LEMMA GuardedPasses ==
    ASSUME NEW checks, NEW value, Guarded(checks, value).ok
    PROVE  /\ \A i \in DOMAIN checks : ~checks[i][1]
           /\ Guarded(checks, value) = Done(value)
  BY DEF Guarded, Refused, Done

\* Steps in a row let a value through only when each of them does.
LEMMA RowPasses ==
    ASSUME NEW first, NEW next, (first && next).ok
    PROVE  first.ok /\ next.ok /\ (first && next) = next
  BY DEF &&

-----------------------------------------------------------------------------
(* Recommendations                                                        *)

\* Every set of recommendations of the catalog's rules has one of highest priority.
LEMMA PreferredExists ==
    ASSUME NEW group, group # {}, \A r \in group : r.rule \in DOMAIN Priority
    PROVE  Preferred(group, Priority) \in group
<1>1. \E r \in group : \A s \in group : Priority[s.rule] <= Priority[r.rule]
  <2>1. DOMAIN Priority = {"opencode_version", "compaction_auto", "compaction_prune", "ollama_unavailable"}
    BY DEF Priority
  <2>2. /\ Priority["opencode_version"] = 1000 /\ Priority["compaction_auto"] = 800
        /\ Priority["compaction_prune"] = 790 /\ Priority["ollama_unavailable"] = 100
    BY DEF Priority
  <2>3. \A rule \in DOMAIN Priority : Priority[rule] <= 1000
    BY <2>1, <2>2
  <2>4. CASE \E r \in group : r.rule = "opencode_version"
    BY <2>2, <2>3, <2>4
  <2>5. CASE ~(\E r \in group : r.rule = "opencode_version") /\ \E r \in group : r.rule = "compaction_auto"
    BY <2>1, <2>2, <2>5
  <2>6. CASE ~(\E r \in group : r.rule \in {"opencode_version", "compaction_auto"})
             /\ \E r \in group : r.rule = "compaction_prune"
    BY <2>1, <2>2, <2>6
  <2>7. CASE ~(\E r \in group : r.rule \in {"opencode_version", "compaction_auto", "compaction_prune"})
    BY <2>1, <2>2, <2>7
  <2> QED BY <2>4, <2>5, <2>6, <2>7
<1> QED BY <1>1 DEF Preferred

LEMMA CompactionRule ==
    ASSUME NEW rule, NEW setting, NEW report, NEW profile,
           NEW x \in AgentCompaction(rule, setting, report, profile)
    PROVE  x.rule = rule
<1>1. \E target, current, actionable :
         x = Recommendation(rule, profile, target, setting, current, Switch(TRUE), actionable)
  BY Zenon DEF AgentCompaction
<1> QED BY <1>1 DEF Recommendation

\* Whatever the rules found, the plan has at most one actionable recommendation for
\* a setting of a target: conflicting advice is never something to apply.
THEOREM OneActionablePerSetting ==
    ASSUME NEW recs, \A r \in recs : r.rule \in DOMAIN Priority,
           NEW r \in ResolveConflicts(recs, Priority), r.actionable = TRUE,
           NEW s \in ResolveConflicts(recs, Priority), s.actionable = TRUE,
           r.target = s.target, r.setting = s.setting
    PROVE  r = s
<1> DEFINE Agree == {q \in recs : Agreed(Group(recs, q))}
<1>1. ASSUME NEW x \in ResolveConflicts(recs, Priority), x.actionable = TRUE
      PROVE  \E q \in Agree : /\ x = Preferred(Group(recs, q), Priority)
                              /\ x.target = q.target /\ x.setting = q.setting
  <2>1. CASE \E q \in Agree : x = Preferred(Group(recs, q), Priority)
    <3>1. PICK q \in Agree : x = Preferred(Group(recs, q), Priority)
      BY <2>1
    <3>2. q \in Group(recs, q) /\ \A z \in Group(recs, q) : z.rule \in DOMAIN Priority
      BY DEF Group
    <3>3. x \in Group(recs, q)
      BY <3>1, <3>2, PreferredExists
    <3> QED BY <3>1, <3>3 DEF Group
  <2>2. CASE \E q \in recs : ~Agreed(Group(recs, q)) /\ x = InConflict(q, Group(recs, q))
    BY <1>1, <2>2 DEF InConflict
  <2> QED BY <1>1, <2>1, <2>2 DEF ResolveConflicts
<1>2. PICK p \in Agree : r = Preferred(Group(recs, p), Priority) /\ r.target = p.target /\ r.setting = p.setting
  BY <1>1
<1>3. PICK q \in Agree : s = Preferred(Group(recs, q), Priority) /\ s.target = q.target /\ s.setting = q.setting
  BY <1>1
<1>4. Group(recs, p) = Group(recs, q)
  BY <1>2, <1>3 DEF Group
<1> QED BY <1>2, <1>3, <1>4


\* The same of the plan made from any report, for every profile.
THEOREM GeneratedPlanIsConsistent ==
    ASSUME NEW id, NEW report, NEW profile, NEW now,
           NEW r \in GenerateOptimizationPlan(id, report, profile, now).recommendations,
           NEW s \in GenerateOptimizationPlan(id, report, profile, now).recommendations,
           r.actionable = TRUE, s.actionable = TRUE, r.target = s.target, r.setting = s.setting
    PROVE  r = s
<1> DEFINE recs == DefaultCatalog(report, profile)
<1>1. DOMAIN Priority = {"opencode_version", "compaction_auto", "compaction_prune", "ollama_unavailable"}
  BY DEF Priority
<1>2. ASSUME NEW x \in recs PROVE x.rule \in DOMAIN Priority
  <2>1. \/ x \in OllamaUnavailable(report, profile)
        \/ x \in UnsupportedOpenCodeVersion(report, profile)
        \/ x \in AgentCompaction("compaction_auto", "compaction.auto", report, profile)
        \/ x \in AgentCompaction("compaction_prune", "compaction.prune", report, profile)
    BY <1>2 DEF DefaultCatalog
  <2>2. CASE x \in OllamaUnavailable(report, profile)
    BY <1>1, <2>2 DEF OllamaUnavailable, Recommendation
  <2>3. CASE x \in UnsupportedOpenCodeVersion(report, profile)
    BY <1>1, <2>3 DEF UnsupportedOpenCodeVersion, Recommendation
  <2>4. CASE x \in AgentCompaction("compaction_auto", "compaction.auto", report, profile)
    BY <1>1, <2>4, CompactionRule
  <2>5. CASE x \in AgentCompaction("compaction_prune", "compaction.prune", report, profile)
    BY <1>1, <2>5, CompactionRule
  <2> QED BY <2>1, <2>2, <2>3, <2>4, <2>5
<1>3. r \in ResolveConflicts(recs, Priority) /\ s \in ResolveConflicts(recs, Priority)
  BY DEF GenerateOptimizationPlan
<1> QED BY <1>2, <1>3, OneActionablePerSetting

-----------------------------------------------------------------------------
(* Change sets                                                            *)

\* A value with the fields of an OptimizationPlan.
IsPlan(plan) ==
    plan = [id |-> plan.id, reportId |-> plan.reportId, reportHash |-> plan.reportHash,
            recommendations |-> plan.recommendations, selected |-> plan.selected,
            changeSet |-> plan.changeSet, expires |-> plan.expires, encrypted |-> plan.encrypted]

LEMMA WithChangeSetFields ==
    ASSUME NEW plan, NEW set, IsPlan(plan)
    PROVE  LET new == WithChangeSet(plan, set)
           IN  /\ new.changeSet = {set} /\ new.id = plan.id
               /\ new.reportId = plan.reportId /\ new.reportHash = plan.reportHash
               /\ new.expires = plan.expires /\ new.selected = plan.selected
  BY DEF WithChangeSet, IsPlan

LEMMA PlanChecksPass ==
    ASSUME NEW plan, NEW report, NEW env, PlanChecks(plan, report, env).ok
    PROVE  /\ plan.reportId = report.id /\ plan.reportHash = report
           /\ \A e \in plan.expires : ~(env.now >= e)
           /\ KnownSelection(plan)
<1> DEFINE checks == << <<env.cancelled, "cancelled">>,
               <<plan.changeSet # {}, "change_set_already_generated">>,
               <<plan.reportId # report.id \/ plan.reportHash # report, "stale_report">>,
               <<\E e \in plan.expires : env.now >= e, "stale_plan">>,
               <<plan.selected = {}, "selection_required">>,
               <<~KnownSelection(plan), "selection_invalid">> >>
<1>1. Guarded(checks, plan).ok
  BY DEF PlanChecks
<1>2. \A i \in DOMAIN checks : ~checks[i][1]
  <2> HIDE DEF checks
  <2> QED BY <1>1, GuardedPasses
<1>3. ~checks[3][1] /\ ~checks[4][1] /\ ~checks[6][1]
  <2>1. 3 \in DOMAIN checks /\ 4 \in DOMAIN checks /\ 6 \in DOMAIN checks
    OBVIOUS
  <2> QED BY <1>2, <2>1
<1>4. /\ checks[3][1] = (plan.reportId # report.id \/ plan.reportHash # report)
      /\ checks[4][1] = (\E e \in plan.expires : env.now >= e)
      /\ checks[6][1] = ~KnownSelection(plan)
  OBVIOUS
<1> QED BY <1>3, <1>4

LEMMA HostCheckPasses ==
    ASSUME NEW plan, NEW report, NEW env, HostCheck(plan, report, env).ok
    PROVE  env.host.id = report.host.id /\ env.host.fingerprint = report.host.fingerprint
<1> DEFINE moved == \/ env.host.id # report.host.id
                    \/ env.host.kind # report.host.kind
                    \/ env.host.fingerprint # report.host.fingerprint
<1>1. \A i \in DOMAIN << <<moved, "host_identity_changed">> >> :
          ~(<< <<moved, "host_identity_changed">> >>[i][1])
  <2>1. Guarded(<< <<moved, "host_identity_changed">> >>, plan).ok
    BY DEF HostCheck
  <2> HIDE DEF moved
  <2> QED BY <2>1, GuardedPasses
<1>2. ~moved
  <2> HIDE DEF moved
  <2> QED BY <1>1
<1> QED BY <1>2

\* A last step that only asks for a change keeps the change set when it passes.
LEMMA NonEmptyPasses ==
    ASSUME NEW built, NEW plan, Guarded(<< <<built.changes = {}, "empty_change_set">> >>, plan).ok
    PROVE  /\ built.changes # {}
           /\ Guarded(<< <<built.changes = {}, "empty_change_set">> >>, plan).value = plan
<1> DEFINE checks == << <<built.changes = {}, "empty_change_set">> >>
<1>1. (\A i \in DOMAIN checks : ~checks[i][1]) /\ Guarded(checks, plan) = Done(plan)
  <2> HIDE DEF checks
  <2> QED BY GuardedPasses DEF checks
<1>2. 1 \in DOMAIN checks /\ checks[1][1] = (built.changes = {})
  OBVIOUS
<1>3. built.changes # {}
  <2> HIDE DEF checks
  <2> QED BY <1>1, <1>2
<1>4. Guarded(checks, plan).value = plan
  <2> HIDE DEF checks
  <2> QED BY <1>1 DEF Done
<1> QED BY <1>3, <1>4

LEMMA OpenCodeChangesAreUnprivileged ==
    ASSUME NEW report, NEW recs, NEW path, NEW content
    PROVE  /\ OpenCodeChangeSet(report, recs, path, content).host = report.host.id
           /\ \A c \in OpenCodeChangeSet(report, recs, path, content).changes : c.root = FALSE
<1> DEFINE changes == {OpenCodeChange(r, path, content) : r \in PlannedFor(recs, path)}
<1>1. \A c \in changes : c.root = FALSE
  BY DEF OpenCodeChange
<1> HIDE DEF changes
<1>2. OpenCodeChangeSet(report, recs, path, content) =
          [host |-> report.host.id, services |-> {}, changes |-> changes]
  BY DEF OpenCodeChangeSet, changes
<1> QED BY <1>1, <1>2

LEMMA DropInChangesArePrivileged ==
    ASSUME NEW report, NEW recs, NEW env
    PROVE  /\ OllamaChangeSet(report, recs, env).host = report.host.id
           /\ \A c \in OllamaChangeSet(report, recs, env).changes : c.root = TRUE
<1> DEFINE planned == PlannedSettings(recs)
           change == DropInChange(report, env.dropIn, PlannedDropIn(planned, env))
           services == IF planned = {} THEN {} ELSE {"ollama.service"}
           changes == IF planned = {} THEN {} ELSE {change}
<1>1. OllamaChangeSet(report, recs, env) =
          [host |-> report.host.id, services |-> services, changes |-> changes]
  BY DEF OllamaChangeSet
<1>2. change.root = TRUE
  <2> HIDE DEF planned
  <2> QED BY DEF DropInChange
<1>3. \A c \in changes : c = change
  <2> HIDE DEF change
  <2> QED OBVIOUS
<1> HIDE DEF change, services, changes
<1> QED BY <1>1, <1>2, <1>3

LEMMA PrivilegesOfOne ==
    ASSUME NEW plan, NEW set, NEW root, plan.changeSet = {set}, set.changes # {},
           \A c \in set.changes : c.root = root
    PROVE  Privileges(plan) = {root}
  BY DEF Privileges

\* A plan with its change is bound to the report it was planned from and to the host
\* of that report; and all its changes have the same privilege, so the production
\* router always has a route for it.
Bound(plan, report, root) ==
    /\ plan.reportId = report.id /\ plan.reportHash = report
    /\ \A set \in plan.changeSet : set.host = report.host.id
    /\ Privileges(plan) = {root}

\* Of the plans of BuildSelectedOpenCodeChangePlan: never a root change.
THEOREM OpenCodePlanIsBound ==
    ASSUME NEW plan, NEW report, NEW env, IsPlan(plan),
           BuildSelectedOpenCodeChangePlan(plan, report, env).ok
    PROVE  Bound(BuildSelectedOpenCodeChangePlan(plan, report, env).value, report, FALSE)
<1> DEFINE path == The(UNION {i.config : i \in report.opencode})
           built == OpenCodeChangeSet(report, Selected(plan), path, env.content)
           new == WithChangeSet(plan, built)
           last == Guarded(<< <<built.changes = {}, "empty_change_set">> >>, new)
<1>1. PlanChecks(plan, report, env).ok /\ last.ok
         /\ BuildSelectedOpenCodeChangePlan(plan, report, env) = last
  <2> HIDE DEF built, new, path
  <2> QED BY RowPasses DEF BuildSelectedOpenCodeChangePlan, built, new, path
<1>2. built.changes # {} /\ last.value = new
  <2> HIDE DEF built, new
  <2> QED BY <1>1, NonEmptyPasses
<1>3. new.changeSet = {built} /\ new.reportId = report.id /\ new.reportHash = report
  <2> HIDE DEF built
  <2> QED BY <1>1, WithChangeSetFields, PlanChecksPass
<1>4. built.host = report.host.id /\ \A c \in built.changes : c.root = FALSE
  <2>1. \A recs, p, content :
            /\ OpenCodeChangeSet(report, recs, p, content).host = report.host.id
            /\ \A c \in OpenCodeChangeSet(report, recs, p, content).changes : c.root = FALSE
    BY OpenCodeChangesAreUnprivileged
  <2> HIDE DEF path
  <2> QED BY <2>1, Zenon
<1>5. Privileges(new) = {FALSE}
  <2> HIDE DEF built, new
  <2> QED BY <1>2, <1>3, <1>4, PrivilegesOfOne
<1> HIDE DEF built, new
<1> QED BY <1>1, <1>2, <1>3, <1>4, <1>5 DEF Bound

\* Of the plans of BuildSelectedOllamaChangePlan: root changes only.
THEOREM OllamaPlanIsBound ==
    ASSUME NEW plan, NEW report, NEW env, IsPlan(plan),
           BuildSelectedOllamaChangePlan(plan, report, env).ok
    PROVE  Bound(BuildSelectedOllamaChangePlan(plan, report, env).value, report, TRUE)
<1> DEFINE built == OllamaChangeSet(report, Selected(plan), env)
           new == WithChangeSet(plan, built)
           last == Guarded(<< <<built.changes = {}, "empty_change_set">> >>, new)
<1>1. PlanChecks(plan, report, env).ok /\ last.ok
         /\ BuildSelectedOllamaChangePlan(plan, report, env) = last
  <2> HIDE DEF built, new
  <2> QED BY RowPasses DEF BuildSelectedOllamaChangePlan, built, new
<1>2. built.changes # {} /\ last.value = new
  <2> HIDE DEF built, new
  <2> QED BY <1>1, NonEmptyPasses
<1>3. new.changeSet = {built} /\ new.reportId = report.id /\ new.reportHash = report
  <2> HIDE DEF built
  <2> QED BY <1>1, WithChangeSetFields, PlanChecksPass
<1>4. built.host = report.host.id /\ \A c \in built.changes : c.root = TRUE
  BY DropInChangesArePrivileged
<1>5. Privileges(new) = {TRUE}
  <2> HIDE DEF built, new
  <2> QED BY <1>2, <1>3, <1>4, PrivilegesOfOne
<1> HIDE DEF built, new
<1> QED BY <1>1, <1>2, <1>3, <1>4, <1>5 DEF Bound

\* Whatever the planners build, the availability audit names one route for it: the
\* audit and the planners agree on what a plan may hold.
THEOREM BoundPlanHasARoute ==
    ASSUME NEW plan, NEW report, NEW available, NEW root \in BOOLEAN, NEW only,
           plan.changeSet = {only}, Bound(plan, report, root)
    PROVE  AssessAvailability(plan, report, available) =
               Done([route |-> RouteOf(report.host.kind, root),
                     available |-> RouteOf(report.host.kind, root) \in available])
<1> DEFINE unbound == \/ plan.reportId # report.id
                      \/ plan.reportHash # report
                      \/ plan.changeSet = {}
                      \/ \E set \in plan.changeSet : set.host # report.host.id
           empty == Privileges(plan) = {}
           mixed == Cardinality(Privileges(plan)) # 1
           checks == << <<unbound, "apply_plan_binding_invalid">>, <<empty, "change_set_empty">>,
                        <<mixed, "mixed_privilege_plan_unsupported">> >>
<1>1. Cardinality({root}) = 1
  BY FS_Singleton
<1>2. (Privileges(plan) = {TRUE}) = root
  BY DEF Bound
<1>3. ~unbound /\ ~empty /\ ~mixed
  BY <1>1 DEF Bound
<1>4. Guarded(checks, plan) = Done(plan)
  <2> HIDE DEF unbound, empty, mixed
  <2>1. \A i \in DOMAIN checks : ~checks[i][1]
    BY <1>3
  <2> HIDE DEF checks
  <2> QED BY <2>1 DEF Guarded
<1>5. BindingChecks(plan, report) = Done(plan)
  BY <1>4, Zenon DEF BindingChecks
<1>6. BindingChecks(plan, report).ok
  BY <1>5 DEF Done
<1> QED BY <1>2, <1>6 DEF AssessAvailability, &&

-----------------------------------------------------------------------------
(* Approvals                                                              *)

\* An approval that was given is valid when it is given, and from then on for as
\* long as it and the plan last, for the very change set that was reviewed and for
\* no other: a plan that is selected or planned again has to be approved again.
THEOREM ApprovalIsForOneChangeSet ==
    ASSUME NEW plan, NEW named, NEW reviewed, NEW acknowledged, NEW now,
           CreateApprovalRecord(plan, named, reviewed, acknowledged, now).ok
    PROVE  LET approval == CreateApprovalRecord(plan, named, reviewed, acknowledged, now).value
           IN  /\ IsValidFor(approval, plan, now)
               /\ \A other, later :
                      IsValidFor(approval, other, later) =>
                          /\ other.changeSet = plan.changeSet /\ other.changeSet # {}
                          /\ other.id = plan.id /\ other.reportHash = plan.reportHash
                          /\ \A e \in other.expires : later < e
<1> DEFINE approval == ApprovalOf(plan, acknowledged, now)
           invalid == ~IsValidFor(approval, plan, now)
           checks == << <<~reviewed, "explicit_review_required">>,
               <<NoChanges(plan), "change_set_required">>,
               <<\E e \in plan.expires : now >= e, "stale_plan">>,
               <<~named, "approval_identity_required">>,
               <<~plan.encrypted /\ ~acknowledged, "plaintext_backup_acknowledgement_required">>,
               <<invalid, "invalid_approval">> >>
<1>1. CreateApprovalRecord(plan, named, reviewed, acknowledged, now) = Guarded(checks, approval)
  BY DEF CreateApprovalRecord
<1>2. (\A i \in DOMAIN checks : ~checks[i][1]) /\ Guarded(checks, approval) = Done(approval)
  <2> HIDE DEF checks, approval
  <2> QED BY <1>1, GuardedPasses
<1>3. ~invalid
  <2> HIDE DEF invalid, approval
  <2>1. 6 \in DOMAIN checks /\ checks[6][1] = invalid
    OBVIOUS
  <2> HIDE DEF checks
  <2> QED BY <1>2, <2>1
<1>4. approval.plan = plan.id /\ approval.reportHash = plan.reportHash /\ approval.changeSetHash = plan.changeSet
  BY DEF ApprovalOf
<1> HIDE DEF approval, checks
<1>5. CreateApprovalRecord(plan, named, reviewed, acknowledged, now).value = approval
  BY <1>1, <1>2 DEF Done
<1> QED BY <1>3, <1>4, <1>5 DEF IsValidFor

-----------------------------------------------------------------------------
(* The root helper                                                        *)

\* Both guards of a short chain are passed.
LEMMA TwoGuards ==
    ASSUME NEW first, NEW second, NEW one, NEW two, NEW value,
           Guarded(<< <<first, one>>, <<second, two>> >>, value).ok
    PROVE  ~first /\ ~second
<1> DEFINE checks == << <<first, one>>, <<second, two>> >>
<1>1. 1 \in DOMAIN checks /\ 2 \in DOMAIN checks /\ checks[1][1] = first /\ checks[2][1] = second
  OBVIOUS
<1>2. Guarded(checks, value).ok
  OBVIOUS
<1> HIDE DEF checks
<1> QED BY <1>1, <1>2, GuardedPasses

\* A run that is not accepted leaves everything as it was; one that is has passed
\* every check, and its receipt is kept.
LEMMA RunIs ==
    ASSUME NEW world, NEW id, NEW expected
    PROVE  LET run == RunHelper(world, id, expected)
               staged == The(world.staging.request)
           IN  /\ ~run.result.ok => run.system = world.system /\ run.receipts = world.receipts
               /\ run.result.ok =>
                      /\ world.caller # "root" /\ world.staging.owned /\ world.staging.request # {}
                      /\ ValidateRequest(staged, expected, world.now).ok
                      /\ staged.body.id = id /\ ValidCapture(world, staged)
                      /\ id \notin DOMAIN world.receipts
                      /\ DOMAIN run.receipts = DOMAIN world.receipts \cup {id}
<1> DEFINE staged == The(world.staging.request)
           caller == Guarded(<< <<world.caller = "root", "invalid_invoking_user">>,
                       <<~world.staging.owned \/ world.staging.request = {}, "unsafe_request">> >>, "")
           valid == ValidateRequest(staged, expected, world.now)
           named == Guarded(<< <<staged.body.id # id, "operation_mismatch">>,
                          <<~ValidCapture(world, staged), "invalid_root_capture_apply">> >>, "")
           begun == Begin(world.receipts, staged)
           accepted == caller && valid && named && begun
           ran == ExecuteLocked(world, staged)
           run == RunHelper(world, id, expected)
<1>1. run = IF ~accepted.ok THEN [result |-> accepted, system |-> world.system, receipts |-> world.receipts]
            ELSE [result |-> Done(ran.results), system |-> ran.system,
                  receipts |-> Finish(accepted.value, staged, ran.results)]
  BY DEF RunHelper
<1>2. run.result.ok <=> accepted.ok
  <2> HIDE DEF accepted, ran, staged, run
  <2> QED BY <1>1 DEF Done
<1>3. ASSUME accepted.ok PROVE caller.ok /\ valid.ok /\ named.ok /\ begun.ok /\ accepted = begun
  <2> HIDE DEF caller, valid, named, begun
  <2> QED BY <1>3, RowPasses
<1>4. ASSUME caller.ok PROVE world.caller # "root" /\ world.staging.owned /\ world.staging.request # {}
  <2>1. ~(world.caller = "root") /\ ~(~world.staging.owned \/ world.staging.request = {})
    BY <1>4, TwoGuards, Zenon
  <2> QED BY <2>1
<1>5. ASSUME named.ok PROVE staged.body.id = id /\ ValidCapture(world, staged)
  <2> HIDE DEF staged
  <2>1. ~(staged.body.id # id) /\ ~(~ValidCapture(world, staged))
    BY <1>5, TwoGuards, Zenon
  <2> QED BY <2>1
<1>6. ASSUME begun.ok
      PROVE  /\ staged.body.id \notin DOMAIN world.receipts
             /\ begun.value = Keep(world.receipts, staged.body.id, Receipt(staged, "executing"))
  <2> HIDE DEF staged
  <2> DEFINE code == IF staged.body.id \in DOMAIN world.receipts
                        /\ world.receipts[staged.body.id].request = staged.hash
                     THEN "replayed_request" ELSE "operation_id_collision"
             known == staged.body.id \in DOMAIN world.receipts
             keeping == Keep(world.receipts, staged.body.id, Receipt(staged, "executing"))
             checks == << <<known, code>> >>
  <2>1. begun = Guarded(checks, keeping)
    BY DEF Begin
  <2>2. (\A i \in DOMAIN checks : ~checks[i][1]) /\ Guarded(checks, keeping) = Done(keeping)
    <3> HIDE DEF checks, keeping, begun
    <3> QED BY <1>6, <2>1, GuardedPasses
  <2>3. ~known
    <3> HIDE DEF known, code
    <3>1. 1 \in DOMAIN checks /\ checks[1][1] = known
      OBVIOUS
    <3> HIDE DEF checks
    <3> QED BY <2>2, <3>1
  <2> HIDE DEF begun, keeping, checks
  <2> QED BY <2>1, <2>2, <2>3 DEF Done, known, keeping
<1>7. ASSUME accepted.ok
      PROVE  DOMAIN run.receipts = DOMAIN world.receipts \cup {id}
  <2>1. run.receipts = Finish(begun.value, staged, ran.results) /\ staged.body.id = id
    <3> HIDE DEF staged, begun, caller, valid, named, ran, run
    <3> QED BY <1>1, <1>3, <1>5, <1>7
  <2> HIDE DEF staged, begun, caller, valid, named, ran, run, accepted
  <2> QED BY <1>3, <1>6, <1>7, <2>1 DEF Finish, Keep
<1> HIDE DEF caller, valid, named, begun, accepted, ran
<1>8. ASSUME ~run.result.ok PROVE run.system = world.system /\ run.receipts = world.receipts
  <2> HIDE DEF run, staged
  <2> QED BY <1>1, <1>2, <1>8
<1> HIDE DEF run
<1> QED BY <1>2, <1>3, <1>4, <1>5, <1>6, <1>7, <1>8 DEF valid, run

\* Receipts are kept for ever, so an operation that was once taken up is never taken
\* up again, by this helper or another, with this request or another, and the attempt
\* changes nothing (root_target_lock, helper_receipts).
THEOREM OperationNeverRunsTwice ==
    ASSUME NEW world, NEW id, NEW expected, RunHelper(world, id, expected).result.ok,
           NEW later, NEW other,
           DOMAIN RunHelper(world, id, expected).receipts \subseteq DOMAIN later.receipts
    PROVE  LET again == RunHelper(later, id, other)
           IN  ~again.result.ok /\ again.system = later.system /\ again.receipts = later.receipts
<1>1. id \in DOMAIN RunHelper(world, id, expected).receipts
  BY RunIs
<1>2. id \in DOMAIN later.receipts
  BY <1>1
<1>3. ~RunHelper(later, id, other).result.ok
  BY <1>2, RunIs
<1> QED BY <1>3, RunIs

\* What a valid request is.
LEMMA ValidRequestIs ==
    ASSUME NEW request, NEW expected, NEW now
    PROVE  LET body == request.body
               ids == {body.operations[i].id : i \in DOMAIN body.operations}
               late == \/ body.expires <= body.requested
                       \/ body.expires - body.requested > MaxRequestLifetime
                       \/ now < body.requested
                       \/ now >= body.expires
           IN  ValidateRequest(request, expected, now).ok <=>
                   /\ request.hash = expected /\ request.body = expected
                   /\ {} \in Bindings(body) => Bindings(body) = {{}}
                   /\ ~late
                   /\ ids # {} /\ Cardinality(ids) = Len(body.operations)
                   /\ \A i \in DOMAIN body.operations : ValidOperation(body.operations[i])
<1> DEFINE body == request.body
           ids == {body.operations[i].id : i \in DOMAIN body.operations}
           late == \/ body.expires <= body.requested
                   \/ body.expires - body.requested > MaxRequestLifetime
                   \/ now < body.requested
                   \/ now >= body.expires
           foreign == request.hash # expected \/ request.hash # body
           partial == {} \in Bindings(body) /\ Bindings(body) # {{}}
           doubled == ids = {} \/ Cardinality(ids) # Len(body.operations)
           bad == \E i \in DOMAIN body.operations : ~ValidOperation(body.operations[i])
           checks == << <<foreign, "request_hash_mismatch">>, <<partial, "invalid_workflow_binding">>,
                        <<late, "expired_request">>, <<doubled, "invalid_operations">>,
                        <<bad, "invalid_operation">> >>
<1>1. ValidateRequest(request, expected, now) = Guarded(checks, request)
  BY DEF ValidateRequest
<1>2. Guarded(checks, request).ok <=> ~foreign /\ ~partial /\ ~late /\ ~doubled /\ ~bad
  <2> HIDE DEF foreign, partial, late, doubled, bad
  <2>1. /\ DOMAIN checks = 1..5
        /\ checks[1][1] = foreign /\ checks[2][1] = partial /\ checks[3][1] = late
        /\ checks[4][1] = doubled /\ checks[5][1] = bad
    OBVIOUS
  <2> HIDE DEF checks
  <2>2. Guarded(checks, request).ok <=> \A i \in DOMAIN checks : ~checks[i][1]
    BY GuardedPasses DEF Guarded, Done, Refused
  <2> QED BY <2>1, <2>2
<1> HIDE DEF late, ids, checks
<1> QED BY <1>1, <1>2 DEF late, ids

\* Nothing runs but the request that was hashed, in its time and under its name; it has
\* operations of the coordinator's forms only, each named once; and one that replaces
\* the drop-in is of this host, names approval, backup and manifest, and does the
\* coordinator's steps in their order (helper_service, helper_protocol).
THEOREM HelperRunsHashedRequest ==
    ASSUME NEW world, NEW id, NEW expected, RunHelper(world, id, expected).result.ok
    PROVE  LET body == The(world.staging.request).body
               kinds == [i \in DOMAIN body.operations |-> body.operations[i].kind]
           IN  /\ body = expected /\ body.id = id /\ world.caller # "root"
               /\ ~ (world.now < body.requested) /\ ~ (world.now >= body.expires)
               /\ \A i \in DOMAIN body.operations : ValidOperation(body.operations[i])
               /\ "atomic_replace" \in Elements(kinds) =>
                      /\ body.host = world.host /\ {} \notin Bindings(body)
                      /\ \E n \in 1..3 : kinds = SubSeq(<<"atomic_replace", "daemon_reload", "restart_unit">>, 1, n)
<1> DEFINE staged == The(world.staging.request)
           body == staged.body
           kinds == [i \in DOMAIN body.operations |-> body.operations[i].kind]
<1>1. /\ world.caller # "root" /\ ValidateRequest(staged, expected, world.now).ok
      /\ body.id = id /\ ValidCapture(world, staged)
  BY RunIs
<1>2. "atomic_replace" \in Elements(kinds) =>
          /\ body.host = world.host /\ {} \notin Bindings(body)
          /\ \E n \in 1..3 : kinds = SubSeq(<<"atomic_replace", "daemon_reload", "restart_unit">>, 1, n)
  <2>1. ValidCapture(world, staged)
    BY <1>1
  <2> HIDE DEF staged
  <2> QED BY <2>1, Zenon DEF ValidCapture, body, kinds
<1>3. /\ body = expected /\ ~ (world.now < body.requested) /\ ~ (world.now >= body.expires)
      /\ \A i \in DOMAIN body.operations : ValidOperation(body.operations[i])
  <2> HIDE DEF staged
  <2> QED BY <1>1, ValidRequestIs, Zenon
<1> QED BY <1>1, <1>2, <1>3

-----------------------------------------------------------------------------
(* What the coordinator prepares                                          *)

\* The least of three times.
LEMMA MinOfThree ==
    ASSUME NEW a \in Nat, NEW b \in Nat, NEW c \in Nat
    PROVE  /\ Min({a, b, c}) \in Nat
           /\ \A n \in Nat : n < Min({a, b, c}) <=> n < a /\ n < b /\ n < c
<1>1. \E x \in {a, b, c} : \A y \in {a, b, c} : x <= y
  BY Z3
<1>2. Min({a, b, c}) \in {a, b, c} /\ \A y \in {a, b, c} : Min({a, b, c}) <= y
  <2> DEFINE S == {a, b, c}
  <2>1. \E x \in S : \A y \in S : x <= y
    BY <1>1
  <2> HIDE DEF S
  <2>2. Min(S) \in S /\ \A y \in S : Min(S) <= y
    BY <2>1, Zenon DEF Min
  <2> QED BY <2>2 DEF S
<1> QED BY <1>2

\* What the coordinator's parameters are, of a write and of an undoing write or removal.
LEMMA ParametersAre ==
    ASSUME NEW target, NEW before, NEW content, NEW meta
    PROVE  LET written == [NoParameters EXCEPT !.target = target, !.before = before,
                                              !.staged = content, !.meta = meta]
               undo == [NoParameters EXCEPT !.target = target, !.before = before]
               restored == [undo EXCEPT !.staged = content, !.meta = meta]
           IN  /\ written.target = target /\ written.unit = {} /\ written.staged = content /\ written.meta = meta
               /\ restored = written
               /\ undo.target = target /\ undo.unit = {} /\ undo.staged = {} /\ undo.before = before /\ undo.meta = {}
BY DEF NoParameters

\* The fields of an operation.
LEMMA OperationIs ==
    ASSUME NEW id, NEW kind, NEW parameters
    PROVE  /\ Operation(id, kind, parameters).id = id
           /\ Operation(id, kind, parameters).kind = kind
           /\ Operation(id, kind, parameters).parameters = parameters
BY DEF Operation

\* The forms of operation the helper takes.
LEMMA ValidForms ==
    ASSUME NEW op
    PROVE  /\ /\ op.kind \in Writes
              /\ op.parameters.target = {DropIn} /\ op.parameters.unit = {}
              /\ op.parameters.staged # {} /\ op.parameters.meta = {"root 0644"}
              => ValidOperation(op)
           /\ /\ op.kind = "remove_created_file"
              /\ op.parameters.target = {DropIn} /\ op.parameters.unit = {} /\ op.parameters.staged = {}
              /\ op.parameters.before # {} /\ op.parameters.meta = {}
              => ValidOperation(op)
           /\ op.kind = "daemon_reload" /\ op.parameters = NoParameters => ValidOperation(op)
           /\ op.kind = "restart_unit" /\ op.parameters = [NoParameters EXCEPT !.unit = {OllamaUnit}]
              => ValidOperation(op)
<1> DEFINE p == op.parameters
           write == p.target = {DropIn} /\ p.unit = {} /\ p.staged # {} /\ p.meta = {"root 0644"}
           remove == p.target = {DropIn} /\ p.unit = {} /\ p.staged = {} /\ p.before # {} /\ p.meta = {}
           reload == p = NoParameters
           restart == p = [NoParameters EXCEPT !.unit = {OllamaUnit}]
<1>1. ValidOperation(op) = CASE op.kind \in Writes -> write
                             [] op.kind = "remove_created_file" -> remove
                             [] op.kind = "daemon_reload" -> reload
                             [] op.kind = "restart_unit" -> restart
                             [] OTHER -> FALSE
  BY Zenon DEF ValidOperation
<1> HIDE DEF write, remove, reload, restart
<1>2. /\ op.kind \in Writes /\ write => ValidOperation(op)
      /\ op.kind = "remove_created_file" /\ remove => ValidOperation(op)
      /\ op.kind = "daemon_reload" /\ reload => ValidOperation(op)
      /\ op.kind = "restart_unit" /\ restart => ValidOperation(op)
  BY <1>1 DEF Writes
<1> QED BY <1>2, Zenon DEF write, remove, reload, restart

\* The operations of either request are three, of valid form and each of its own name.
LEMMA ThreeOperations ==
    ASSUME NEW id, NEW change, NEW operations,
           \/ operations = ApplyOperations(id, change)
           \/ operations = RollbackOperations(id, change)
    PROVE  LET ids == {operations[i].id : i \in DOMAIN operations}
           IN  /\ Len(operations) = 3 /\ ids # {} /\ Cardinality(ids) = 3
               /\ \A i \in DOMAIN operations : ValidOperation(operations[i])
<1> DEFINE meta == {"root 0644"}
           written == [NoParameters EXCEPT !.target = {DropIn}, !.before = change.before,
                                           !.staged = {change.after}, !.meta = meta]
           undo == [NoParameters EXCEPT !.target = {DropIn}, !.before = {change.after}]
           restored == [undo EXCEPT !.staged = change.before, !.meta = meta]
           restarting == [NoParameters EXCEPT !.unit = {OllamaUnit}]
           write == Operation(<<id, "write">>, "atomic_replace", written)
           restore == IF change.before # {}
                      THEN Operation(<<id, "restore">>, "restore_file", restored)
                      ELSE Operation(<<id, "restore">>, "remove_created_file", undo)
           reload == Operation(<<id, "reload">>, "daemon_reload", NoParameters)
           restart == Operation(<<id, "restart">>, "restart_unit", restarting)
           ids == {operations[i].id : i \in DOMAIN operations}
<1>1. operations = <<write, reload, restart>> \/ operations = <<restore, reload, restart>>
  BY Zenon DEF ApplyOperations, RollbackOperations
<1>2. ValidOperation(write) /\ write.id = <<id, "write">>
  <2>1. /\ written.target = {DropIn} /\ written.unit = {} /\ written.staged = {change.after} /\ written.meta = meta
    <3> HIDE DEF meta
    <3> QED BY ParametersAre
  <2> HIDE DEF written
  <2>2. write.id = <<id, "write">> /\ write.kind = "atomic_replace" /\ write.parameters = written
    BY OperationIs
  <2> HIDE DEF write
  <2>3. write.kind \in Writes /\ {change.after} # {}
    BY <2>2 DEF Writes
  <2> QED BY <2>1, <2>2, <2>3, ValidForms, Zenon
<1>3. ValidOperation(restore) /\ restore.id = <<id, "restore">>
  <2>1. restored.target = {DropIn} /\ restored.unit = {} /\ restored.staged = change.before /\ restored.meta = meta
    <3> HIDE DEF meta
    <3> QED BY ParametersAre
  <2>2. undo.target = {DropIn} /\ undo.unit = {} /\ undo.staged = {} /\ undo.before = {change.after} /\ undo.meta = {}
    BY ParametersAre
  <2> HIDE DEF restored, undo
  <2>3. restore.id = <<id, "restore">>
    BY OperationIs
  <2>4. CASE change.before # {}
    <3>1. restore.kind = "restore_file" /\ restore.parameters = restored
      BY <2>4, OperationIs
    <3> HIDE DEF restore
    <3>2. restore.kind \in Writes
      BY <3>1 DEF Writes
    <3> QED BY <2>1, <2>3, <2>4, <3>1, <3>2, ValidForms, Zenon
  <2>5. CASE change.before = {}
    <3>1. restore.kind = "remove_created_file" /\ restore.parameters = undo
      BY <2>5, OperationIs
    <3> HIDE DEF restore
    <3>2. {change.after} # {}
      OBVIOUS
    <3> QED BY <2>2, <2>3, <3>1, <3>2, ValidForms, Zenon
  <2> QED BY <2>4, <2>5
<1>4. ValidOperation(reload) /\ reload.id = <<id, "reload">>
  <2>1. reload.id = <<id, "reload">> /\ reload.kind = "daemon_reload" /\ reload.parameters = NoParameters
    BY OperationIs
  <2> HIDE DEF reload
  <2> QED BY <2>1, ValidForms, Zenon
<1>5. ValidOperation(restart) /\ restart.id = <<id, "restart">>
  <2>1. restart.id = <<id, "restart">> /\ restart.kind = "restart_unit" /\ restart.parameters = restarting
    <3> HIDE DEF restarting
    <3> QED BY OperationIs
  <2> HIDE DEF restart
  <2> QED BY <2>1, ValidForms, Zenon
<1> HIDE DEF write, restore, reload, restart
<1>6. PICK first : /\ operations = <<first, reload, restart>> /\ ValidOperation(first)
                   /\ first.id = <<id, "write">> \/ first.id = <<id, "restore">>
  BY <1>1, <1>2, <1>3
<1>7. /\ Len(operations) = 3 /\ DOMAIN operations = 1..3
      /\ operations[1] = first /\ operations[2] = reload /\ operations[3] = restart
  BY <1>6
<1>8. ids = {first.id, reload.id, restart.id}
  <2>1. ids = {operations[i].id : i \in {1, 2, 3}}
    <3>1. DOMAIN operations = {1, 2, 3}
      BY <1>7
    <3> QED BY <3>1, Zenon
  <2> QED BY <1>7, <2>1, Zenon
<1>9. first.id # reload.id /\ first.id # restart.id /\ reload.id # restart.id
  BY <1>4, <1>5, <1>6
<1>10. Cardinality({first.id, reload.id, restart.id}) = 3
  <2> DEFINE x == first.id
             y == reload.id
             z == restart.id
  <2>1. x # y /\ x # z /\ y # z
    BY <1>9
  <2> HIDE DEF x, y, z
  <2>2. IsFiniteSet({z}) /\ Cardinality({z}) = 1
    BY FS_Singleton
  <2>3. IsFiniteSet({z} \cup {y}) /\ Cardinality({z} \cup {y}) = 2
    BY <2>1, <2>2, FS_AddElement
  <2>4. Cardinality(({z} \cup {y}) \cup {x}) = 3
    BY <2>1, <2>3, FS_AddElement
  <2>5. {x, y, z} = ({z} \cup {y}) \cup {x}
    OBVIOUS
  <2> QED BY <2>4, <2>5 DEF x, y, z
<1>11. \A i \in DOMAIN operations : ValidOperation(operations[i])
  BY <1>4, <1>5, <1>6, <1>7
<1> QED BY <1>7, <1>8, <1>10, <1>11

\* What the coordinator prepares for an apply or its rollback, for any change, the
\* helper accepts from the moment it is made until five minutes have passed or the plan
\* or the approval has ended, and not a moment longer (_operations, _rollback_operations
\* and _request against HelperRequest.validate).
THEOREM PreparedIsValidInItsTime ==
    ASSUME NEW plan, plan.expires \in Nat, plan.approvalExpires \in Nat,
           NEW id, NEW change, NEW at \in Nat, NEW now \in Nat, NEW operations,
           \/ operations = ApplyOperations(id, change)
           \/ operations = RollbackOperations(id, change)
    PROVE  LET request == Prepared(plan, id, operations, at)
           IN  ValidateRequest(request, request.hash, now).ok <=>
                   /\ at <= now /\ now < at + ApplyLifetime
                   /\ now < plan.expires /\ now < plan.approvalExpires
<1> DEFINE request == Prepared(plan, id, operations, at)
           body == request.body
           end == Min({at + ApplyLifetime, plan.expires, plan.approvalExpires})
           ids == {operations[i].id : i \in DOMAIN operations}
<1>1. /\ request.hash = body /\ body.operations = operations /\ body.requested = at /\ body.expires = end
      /\ Bindings(body) = {{"approval"}, {"backup"}, {"manifest"}}
  <2> HIDE DEF end
  <2> QED BY DEF Prepared, WithHash, Bindings, end
<1>2. end \in Nat /\ \A n \in Nat : n < end <=> n < at + ApplyLifetime /\ n < plan.expires /\ n < plan.approvalExpires
  BY MinOfThree DEF ApplyLifetime
<1>3. ids # {} /\ Cardinality(ids) = Len(operations) /\ \A i \in DOMAIN operations : ValidOperation(operations[i])
  <2>1. /\ Len(operations) = 3 /\ ids # {} /\ Cardinality(ids) = 3
        /\ \A i \in DOMAIN operations : ValidOperation(operations[i])
    BY ThreeOperations, Zenon DEF ids
  <2> HIDE DEF ids
  <2> QED BY <2>1, Zenon
<1>4. {} \notin Bindings(body)
  BY <1>1
<1> HIDE DEF end, ids
<1>5. ValidateRequest(request, request.hash, now).ok <=>
          ~(end <= at \/ end - at > MaxRequestLifetime \/ now < at \/ now >= end)
  <2> DEFINE late(b) == \/ b.expires <= b.requested
                        \/ b.expires - b.requested > MaxRequestLifetime
                        \/ now < b.requested
                        \/ now >= b.expires
             names(b) == {b.operations[i].id : i \in DOMAIN b.operations}
             valid(b) == \A i \in DOMAIN b.operations : ValidOperation(b.operations[i])
  <2> HIDE DEF request
  <2>1. ValidateRequest(request, request.hash, now).ok <=>
            /\ request.hash = request.hash /\ request.body = request.hash
            /\ {} \in Bindings(body) => Bindings(body) = {{}}
            /\ ~late(body)
            /\ names(body) # {} /\ Cardinality(names(body)) = Len(body.operations)
            /\ valid(body)
    BY ValidRequestIs, Zenon
  <2>2. names(body) = ids /\ (valid(body) <=> \A i \in DOMAIN operations : ValidOperation(operations[i]))
    <3>1. body.operations = operations
      BY <1>1
    <3>2. body.operations = operations => names(body) = ids
      BY Z3 DEF ids
    <3>3. valid(body) <=> \A i \in DOMAIN operations : ValidOperation(operations[i])
      BY <3>1, Z3
    <3> HIDE DEF valid, names
    <3> QED BY <3>1, <3>2, <3>3
  <2>3. late(body) <=> (end <= at \/ end - at > MaxRequestLifetime \/ now < at \/ now >= end)
    BY <1>1
  <2> HIDE DEF late, names, valid
  <2> QED BY <1>1, <1>3, <1>4, <2>1, <2>2, <2>3
<1>6. end <= at + ApplyLifetime
  BY <1>2 DEF ApplyLifetime
<1> HIDE DEF request
<1>7. ~(end <= at \/ end - at > MaxRequestLifetime \/ now < at \/ now >= end) <=> at <= now /\ now < end
  BY <1>2, <1>6 DEF MaxRequestLifetime, ApplyLifetime
<1> QED BY <1>2, <1>5, <1>7 DEF request

-----------------------------------------------------------------------------
(* The audit log                                                          *)

Event == [id : Nat, prev : Nat]

\* The types the proof needs.
Typed == /\ pc \in [Writers -> {"idle", "read_head", "write_event", "write_head"}]
         /\ made \in Nat
         /\ seen \in [Writers -> Seq(Event)]
         /\ mine \in [Writers -> Event]
         /\ events \in Seq(Event)
         /\ head \in [n : Nat, id : Nat]

\* The files and HEAD.
Chain == /\ Valid(events)
         /\ head.n \in {Len(events), Len(events) - 1}
         /\ head.n > 0 => head.id = events[head.n].id

\* What writer w knows at its step of append.
Knows(w) ==
    /\ pc[w] \in {"read_head", "write_event"} => seen[w] = events
    /\ pc[w] = "write_event" => /\ head.n = Len(events)
                                /\ mine[w].prev = LastId(events)
    /\ pc[w] = "write_head" => /\ events = Append(seen[w], mine[w])
                               /\ head.n = Len(seen[w])

IInv == Typed /\ Chain /\ \A w \in Writers : Knows(w)

\* The hash of the last event of a chain.
LEMMA LastIdType ==
    ASSUME NEW chain \in Seq(Event)
    PROVE  LastId(chain) \in Nat
<1>1. CASE chain = <<>>
  BY <1>1 DEF LastId
<1>2. CASE chain # <<>>
  <2>1. Len(chain) \in 1..Len(chain)
    BY <1>2
  <2>2. chain[Len(chain)] \in Event
    BY <2>1
  <2>3. QED BY <1>2, <2>2 DEF LastId, Event
<1>3. QED BY <1>1, <1>2

\* A valid chain stays valid when the next event names its last one.
LEMMA ValidAppend ==
    ASSUME NEW chain \in Seq(Event), Valid(chain),
           NEW e \in Event, e.prev = LastId(chain)
    PROVE  Valid(Append(chain, e))
<1>1. Append(chain, e) \in Seq(Event) /\ Len(Append(chain, e)) = Len(chain) + 1
  OBVIOUS
<1>2. ASSUME NEW k \in 1..Len(Append(chain, e))
      PROVE  Append(chain, e)[k].prev = (IF k = 1 THEN 0 ELSE Append(chain, e)[k-1].id)
  <2>1. CASE k \in 1..Len(chain)
    BY <1>1, <2>1 DEF Valid
  <2>2. CASE k = Len(chain) + 1
    BY <1>1, <2>2 DEF LastId
  <2>3. QED BY <1>1, <2>1, <2>2
<1>3. QED BY <1>2 DEF Valid

\* The file append writes is the one after the last when the chain it has read
\* is the chain on the disk.
LEMMA EventIsAppended ==
    ASSUME NEW w \in Writers, Typed, seen[w] = events, EventWritten(w)
    PROVE  events' = Append(events, mine[w])
BY DEF EventWritten, Sequence, Typed

\* The first state satisfies the invariant.
LEMMA InitEstablishes == Init => IInv
BY DEF Init, IInv, Typed, Chain, Knows, Valid, NoHead, NoEvent, Event

\* Each step of a lone writer keeps it.
LEMMA StepPreserves ==
    ASSUME NEW w, Writers = {w}, IInv, [Next]_vars
    PROVE  IInv'
<1> USE DEF Typed, Chain, Knows, Event
<1>1. CASE ReadEvents(w)
  BY <1>1 DEF IInv, ReadEvents, Goto
<1>2. CASE ReadHead(w)
  <2>1. CASE HeadMatches(seen[w]) /\ Goto(w, "write_event") /\ made' = made + 1
             /\ mine' = [mine EXCEPT ![w] = [id |-> made + 1, prev |-> LastId(seen[w])]]
             /\ UNCHANGED seen
    <3>1. LastId(seen[w]) \in Nat
      BY LastIdType DEF IInv
    <3>2. QED BY <1>2, <2>1, <3>1 DEF IInv, ReadHead, Goto, HeadMatches
  <2>2. CASE Leave(w) /\ UNCHANGED made
    BY <1>2, <2>2 DEF IInv, ReadHead, Leave, Goto, NoEvent
  <2>3. QED BY <1>2, <2>1, <2>2 DEF ReadHead
<1>3. CASE WriteEvent(w)
  <2>1. /\ pc[w] = "write_event" /\ seen[w] = events /\ mine[w].prev = LastId(events)
        /\ head.n = Len(events) /\ UNCHANGED <<head, made>>
    BY <1>3 DEF IInv, WriteEvent
  <2>2. CASE EventWritten(w)
    <3>1. events' = Append(events, mine[w])
      BY <2>1, <2>2, EventIsAppended DEF IInv
    <3>2. Chain'
      BY <2>1, <3>1, ValidAppend DEF IInv
    <3>3. CASE Goto(w, "write_head") /\ UNCHANGED <<seen, mine>>
      BY <2>1, <3>1, <3>2, <3>3 DEF IInv, Goto
    <3>4. CASE Leave(w)
      BY <2>1, <3>1, <3>2, <3>4 DEF IInv, Leave, Goto, NoEvent
    <3>5. QED BY <1>3, <3>3, <3>4 DEF WriteEvent
  <2>3. CASE Leave(w) /\ UNCHANGED events
    BY <2>1, <2>3 DEF IInv, Leave, Goto, NoEvent
  <2>4. QED BY <1>3, <2>2, <2>3 DEF WriteEvent
<1>4. CASE WriteHead(w)
  <2>1. /\ pc[w] = "write_head" /\ events = Append(seen[w], mine[w])
        /\ head' \in {head, [n |-> Len(seen[w]) + 1, id |-> mine[w].id]}
        /\ Leave(w) /\ UNCHANGED <<events, made>>
    BY <1>4 DEF IInv, WriteHead, Sequence
  <2>2. Chain'
    BY <2>1 DEF IInv
  <2>3. QED BY <2>1, <2>2 DEF IInv, Leave, Goto, NoEvent
<1>5. CASE Crash(w)
  BY <1>5 DEF IInv, Crash, Leave, Goto, NoEvent
<1>6. CASE UNCHANGED vars
  BY <1>6 DEF IInv, vars, Valid, LastId
<1>7. QED BY <1>1, <1>2, <1>3, <1>4, <1>5, <1>6 DEF Next

\* HeadLagsByOne for a lone writer: a failed append leaves at most one event
\* that HEAD does not name (LocalAuditLog.append).
THEOREM HeadAlwaysLagsByOne ==
    ASSUME NEW w, Writers = {w}
    PROVE  Spec => []HeadLagsByOne
<1>1. IInv => HeadLagsByOne
  BY DEF IInv, Chain, HeadLagsByOne
<1>2. IInv /\ [Next]_vars => IInv'
  BY StepPreserves
<1>3. QED BY <1>1, <1>2, InitEstablishes, PTL DEF Spec

\* AppendOnly for a lone writer: no event file is ever replaced.
THEOREM LoneWriterAppends ==
    ASSUME NEW w, Writers = {w}
    PROVE  Spec => AppendOnly
<1>1. ASSUME IInv, [Next]_vars
      PROVE  [\A k \in 1..Len(events) : events'[k] = events[k]]_vars
  <2>1. CASE WriteEvent(w) /\ EventWritten(w)
    <3>1. seen[w] = events
      BY <1>1, <2>1 DEF IInv, Knows, WriteEvent
    <3>2. events' = Append(events, mine[w])
      BY <1>1, <2>1, <3>1, EventIsAppended DEF IInv
    <3>3. QED BY <1>1, <3>2 DEF IInv, Typed
  <2>2. CASE UNCHANGED events
    BY <2>2
  <2>3. CASE UNCHANGED vars
    BY <2>3 DEF vars
  <2>4. QED
    BY <1>1, <2>1, <2>2, <2>3 DEF Next, ReadEvents, ReadHead, WriteEvent, WriteHead, Crash
<1>2. IInv /\ [Next]_vars => IInv'
  BY StepPreserves
<1>3. QED BY <1>1, <1>2, InitEstablishes, PTL DEF Spec, AppendOnly
=============================================================================
