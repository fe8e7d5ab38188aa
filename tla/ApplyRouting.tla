---------------------------- MODULE ApplyRouting ----------------------------
(***************************************************************************)
(* From a planned change set to the coordinator that applies it: the       *)
(* approval (application/approval, ApprovalRecord), the availability shown *)
(* (application/apply_availability) and the task factories that compose    *)
(* the routes (ui/composition).  A factory refuses before a task exists    *)
(* (the Task operators) or when the task runs (the Start operators); a     *)
(* started task names the coordinator it hands plan and approval to.       *)
(***************************************************************************)
EXTENDS DropInPlanning

\* CreateApprovalRecord.execute and ApprovalRecord.is_valid_for.
IsValidFor(approval, plan, now) ==
    /\ plan.changeSet # {}
    /\ approval.plan = plan.id
    /\ approval.reportHash = plan.reportHash
    /\ approval.changeSetHash = plan.changeSet
    /\ approval.encrypted = plan.encrypted
    /\ plan.encrypted \/ approval.acknowledged
    /\ \A e \in plan.expires : now < e
    /\ \A e \in approval.expires : now < e

ApprovalOf(plan, acknowledged, now) ==
    [plan |-> plan.id, reportHash |-> plan.reportHash, changeSetHash |-> plan.changeSet,
     encrypted |-> plan.encrypted, acknowledged |-> acknowledged,
     expires |-> {IF \E e \in plan.expires : e < now + ApprovalLifetime
                  THEN The(plan.expires) ELSE now + ApprovalLifetime}]

NoChanges(plan) == \A set \in plan.changeSet : set.changes = {}

CreateApprovalRecord(plan, named, reviewed, acknowledged, now) ==
    Guarded(<< <<~reviewed, "explicit_review_required">>,
               <<NoChanges(plan), "change_set_required">>,
               <<\E e \in plan.expires : now >= e, "stale_plan">>,
               <<~named, "approval_identity_required">>,
               <<~plan.encrypted /\ ~acknowledged, "plaintext_backup_acknowledgement_required">>,
               <<~IsValidFor(ApprovalOf(plan, acknowledged, now), plan, now), "invalid_approval">> >>,
            ApprovalOf(plan, acknowledged, now))

-----------------------------------------------------------------------------
(* Routes                                                                 *)

Privileges(plan) == {change.root : change \in UNION {set.changes : set \in plan.changeSet}}

\* The plan is bound to this report and to its host.
BindingChecks(plan, report) ==
    Guarded(<< <<\/ plan.reportId # report.id
                 \/ plan.reportHash # report
                 \/ plan.changeSet = {}
                 \/ \E set \in plan.changeSet : set.host # report.host.id, "apply_plan_binding_invalid">>,
               <<Privileges(plan) = {}, "change_set_empty">>,
               <<Cardinality(Privileges(plan)) # 1, "mixed_privilege_plan_unsupported">> >>, plan)

RouteOf(kind, root) ==
    CASE kind = "local" /\ ~root -> "local_user"
      [] kind = "local" /\ root -> "local_root"
      [] kind = "ssh" /\ ~root -> "ssh_user"
      [] kind = "ssh" /\ root -> "ssh_root"

\* AssessProductionApplyAvailability.execute
AssessAvailability(plan, report, available) ==
    LET route == RouteOf(report.host.kind, Privileges(plan) = {TRUE})
    IN  BindingChecks(plan, report) && Done([route |-> route, available |-> route \in available])

\* A candidate of the host list: [id, kind]; the alias of an SSH candidate is its own.
HostOf(plan, hosts) ==
    {h \in hosts : \E set \in plan.changeSet : set.host = h.id}
LocalHost(plan, hosts) == \E h \in HostOf(plan, hosts) : h.kind = "local"

\* The three factories' __call__, and the routers above them.
LocalUserTask(plan, hosts, allowed) ==
    Guarded(<< <<NoChanges(plan), "change_set_empty">>,
               <<~LocalHost(plan, hosts), "local_user_apply_requires_local_host">>,
               <<TRUE \in Privileges(plan), "local_user_apply_rejects_root_change">>,
               <<\E set \in plan.changeSet : \E c \in set.changes : c.target \notin allowed,
                 "local_user_apply_target_not_allowed">> >>, "local_user")

LocalRootTask(plan, hosts) ==
    Guarded(<< <<NoChanges(plan), "change_set_empty">>,
               <<~LocalHost(plan, hosts), "local_root_apply_requires_local_host">>,
               <<FALSE \in Privileges(plan), "local_root_apply_requires_root_changes">> >>, "local_root")

LocalTask(plan, hosts, allowed) ==
    Guarded(<< <<NoChanges(plan), "change_set_empty">>,
               <<Cardinality(Privileges(plan)) # 1, "mixed_privilege_plan_unsupported">> >>, plan)
    && IF Privileges(plan) = {TRUE} THEN LocalRootTask(plan, hosts)
       ELSE LocalUserTask(plan, hosts, allowed)

SshUserTask(plan, report, hosts) ==
    Guarded(<< <<~\E h \in hosts : h.id = report.host.id /\ h.kind = "ssh", "ssh_user_apply_requires_ssh_host">>,
               <<NoChanges(plan), "change_set_empty">>,
               <<\/ TRUE \in Privileges(plan)
                 \/ \E set \in plan.changeSet : set.host # report.host.id,
                 "ssh_user_apply_rejects_host_or_root_change">> >>, "ssh_user")

ProductionTask(plan, report, hosts, allowed) ==
    BindingChecks(plan, report)
    && IF report.host.kind = "local" THEN LocalTask(plan, hosts, allowed)
       ELSE IF Privileges(plan) = {TRUE} THEN Refused("ssh_root_apply_protocol_missing")
       ELSE SshUserTask(plan, report, hosts)

\* What the local tasks check again when they run, before the coordinator is built.
LocalUserStart(plan, approval, now, env) ==
    Guarded(<< <<~IsValidFor(approval, plan, now), "invalid_approval">>,
               <<env.rootMoved, "application_root_changed">>,
               <<~env.privateState, "private_state_root_unsafe">> >>, "local_user")

LocalRootStart(plan, approval, now, env) ==
    Guarded(<< <<~IsValidFor(approval, plan, now), "invalid_approval">>,
               <<~env.privateState, "private_state_root_unsafe">> >>, "local_root")

-----------------------------------------------------------------------------
(* SSH sessions.  A task resolves the alias, opens a session through the   *)
(* broker only when the host asks for a login, and closes what it opened   *)
(* whatever happens in between.  The result says whether a session was     *)
(* opened and whether one was closed.                                      *)
WithSession(env, body) ==
    LET login == env.identity.loginNeeded
        ready == Guarded(<< <<~env.identity.resolved, "host_identity_unavailable">>,
                            <<login /\ ~env.broker, "authentication_required">>,
                            <<login /\ ~env.loginDone, "authentication_failed">> >>, env)
        opened == env.identity.resolved /\ login /\ env.broker /\ env.loginDone
    IN  [result |-> ready && body, opened |-> opened, closed |-> opened]

\* ChangePlanTaskFactory: the route is chosen when the task is made, the SSH
\* route only for a configuration among the remote user's own.
ChangePlanTask(plan, report, hosts, helperProbe) ==
    LET route == SelectedPlanningRoute(plan)
        host == {h \in hosts : h.id = report.host.id}
    IN  Guarded(<< <<host = {}, "unknown_host_candidate">> >>, plan)
        && route
        && Guarded(<< <<route.value = "ollama" /\ The(host).kind # "local", "ssh_root_planning_protocol_missing">>,
                      <<route.value = "ollama" /\ ~helperProbe, "local_root_planning_unavailable">> >>,
                   [route |-> route.value, kind |-> The(host).kind])

RemoteConfigAllowed(report, env) ==
    \E i \in report.opencode : i.config \subseteq env.userConfigs /\ i.config # {}

ChangePlanOverSsh(plan, report, env) ==
    WithSession(env, IF RemoteConfigAllowed(report, env)
                     THEN BuildSelectedOpenCodeChangePlan(plan, report, env)
                     ELSE Refused("ssh_user_config_not_allowed"))

ChangePlanLocally(plan, report, env, route) ==
    IF route = "ollama" THEN BuildSelectedOllamaChangePlan(plan, report, env)
    ELSE BuildSelectedOpenCodeChangePlan(plan, report, env)

\* SshUserApplyTaskFactory: the approval and the fingerprint (none when no host key
\* is known) are checked before a session is opened; exactly one target, in the remote user's own directory.
SshUserStart(plan, report, approval, now, env) ==
    LET targets == {c.target : c \in UNION {set.changes : set \in plan.changeSet}}
        before == Guarded(<< <<~IsValidFor(approval, plan, now), "invalid_approval">>,
                             <<~env.identity.resolved, "host_identity_unavailable">>,
                             <<report.host.fingerprint \notin env.identity.fingerprints, "host_identity_changed">> >>,
                          plan)
        after == Guarded(<< <<Cardinality(targets) # 1, "unsupported_ssh_user_change">>,
                            <<~(targets \subseteq env.userConfigs), "ssh_user_config_not_allowed">>,
                            <<~env.terminal, "remote_authorization_unavailable">>,
                            <<~env.privateState, "private_state_root_unsafe">> >>, "ssh_user")
    IN  IF before.ok THEN WithSession(env, after)
        ELSE [result |-> before, opened |-> FALSE, closed |-> FALSE]
=============================================================================
