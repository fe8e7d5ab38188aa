---------------------------- MODULE ChangePlanning ----------------------------
(***************************************************************************)
(* From a diagnostic report to a change set that may be applied: the rules *)
(* and their conflicts (optimization/), the selection (ui/recommendations),*)
(* the two planners (application/change_planning, planning/), the approval *)
(* (application/approval) and the choice of the apply route.  Nothing here *)
(* keeps state: each function of the code is an operator from its          *)
(* arguments, and what it observes, to its result or its refusal.          *)
(*                                                                         *)
(* An optional value of the code is a set with at most one element.  A     *)
(* hash is the value it is taken of.  A scalar of a configuration is       *)
(* [type, n]: n is 0 or 1 for a boolean, and for a text 1 when it has the  *)
(* form its setting asks for.  Time is in minutes.                         *)
(***************************************************************************)
EXTENDS Integers, Sequences, FiniteSets

PlanLifetime == 30
ApprovalLifetime == 5

Refused(code) == [ok |-> FALSE, error |-> code]
Done(value) == [ok |-> TRUE, value |-> value]

\* A chain of guards, each a condition and the refusal it raises; the first wins.
Guarded(checks, value) ==
    LET failing == {i \in DOMAIN checks : checks[i][1]}
        least == CHOOSE i \in failing : \A j \in failing : i <= j
    IN  IF failing = {} THEN Done(value) ELSE Refused(checks[least][2])

\* Steps in a row: the first refusal ends them.
first && next == IF first.ok THEN next ELSE first

The(optional) == CHOOSE x \in optional : TRUE
Elements(seq) == {seq[i] : i \in DOMAIN seq}

Switch(on) == [type |-> "bool", n |-> IF on THEN 1 ELSE 0]

-----------------------------------------------------------------------------
(* Recommendations                                                        *)

EveryProfile == {"balanced", "coding", "agent"}

\* Rule ids and their priorities in the catalog.
Priority == [opencode_version |-> 1000, compaction_auto |-> 800,
             compaction_prune |-> 790, ollama_unavailable |-> 100]

Recommendation(rule, profile, target, setting, current, recommended, actionable) ==
    [id |-> <<rule, profile>>, rule |-> rule, target |-> target, setting |-> setting,
     current |-> current, recommended |-> recommended, root |-> FALSE,
     actionable |-> actionable, conflicts |-> {}]

OllamaUnavailable(report, profile) ==
    {Recommendation("ollama_unavailable", profile, "ollama.api", "connectivity",
                    "unavailable", "manual_review", FALSE) :
        info \in {i \in report.opencode : /\ profile \in EveryProfile
                                          /\ i.compatible = "yes"
                                          /\ \A o \in report.ollama : o.api # "ok"}}

UnsupportedOpenCodeVersion(report, profile) ==
    {Recommendation("opencode_version", profile, "opencode", "version_compatibility",
                    info.version, "supported", FALSE) :
        info \in {i \in report.opencode : /\ profile \in EveryProfile
                                          /\ i.installed
                                          /\ i.version # "supported"}}

\* Advice for the agent profile; actionable only for a configuration read in full.
AgentCompaction(rule, setting, report, profile) ==
    LET Advised(i) == /\ profile = "agent"
                      /\ i.installed
                      /\ setting \in DOMAIN i.settings
                      /\ i.settings[setting] # Switch(TRUE)
        Supported(i) == /\ i.version = "supported"
                        /\ i.config # {}
                        /\ ~i.warnings
                        /\ i.settings[setting].type = "bool"
    IN  {Recommendation(rule, profile,
                        IF i.config = {} THEN "opencode.config" ELSE The(i.config),
                        setting, i.settings[setting], Switch(TRUE), Supported(i)) :
            i \in {j \in report.opencode : Advised(j)}}

DefaultCatalog(report, profile) ==
    UNION {OllamaUnavailable(report, profile),
           UnsupportedOpenCodeVersion(report, profile),
           AgentCompaction("compaction_auto", "compaction.auto", report, profile),
           AgentCompaction("compaction_prune", "compaction.prune", report, profile)}

(* Conflicts: recommendations for one setting that agree are merged into    *)
(* the one of the highest priority; those that differ are all kept and none *)
(* of them can be acted on.                                                 *)
Group(recs, r) == {s \in recs : s.target = r.target /\ s.setting = r.setting}
Agreed(group) == \A r, s \in group : r.recommended = s.recommended
Preferred(group, rank) == CHOOSE r \in group : \A s \in group : rank[s.rule] <= rank[r.rule]
InConflict(r, group) ==
    [id |-> r.id, rule |-> r.rule, target |-> r.target, setting |-> r.setting,
     current |-> r.current, recommended |-> r.recommended, root |-> r.root,
     actionable |-> FALSE, conflicts |-> {s.id : s \in group} \ {r.id}]

ResolveConflicts(recs, rank) ==
    {Preferred(Group(recs, r), rank) : r \in {s \in recs : Agreed(Group(recs, s))}}
        \cup {InConflict(r, Group(recs, r)) : r \in {s \in recs : ~Agreed(Group(recs, s))}}

GenerateOptimizationPlan(id, report, profile, now) ==
    [id |-> id, reportId |-> report.id, reportHash |-> report,
     recommendations |-> ResolveConflicts(DefaultCatalog(report, profile), Priority),
     selected |-> {}, changeSet |-> {}, expires |-> {now + PlanLifetime}, encrypted |-> FALSE]

SelectRecommendations(plan, ids) ==
    LET available == {r.id : r \in {s \in plan.recommendations :
                                        s.actionable /\ s.conflicts = {}}}
    IN  Guarded(<< <<Cardinality(Elements(ids)) # Len(ids), "duplicate_recommendation_selection">>,
                   <<~(Elements(ids) \subseteq available), "recommendation_not_actionable">> >>,
                [plan EXCEPT !.selected = Elements(ids), !.changeSet = {}])

-----------------------------------------------------------------------------
(* Change planning                                                        *)

OllamaTarget == "ollama.systemd"
Selected(plan) == {r \in plan.recommendations : r.id \in plan.selected}
KnownSelection(plan) == plan.selected \subseteq {r.id : r \in plan.recommendations}

SelectedPlanningRoute(plan) ==
    LET targets == {r.target : r \in Selected(plan)}
    IN  Guarded(<< <<~KnownSelection(plan), "selection_invalid">>,
                   <<OllamaTarget \in targets /\ targets # {OllamaTarget},
                     "mixed_planning_targets_unsupported">> >>,
                IF targets = {OllamaTarget} THEN "ollama" ELSE "opencode")

\* What both planning services check of the plan before they look at the host.
PlanChecks(plan, report, env) ==
    Guarded(<< <<env.cancelled, "cancelled">>,
               <<plan.changeSet # {}, "change_set_already_generated">>,
               <<plan.reportId # report.id \/ plan.reportHash # report, "stale_report">>,
               <<\E e \in plan.expires : env.now >= e, "stale_plan">>,
               <<plan.selected = {}, "selection_required">>,
               <<~KnownSelection(plan), "selection_invalid">> >>, plan)

\* identify: the host the configuration is read on is the one that was diagnosed.
HostCheck(plan, report, env) ==
    Guarded(<< <<\/ env.host.id # report.host.id
                 \/ env.host.kind # report.host.kind
                 \/ env.host.fingerprint # report.host.fingerprint, "host_identity_changed">> >>, plan)

\* _ALLOWED_PATH with the check _validate_value makes for each.
SettingKind(setting) ==
    CASE setting \in {"compaction.auto", "compaction.prune"} -> "switch"
      [] setting \in {"compaction.tail_turns", "compaction.preserve_recent_tokens",
                       "compaction.reserved"} -> "count"
      [] setting \in {"model", "small_model"} -> "model"
      [] setting = "options.baseURL" -> "loopback_url"
      [] setting \in {"options.timeout", "options.headerTimeout"} -> "timeout"
      [] setting \in {"options.chunkTimeout", "limit.context"} -> "positive"
      [] OTHER -> "not_allowed"

ValidValue(setting, value) ==
    CASE SettingKind(setting) = "switch" -> value.type = "bool"
      [] SettingKind(setting) = "count" -> value.type = "int" /\ value.n >= 0
      [] SettingKind(setting) \in {"model", "loopback_url"} -> value.type = "text" /\ value.n = 1
      [] SettingKind(setting) = "timeout" -> \/ value = Switch(FALSE)
                                             \/ value.type = "int" /\ value.n > 0
      [] SettingKind(setting) = "positive" -> value.type = "int" /\ value.n > 0
      [] OTHER -> FALSE

\* OpenCodeChangePlanner.plan: one in-place replacement for each recommendation
\* of this file.  env.spans is what locate_scalar_spans found, {} when it failed.
\* The code looks at one recommendation after the other; of several refusals this
\* gives the first kind and not the first recommendation's.
PlannedFor(recs, path) == {r \in recs : r.actionable /\ r.target = path}

OpenCodeChecks(plan, report, path, env) ==
    LET planned == PlannedFor(Selected(plan), path)
        Found(r) == \E spans \in env.spans : r.setting \in DOMAIN spans
        Same(r) == \E spans \in env.spans : spans[r.setting] = r.current
    IN  Guarded(<< <<\A i \in report.opencode : i.version # "supported", "unsupported_version">>,
                   <<\A i \in report.opencode : path \notin i.config, "source_conflict">>,
                   <<\E i \in report.opencode : i.warnings, "parse_failed">>,
                   <<env.spans = {}, "parse_failed">>,
                   <<\E r \in planned : SettingKind(r.setting) = "not_allowed", "setting_not_allowed">>,
                   <<\E r \in planned : ~Found(r), "source_conflict">>,
                   <<\E r \in planned : Found(r) /\ ~Same(r), "source_conflict">>,
                   <<\E r \in planned : ~ValidValue(r.setting, r.recommended), "invalid_recommendation">> >>,
                plan)

OpenCodeChange(r, path, content) ==
    [id |-> r.id, target |-> path, base |-> {content}, after |-> r.recommended,
     root |-> FALSE, restart |-> FALSE]

OpenCodeChangeSet(report, recs, path, content) ==
    [host |-> report.host.id, services |-> {},
     changes |-> {OpenCodeChange(r, path, content) : r \in PlannedFor(recs, path)}]

WithChangeSet(plan, set) == [plan EXCEPT !.changeSet = {set}]

BuildSelectedOpenCodeChangePlan(plan, report, env) ==
    LET configs == UNION {i.config : i \in report.opencode}
        path == The(configs)
        built == OpenCodeChangeSet(report, Selected(plan), path, env.content)
    IN  PlanChecks(plan, report, env)
        && Guarded(<< <<\E r \in Selected(plan) : ~r.actionable \/ r.conflicts # {}, "selection_invalid">>,
                      <<configs = {}, "source_unavailable">> >>, plan)
        && Guarded(<< <<\E r \in Selected(plan) : r.target # path, "unsupported_target">> >>, plan)
        && HostCheck(plan, report, env)
        && Guarded(<< <<~env.utf8, "config_encoding_invalid">> >>, plan)
        && OpenCodeChecks(plan, report, path, env)
        && Guarded(<< <<built.changes = {}, "empty_change_set">> >>, WithChangeSet(plan, built))
=============================================================================
