---------------------------- MODULE DropInPlanning ----------------------------
(***************************************************************************)
(* Planning of the privileged change, the systemd drop-in of the Ollama    *)
(* service (planning/ollama, BuildSelectedOllamaChangePlan).  A drop-in is *)
(* the sequence of its lines: [kind, key, value] with kind "section" for   *)
(* [Service], "assign" for a literal Environment assignment of a known     *)
(* key, "blank" for blank lines and comments, "other" for anything else.   *)
(***************************************************************************)
EXTENDS ChangePlanning

DropInPath == "drop_in"

\* _KEYS, in the order selected settings are written.
KeyOrder == <<"CONTEXT_LENGTH", "FLASH_ATTENTION", "HOST", "KEEP_ALIVE", "KV_CACHE_TYPE",
              "MAX_LOADED_MODELS", "MAX_QUEUE", "NUM_PARALLEL">>
Keys == Elements(KeyOrder)

Line(kind, key, value) == [kind |-> kind, key |-> key, value |-> value]
Assignment(key, value) == Line("assign", key, value)
Assigns(lines, i, key) == lines[i].kind = "assign" /\ lines[i].key = key

AsText(value) == [type |-> "text", n |-> value.n]

\* OllamaDropInPlanner._validate: the value to write, or the refusal.  bounds is
\* the policy's numeric_bounds, empty unless a policy is given.
SettingText(key, value, bounds) ==
    CASE key \in {"HOST", "KV_CACHE_TYPE", "KEEP_ALIVE"} ->
            Guarded(<< <<~(value.type = "text" /\ value.n = 1), "invalid_recommendation">> >>, value)
      [] key = "FLASH_ATTENTION" ->
            Guarded(<< <<value.n \notin {0, 1}, "invalid_recommendation">> >>,
                    AsText(value))
      [] OTHER ->
            IF key \in DOMAIN bounds
            THEN Guarded(<< <<\/ value.type # "int"
                              \/ value.n < bounds[key].min
                              \/ value.n > bounds[key].max, "invalid_recommendation">> >>,
                         AsText(value))
            ELSE Refused("unverified_threshold")

\* The forms _update_drop_in edits: one section, before every assignment, and no
\* key assigned twice.
EditableDropIn(lines) ==
    /\ \A i \in DOMAIN lines : lines[i].kind # "other"
    /\ \E i \in DOMAIN lines :
          /\ lines[i].kind = "section"
          /\ \A j \in DOMAIN lines \ {i} :
                /\ lines[j].kind # "section"
                /\ lines[j].kind = "assign" => i < j
    /\ \A i, j \in DOMAIN lines : i # j => ~(lines[i].kind = "assign" /\ Assigns(lines, j, lines[i].key))

\* The settings whose key is in keys, as lines in the order they are written.
SettingLines(settings, keys) ==
    LET order == SelectSeq(KeyOrder, LAMBDA k : k \in keys)
    IN  [i \in 1..Len(order) |-> Assignment(order[i], settings[order[i]])]

RenderDropIn(settings) ==
    <<Line("section", "", "")>> \o SettingLines(settings, DOMAIN settings)

\* Every selected key that is assigned gets its new value in place, every other
\* line stays, and the selected keys that are missing are appended.
ReplaceAssigned(lines, settings) ==
    [i \in DOMAIN lines |->
        IF lines[i].kind = "assign" /\ lines[i].key \in DOMAIN settings
        THEN Assignment(lines[i].key, settings[lines[i].key])
        ELSE lines[i]]

UpdateDropIn(lines, settings) ==
    LET assigned == {lines[i].key : i \in {j \in DOMAIN lines : lines[j].kind = "assign"}}
    IN  ReplaceAssigned(lines, settings) \o SettingLines(settings, DOMAIN settings \ assigned)

\* OllamaDropInPlanner.plan.  env.dropIn is the present drop-in, {} when it is absent.
PlannedSettings(recs) == {r \in recs : r.actionable /\ r.target = OllamaTarget}

\* What plan refuses.  Of several settings that are refused the code names the
\* first by its key; here the codes have the order of this list.
OllamaChecks(plan, report, env) ==
    LET planned == PlannedSettings(Selected(plan))
        Refuses(code) == \E r \in planned : /\ r.setting \in Keys
                                            /\ SettingText(r.setting, r.recommended, env.bounds) = Refused(code)
    IN  Guarded(<< <<~report.host.elevate, "privileged_helper_unavailable">>,
                   <<\A o \in report.ollama : o.version # "supported", "unsupported_version">>,
                   <<\A o \in report.ollama : ~o.serviceLoaded, "unsupported_service">>,
                   <<\E r, q \in planned : r # q /\ r.setting = q.setting, "duplicate_setting">>,
                   <<\E r \in planned : r.setting \notin Keys, "setting_not_allowed">>,
                   <<Refuses("unverified_threshold"), "unverified_threshold">>,
                   <<Refuses("invalid_recommendation"), "invalid_recommendation">>,
                   <<planned # {} /\ \E lines \in env.dropIn : ~EditableDropIn(lines),
                     "unsupported_existing_drop_in">> >>, plan)

PlannedDropIn(planned, env) ==
    LET settings == [k \in {r.setting : r \in planned} |->
                        SettingText(k, (CHOOSE r \in planned : r.setting = k).recommended,
                                    env.bounds).value]
    IN  IF env.dropIn = {} THEN RenderDropIn(settings) ELSE UpdateDropIn(The(env.dropIn), settings)

DropInChange(report, before, after) ==
    [id |-> <<"drop_in", report.id>>, target |-> DropInPath, base |-> before, after |-> after,
     root |-> TRUE, restart |-> TRUE]

OllamaChangeSet(report, recs, env) ==
    LET planned == PlannedSettings(recs)
    IN  [host |-> report.host.id,
         services |-> IF planned = {} THEN {} ELSE {"ollama.service"},
         changes |-> IF planned = {} THEN {}
                     ELSE {DropInChange(report, env.dropIn, PlannedDropIn(planned, env))}]

\* env.helper is the answer of the helper's compatibility probe, env.symlink the
\* metadata of the drop-in.
BuildSelectedOllamaChangePlan(plan, report, env) ==
    LET Root(r) == r.actionable /\ r.conflicts = {} /\ r.target = OllamaTarget /\ r.root
        built == OllamaChangeSet(report, Selected(plan), env)
    IN  PlanChecks(plan, report, env)
        && Guarded(<< <<\E r \in Selected(plan) : ~Root(r), "selection_invalid">> >>, plan)
        && HostCheck(plan, report, env)
        && Guarded(<< <<~env.helper, "privileged_helper_unavailable">>,
                      <<env.symlink, "unsafe_target">>,
                      <<env.dropIn # {} /\ ~env.utf8, "config_encoding_invalid">> >>, plan)
        && OllamaChecks(plan, report, env)
        && Guarded(<< <<built.changes = {}, "empty_change_set">> >>, WithChangeSet(plan, built))
=============================================================================
