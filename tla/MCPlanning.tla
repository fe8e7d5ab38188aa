------------------------------ MODULE MCPlanning ------------------------------
(***************************************************************************)
(* The operators of the planning modules evaluated over small inputs and   *)
(* compared with what they promise.  Each claim is an ASSUME, which TLC    *)
(* evaluates before a run of a module that extends this one.               *)
(***************************************************************************)
LOCAL INSTANCE Integers
LOCAL INSTANCE Sequences
LOCAL INSTANCE FiniteSets
LOCAL R == INSTANCE ApplyRouting

LOCAL On == R!Switch(TRUE)
LOCAL Off == R!Switch(FALSE)
LOCAL Text == [type |-> "text", n |-> 1]

LOCAL Settings == UNION {[S -> {On, Off, Text}] : S \in SUBSET {"compaction.auto", "compaction.prune"}}

LOCAL OpenCodeInfos ==
    [installed : BOOLEAN, version : {"supported", "other"}, config : {{}, {"config"}},
     compatible : {"yes", "no"}, warnings : BOOLEAN, settings : Settings]
LOCAL OllamaInfos == [api : {"ok", "unavailable"}, version : {"supported"}, serviceLoaded : {TRUE}]

LOCAL LocalHost == [id |-> "host", kind |-> "local", fingerprint |-> "f", elevate |-> TRUE]
LOCAL Reports ==
    {[id |-> "report", host |-> LocalHost, opencode |-> c, ollama |-> o] :
        c \in {{}} \cup {{i} : i \in OpenCodeInfos}, o \in {{}} \cup {{i} : i \in OllamaInfos}}

\* The catalog gives at most one recommendation for a setting, so its own rules
\* never conflict, and none of them asks for root: the drop-in is planned only
\* from recommendations of another catalog.
ASSUME CatalogNeverConflicts ==
    \A report \in Reports, profile \in R!EveryProfile :
        LET recs == R!GenerateOptimizationPlan("plan", report, profile, 0).recommendations
        IN  /\ recs = R!DefaultCatalog(report, profile)
            /\ \A r \in recs : r.conflicts = {} /\ ~r.root /\ r.target # R!OllamaTarget

\* Whatever is recommended as actionable can be planned when the file still holds
\* what was diagnosed, is approved, and is routed to the unprivileged local route.
LOCAL Observed(report) ==
    [now |-> 1, cancelled |-> FALSE, host |-> report.host, utf8 |-> TRUE, content |-> "content",
     spans |-> {(CHOOSE i \in report.opencode : TRUE).settings}]

ASSUME ActionableIsPlanned ==
    \A report \in Reports :
        LET plan == R!GenerateOptimizationPlan("plan", report, "agent", 0)
            actionable == {r.id : r \in {s \in plan.recommendations : s.actionable}}
        IN  \A ids \in [1..1 -> actionable] \cup [1..2 -> actionable] :
                LET chosen == R!SelectRecommendations(plan, ids)
                    built == R!BuildSelectedOpenCodeChangePlan(chosen.value, report, Observed(report))
                    approved == R!CreateApprovalRecord(built.value, TRUE, TRUE, TRUE, 2)
                IN  IF Cardinality(R!Elements(ids)) # Len(ids) THEN ~chosen.ok
                    ELSE /\ chosen.ok /\ built.ok /\ approved.ok
                         /\ R!ProductionTask(built.value, report, {[id |-> "host", kind |-> "local"]},
                                             {"config"}) = R!Done("local_user")
                         /\ R!IsValidFor(approved.value, built.value, 6)
                         /\ ~R!IsValidFor(approved.value, built.value, 7)

\* A file that no longer holds the diagnosed value is refused.
ASSUME EditedSinceDiagnosisIsRefused ==
    \A report \in Reports, edited \in Settings :
        LET plan == R!GenerateOptimizationPlan("plan", report, "agent", 0)
            actionable == {r \in plan.recommendations : r.actionable}
        IN  \A r \in actionable :
                LET chosen == R!SelectRecommendations(plan, <<r.id>>).value
                    env == [Observed(report) EXCEPT !.spans = {edited}]
                IN  R!BuildSelectedOpenCodeChangePlan(chosen, report, env).ok
                        <=> (r.setting \in DOMAIN edited /\ edited[r.setting] = r.current)

\* Conflicts: for each setting one recommendation is left, or none can be acted
\* on and each names the others.
LOCAL Candidates ==
    {[id |-> rule, rule |-> rule, target |-> "t", setting |-> s, current |-> 0, recommended |-> v,
      root |-> FALSE, actionable |-> TRUE, conflicts |-> {}] : rule \in {"a", "b", "c"}, s \in {"x", "y"}, v \in {1, 2}}

ASSUME ConflictsAreNamed ==
    \A recs \in {S \in SUBSET Candidates : \A r, q \in S : r.id = q.id => r = q} :
        LET resolved == R!ResolveConflicts(recs, [a |-> 1, b |-> 2, c |-> 3])
        IN  \A r \in recs :
                LET left == {q \in resolved : q.setting = r.setting}
                    group == {q \in recs : q.setting = r.setting}
                IN  IF \A q \in group : q.recommended = r.recommended
                    THEN left = {CHOOSE q \in group : \A o \in group : o.rule = q.rule \/
                                    <<q.rule, o.rule>> \in {<<"b", "a">>, <<"c", "a">>, <<"c", "b">>}}
                    ELSE \A q \in left : ~q.actionable /\ q.conflicts = {o.id : o \in group} \ {q.id}

-----------------------------------------------------------------------------
(* The drop-in                                                            *)

LOCAL Lines ==
    {R!Line("section", "", ""), R!Line("blank", "", ""), R!Line("other", "", "")}
        \cup {R!Assignment(k, "old") : k \in {"HOST", "MAX_QUEUE"}}
LOCAL DropIns == UNION {[1..n -> Lines] : n \in 0..4}
LOCAL NewSettings == UNION {[S -> {"new"}] : S \in SUBSET {"HOST", "KEEP_ALIVE", "MAX_QUEUE"}}

\* What systemd makes of a drop-in: the last assignment of each key.
LOCAL Effective(lines) ==
    LET keys == {lines[i].key : i \in {j \in DOMAIN lines : lines[j].kind = "assign"}}
        last(k) == CHOOSE i \in DOMAIN lines :
                      R!Assigns(lines, i, k) /\ \A j \in DOMAIN lines : R!Assigns(lines, j, k) => j <= i
    IN  [k \in keys |-> lines[last(k)].value]
LOCAL Merged(new, old) ==
    [k \in DOMAIN new \cup DOMAIN old |-> IF k \in DOMAIN new THEN new[k] ELSE old[k]]

\* Editing a drop-in gives the selected keys their new value and every other key
\* its old one, keeps every line that is not an edited assignment, and leaves a
\* drop-in that can be edited again.
ASSUME OtherSettingsStay ==
    \A lines \in {l \in DropIns : R!EditableDropIn(l)}, settings \in NewSettings :
        LET edited == R!UpdateDropIn(lines, settings)
        IN  /\ Effective(edited) = Merged(settings, Effective(lines))
            /\ R!EditableDropIn(edited)
            /\ \A i \in DOMAIN lines : edited[i] # lines[i] => lines[i].key \in DOMAIN settings

ASSUME RenderedIsEditable ==
    \A settings \in NewSettings :
        /\ R!EditableDropIn(R!RenderDropIn(settings))
        /\ Effective(R!RenderDropIn(settings)) = settings

-----------------------------------------------------------------------------
(* SSH                                                                    *)

\* A session is closed exactly when it was opened, and none is opened for an
\* approval that has run out or a host whose key has changed.
ASSUME SessionsAreClosed ==
    \A resolved, login, broker, done, terminal \in BOOLEAN, now \in {1, 9}, prints \in {{"f"}, {"g"}} :
        LET change == [target |-> "config", root |-> FALSE]
            plan == [id |-> "plan", reportHash |-> "r", encrypted |-> TRUE, expires |-> {30},
                     changeSet |-> {[host |-> "host", changes |-> {change}]}]
            approval == R!ApprovalOf(plan, FALSE, 1)
            env == [identity |-> [resolved |-> resolved, loginNeeded |-> login, fingerprints |-> prints],
                    broker |-> broker, loginDone |-> done, terminal |-> terminal,
                    privateState |-> TRUE, userConfigs |-> {"config"}]
            run == R!SshUserStart(plan, [host |-> LocalHost], approval, now, env)
        IN  /\ run.opened = run.closed
            /\ run.opened => now = 1 /\ prints = {"f"} /\ login
            /\ run.result.ok => now = 1 /\ prints = {"f"} /\ resolved /\ terminal /\ (login => run.opened)

-----------------------------------------------------------------------------
(* The two readers of a configuration                                     *)

LOCAL J == INSTANCE JsoncEdit

LOCAL True == J!Token("literal", <<"true">>)
LOCAL False == J!Token("literal", <<"false">>)
LOCAL Key(parts) == J!Token("string", parts)
LOCAL Comment == J!Mark("comment")

\* Every text of at most five tokens.
LOCAL Alphabet == {J!Mark("{"), J!Mark("}"), J!Mark("["), J!Mark("]"), J!Mark(","), J!Mark(":"),
                   Key(<<"compaction">>), False, Comment}
LOCAL Texts == UNION {[1..n -> Alphabet] : n \in 0..5}

\* Objects of at most two members, written without a trailing comma or with one,
\* and with a comment before each value or without.
LOCAL Written(members, trailing, comment) ==
    LET Member(m) == <<Key(m[1]), J!Mark(":")>> \o (IF comment THEN <<Comment>> ELSE <<>>) \o m[2]
        last == IF trailing THEN <<J!Mark(","), J!Mark("}")>> ELSE <<J!Mark("}")>>
    IN  <<J!Mark("{")>> \o
        (IF Len(members) = 0 THEN <<J!Mark("}")>>
         ELSE IF Len(members) = 1 THEN Member(members[1]) \o last
         ELSE Member(members[1]) \o <<J!Mark(",")>> \o Member(members[2]) \o last)
LOCAL UpTo2(S) == UNION {[1..n -> S] : n \in 0..2}
LOCAL Inner == {Written(m, FALSE, FALSE) : m \in UpTo2({<<"auto">>, <<"prune">>} \X {<<True>>, <<False>>})}
LOCAL Values == {<<True>>, <<False>>, <<J!Mark("["), False, J!Mark("]")>>} \cup Inner
LOCAL Configs(keys) == {Written(m, t, c) : m \in UpTo2(keys \X Values), t \in BOOLEAN, c \in BOOLEAN}

LOCAL Compaction == {<<"compaction">>}
LOCAL Auto == <<"compaction", "auto">>

\* A text the planner's parser accepts is one the diagnosis can read.
ASSUME PlannerReadsLess ==
    \A doc \in Texts : J!LocateScalarSpans(doc) # {} => J!ParseJsonc(doc) # {}

\* When the diagnosis recommends to switch a setting on and the planner does not
\* refuse, the edited file has the setting on, and every other setting it had.
LOCAL EditIsExact(doc) ==
    \A s \in J!ExtractSettings(doc, Compaction) :
        s[1] = Auto /\ s[2] # True =>
            \A edited \in J!PlannedEdit(doc, Auto, s[2], True) :
                J!ExtractSettings(edited, Compaction)
                    = (J!ExtractSettings(doc, Compaction) \ {s}) \cup {<<Auto, True>>}

\* It holds of every file whose keys hold no dot, repeated keys included, and the
\* planner refuses none of them.
ASSUME EditsAreExact ==
    \A doc \in Configs({<<"compaction">>, <<"auto">>}) :
        /\ EditIsExact(doc)
        /\ \A s \in J!ExtractSettings(doc, Compaction) :
              s[1] = Auto => J!PlannedEdit(doc, Auto, s[2], True) # {}

\* It does not hold when a key is literally named "compaction.auto": both readers
\* give the two scalars one path, the diagnosis looks at the nested one and the
\* planner edits the one that comes last.
ASSUME DottedKeyIsEdited ==
    \E doc \in Configs({<<"compaction">>, Auto}) : ~EditIsExact(doc)
=============================================================================
