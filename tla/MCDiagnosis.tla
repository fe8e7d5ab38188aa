------------------------------ MODULE MCDiagnosis ------------------------------
(***************************************************************************)
(* The diagnosis evaluated over the answers a host may give, together with *)
(* the planning that starts from its report.  Each claim is an ASSUME,     *)
(* which TLC evaluates before a run of a module that extends this one.     *)
(***************************************************************************)
LOCAL INSTANCE Integers
LOCAL INSTANCE Sequences
LOCAL INSTANCE FiniteSets
LOCAL INSTANCE TLC
LOCAL D == INSTANCE Diagnosis

LOCAL Failures == {D!NoOutput(k) : k \in {"exit", "missing", "timeout", "raised"}}
LOCAL File(kind, utf8, content) == [kind |-> kind, utf8 |-> utf8, content |-> content]
LOCAL Missing(content) == {File(k, TRUE, content) : k \in {"absent", "unreadable", "large", "huge"}}

LOCAL LocalHost == [info |-> [id |-> "local", kind |-> "local", fingerprint |-> "f", elevate |-> FALSE], link |-> "up"]
LOCAL SshHosts == {[info |-> [id |-> "ssh", kind |-> "ssh", fingerprint |-> "f", elevate |-> FALSE], link |-> l] :
                      l \in {"up", "slow", "lost"}}
LOCAL Hosts == {LocalHost} \cup SshHosts

-----------------------------------------------------------------------------
(* The hosts                                                              *)

\* Configuration files that name one alias each and include others, themselves and
\* each other too.
LOCAL Names == {"a", "b", "c"}
LOCAL Includes == [Names -> UNION {[1..n -> Names] : n \in 0..2}]
LOCAL ConfigFiles(inc) ==
    [f \in Names |-> [kind |-> "file", lines |-> <<[kind |-> "include", values |-> inc[f]],
                                                  [kind |-> "host", values |-> <<f>>]>>]]
LOCAL Following(inc, S) == S \cup UNION {D!Elements(inc[f]) : f \in S}
LOCAL Reachable(inc) == Following(inc, Following(inc, {"a"}))
LOCAL Discovered(inc, limit) == D!DiscoverHosts(ConfigFiles(inc), limit, "a")

\* The hosts offered are the aliases of every file that can be reached, whatever the
\* order and the cycles of the includes, or none at all when there are too many.
ASSUME AliasesAreReachable ==
    \A inc \in Includes, limit \in 1..4 :
        LET found == Discovered(inc, limit)
            count == Cardinality(Reachable(inc))
        IN  /\ found.ok => {h.id : h \in found.value} = Reachable(inc) \cup {"local"}
            /\ count < limit => found.ok
            /\ count > limit => ~found.ok

\* As many files as the limit allows can be too many: the limit is tested before
\* it is known whether the file was read already.
ASSUME LimitCountsRepetitions ==
    \E inc \in Includes : Cardinality(Reachable(inc)) = 2 /\ ~Discovered(inc, 2).ok

\* The helper is ready only when the record that was read is the one whose owner and
\* mode were checked, and never over a link that failed.  The probe of the remote
\* helper demands the hashes for it; a local file always has one.
LOCAL Records == {File(k, TRUE, c) : k \in {"absent", "large", "huge", "file"},
                                     c \in {"compatible", "other version", "no record"}}
ASSUME ReadyRecordIsTheCheckedOne ==
    \A host \in Hosts, helper, metadata, read \in Records, owned \in BOOLEAN :
        D!AssertReady(D!HelperStatus(host, helper, metadata, read, owned, ~D!Local(host))).ok =>
            /\ owned /\ host.link = "up" /\ helper.kind # "absent"
            /\ read = metadata /\ read = File("file", TRUE, "compatible")

\* The remote files that may be changed are those of the one home that belongs to
\* the uid of the login, and root has none.
LOCAL Entries == UNION {[1..n -> [uid : 0..1, home : {"h", "g"}, safe : BOOLEAN]] : n \in 0..2}
ASSUME TargetsAreInOneHome ==
    \A uid \in 0..1, entries \in Entries, target \in {"h", "g"} \X {"opencode.json", "other"}, host \in SshHosts :
        LET home == D!ResolveUserHome(host, D!Output(uid), D!Output(entries))
            allowed == IF home.ok THEN D!HelperTargetMap(home.value, {target}) ELSE home
        IN  allowed.ok => /\ host.link = "up" /\ uid = 1 /\ Len(entries) = 1
                          /\ entries[1].uid = 1 /\ entries[1].home = target[1]
                          /\ target[2] = "opencode.json"

-----------------------------------------------------------------------------
(* Answers: what a sound host gives, and each way it can fail              *)

LOCAL SoundSystem ==
    [osRelease |-> File("file", TRUE, "text"), memInfo |-> File("file", TRUE, "consistent"),
     lscpu |-> D!Output("cores"), uname |-> D!Output("full"), df |-> D!Output("disks"),
     lspci |-> D!Output(<<"AMD", "NVIDIA">>), nvidia |-> D!Output(<<TRUE>>), rocm |-> D!Output(<<TRUE>>)]
LOCAL Systems ==
    {SoundSystem}
    \cup {[SoundSystem EXCEPT !.osRelease = f] : f \in Missing("text")}
    \cup {[SoundSystem EXCEPT !.memInfo = f] : f \in {File("file", TRUE, "inconsistent")}}
    \cup {[SoundSystem EXCEPT !.lscpu = a] : a \in Failures \cup {D!Output("no cores")}}
    \cup {[SoundSystem EXCEPT !.rocm = a] : a \in Failures \cup {D!Output(<<FALSE>>)}}

LOCAL Service(active, keep) ==
    D!Output([loaded |-> TRUE, active |-> active, environment |-> [HOST |-> "h", KEEP_ALIVE |-> keep]])
LOCAL Ollamas ==
    [version : {D!Output("supported"), D!Output("no version"), D!NoOutput("timeout")},
     cli : {D!Output("supported"), D!Output("no version")} \cup Failures,
     service : {Service(TRUE, "5m"), Service(FALSE, "5m"), Service(TRUE, "1h"),
                D!NoOutput("timeout"), D!NoOutput("raised")},
     tags : {D!Output("tags"), D!Output("no object")}]

LOCAL Document(on, provider) ==
    [form |-> "object", settings |-> ("compaction.auto" :> D!Switch(on)), provider |-> provider, url |-> "none", providers |-> <<>>]
LOCAL Files == Missing(D!NoDocument) \cup {File("file", TRUE, D!NoDocument)}
                  \cup {File("file", u, Document(on, "ollama")) : u \in BOOLEAN, on \in BOOLEAN}
LOCAL Candidate(path, file) == [path |-> path, seen |-> file, read |-> file]
LOCAL Gone(path) == [path |-> path, seen |-> File("file", TRUE, Document(FALSE, "ollama")),
                     read |-> File("absent", TRUE, D!NoDocument)]
LOCAL CandidateLists ==
    {<<>>, <<Gone("first")>>}
        \cup {<<Candidate("first", f), Candidate("second", g)>> : f \in Files, g \in Files}
LOCAL OpenCodes ==
    [probe : {D!Output("supported"), D!Output("other"), D!NoOutput("timeout"), D!NoOutput("raised")},
     candidates : CandidateLists]
LOCAL SoundOpenCode ==
    [probe |-> D!Output("supported"),
     candidates |-> <<Candidate("first", File("file", TRUE, Document(FALSE, "ollama")))>>]

LOCAL SoundOllama ==
    [version |-> D!Output("supported"), cli |-> D!Output("supported"), service |-> Service(TRUE, "5m"),
     tags |-> D!Output("tags")]
LOCAL Env(host, system, ollama, opencode) ==
    [host |-> host, cancelled |-> FALSE, helper |-> D!Done("ready"),
     system |-> system, ollama |-> ollama, opencode |-> opencode]

-----------------------------------------------------------------------------
(* The report                                                             *)

\* Whatever commands fail, time out or answer nonsense, a host that can be
\* identified has a report, and its status tells how much of it is there.  The only
\* exceptions are files: /etc/os-release or a configuration that cannot be read,
\* and numbers that contradict each other.
ASSUME CommandsNeverEndADiagnosis ==
    \A host \in Hosts, system \in Systems, ollama \in {SoundOllama, [SoundOllama EXCEPT !.service = D!NoOutput("raised")]},
       opencode \in OpenCodes :
        LET run == D!DiagnoseHost("report", Env(host, system, ollama, opencode))
            there == {p \in {"system", "ollama", "opencode"} : run.value[p] # {}}
        IN  IF run.ok
            THEN /\ run.value.status = "complete" <=> Cardinality(there) = 3
                 /\ run.value.status = "failed" <=> there = {}
            ELSE \/ D!Identify(host) = D!Refused("adapter")
                 \/ run.error \in {"os", "value"} /\ system.osRelease.kind # "file"
                 \/ run.error = "domain" /\ (system.memInfo.content # "consistent" \/ system.rocm = D!Output(<<FALSE>>))
                 \/ run.error = "os" /\ \E i \in DOMAIN opencode.candidates :
                                             opencode.candidates[i].read.kind \in {"absent", "unreadable"}

\* And each of them does end it, however much else could be told: there is no
\* partial report of a host whose /etc/os-release cannot be read.
ASSUME OneFileEndsADiagnosis ==
    \A file \in Missing("text"), host \in {LocalHost} :
        LET env == Env(host, [SoundSystem EXCEPT !.osRelease = file], SoundOllama, SoundOpenCode)
        IN  /\ ~D!DiagnoseHost("report", env).ok
            /\ D!InspectOllama(host, SoundOllama).ok /\ D!InspectOpenCode(host, SoundOpenCode).ok

\* Reading the telemetry loses no GPU but those of NVIDIA: the others stay, in
\* their order, and every AMD card's numbers are used once.
LOCAL Vendors == UNION {[1..n -> {"AMD", "NVIDIA", "Intel"}] : n \in 0..3}
LOCAL Rows == UNION {[1..n -> BOOLEAN] : n \in 0..2}
ASSUME GpusAreKept ==
    \A vendors \in Vendors, rows \in Rows, cards \in 0..3 :
        LET sys == [SoundSystem EXCEPT !.lspci = D!Output(vendors), !.nvidia = D!Output(rows),
                                       !.rocm = D!Output([i \in 1..cards |-> TRUE])]
            gpus == D!InspectGpus(LocalHost, sys).value
            Others(s) == SelectSeq(s, LAMBDA v : v # "NVIDIA")
            amd == {i \in DOMAIN gpus : gpus[i].vendor = "AMD"}
        IN  /\ Others([i \in DOMAIN gpus |-> gpus[i].vendor]) = Others(vendors)
            /\ \A i, j \in amd : i # j => gpus[i].telemetry # gpus[j].telemetry \/ gpus[i].telemetry = 0
            /\ (\E i \in DOMAIN vendors : vendors[i] = "NVIDIA") =>
                  Cardinality({i \in DOMAIN gpus : gpus[i].vendor = "NVIDIA"})
                      = Cardinality({i \in DOMAIN rows : rows[i]})

-----------------------------------------------------------------------------
(* From the report to the plan                                            *)

\* A recommendation that can be acted on is about a file that was read in full; on
\* the local host it is planned on the very bytes of that file.
LOCAL ReportOf(host, opencode) ==
    D!DiagnoseHost("report", Env(host, SoundSystem, SoundOllama, opencode))
LOCAL PlanOf(host, opencode) == D!GenerateOptimizationPlan("plan", ReportOf(host, opencode).value, "agent", 0)
LOCAL Advised(host, opencode) ==
    /\ ReportOf(host, opencode).ok
    /\ \E r \in PlanOf(host, opencode).recommendations : r.actionable
LOCAL Advice(host, opencode) ==
    (CHOOSE r \in PlanOf(host, opencode).recommendations : r.actionable).id

\* The file the report is about, as it is read again for the plan.
LOCAL FileOf(host, opencode) ==
    LET path == D!The(D!The(ReportOf(host, opencode).value.opencode).config)
    IN  opencode.candidates[CHOOSE i \in DOMAIN opencode.candidates : opencode.candidates[i].path = path].read
LOCAL Built(host, opencode) ==
    LET report == ReportOf(host, opencode).value
        chosen == D!SelectRecommendations(PlanOf(host, opencode), <<Advice(host, opencode)>>).value
        read == D!ReadFile(host, FileOf(host, opencode)).value
        env == [now |-> 1, cancelled |-> FALSE, host |-> report.host, utf8 |-> read.utf8,
                content |-> read, spans |-> {read.content.settings}]
    IN  D!BuildSelectedOpenCodeChangePlan(chosen, report, env)
LOCAL Bases(host, opencode) ==
    UNION {c.base : c \in D!The(Built(host, opencode).value.changeSet).changes}

ASSUME AdviceIsAboutTheFile ==
    \A opencode \in OpenCodes, host \in {LocalHost} \cup {h \in SshHosts : h.link = "up"} :
        Advised(host, opencode) =>
            /\ FileOf(host, opencode).kind = "file"
            /\ Built(host, opencode).ok
            /\ host = LocalHost => FileOf(host, opencode).utf8
            /\ FileOf(host, opencode).utf8 => Bases(host, opencode) = {FileOf(host, opencode)}

\* Over SSH it may be planned on other bytes than the file has: the output of ssh is
\* decoded before anybody asks whether it is UTF-8.  The hash the change is bound to
\* is then not the file's, which the remote executor refuses.
ASSUME RemoteFileIsDecodedFirst ==
    \E opencode \in OpenCodes, host \in SshHosts :
        Advised(host, opencode) /\ Built(host, opencode).ok
            /\ Bases(host, opencode) # {FileOf(host, opencode)}

\* An Ollama that only a timeout speaks for is reported as installed, and its
\* drop-in is never planned.
ASSUME TimeoutIsNotPlanned ==
    \A ollama \in Ollamas :
        LET info == D!InspectOllama(LocalHost, ollama)
            report == D!DiagnoseHost("report", Env(LocalHost, SoundSystem, ollama, SoundOpenCode)).value
            plan == [recommendations |-> {}, selected |-> {}]
            env == [bounds |-> <<>>, dropIn |-> {}]
        IN  /\ info.ok /\ ollama.cli = D!NoOutput("timeout") => info.value.installed
            /\ D!OllamaChecks(plan, report, env).ok =>
                  \E run \in {ollama.version, ollama.cli} : run = D!Output("supported")

\* Changes reach a remote host only under the one key its probe names, the same at
\* the diagnosis and at the apply, and with a login still to come only when that key
\* is among the known ones.  Every session that was opened for it is closed.
LOCAL Keys == {[keys |-> k, known |-> n] : k \in SUBSET {"f", "g"}, n \in BOOLEAN}
LOCAL Probes ==
    {[kind |-> k, out |-> o] : k \in {"output", "exit"}, o \in Keys} \cup {D!NoOutput("timeout")}
LOCAL Confirmed(probe) ==
    /\ probe.kind # "timeout" /\ Cardinality(probe.out.keys) = 1
    /\ probe.kind = "exit" => probe.out.known
LOCAL SshEnv(host, probe, loginDone) ==
    [host |-> host, cancelled |-> FALSE, helper |-> D!Refused("adapter"),
     system |-> SoundSystem, ollama |-> SoundOllama,
     opencode |-> [SoundOpenCode EXCEPT !.candidates =
                      <<Candidate(<<"g", "opencode.json">>, File("file", TRUE, Document(FALSE, "ollama"))),
                        Candidate(<<"h", "opencode.json">>, File("file", TRUE, Document(FALSE, "ollama")))>>],
     config |-> D!Output("host and port"), probe |-> probe, broker |-> TRUE, loginDone |-> loginDone,
     uid |-> D!Output(1), passwd |-> D!Output(<<[uid |-> 1, home |-> "h", safe |-> TRUE]>>)]

ASSUME ApplyNeedsTheDiagnosedKey ==
    \A host \in SshHosts, probe, later \in Probes, loginDone \in BOOLEAN :
        LET diagnosed == D!DiagnosticTask("report", SshEnv(host, probe, loginDone))
            report == diagnosed.result.value
            target == D!The(D!The(report.opencode).config)
            plan == [id |-> "plan", reportHash |-> report, encrypted |-> TRUE, expires |-> {30},
                     changeSet |-> {[host |-> "ssh", changes |-> {[target |-> target, root |-> FALSE]}]}]
            env == [identity |-> D!IdentityOf(D!ResolveIdentity(D!Output("host and port"), later)), broker |-> TRUE,
                    loginDone |-> TRUE, terminal |-> TRUE, privateState |-> TRUE,
                    userConfigs |-> D!Candidates("h")]
            applied == D!SshUserStart(plan, report, D!ApprovalOf(plan, FALSE, 1), 1, env)
        IN  /\ diagnosed.opened = diagnosed.closed
            /\ diagnosed.result.ok <=>
                  Confirmed(probe) /\ host.link = "up" /\ (probe.kind = "exit" => loginDone)
            /\ diagnosed.result.ok =>
                  (applied.result.ok <=> Confirmed(later) /\ later.out.keys = probe.out.keys)

-----------------------------------------------------------------------------
(* After the apply                                                        *)

\* The validation of an applied drop-in passes exactly when the service runs with
\* every setting that was written, the API answers twice and a version or the command
\* is there: an inspection that fails is never taken for one that found nothing wrong.
LOCAL Expected == UNION {[S -> {"h", "5m", "1h"}] : S \in SUBSET {"HOST", "KEEP_ALIVE"}}
ASSUME ValidatedDropInIsEffective ==
    \A ollama \in Ollamas, expected \in Expected :
        D!Passed(D!ValidateRuntime(TRUE, expected, Env(LocalHost, SoundSystem, ollama, SoundOpenCode))) <=>
            /\ D!Answered(ollama.service) /\ ollama.service.out.active
            /\ \A k \in DOMAIN expected : ollama.service.out.environment[k] = expected[k]
            /\ D!Answered(ollama.version)
            /\ ollama.version = D!Output("supported") \/ ollama.cli.kind \notin {"missing", "raised"}
            /\ ollama.tags = D!Output("tags")

\* The validation of a changed OpenCode configuration passes only when OpenCode
\* answers and the configuration that is active can be parsed.
ASSUME ValidatedConfigIsParsed ==
    \A opencode \in OpenCodes :
        D!Passed(D!ValidateRuntime(FALSE, <<>>, Env(LocalHost, SoundSystem, SoundOllama, opencode))) =>
            /\ D!Answered(opencode.probe)
            /\ \E i \in DOMAIN opencode.candidates :
                  /\ opencode.candidates[i].read.kind = "file"
                  /\ opencode.candidates[i].read.content # D!NoDocument
                  /\ \A j \in 1..(i-1) : opencode.candidates[j].seen.kind = "absent"

\* It does not tell which configuration that is: it passes for a change to one that
\* another shadows, although the planner listed the setting's value as a check.
ASSUME ShadowedChangePasses ==
    \E opencode \in OpenCodes :
        /\ D!Passed(D!ValidateRuntime(FALSE, <<>>, Env(LocalHost, SoundSystem, SoundOllama, opencode)))
        /\ opencode.candidates[2].read.content = Document(TRUE, "ollama")
        /\ D!The(D!InspectOpenCode(LocalHost, opencode).value.config) = "first"
        /\ D!InspectOpenCode(LocalHost, opencode).value.settings["compaction.auto"] = D!Switch(FALSE)
=============================================================================
