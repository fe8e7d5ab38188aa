-------------------------------- MODULE Diagnosis --------------------------------
(***************************************************************************)
(* The read-only diagnosis of a host (application/services, the probes of  *)
(* diagnostics/linux, adapters/ollama and adapters/clients) and the        *)
(* validation after an apply, which inspects the same way                  *)
(* (application/validation).  The report is the one ChangePlanning plans   *)
(* from; "domain" is the InvariantViolation of a record that contradicts   *)
(* itself, which is no AdapterError.                                       *)
(***************************************************************************)
EXTENDS HostProbes

Required(host, answer) == Check(Answered(Run(host, answer)), "adapter")

-----------------------------------------------------------------------------
(* System and hardware.  lspci answers with the vendors of the GPUs,       *)
(* nvidia-smi with one BOOLEAN for each row, whether it can be read,       *)
(* rocm-smi with one for each card, whether its numbers fit together.      *)
(* telemetry is the row or card a GPU's numbers are from, 0 for none.      *)
Gpu(vendor, telemetry) == [vendor |-> vendor, telemetry |-> telemetry]
Has(gpus, vendor) == \E i \in DOMAIN gpus : gpus[i].vendor = vendor

\* The rows of nvidia-smi take the place of the NVIDIA GPUs that were detected.
WithNvidia(gpus, rows) ==
    LET usable == SelectSeq([i \in DOMAIN rows |-> i], LAMBDA i : rows[i])
    IN  [i \in DOMAIN usable |-> Gpu("NVIDIA", usable[i])]
            \o SelectSeq(gpus, LAMBDA g : g.vendor # "NVIDIA")

\* merge_amd_telemetry: the n-th AMD GPU gets the numbers of the n-th card.
WithAmd(gpus, cards) ==
    [i \in DOMAIN gpus |->
        LET n == Cardinality({j \in 1..i : gpus[j].vendor = "AMD"})
        IN  IF gpus[i].vendor = "AMD" /\ n <= cards THEN Gpu("AMD", n) ELSE gpus[i]]

InspectGpus(host, sys) ==
    LET pci == Run(host, sys.lspci)
        smi == Run(host, sys.nvidia)
        rocm == Run(host, sys.rocm)
        detected == [i \in DOMAIN pci.out |-> Gpu(pci.out[i], 0)]
        gpus == IF Has(detected, "NVIDIA") /\ Answered(smi)
                THEN WithNvidia(detected, smi.out) ELSE detected
    IN  IF ~Answered(pci) THEN Done(<<>>)
        ELSE IF ~Has(gpus, "AMD") \/ ~Answered(rocm) THEN Done(gpus)
        ELSE Check(\A i \in DOMAIN rocm.out : rocm.out[i], "domain")
             && Done(WithAmd(gpus, Len(rocm.out)))

InspectSystem(host, sys) ==
    ReadFile(host, sys.osRelease)
    && ReadFile(host, sys.memInfo)
    && Required(host, sys.lscpu)
    && Required(host, sys.uname)
    && Required(host, sys.df)
    && InspectGpus(host, sys)
    && Check(sys.lscpu.out = "cores" /\ sys.uname.out = "full", "adapter")
    && Check(sys.memInfo.content = "consistent", "domain")
    && InspectGpus(host, sys)

-----------------------------------------------------------------------------
(* Ollama                                                                 *)

Versions == {"supported", "other"}

\* _api: the JSON object of an answer, or nothing.
Api(host, answer) ==
    LET run == Run(host, answer)
    IN  IF Answered(run) /\ run.out # "no object" THEN {run.out} ELSE {}

OllamaInfo(installed, version, service, api) ==
    [installed |-> installed, version |-> version, api |-> api,
     serviceLoaded |-> service.loaded, active |-> service.active, environment |-> service.environment]
NoService == [loaded |-> FALSE, active |-> FALSE, environment |-> <<>>]

\* Without an answer of the API every exit of the command but 127 counts as
\* installed, a timeout too.
InspectOllama(host, ollama) ==
    LET api == Api(host, ollama.version) \cap Versions
        cli == Run(host, ollama.cli)
        version == IF api # {} THEN api ELSE {cli.out} \cap Versions
        service == Run(host, ollama.service)
    IN  IF version = {} /\ cli.kind \in {"raised", "missing"}
        THEN Done(OllamaInfo(FALSE, "unknown", NoService, "unavailable"))
        ELSE Check(service.kind # "raised", "adapter")
             && Done(OllamaInfo(TRUE, IF version = {} THEN "unknown" ELSE The(version),
                                IF Answered(service) THEN service.out ELSE NoService,
                                IF Api(host, ollama.tags) # {} THEN "ok" ELSE "unavailable"))

-----------------------------------------------------------------------------
(* OpenCode.  A candidate is [path, seen, read]: the file when its         *)
(* existence is asked and when it is read.  A document is [form, settings, *)
(* provider, url, providers]: whether it is a JSON object, the provider    *)
(* that is named, if any, and the URL of each configured one; a name or    *)
(* URL is "ollama", "other" or "none".                                     *)
NoDocument == [form |-> "none", settings |-> <<>>, provider |-> "none", url |-> "none", providers |-> <<>>]
ActiveConfig(path, document, warnings) ==
    [config |-> path, document |-> document, warnings |-> warnings]

ReadDocument(candidate, file) ==
    IF ~file.utf8 \/ file.content.form # "object"
    THEN ActiveConfig({candidate.path}, NoDocument, TRUE)
    ELSE ActiveConfig({candidate.path}, file.content, FALSE)

\* The first candidate that exists.  A file that is too large is one more that
\* cannot be parsed; one that is gone or may not be read is an error.
ReadActiveConfig(host, candidates) ==
    LET stops == {i \in DOMAIN candidates :
                      LET stat == StatFile(host, candidates[i].seen) IN ~stat.ok \/ stat.value.exists}
        first == candidates[CHOOSE i \in stops : \A j \in stops : i <= j]
        file == ReadFile(host, first.read)
    IN  IF stops = {} THEN Done(ActiveConfig({}, NoDocument, FALSE))
        ELSE StatFile(host, first.seen)
             && IF file.ok THEN Done(ReadDocument(first, file.value))
                ELSE IF file.error = "value" THEN Done(ActiveConfig({first.path}, NoDocument, TRUE))
                ELSE file

\* extract_connection: the provider that is named and configured, or the only one.
Connection(document) ==
    LET configured == DOMAIN document.providers
        selected == IF document.provider \in configured THEN {document.provider}
                    ELSE IF Cardinality(configured) = 1 THEN configured ELSE {}
        urls == {document.providers[p] : p \in selected} \ {"none"}
    IN  [provider |-> IF selected = {} THEN document.provider ELSE The(selected),
         url |-> IF urls = {} THEN document.url ELSE The(urls)]

OllamaCompatible(document) ==
    LET connection == Connection(document)
        names == DOMAIN document.providers
        available == names \cup ({document.providers[p] : p \in names} \ {"none"})
    IN  CASE connection.provider = "ollama" -> "yes"
          [] connection.provider # "ollama" /\ connection.url # "none" ->
                IF connection.url = "ollama" THEN "yes" ELSE "no"
          [] OTHER -> IF available = {} THEN "unknown"
                      ELSE IF "ollama" \in available THEN "yes" ELSE "no"

OpenCodeInfo(installed, version, active) ==
    [installed |-> installed, version |-> version, config |-> active.config,
     compatible |-> OllamaCompatible(active.document), warnings |-> active.warnings,
     settings |-> active.document.settings]

InspectOpenCode(host, opencode) ==
    LET probe == Run(host, opencode.probe)
        active == ReadActiveConfig(host, opencode.candidates)
    IN  IF probe.kind = "raised" THEN Refused("adapter")
        ELSE IF ~Answered(probe)
        THEN Done(OpenCodeInfo(FALSE, "unknown", ActiveConfig({}, NoDocument, FALSE)))
        ELSE active && Done(OpenCodeInfo(TRUE, probe.out, active.value))

-----------------------------------------------------------------------------
(* DiagnoseHost.execute: an AdapterError of a part leaves the part out of  *)
(* the report, any other exception ends the diagnosis.                     *)
Part(result) == IF result.ok THEN {result.value} ELSE {}
Caught(result) == result.ok \/ result.error = "adapter"

ReportStatus(parts) ==
    CASE \A p \in DOMAIN parts : parts[p] # {} -> "complete"
      [] \A p \in DOMAIN parts : parts[p] = {} -> "failed"
      [] OTHER -> "partial"

DiagnoseHost(id, env) ==
    LET host == Identify(env.host)
        system == InspectSystem(env.host, env.system)
        ollama == InspectOllama(env.host, env.ollama)
        opencode == InspectOpenCode(env.host, env.opencode)
    IN  Check(~env.cancelled, "cancelled")
        && host
        && (IF Caught(system) THEN Done("") ELSE system)
        && (IF Caught(ollama) THEN Done("") ELSE ollama)
        && (IF Caught(opencode) THEN Done("") ELSE opencode)
        && Done([id |-> id,
                 host |-> [host.value EXCEPT !.elevate = Local(env.host) /\ RootApplyAllowed(env.helper)],
                 status |-> ReportStatus(<<Part(system), Part(ollama), Part(opencode)>>),
                 system |-> Part(system), ollama |-> Part(ollama), opencode |-> Part(opencode)])

(* DiagnosticTaskFactory: over SSH the report carries the key that the     *)
(* identity probe named, and OpenCode is looked for in the home of the     *)
(* user who is logged in there.                                            *)
DiagnosticTask(id, env) ==
    LET identity == ResolveIdentity(env.config, env.probe)
        ssh == [env.host EXCEPT !.info.fingerprint = identity.value.fingerprint]
        home == ResolveUserHome(ssh, env.uid, env.passwd)
        found == SelectSeq(env.opencode.candidates, LAMBDA c : c.path \in home.value)
        remote == [env EXCEPT !.host = ssh, !.opencode.candidates = found]
        login == [identity |-> IdentityOf(identity), broker |-> env.broker, loginDone |-> env.loginDone]
    IN  IF Local(env.host)
        THEN [result |-> DiagnoseHost(id, env), opened |-> FALSE, closed |-> FALSE]
        ELSE WithSession(login, home && DiagnoseHost(id, remote))

-----------------------------------------------------------------------------
(* ProductRuntimeValidator.validate: the results, by check, of what the    *)
(* changes of an applied change set ask for.                               *)
Result(check, passed) == [check |-> check, passed |-> passed]

ValidateApi(host, ollama) ==
    {Result("api", Api(host, ollama.version) # {} /\ Api(host, ollama.tags) # {})}

ValidateOllama(host, ollama, expected) ==
    LET info == InspectOllama(host, ollama)
        Effective(key) == /\ key \in DOMAIN info.value.environment
                          /\ info.value.environment[key] = expected[key]
    IN  IF ~info.ok THEN {Result("inspect", FALSE)}
        ELSE {Result("service", info.value.active)}
                \cup {Result(key, Effective(key)) : key \in DOMAIN expected}

ValidateOpenCode(host, opencode) ==
    LET info == InspectOpenCode(host, opencode)
    IN  IF ~info.ok /\ info.error = "adapter" THEN Done({Result("config", FALSE)})
        ELSE info && Done({Result("installed", info.value.installed),
                           Result("parse", info.value.config # {} /\ ~info.value.warnings)})

ValidateRuntime(root, expected, env) ==
    IF root THEN Done(ValidateOllama(env.host, env.ollama, expected) \cup ValidateApi(env.host, env.ollama))
    ELSE ValidateOpenCode(env.host, env.opencode)

Passed(results) == results.ok /\ \A r \in results.value : r.passed
=============================================================================
