------------------------------- MODULE HostProbes -------------------------------
(***************************************************************************)
(* How the program looks at a host without changing it: the candidates of  *)
(* the host list, the identity of an SSH host, the local and the SSH host  *)
(* adapter, the remote user's home and the installed helper.  Each is an   *)
(* operator from what the host answers to a result, or to the exception of *)
(* the code: Refused with "adapter" for an AdapterError, "os" for an       *)
(* OSError and "value" for a ValueError.                                   *)
(*                                                                         *)
(* A command's answer is its output, or "exit" for a status that is not 0, *)
(* "missing" for 127, "timeout", and "raised" when it cannot be run.  A    *)
(* file is [kind, utf8, content], kind one of "absent", "unreadable",      *)
(* "large" (for its reader), "huge" (for the output of any command) and    *)
(* "file"; a file's hash is the file.                                      *)
(***************************************************************************)
EXTENDS ApplyRouting, SequencesExt

Output(out) == [kind |-> "output", out |-> out]
NoOutput(kind) == [kind |-> kind, out |-> "none"]
Answered(answer) == answer.kind = "output"

Check(holds, error) == IF holds THEN Done("") ELSE Refused(error)

-----------------------------------------------------------------------------
(* The host list: the literal aliases of ~/.ssh/config and of what it      *)
(* includes.  A configuration file is [kind, lines], a line [kind, values] *)
(* with the literal aliases of a Host line or the files an Include line    *)
(* names, in order; fs has the files that exist.                           *)
Stop(s) == [s EXCEPT !.ok = FALSE]

RECURSIVE ReadConfig(_, _, _, _)
ReadConfig(fs, limit, path, s) ==
    LET entered == [s EXCEPT !.visited = @ \cup {path}]
        Include(t, file) ==
            IF t.ok /\ file \in DOMAIN fs THEN ReadConfig(fs, limit, file, t) ELSE t
        ReadLine(t, line) ==
            CASE ~t.ok -> t
              [] line.kind = "host" -> [t EXCEPT !.aliases = @ \cup Elements(line.values)]
              [] line.kind = "include" -> FoldLeft(Include, t, line.values)
              [] line.kind = "unquoted" -> Stop(t)
              [] OTHER -> t
    IN  IF Cardinality(s.visited) >= limit THEN Stop(s)
        ELSE IF path \in s.visited THEN s
        ELSE IF path \notin DOMAIN fs THEN entered
        ELSE IF fs[path].kind # "file" THEN Stop(entered)
        ELSE FoldLeft(ReadLine, entered, fs[path].lines)

DiscoverHosts(fs, limit, root) ==
    LET read == ReadConfig(fs, limit, root, [visited |-> {}, aliases |-> {}, ok |-> TRUE])
    IN  Check(read.ok, "value")
        && Done({[id |-> "local", kind |-> "local"]}
                    \cup {[id |-> alias, kind |-> "ssh"] : alias \in read.aliases})

\* The effective configuration and one BatchMode connection.  The probe's answer is
\* the host keys its log names, whether it says the key is known, and its status.
ResolveIdentity(config, probe) ==
    Check(Answered(config) /\ config.out = "host and port", "adapter")
    && Check(probe.kind \in {"output", "exit"}, "adapter")
    && Check(Cardinality(probe.out.keys) = 1, "adapter")
    && Check(probe.kind = "exit" => probe.out.known, "adapter")
    && Done([fingerprint |-> The(probe.out.keys), loginNeeded |-> probe.kind = "exit"])

\* The identity as the task factories of ApplyRouting use it.
IdentityOf(resolved) ==
    [resolved |-> resolved.ok,
     loginNeeded |-> resolved.ok /\ resolved.value.loginNeeded,
     fingerprints |-> IF resolved.ok THEN {resolved.value.fingerprint} ELSE {}]

-----------------------------------------------------------------------------
(* The two host adapters.  host is [info, link]; the link of the SSH host  *)
(* is "up", "slow" or "lost": ssh then ends with a status of its own.      *)
Local(host) == host.info.kind = "local"

Run(host, answer) ==
    CASE Local(host) \/ host.link = "up" -> answer
      [] host.link = "slow" -> NoOutput("timeout")
      [] OTHER -> NoOutput("exit")

Identify(host) ==
    IF Local(host) \/ host.link = "up" THEN Done(host.info) ELSE Refused("adapter")

Stat(exists, hash) == [exists |-> exists, hash |-> hash]

LocalStat(file) ==
    CASE file.kind = "absent" -> Done(Stat(FALSE, {}))
      [] file.kind = "unreadable" -> Refused("os")
      [] OTHER -> Done(Stat(TRUE, {file}))

LocalRead(file) ==
    CASE file.kind \in {"absent", "unreadable"} -> Refused("os")
      [] file.kind \in {"large", "huge"} -> Refused("value")
      [] OTHER -> Done(file)

\* The output of ssh is decoded before the adapter sees it: bytes that are no UTF-8
\* have been replaced.
Decoded(file) == [file EXCEPT !.utf8 = TRUE]

SshStat(host, file) ==
    CASE host.link = "slow" -> Refused("adapter")
      [] host.link = "lost" \/ file.kind = "absent" -> Done(Stat(FALSE, {}))
      [] file.kind \in {"large", "file"} -> Done(Stat(TRUE, {Decoded(file)}))
      [] OTHER -> Done(Stat(TRUE, {}))

SshRead(host, file) ==
    CASE host.link # "up" \/ file.kind \in {"absent", "unreadable"} -> Refused("os")
      [] file.kind = "huge" -> Refused("adapter")
      [] file.kind = "large" -> Refused("value")
      [] OTHER -> Done(Decoded(file))

StatFile(host, file) == IF Local(host) THEN LocalStat(file) ELSE SshStat(host, file)
ReadFile(host, file) == IF Local(host) THEN LocalRead(file) ELSE SshRead(host, file)

-----------------------------------------------------------------------------
(* The home of the remote user, where the only remote files that may be    *)
(* changed are.  passwd's output is the sequence of entries found.         *)
ConfigNames == {"opencode.jsonc", "opencode.json", "config.json"}
Candidates(home) == {<<home, name>> : name \in ConfigNames}

ResolveUserHome(host, uid, passwd) ==
    LET user == Run(host, uid)
        entries == Run(host, passwd)
    IN  Check(Answered(user) /\ Answered(entries), "adapter")
        && Check(user.out > 0 /\ Len(entries.out) = 1, "adapter")
        && Check(entries.out[1].uid = user.out /\ entries.out[1].safe, "adapter")
        && Done(Candidates(entries.out[1].home))

HelperTargetMap(candidates, targets) ==
    Check(targets # {} /\ targets \subseteq candidates, "adapter") && Done(targets)

-----------------------------------------------------------------------------
(* The installed helper.  Its metadata is stat'ed and then read: `read` is *)
(* the file that is there by then.  owned tells that both were root's      *)
(* regular files with their expected mode, strict asks for their hashes.   *)
HelperStatus(host, helper, metadata, read, owned, strict) ==
    LET program == StatFile(host, helper)
        record == StatFile(host, metadata)
        content == ReadFile(host, read)
        status ==
            IF ~program.value.exists \/ ~record.value.exists THEN "missing"
            ELSE IF ~owned \/ (strict /\ {} \in {program.value.hash, record.value.hash}) THEN "unsafe"
            ELSE IF ~content.ok \/ record.value.hash \notin {{}, {content.value}} THEN "invalid"
            ELSE CASE content.value.content = "compatible" -> "ready"
                   [] content.value.content = "other version" -> "incompatible"
                   [] OTHER -> "invalid"
    IN  program && record && Done(status)

RootApplyAllowed(status) == status.ok /\ status.value = "ready"

\* HelperCompatibilityApplyGate.assert_ready
AssertReady(status) == Guarded(<< <<~RootApplyAllowed(status), "adapter">> >>, "ready")
=============================================================================
