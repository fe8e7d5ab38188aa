-------------------------- MODULE RemoteReconciliation --------------------------
(***************************************************************************)
(* The reconciliation of an interrupted operation on an SSH host: the      *)
(* local journal, the backup manifest, the evidence the root helper of the *)
(* host kept and what the targets hold now must all belong together        *)
(* (infrastructure/journal, remote_journal, openssh_remote_journal).  It   *)
(* changes nothing.  The evidence hash covers the whole record and is      *)
(* whether the record is intact.                                           *)
(***************************************************************************)
EXTENDS HostProbes

\* What the three records must agree on.  manifest has only the first five.
ManifestFields == {"plan", "host", "changeSet", "backup", "manifest"}
EvidenceFields == ManifestFields \cup {"operation", "request", "rollback", "status", "targets"}

Agree(a, b, fields) == \A f \in fields : a[f] = b[f]

-----------------------------------------------------------------------------
(* The evidence.  store is [safe, files]: files has, by operation, [safe,  *)
(* canonical, intact, evidence].                                           *)
DecodeEvidence(file) ==
    Check(file.canonical /\ file.intact /\ DOMAIN file.evidence.targets # {}, "adapter")
    && Done(file.evidence)

\* RemoteRootJournalEvidenceStore.load_journal_evidence
LoadEvidence(store, operation, request) ==
    Check(store.safe /\ operation \in DOMAIN store.files, "adapter")
    && Check(store.files[operation].safe, "adapter")
    && DecodeEvidence(store.files[operation])
    && Check(/\ store.files[operation].evidence.operation = operation
             /\ store.files[operation].evidence.request = request, "adapter")
    && Done(store.files[operation])

\* OpenSshRemoteJournalPort.load_journal_evidence: the helper must be ready, and its
\* exit status tells that it found the evidence.
FetchEvidence(host, helper, store, operation, request) ==
    LET loaded == LoadEvidence(store, operation, request)
    IN  AssertReady(helper) && Check(host.link = "up", "adapter") && loaded

ValidateBinding(evidence, journal, fingerprint) ==
    Check(Agree(evidence, journal, EvidenceFields) /\ evidence.fingerprint = fingerprint, "adapter")

-----------------------------------------------------------------------------
(* RemoteJournalReconciler.reconcile.  links has the state of the link for *)
(* each target when it is looked at, files what the target is then.        *)
Reconciled(target, stat) ==
    CASE stat.exists /\ stat.hash = {} -> "unknown"
      [] stat.hash = target.before -> "unapplied"
      [] stat.hash = {target.after} -> "applied"
      [] OTHER -> "unknown"

ObserveTargets(journal, host, links, files) ==
    LET At(t) == StatFile([host EXCEPT !.link = links[t]], files[t])
    IN  Check(\A t \in DOMAIN journal.targets : At(t).ok, "adapter")
        && Done([t \in DOMAIN journal.targets |-> Reconciled(journal.targets[t], At(t).value)])

ReconcileRemote(journal, manifest, host, env) ==
    LET evidence == FetchEvidence(host, env.helper, env.store, journal.operation, journal.request)
    IN  Check(~env.cancelled, "cancelled")
        && Check(/\ manifest.complete /\ manifest.intact
                 /\ Agree(journal, manifest, ManifestFields), "adapter")
        && evidence
        && DecodeEvidence(evidence.value)
        && ValidateBinding(evidence.value.evidence, journal, manifest.fingerprint)
        && Identify(host)
        && Check(/\ host.info.id = journal.host
                 /\ manifest.fingerprint # "none"
                 /\ host.info.fingerprint = manifest.fingerprint, "adapter")
        && ObserveTargets(journal, host, env.links, env.files)
=============================================================================
