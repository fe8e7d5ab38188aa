-------------------------- MODULE BackupRetention --------------------------
(***************************************************************************)
(* Pruning: LocalRetentionRunner over LocalBackupStore.prune               *)
(* (infrastructure/backup_inventory.py, backup.py), and                    *)
(* OpenSshRemoteRetentionPort with its attempts and results                *)
(* (openssh_remote_retention.py), RemoteRetentionHelperExecutor over       *)
(* RemoteRootRecoveryStore.prune in the process on the remote host         *)
(* (remote_retention.py, remote_backup.py).                                *)
(*                                                                         *)
(* The two prunes are separate calls, each with its own idea of which      *)
(* backups to keep.  A run lists, removes one directory after the other    *)
(* and lists again; others remove meanwhile.                               *)
(***************************************************************************)
EXTENDS BackupCopies

CONSTANTS LocalPrunes,  \* runs of the local prune
          RemotePrunes  \* request ids of remote prunes

VARIABLES
    run,       \* per run: the call that comes next
    before,    \* the list it began with
    queue,     \* what is left to remove
    removed,   \* what it removed, each time the oldest of the queue
    report,    \* its result: in the local store, or in the remote staging
    client,    \* per remote prune: the call of the client that comes next
    tries,     \* retention attempts on the disk
    tidied,    \* attempts marked cleaned
    kept,      \* results of remote prunes in the client's store
    calls      \* history: helper invocations per remote prune

runVars == <<run, before, queue, removed, report>>
clientVars == <<client, tries, tidied, kept, calls>>
retentionVars == <<runVars, clientVars>>

Runs == LocalPrunes \union RemotePrunes
NoReport == [state |-> "none"]
RunEnds == {"none", "ended"}
ClientEnds == {"done", "raised", "crashed"}

RetentionInit == /\ run = [r \in Runs |-> IF r \in LocalPrunes THEN "list" ELSE "none"]
                 /\ before = [r \in Runs |-> {}] /\ queue = [r \in Runs |-> {}]
                 /\ removed = [r \in Runs |-> {}] /\ report = [r \in Runs |-> NoReport]
                 /\ client = [q \in RemotePrunes |-> "start"] /\ tries = {} /\ tidied = {}
                 /\ kept = [q \in RemotePrunes |-> NoReport] /\ calls = [q \in RemotePrunes |-> 0]

----------------------------------------------------------------------------
(* What a prune removes of the backups it lists.                           *)

Newer(list, b) == {c \in list : CreatedAt[b] < CreatedAt[c]}
Older(list, b) == {c \in list : CreatedAt[c] < CreatedAt[b]}
Oldest(list) == CHOOSE b \in list : \A c \in list : CreatedAt[b] <= CreatedAt[c]

\* Unprotected, and beyond the generations or past the date.
Outdated(list, guarded) == {b \in list \ guarded : \/ Cardinality(Newer(list, b)) >= KeepGenerations
                                                   \/ b \in Expired}

\* LocalBackupStore.prune: the oldest first, while more than one is left.
LocalQueue(list) == LET old == Outdated(list, protected)
                    IN  IF old = list THEN {b \in old : Newer(list, b) # {}} ELSE old

\* Mutant of RemoteQueue: the last copy is a candidate like the others.
RemoteQueueAll(list) == Outdated(list, held)

\* RemoteRootRecoveryStore.prune: the candidates, newest first, but for the
\* last of them when no other backup would be left.
RemoteQueue(list) == LET old == Outdated(list, held)
                     IN  IF old = list THEN {b \in old : Older(list, b) # {}} ELSE old

Mine(r)     == IF r \in LocalPrunes THEN LocalList ELSE RemoteList
Listable(r) == r \in LocalPrunes \/ RemoteListable
QueueOf(r)  == IF r \in LocalPrunes THEN LocalQueue(LocalList) ELSE RemoteQueue(RemoteList)
RunAt(r, next) == run' = [run EXCEPT ![r] = next]

\* observed_removed: what is not listed any more.
ObservedRemoved(r) == before[r] \ Mine(r)

----------------------------------------------------------------------------
(* LocalRetentionRunner.prune and RemoteRetentionHelperExecutor.execute.   *)

\* The first listing; when it raises, no result is made.
RunList(r) == /\ run[r] = "list"
              /\ IF Listable(r) THEN before' = [before EXCEPT ![r] = Mine(r)] /\ RunAt(r, "decide")
                 ELSE UNCHANGED before /\ RunAt(r, "ended")
              /\ UNCHANGED <<queue, removed, report, clientVars, copyVars>>

\* prune lists again and decides.  The remote store first looks at every
\* directory it is going to remove, and removes nothing when one is unsafe.
RunDecide(r) ==
    /\ run[r] = "decide"
    /\ IF Listable(r) /\ (r \in RemotePrunes => \A b \in QueueOf(r) : remote[b] # "stripped")
       THEN queue' = [queue EXCEPT ![r] = QueueOf(r)] /\ RunAt(r, "items")
       ELSE UNCHANGED queue /\ RunAt(r, "failed")
    /\ UNCHANGED <<before, removed, report, clientVars, copyVars>>

RemovalOf(r) == IF r \in LocalPrunes THEN LocalRemoval ELSE RemoteRemoval
RunRemove(r) ==
    /\ run[r] \in DOMAIN RemovalOf(r) /\ queue[r] # {}
    /\ LET b == Oldest(queue[r])
           next == RemovalOf(r)[run[r]].next
       IN  \/ /\ IF r \in LocalPrunes THEN LocalPhase(b, run[r]) /\ UNCHANGED remote
                 ELSE RemotePhase(b, run[r]) /\ UNCHANGED local
              /\ IF next = "removed"
                 THEN /\ queue' = [queue EXCEPT ![r] = @ \ {b}] /\ RunAt(r, "items")
                      /\ removed' = [removed EXCEPT ![r] = @ \union {b}]
                 ELSE RunAt(r, next) /\ UNCHANGED <<queue, removed>>
              /\ UNCHANGED events
           \/ /\ IF r \in LocalPrunes THEN LocalPhaseRaises(b, run[r]) ELSE RemotePhaseRaises(b, run[r])
              /\ RunAt(r, "failed") /\ UNCHANGED <<copies, queue, removed, events>>
           \/ MayHappen /\ Happens /\ RunAt(r, "failed") /\ UNCHANGED <<copies, queue, removed>>
    /\ UNCHANGED <<before, report, clientVars, protection>>

\* _validate_result of both kinds of result, before one is written.
ValidReport(p) == /\ p.removed \intersect p.remaining = {}
                  /\ p.state = "partial" => p.removed # {}
                  /\ p.state \in {"failed", "unknown"} => p.removed = {}
                  /\ p.state = "unknown" => p.remaining = {}

Save(r, state, gone, left) ==
    /\ ValidReport([state |-> state, removed |-> gone, remaining |-> left])
    /\ report' = [report EXCEPT ![r] = [state |-> state, removed |-> gone, remaining |-> left]]
    /\ RunAt(r, "ended")

\* The second listing.  prune returns what it removed with the oldest first,
\* the observation has the newest first: two or more never agree.
Partial(gone) == IF gone = {} THEN "failed" ELSE "partial"
Agrees(r) == removed[r] = ObservedRemoved(r) /\ Cardinality(removed[r]) <= 1
Verdict(r) == IF Agrees(r) /\ Mine(r) \subseteq before[r] THEN "completed"
              ELSE Partial(ObservedRemoved(r))

\* Mutant of RunReport: reports what was decided, and does not look again.
RunReportPlan(r) ==
    /\ \/ run[r] = "items" /\ queue[r] = {}
       \/ run[r] = "failed"
    /\ Save(r, "completed", removed[r] \union queue[r], {})
    /\ UNCHANGED <<before, queue, removed, clientVars, copyVars>>

RunReport(r) ==
    /\ \/ /\ run[r] = "items" /\ queue[r] = {}
          /\ IF Listable(r) THEN Save(r, Verdict(r), ObservedRemoved(r), Mine(r))
             ELSE Save(r, "unknown", {}, {})
       \/ /\ run[r] = "failed"
          /\ IF Listable(r) THEN Save(r, Partial(ObservedRemoved(r)), ObservedRemoved(r), Mine(r))
             ELSE Save(r, "unknown", {}, {})
    /\ UNCHANGED <<before, queue, removed, clientVars, copyVars>>

\* The process of a run dies.  A local run has no attempt and is not resumed.
RunDies(r) == /\ MayHappen /\ run[r] \notin RunEnds \union {"list"} /\ RunAt(r, "ended") /\ Happens
              /\ UNCHANGED <<before, queue, removed, report, clientVars, copies, protection>>

RunStep(r) == RunList(r) \/ RunDecide(r) \/ RunRemove(r) \/ RunReport(r)

----------------------------------------------------------------------------
(* OpenSshRemoteRetentionPort.prune.                                       *)

ClientAt(q, next) == client' = [client EXCEPT ![q] = next]

\* Mutant of FindTry: what has no result is asked for again.
FindKept(q) == /\ client[q] = "start"
               /\ ClientAt(q, IF kept[q] # NoReport THEN "recover" ELSE "save")
               /\ UNCHANGED <<runVars, tries, tidied, kept, calls, copyVars>>

\* RemoteRetentionAttemptStore.load: once the directory of attempts exists, a
\* request that is not in it is "unsafe" and not "missing".
FindTry(q) == /\ client[q] = "start"
              /\ ClientAt(q, IF q \in tries THEN "recover" ELSE IF tries = {} THEN "save" ELSE "raised")
              /\ UNCHANGED <<runVars, tries, tidied, kept, calls, copyVars>>

SaveTry(q) == /\ client[q] = "save"
              /\ tries' = tries \union {q} /\ ClientAt(q, "invoke")
              /\ UNCHANGED <<runVars, tidied, kept, calls, copyVars>>

\* Staging, upload and the start of the helper, which may never begin.
InvokePrune(q) ==
    /\ client[q] = "invoke"
    /\ \/ /\ RunAt(q, "list") /\ calls' = [calls EXCEPT ![q] = @ + 1] /\ ClientAt(q, "wait")
          /\ UNCHANGED events
       \/ MayHappen /\ Happens /\ ClientAt(q, "raised") /\ UNCHANGED <<run, calls>>
    /\ UNCHANGED <<before, queue, removed, report, tries, tidied, kept, copies, protection>>

\* The answer is looked for once, whatever became of the invocation.
ReadReport(q) ==
    /\ \/ client[q] = "wait" /\ run[q] = "ended" /\ UNCHANGED events
       \/ client[q] = "wait" /\ MayHappen /\ Happens
       \/ client[q] = "recover" /\ UNCHANGED events
    /\ IF kept[q] # NoReport THEN ClientAt(q, "tidy") /\ UNCHANGED kept
       ELSE IF report[q] # NoReport /\ q \notin tidied
       THEN kept' = [kept EXCEPT ![q] = report[q]] /\ ClientAt(q, "tidy")
       ELSE ClientAt(q, "raised") /\ UNCHANGED kept
    /\ UNCHANGED <<runVars, tries, tidied, calls, copies, protection>>

\* _cleanup, after the result is kept; its errors are swallowed.
Tidy(q) == /\ client[q] = "tidy" /\ ClientAt(q, "done")
           /\ \/ tidied' = tidied \union {q} /\ UNCHANGED events
              \/ MayHappen /\ Happens /\ UNCHANGED tidied
           /\ UNCHANGED <<runVars, tries, kept, calls, copies, protection>>

ClientDies(q) == /\ MayHappen /\ client[q] \notin ClientEnds \union {"start"}
                 /\ ClientAt(q, "crashed") /\ Happens
                 /\ UNCHANGED <<runVars, tries, tidied, kept, calls, copies, protection>>

\* The user asks for the same prune again; it also retries the cleanup.
Again(q) == /\ client[q] \in {"raised", "crashed"} /\ q \in tries /\ MayHappen /\ Happens
            /\ ClientAt(q, "start")
            /\ UNCHANGED <<runVars, tries, tidied, kept, calls, copies, protection>>

ClientStep(q) == FindTry(q) \/ SaveTry(q) \/ InvokePrune(q) \/ ReadReport(q) \/ Tidy(q)
=============================================================================
