------------------------------ MODULE MCRecovery ------------------------------
(***************************************************************************)
(* Requests to the root helper, the reconciliation of a remote operation   *)
(* and the commands of the remote helper evaluated over small inputs.      *)
(* Each claim is an ASSUME, which TLC evaluates before a run of a module   *)
(* that extends this one.                                                  *)
(***************************************************************************)
LOCAL INSTANCE Integers
LOCAL INSTANCE Sequences
LOCAL INSTANCE FiniteSets
LOCAL H == INSTANCE HelperRequests
LOCAL C == INSTANCE RemoteReconciliation
LOCAL K == INSTANCE RemoteHelperCommands

-----------------------------------------------------------------------------
(* An apply and its rollback through the helper                           *)

LOCAL Changes == [before : {{}, {"old"}}, after : {"new"}]
LOCAL System(content) == [file |-> content, loaded |-> content, running |-> content]
LOCAL Plan(expires, approvalExpires) == [host |-> "host", expires |-> expires, approvalExpires |-> approvalExpires]
LOCAL ApplyRequest(plan, change, at) == H!Prepared(plan, "op", H!ApplyOperations("op", change), at)
LOCAL RollbackRequest(plan, change, at) ==
    H!Prepared(plan, "op-rollback", H!RollbackOperations("op-rollback", change), at)

LOCAL World(request, system, now) ==
    [host |-> "host", caller |-> "user", now |-> now, captures |-> TRUE, busy |-> FALSE, fault |-> {}, failsLate |-> FALSE,
     system |-> system, receipts |-> [i \in {} |-> ""], staging |-> H!StageAll(request, request.body.requested).value]
LOCAL RunOf(world, request) == H!RunHelper(world, request.body.id, request.hash)

\* Everything the coordinator builds is something the helper carries out, until the
\* earliest of its five minutes, the plan's end and the approval's end.
ASSUME HelperTakesWhatIsPrepared ==
    \A change \in Changes, expires, approvalExpires \in {3, 20}, now \in 0..8 :
        LET request == ApplyRequest(Plan(expires, approvalExpires), change, 1)
            run == RunOf(World(request, System(change.before), now), request)
        IN  /\ H!Completed(run) <=> now >= 1 /\ now < 6 /\ now < expires /\ now < approvalExpires
            /\ run.system = IF H!Completed(run) THEN System({change.after}) ELSE System(change.before)

\* An apply that was cut short anywhere, its last operation done or not, is undone by
\* the rollback exactly when it had written; when it had not, or when somebody has
\* edited the file since, the rollback changes nothing.
LOCAL Faults == {{}} \cup {{<<"op", step>>} : step \in {"write", "reload", "restart"}}
ASSUME RollbackUndoesWhatWasWritten ==
    \A change \in Changes, fault \in Faults, failsLate, captures, busy, edited \in BOOLEAN :
        LET plan == Plan(20, 20)
            apply == ApplyRequest(plan, change, 1)
            cut == [World(apply, System(change.before), 1) EXCEPT
                       !.fault = fault, !.failsLate = failsLate, !.captures = captures, !.busy = busy]
            applied == RunOf(cut, apply).system
            found == IF edited THEN [applied EXCEPT !.file = {"edited"}] ELSE applied
            rollback == RollbackRequest(plan, change, 2)
            undone == RunOf(World(rollback, found, 2), rollback)
            wrote == captures /\ ~busy /\ (fault # {<<"op", "write">>} \/ failsLate)
        IN  /\ applied.file = IF wrote THEN {change.after} ELSE change.before
            /\ H!Completed(undone) <=> wrote /\ ~edited
            /\ undone.system = IF wrote /\ ~edited THEN System(change.before) ELSE found

\* A helper that reports that its first operation failed may have written: the
\* failure can come after the replacement.
ASSUME FailedWriteMayHaveWritten ==
    \E change \in Changes :
        LET apply == ApplyRequest(Plan(20, 20), change, 1)
            run == RunOf([World(apply, System(change.before), 1) EXCEPT
                             !.fault = {<<"op", "write">>}, !.failsLate = TRUE], apply)
        IN  run.result.value[1] = "failed" /\ run.system.file = {change.after}

\* No request is carried out twice, and no other one under its identity, however the
\* first run ended.
ASSUME OperationRunsOnce ==
    \A change \in Changes, fault \in Faults, other \in BOOLEAN :
        LET apply == ApplyRequest(Plan(20, 20), change, 1)
            again == IF other THEN ApplyRequest(Plan(20, 20), change, 2) ELSE apply
            first == RunOf([World(apply, System(change.before), 2) EXCEPT !.fault = fault], apply)
            world == [World(again, System(change.before), 2) EXCEPT !.receipts = first.receipts]
            second == RunOf(world, again)
        IN  /\ ~second.result.ok
            /\ second.result.error = IF other THEN "operation_id_collision" ELSE "replayed_request"
            /\ second.system = world.system /\ second.receipts = first.receipts

\* Nothing is written that was not hashed: neither a request other than the one the
\* helper was called for nor one whose operations are of another form than the
\* coordinator's.
LOCAL Altered(request) ==
    LET body == request.body
        alone(i) == [body EXCEPT !.operations = <<body.operations[i]>>]
    IN  {[body EXCEPT !.host = "elsewhere"], [body EXCEPT !.expires = 20], [body EXCEPT !.manifest = {}],
         [body EXCEPT !.operations = <<>>],
         [body EXCEPT !.operations = <<body.operations[1], body.operations[1]>>],
         [body EXCEPT !.operations[1].parameters.target = {"elsewhere"}],
         [body EXCEPT !.operations[1].parameters.meta = {"user 0666"}],
         [body EXCEPT !.operations = <<body.operations[2], body.operations[1]>>]}
        \cup {[alone(i) EXCEPT !.operations[1].kind = "unknown"] : i \in 1..3}
ASSUME OnlyTheHashedRequestRuns ==
    \A change \in Changes, hashed \in BOOLEAN :
        LET apply == ApplyRequest(Plan(20, 20), change, 1)
            unhashed == IF hashed THEN {} ELSE {[apply.body EXCEPT !.expires = 7]}
        IN  \A body \in Altered(apply) \cup unhashed :
                LET world == World(apply, System(change.before), 1)
                    staged == IF hashed THEN H!WithHash(body) ELSE [body |-> body, hash |-> apply.hash]
                    expected == IF hashed THEN staged.hash ELSE apply.hash
                    run == H!RunHelper([world EXCEPT !.staging.request = {staged}], "op", expected)
                IN  ~run.result.ok /\ run.system = world.system

\* Nor is a rollback carried out that does not name its whole workflow.
ASSUME RollbackNamesItsWorkflow ==
    \A change \in Changes, f \in {"approval", "backup", "manifest"} :
        LET rollback == RollbackRequest(Plan(20, 20), change, 1)
            partial == H!WithHash([rollback.body EXCEPT ![f] = {}])
            world == World(rollback, System({change.after}), 1)
            run == RunOf([world EXCEPT !.staging.request = {partial}], partial)
        IN  ~run.result.ok /\ run.system = world.system

\* A content that was exchanged in the staging directory is not written, and what was
\* to follow it is not done.
ASSUME OnlyTheHashedContentIsWritten ==
    \A change \in Changes :
        LET apply == ApplyRequest(Plan(20, 20), change, 1)
            world == World(apply, System(change.before), 1)
            run == RunOf([world EXCEPT !.staging.contents[<<"op", "write">>] = "altered"], apply)
        IN  run.system = world.system /\ run.result.value = <<"failed", "not_executed", "not_executed">>

-----------------------------------------------------------------------------
(* The reconciliation of a remote operation                               *)

LOCAL Record ==
    [operation |-> "op", plan |-> "plan", host |-> "ssh", changeSet |-> "set", backup |-> "backup",
     manifest |-> "hash", request |-> "request", rollback |-> "none", status |-> "applying",
     targets |-> [t \in {"one"} |-> [before |-> {}, after |-> [kind |-> "file", utf8 |-> TRUE, content |-> "new"]]]]
LOCAL Replacing == [Record EXCEPT !.targets["one"].before = {[kind |-> "file", utf8 |-> TRUE, content |-> "old"]}]
LOCAL Journals == {Record, Replacing}
LOCAL Manifest == [plan |-> "plan", host |-> "ssh", changeSet |-> "set", backup |-> "backup", manifest |-> "hash",
                   fingerprint |-> "f", complete |-> TRUE, intact |-> TRUE]
LOCAL WithPrint(journal, print) ==
    [f \in DOMAIN journal \cup {"fingerprint"} |-> IF f = "fingerprint" THEN print ELSE journal[f]]
LOCAL Store(journal, print) ==
    [safe |-> TRUE, files |-> [o \in {"op"} |-> [safe |-> TRUE, canonical |-> TRUE, intact |-> TRUE,
                                                 evidence |-> WithPrint(journal, print)]]]
LOCAL Host(print, link) == [info |-> [id |-> "ssh", kind |-> "ssh", fingerprint |-> print], link |-> link]
LOCAL RemoteFiles == {[kind |-> k, utf8 |-> u, content |-> c] :
                         k \in {"absent", "unreadable", "file"}, u \in BOOLEAN, c \in {"old", "new", "else"}}
LOCAL Env(store, link, file) ==
    [cancelled |-> FALSE, helper |-> C!Done("ready"), store |-> store,
     links |-> [t \in {"one"} |-> link], files |-> [t \in {"one"} |-> file]]

\* While the link holds, what is said of a target is what is there.
ASSUME ReconciledIsTrue ==
    \A journal \in Journals, file \in RemoteFiles :
        LET found == C!ReconcileRemote(journal, Manifest, Host("f", "up"), Env(Store(journal, "f"), "up", file))
            target == journal.targets["one"]
            there == IF file.kind = "absent" THEN {} ELSE {file}
        IN  /\ found.ok
            /\ file.utf8 => /\ found.value["one"] = "unapplied" <=> there = target.before
                            /\ found.value["one"] = "applied" <=> there = {target.after}

\* A link that is lost between the identification and the look at a file that was to
\* be created makes it count as never applied: the status of ssh is taken for the
\* answer of the remote stat.  Only a timeout is told apart.
ASSUME LostLinkReadsAsUnapplied ==
    \A link \in {"lost", "slow"} :
        LET file == Record.targets["one"].after
            found == C!ReconcileRemote(Record, Manifest, Host("f", "up"), Env(Store(Record, "f"), link, file))
        IN  IF link = "lost" THEN found.ok /\ found.value["one"] = "unapplied" ELSE ~found.ok

\* Nothing is said at all unless journal, manifest, evidence and host are of one
\* operation: any difference in what binds them refuses the reconciliation.
LOCAL Other(record, f) == [record EXCEPT ![f] = IF f = "targets" THEN Replacing.targets ELSE "other"]
ASSUME RecordsBelongTogether ==
    LET file == Record.targets["one"].after
        Refuses(journal, manifest, host, store) ==
            ~C!ReconcileRemote(journal, manifest, host, Env(store, "up", file)).ok
    IN  /\ \A f \in DOMAIN Record :
               /\ Refuses(Other(Record, f), Manifest, Host("f", "up"), Store(Record, "f"))
               /\ Refuses(Record, Manifest, Host("f", "up"), Store(Other(Record, f), "f"))
        /\ \A f \in C!ManifestFields :
               Refuses(Record, [Manifest EXCEPT ![f] = "other"], Host("f", "up"), Store(Record, "f"))
        /\ \A manifest, evidence, host \in {"f", "g", "none"} :
               Refuses(Record, [Manifest EXCEPT !.fingerprint = manifest], Host(host, "up"), Store(Record, evidence))
                   <=> ~(manifest = evidence /\ manifest = host /\ manifest # "none")
        /\ \A flag \in {"safe", "canonical", "intact"} :
               Refuses(Record, Manifest, Host("f", "up"), [Store(Record, "f") EXCEPT !.files["op"][flag] = FALSE])
-----------------------------------------------------------------------------
(* The commands of the remote helper                                      *)

LOCAL Kinds == {"apply", "rollback", "recovery", "retention", "deletion"}
LOCAL CommandOf == [k \in Kinds |-> CASE k = "apply" -> "user-apply" [] k = "rollback" -> "user-rollback"
                                      [] OTHER -> (<<"invoke-recovery", "invoke-retention", "invoke-deletion">>)[
                                          CASE k = "recovery" -> 1 [] k = "retention" -> 2 [] OTHER -> 3]]
LOCAL Files == {"config", "other"}
LOCAL Hashed(body) == [body |-> body, hash |-> body]
LOCAL RemoteRequest(kind, restored, lifetime) ==
    LET items == CASE kind = "apply" -> <<[target |-> "config", content |-> {"new"}]>>
                   [] kind = "rollback" -> <<[target |-> "config", content |-> restored]>>
                   [] OTHER -> <<[target |-> "config", content |-> {"old"}], [target |-> "other", content |-> {}]>>
        body == [kind |-> kind, id |-> kind, backup |-> "backup", items |-> items,
                 before |-> IF kind = "apply" THEN restored ELSE {"new"},
                 created |-> 5, requested |-> 5, expires |-> 5 + lifetime]
    IN  Hashed(body)
LOCAL Requests == {RemoteRequest(kind, restored, 5) : kind \in Kinds, restored \in {{}, {"old"}}}
LOCAL Complete(request) == K!Uploaded(request, Cardinality(K!Wanted(request.body)) + 1)
LOCAL Staging(request, dir) == [p \in {K!PathOf(request)} |-> dir]
LOCAL Remote(request, dir) ==
    [staging |-> Staging(request, dir), now |-> 5, safeHome |-> TRUE, backend |-> TRUE,
     user |-> IF request.body.kind \in {"apply", "rollback"} THEN "user" ELSE "root", sudoUser |-> "user",
     targets |-> [t \in Files |-> IF request.body.kind \in {"apply", "rollback"} THEN request.body.before ELSE {"old"}],
     unsafe |-> {}, expired |-> {"backup"},
     copies |-> IF request.body.kind = "recovery" THEN {"mine"} ELSE {"mine", "backup"}]
LOCAL Ask(world, request) == K!RunRemoteHelper(world, CommandOf[request.body.kind], K!PathOf(request))
LOCAL Changed(world, next) == next.targets # world.targets \/ next.copies # world.copies

\* Every command does what its request says and nothing else: an apply or a rollback
\* one file, the others one copy, and it leaves its answer in the staging directory.
ASSUME CommandsDoTheirRequest ==
    \A request \in Requests :
        LET world == Remote(request, Complete(request))
            run == Ask(world, request)
            body == request.body
            answer == K!ReadPrivateFile("up", run.value.staging, K!PathOf(request))
        IN  /\ run.ok /\ Changed(world, run.value)
            /\ body.kind \in {"apply", "rollback"} =>
                   /\ run.value.copies = world.copies
                   /\ run.value.targets = [world.targets EXCEPT !["config"] = body.items[1].content]
            /\ body.kind \notin {"apply", "rollback"} =>
                   /\ run.value.targets = world.targets
                   /\ run.value.copies = IF body.kind = "recovery" THEN {"mine", "backup"} ELSE {"mine"}
            /\ answer.ok /\ answer.value = [request |-> request.hash, outcome |-> "done"]

\* Whatever of an upload is missing, exchanged, moved or open to others, the helper
\* changes nothing.
LOCAL Damaged(request) ==
    LET dir == Complete(request)
        items == IF request.body.kind \in {"retention", "deletion"} THEN {} ELSE K!Wanted(request.body)
    IN  {K!Uploaded(request, n) : n \in 0..Cardinality(K!Wanted(request.body))}
        \cup {[dir EXCEPT !.private = FALSE], [dir EXCEPT !.files["request.json"].private = FALSE],
              [dir EXCEPT !.files["request.json"].content.body.backup = "mine"],
              [dir EXCEPT !.files["request.json"].content = Hashed([request.body EXCEPT !.backup = "mine"])],
              [dir EXCEPT !.files = K!Put(@, "result.json", K!File("answered"))]}
        \cup {[dir EXCEPT !.items = {K!Put(K!The(@), n, K!File("else"))}] : n \in items}
        \cup {[dir EXCEPT !.items = {K!Put(K!The(@), <<9, "else">>, K!File("else"))}] : n \in items}
ASSUME DamagedStagingIsRefused ==
    \A request \in Requests :
        LET world == Remote(request, Complete(request))
            moved == <<K!StagingRoot, "else", request.hash>>
            elsewhere == [world EXCEPT !.staging = [p \in {moved} |-> Complete(request)]]
        IN  /\ \A dir \in Damaged(request) : ~Ask(Remote(request, dir), request).ok
            /\ ~Ask([world EXCEPT !.safeHome = FALSE], request).ok
            /\ ~K!RunRemoteHelper(elsewhere, CommandOf[request.body.kind], moved).ok
            /\ request.body.kind \in {"apply", "rollback"} => ~Ask([world EXCEPT !.unsafe = {"config"}], request).ok

\* Nor is a request carried out that names one target twice or none.
ASSUME TargetsAreCounted ==
    \A request \in Requests, items \in {0, 2} :
        LET one == [target |-> "config", content |-> {}]
            other == Hashed([request.body EXCEPT !.items = IF items = 0 THEN <<>> ELSE <<one, one>>])
        IN  request.body.kind = (IF items = 0 THEN "deletion" ELSE "recovery")
                => ~Ask(Remote(other, Complete(other)), other).ok

\* No command can be called by another than its caller, or for a request of another
\* kind.
ASSUME CallersAreSeparate ==
    \A request \in Requests, kind \in Kinds, user, sudo \in {"user", "root", "none"}, backend \in BOOLEAN :
        LET world == [Remote(request, Complete(request)) EXCEPT !.user = user, !.sudoUser = sudo, !.backend = backend]
            run == K!RunRemoteHelper(world, CommandOf[kind], K!PathOf(request))
        IN  run.ok <=> /\ kind = request.body.kind
                       /\ IF kind \in {"apply", "rollback"} THEN user = "user"
                          ELSE user = "root" /\ sudo = "user" /\ backend

\* A request stands and falls with the clock of the host: one that is behind, be it by
\* a minute, refuses all of them, and a retention is refused after a minute, before
\* its user may have found the password.
ASSUME HostClockDecides ==
    \A request \in Requests, now \in 0..12 :
        Ask([Remote(request, Complete(request)) EXCEPT !.now = now], request).ok
            <=> now >= 5 /\ CASE request.body.kind = "retention" -> now <= 6
                              [] request.body.kind = "deletion" -> now <= 10
                              [] OTHER -> now < 10

\* A request that is staged and sent once more after its directory was removed does
\* not do its work twice: the apply finds another content, the copy is there already,
\* the deletion says that it was absent.
ASSUME RepeatAfterCleanupIsHarmless ==
    \A request \in Requests :
        LET world == Remote(request, Complete(request))
            first == Ask(world, request).value
            cleaned == K!RemoveStaging(first.staging, K!PathOf(request))
            again == [first EXCEPT !.staging = Staging(request, Complete(request))]
            second == Ask(again, request)
            answer == K!ReadPrivateFile("up", second.value.staging, K!PathOf(request))
        IN  /\ cleaned.ok /\ cleaned.value = [p \in {} |-> ""]
            /\ K!PrepareStaging(cleaned.value, K!PathOf(request)).value = Staging(request, K!Uploaded(request, 0))
            /\ K!PrepareStaging(first.staging, K!PathOf(request)).value = first.staging
            /\ ~Ask(first, request).ok
            /\ second.ok => ~Changed(again, second.value)
            /\ second.ok <=> request.body.kind \in {"deletion", "retention"}
            /\ request.body.kind = "deletion" => answer.value.outcome = "already_absent"

\* A removal looks at everything first, so that a foreign file stops it before it has
\* taken anything; but one that is cut off after the items' directory is gone leaves a
\* directory that no later removal accepts.
ASSUME InterruptedRemovalSticks ==
    \A request \in Requests :
        LET dir == Ask(Remote(request, Complete(request)), request).value.staging[K!PathOf(request)]
            states == K!Removal(dir)
            items == Cardinality(DOMAIN K!The(dir.items))
            foreign == [dir EXCEPT !.files = K!Put(@, "foreign", K!File("foreign"))]
            opened == {[dir EXCEPT !.files["result.json"].private = FALSE]}
                      \cup {[dir EXCEPT !.items = {[K!The(@) EXCEPT ![n].private = FALSE]}] : n \in DOMAIN K!The(dir.items)}
        IN  /\ \A n \in DOMAIN states :
                   K!RemoveStaging(Staging(request, states[n]), K!PathOf(request)).ok <=> n <= items + 1
            /\ Len(states) = items + 4
            /\ states[Len(states)] = [dir EXCEPT !.items = {}, !.files = [f \in {} |-> ""]]
            /\ \A other \in opened \cup {foreign} :
                   ~K!RemoveStaging(Staging(request, other), K!PathOf(request)).ok
            /\ ~K!RemoveStaging([p \in {<<"home", "notes">>} |-> dir], <<"home", "notes">>).ok

\* The answer to a recovery copy is lost with time alone: once its request has expired
\* it can be neither read nor cleaned up, though the copy was made.  And while the link
\* is lost the copy counts as not yet made.
ASSUME ReceiptExpires ==
    \A now \in 0..12, link \in {"up", "lost", "slow"} :
        LET request == RemoteRequest("recovery", {}, 5)
            after == Ask(Remote(request, Complete(request)), request).value.staging
            polled == K!RecoveryCompleted(link, after, K!PathOf(request))
        IN  /\ K!ReadReceipt(link, after, request, now).ok <=> now \in 5..9 /\ link = "up"
            /\ K!CleanUp(after, request, now).ok <=> now \in 5..9
            /\ polled.ok <=> link # "slow"
            /\ polled.ok => polled.value = (link = "up")
=============================================================================
