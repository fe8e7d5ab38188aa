-------------------------- MODULE RemoteHelperCommands --------------------------
(***************************************************************************)
(* The commands of the helper on an SSH host (infrastructure/              *)
(* remote_helper_cli and the executors behind it), the staging directories *)
(* they work in and the client that fills and empties them.  SshUserApply, *)
(* DualDeletion and BackupRetention have the processes and what happens to *)
(* them part way; here a command takes a world to the next one or refuses. *)
(* Nobody cancels the helper on the host.                                  *)
(*                                                                         *)
(* staging has a directory by path <<root, request id, request hash>>:     *)
(* [private, items, files], private whether all of it is, items optional.  *)
(* A file is [private, content]; an item's name is <<index, hash>>.        *)
(* A request is [body, hash], of one of five kinds, and body.items is the  *)
(* sequence of [target, content] it is about, each content optional.       *)
(***************************************************************************)
EXTENDS HostProbes

StagingRoot == "remote-helper"
UserCommands == {"user-stage-prepare", "user-stage-remove", "user-apply", "user-rollback"}
RootCommands == {"invoke-recovery", "invoke-retention", "invoke-deletion"}
KindOf(command) ==
    CASE command = "user-apply" -> "apply"
      [] command = "user-rollback" -> "rollback"
      [] command = "invoke-recovery" -> "recovery"
      [] command = "invoke-retention" -> "retention"
      [] OTHER -> "deletion"

PathOf(request) == <<StagingRoot, request.body.id, request.hash>>
File(content) == [private |-> TRUE, content |-> content]
Put(files, name, file) == [n \in DOMAIN files \cup {name} |-> IF n = name THEN file ELSE files[n]]
Without(files, name) == [n \in DOMAIN files \ {name} |-> files[n]]

-----------------------------------------------------------------------------
(* The requests.  The clock is the one of the host that reads them.        *)
InWindow(body, now) ==
    LET lifetime == body.expires - body.requested
    IN  CASE body.kind = "retention" ->
                 /\ body.created <= body.requested /\ body.requested <= body.expires
                 /\ body.expires - body.created <= 5
                 /\ body.created <= now /\ now <= body.expires
                 /\ now - body.requested <= 1 /\ body.requested - now <= 1
          [] body.kind = "deletion" ->
                 lifetime <= 5 /\ body.requested <= now /\ now <= body.expires
          [] OTHER ->
                 0 < lifetime /\ lifetime <= 10 /\ body.requested <= now /\ now < body.expires

ValidItems(body) ==
    CASE body.kind = "deletion" -> body.items # <<>>
      [] body.kind = "recovery" -> \A i, j \in DOMAIN body.items :
                                       body.items[i].target = body.items[j].target => i = j
      [] OTHER -> TRUE

DecodeRequest(kind, request, expected, now) ==
    Check(request.body.kind = kind /\ request.hash = expected /\ request.hash = request.body, "adapter")
    && Check(InWindow(request.body, now) /\ ValidItems(request.body), "adapter")

-----------------------------------------------------------------------------
(* The staging directory.  Its items are complete when they are exactly    *)
(* the contents the request names.                                         *)
EmptyDirectory == [private |-> TRUE, items |-> {[n \in {} |-> ""]}, files |-> [n \in {} |-> ""]]

PrepareStaging(staging, path) ==
    Check(path[1] = StagingRoot, "adapter")
    && IF path \notin DOMAIN staging THEN Done(Put(staging, path, EmptyDirectory))
       ELSE Check(staging[path].private, "adapter")
            && Done([staging EXCEPT ![path].items = IF @ = {} THEN EmptyDirectory.items ELSE @])

\* user-stage-remove: everything is looked at before anything is removed, ...
Removable(dir) ==
    /\ dir.private /\ dir.items # {}
    /\ DOMAIN dir.files \subseteq {"request.json", "result.json"}
    /\ \A n \in DOMAIN dir.files : dir.files[n].private
    /\ \A n \in DOMAIN The(dir.items) : The(dir.items)[n].private

\* ... one after the other: the states the directory goes through until it is empty.
Removal(dir) ==
    LET items == SetToSeq(DOMAIN The(dir.items))
        names == SelectSeq(<<"request.json", "result.json">>, LAMBDA n : n \in DOMAIN dir.files)
        TakeItem(states, n) == Append(states, [Last(states) EXCEPT !.items = {Without(The(@), n)}])
        TakeFile(states, n) == Append(states, [Last(states) EXCEPT !.files = Without(@, n)])
        emptied == FoldLeft(TakeItem, <<dir>>, items)
    IN  FoldLeft(TakeFile, Append(emptied, [Last(emptied) EXCEPT !.items = {}]), names)

RemoveStaging(staging, path) ==
    Check(path[1] = StagingRoot /\ path \in DOMAIN staging, "adapter")
    && Check(Removable(staging[path]), "adapter")
    && Done(Without(staging, path))

Wanted(body) == UNION {{<<i, c>> : c \in body.items[i].content} : i \in DOMAIN body.items}
ItemsArrived(dir, body) ==
    /\ dir.items # {}
    /\ DOMAIN The(dir.items) = Wanted(body)
    /\ \A n \in Wanted(body) : The(dir.items)[n] = File(n[2])

-----------------------------------------------------------------------------
(* What the commands do.  targets has the content of each configuration    *)
(* file a command may change, unsafe those that are links, in another's    *)
(* hands or outside the home; copies the backups the host keeps.           *)
SafeTarget(world, target) == target \in DOMAIN world.targets \ world.unsafe

Perform(world, body) ==
    LET item == body.items[1]
    IN  CASE body.kind \in {"apply", "rollback"} ->
                 Check(SafeTarget(world, item.target), "adapter")
                 && Check(world.targets[item.target] = body.before, "adapter")
                 && Done([world EXCEPT !.targets[item.target] = item.content])
          [] body.kind = "recovery" ->
                 Check(body.backup \notin world.copies, "os")
                 && Done([world EXCEPT !.copies = @ \cup {body.backup}])
          [] body.kind = "deletion" -> Done([world EXCEPT !.copies = @ \ {body.backup}])
          [] OTHER -> Done([world EXCEPT !.copies = @ \ world.expired])

\* A deletion says whether the copy was there, the others only that they are done.
Outcome(world, body) ==
    IF body.kind = "deletion" /\ body.backup \notin world.copies THEN "already_absent" ELSE "done"

Execute(world, kind, path) ==
    LET dir == world.staging[path]
        request == dir.files["request.json"].content
        performed == Perform(world, request.body)
    IN  Check(path \in DOMAIN world.staging /\ dir.private, "adapter")
        && Check("request.json" \in DOMAIN dir.files /\ dir.files["request.json"].private, "adapter")
        && DecodeRequest(kind, request, path[3], world.now)
        && Check(request.body.id = path[2] /\ "result.json" \notin DOMAIN dir.files, "adapter")
        && Check(kind \in {"deletion", "retention"} \/ ItemsArrived(dir, request.body), "adapter")
        && performed
        && Done([performed.value EXCEPT !.staging[path].files =
                    Put(@, "result.json", File([request |-> request.hash, outcome |-> Outcome(world, request.body)]))])

\* A root command is one of the user that sudo names, and needs the backend: a user
\* command is nobody's but its own.
MayCall(world, command) ==
    \/ command \in UserCommands /\ world.user = "user"
    \/ command \in RootCommands /\ world.user = "root" /\ world.sudoUser = "user" /\ world.backend

RunRemoteHelper(world, command, path) ==
    LET staged == CASE command = "user-stage-prepare" -> PrepareStaging(world.staging, path)
                    [] OTHER -> RemoveStaging(world.staging, path)
    IN  Check(MayCall(world, command) /\ world.safeHome, "adapter")
        && IF command \in {"user-stage-prepare", "user-stage-remove"}
           THEN staged && Done([world EXCEPT !.staging = staged.value])
           ELSE Execute(world, KindOf(command), path)

-----------------------------------------------------------------------------
(* The client: items first, the request last.  Uploaded is the directory   *)
(* after n files.                                                          *)
Uploaded(request, n) ==
    LET wanted == Wanted(request.body)
        sent == {name \in wanted : Cardinality({m \in wanted : m[1] <= name[1]}) <= n}
    IN  [EmptyDirectory EXCEPT
            !.items = {[name \in sent |-> File(name[2])]},
            !.files = IF n > Cardinality(wanted) THEN Put(@, "request.json", File(request)) ELSE @]

\* scp tells a file that is not there and a connection that is not there alike.
ReadPrivateFile(link, staging, path) ==
    Check(link # "slow", "timeout")
    && Check(link = "up" /\ path \in DOMAIN staging /\ "result.json" \in DOMAIN staging[path].files, "failed")
    && Done(staging[path].files["result.json"].content)

\* RemoteRecoveryResultCompletionProbe.completed
RecoveryCompleted(link, staging, path) ==
    LET read == ReadPrivateFile(link, staging, path)
    IN  IF ~read.ok /\ read.error = "timeout" THEN read ELSE Done(read.ok)

\* Reading a receipt again and the cleanup after it decode the request anew.
ReadReceipt(link, staging, request, now) ==
    DecodeRequest("recovery", request, request.hash, now) && ReadPrivateFile(link, staging, PathOf(request))
CleanUp(staging, request, now) ==
    DecodeRequest("recovery", request, request.hash, now) && RemoveStaging(staging, PathOf(request))
=============================================================================
