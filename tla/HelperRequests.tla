----------------------------- MODULE HelperRequests -----------------------------
(***************************************************************************)
(* What is said to the root helper and what it makes of it: the requests   *)
(* the coordinator of a privileged apply builds for an apply and for its   *)
(* rollback, their staging, and one run of the helper over them.           *)
(* PrivilegedApply has the processes and their order; here each function   *)
(* is an operator from its arguments and from what it finds.               *)
(*                                                                         *)
(* A request is [body, hash].  Of the body, approval, backup and manifest  *)
(* are optional, of an operation target, unit, before, staged and meta.    *)
(* Identifiers are well formed: their spelling is not modelled.            *)
(***************************************************************************)
EXTENDS ChangePlanning, SequencesExt

MaxRequestLifetime == 10
ApplyLifetime == 5

DropIn == "drop_in"
OllamaUnit == "ollama.service"
Writes == {"atomic_replace", "restore_file"}

-----------------------------------------------------------------------------
(* The protocol (helper_protocol)                                         *)

NoParameters == [target |-> {}, unit |-> {}, before |-> {}, staged |-> {}, meta |-> {}]
Operation(id, kind, parameters) == [id |-> id, kind |-> kind, parameters |-> parameters]

ValidOperation(op) ==
    LET p == op.parameters
    IN  CASE op.kind \in Writes ->
                 p.target = {DropIn} /\ p.unit = {} /\ p.staged # {} /\ p.meta = {"root 0644"}
          [] op.kind = "remove_created_file" ->
                 p.target = {DropIn} /\ p.unit = {} /\ p.staged = {} /\ p.before # {} /\ p.meta = {}
          [] op.kind = "daemon_reload" -> p = NoParameters
          [] op.kind = "restart_unit" -> p = [NoParameters EXCEPT !.unit = {OllamaUnit}]
          [] OTHER -> FALSE

WithHash(body) == [body |-> body, hash |-> body]
Bindings(body) == {body.approval, body.backup, body.manifest}

ValidateRequest(request, expected, now) ==
    LET body == request.body
        ids == {body.operations[i].id : i \in DOMAIN body.operations}
    IN  Guarded(<< <<request.hash # expected \/ request.hash # body, "request_hash_mismatch">>,
                   <<{} \in Bindings(body) /\ Bindings(body) # {{}}, "invalid_workflow_binding">>,
                   <<\/ body.expires <= body.requested
                     \/ body.expires - body.requested > MaxRequestLifetime
                     \/ now < body.requested
                     \/ now >= body.expires, "expired_request">>,
                   <<ids = {} \/ Cardinality(ids) # Len(body.operations), "invalid_operations">>,
                   <<\E i \in DOMAIN body.operations : ~ValidOperation(body.operations[i]), "invalid_operation">> >>,
                request)

-----------------------------------------------------------------------------
(* The coordinator's requests (privileged_apply)                          *)

\* change is [before, after], before the content of the drop-in or nothing.
ApplyOperations(id, change) ==
    << Operation(<<id, "write">>, "atomic_replace",
                 [NoParameters EXCEPT !.target = {DropIn}, !.before = change.before,
                                      !.staged = {change.after}, !.meta = {"root 0644"}]),
       Operation(<<id, "reload">>, "daemon_reload", NoParameters),
       Operation(<<id, "restart">>, "restart_unit", [NoParameters EXCEPT !.unit = {OllamaUnit}]) >>

RollbackOperations(id, change) ==
    LET undo == [NoParameters EXCEPT !.target = {DropIn}, !.before = {change.after}]
    IN  << IF change.before # {}
           THEN Operation(<<id, "restore">>, "restore_file",
                          [undo EXCEPT !.staged = change.before, !.meta = {"root 0644"}])
           ELSE Operation(<<id, "restore">>, "remove_created_file", undo),
           Operation(<<id, "reload">>, "daemon_reload", NoParameters),
           Operation(<<id, "restart">>, "restart_unit", [NoParameters EXCEPT !.unit = {OllamaUnit}]) >>

\* A request of either kind ends with the plan and with the approval.
Prepared(plan, id, operations, now) ==
    WithHash([id |-> id, host |-> plan.host, operations |-> operations, requested |-> now,
              expires |-> Min({now + ApplyLifetime, plan.expires, plan.approvalExpires}),
              approval |-> {"approval"}, backup |-> {"backup"}, manifest |-> {"manifest"}])

-----------------------------------------------------------------------------
(* Staging (helper_staging).  staging is [owned, request, contents]: the   *)
(* directory of one operation, with the request if it is there and the     *)
(* staged content of each operation that has one.                          *)
EmptyStaging == [owned |-> TRUE, request |-> {}, contents |-> [id \in {} |-> ""]]

Stage(staging, request, op, content, now) ==
    ValidateRequest(request, request.hash, now)
    && Guarded(<< <<op.kind \notin Writes, "invalid_staging_operation">>,
                  <<op.parameters.staged # {content}, "staged_hash_mismatch">>,
                  <<~staging.owned, "unsafe_staging">>,
                  <<op.id \in DOMAIN staging.contents, "staged_content_exists">> >>,
               [staging EXCEPT !.contents = [id \in DOMAIN @ \cup {op.id} |->
                                                IF id = op.id THEN content ELSE @[id]]])

StageRequest(staging, request, now) ==
    ValidateRequest(request, request.hash, now)
    && Guarded(<< <<~staging.owned, "unsafe_staging">>,
                  <<staging.request # {}, "staged_request_exists">> >>,
               [staging EXCEPT !.request = {request}])

\* The first operation of a request is the only one that may have a content.
StageAll(request, now) ==
    LET op == request.body.operations[1]
        staged == IF op.kind \in Writes THEN Stage(EmptyStaging, request, op, The(op.parameters.staged), now)
                  ELSE Done(EmptyStaging)
    IN  staged && StageRequest(staged.value, request, now)

VerifyStaged(staging, request, op, now) ==
    ValidateRequest(request, request.hash, now)
    && Guarded(<< <<~staging.owned \/ op.id \notin DOMAIN staging.contents, "unsafe_staging">>,
                  <<op.parameters.staged # {staging.contents[op.id]}, "staged_hash_mismatch">> >>,
               staging)

-----------------------------------------------------------------------------
(* The receipts (helper_receipts): by operation, of which request and how  *)
(* it ended.                                                               *)
Receipt(request, status) == [request |-> request.hash, status |-> status]
Keep(receipts, id, receipt) ==
    [i \in DOMAIN receipts \cup {id} |-> IF i = id THEN receipt ELSE receipts[i]]

Begin(receipts, request) ==
    LET id == request.body.id
    IN  Guarded(<< <<id \in DOMAIN receipts,
                     IF id \in DOMAIN receipts /\ receipts[id].request = request.hash
                     THEN "replayed_request" ELSE "operation_id_collision">> >>,
                Keep(receipts, id, Receipt(request, "executing")))

Finish(receipts, request, results) ==
    Keep(receipts, request.body.id,
         Receipt(request, IF \A i \in DOMAIN results : results[i] = "done" THEN "completed" ELSE "failed"))

-----------------------------------------------------------------------------
(* One run.  system is [file, loaded, running]: the drop-in that is on the *)
(* disk, that systemd has read and that the service was started with.      *)
(* fault has the operation that fails, if any, and failsLate tells whether *)
(* it has had its effect by then; while another holds the lock of the      *)
(* target, busy, the first operation fails.                                *)
VerifyBefore(system, op) ==
    Guarded(<< <<system.file # op.parameters.before, "stale_helper_target">> >>, system)

Effect(system, op) ==
    CASE op.kind \in Writes -> [system EXCEPT !.file = op.parameters.staged]
      [] op.kind = "remove_created_file" -> [system EXCEPT !.file = {}]
      [] op.kind = "daemon_reload" -> [system EXCEPT !.loaded = system.file]
      [] OTHER -> [system EXCEPT !.running = system.loaded]

ExecuteOperation(world, request, system, op) ==
    LET before == op.kind \in Writes \cup {"remove_created_file"}
        captured == op.kind # "atomic_replace" \/ world.captures
        ready == (IF before THEN VerifyBefore(system, op) ELSE Done(system))
                 && (IF op.kind \in Writes THEN VerifyStaged(world.staging, request, op, world.now) ELSE Done(system))
                 && Guarded(<< <<~captured, "root_capture_failed">>, <<world.busy, "target_busy">> >>, system)
    IN  [ok |-> ready.ok /\ op.id \notin world.fault,
         system |-> IF ready.ok /\ (op.id \notin world.fault \/ world.failsLate) THEN Effect(system, op) ELSE system]

\* Operations in their order; after one that fails none is executed.
ExecuteLocked(world, request) ==
    LET Next(s, op) ==
            LET run == ExecuteOperation(world, request, s.system, op)
            IN  IF s.stopped THEN [s EXCEPT !.results = Append(@, "not_executed")]
                ELSE [system |-> run.system, stopped |-> ~run.ok,
                      results |-> Append(s.results, IF run.ok THEN "done" ELSE "failed")]
    IN  FoldLeft(Next, [system |-> world.system, stopped |-> FALSE, results |-> <<>>],
                 request.body.operations)

\* validate_capture_request, for a request that replaces the drop-in.
ValidCapture(world, request) ==
    LET kinds == [i \in DOMAIN request.body.operations |-> request.body.operations[i].kind]
        whole == <<"atomic_replace", "daemon_reload", "restart_unit">>
    IN  "atomic_replace" \in Elements(kinds) =>
            /\ request.body.host = world.host
            /\ {} \notin Bindings(request.body)
            /\ \E n \in 1..3 : kinds = SubSeq(whole, 1, n)

RunHelper(world, id, expected) ==
    LET staged == The(world.staging.request)
        accepted ==
            Guarded(<< <<world.caller = "root", "invalid_invoking_user">>,
                       <<~world.staging.owned \/ world.staging.request = {}, "unsafe_request">> >>, "")
            && ValidateRequest(staged, expected, world.now)
            && Guarded(<< <<staged.body.id # id, "operation_mismatch">>,
                          <<~ValidCapture(world, staged), "invalid_root_capture_apply">> >>, "")
            && Begin(world.receipts, staged)
        run == ExecuteLocked(world, staged)
    IN  IF ~accepted.ok THEN [result |-> accepted, system |-> world.system, receipts |-> world.receipts]
        ELSE [result |-> Done(run.results), system |-> run.system,
              receipts |-> Finish(accepted.value, staged, run.results)]

Completed(run) == run.result.ok /\ \A i \in DOMAIN run.result.value : run.result.value[i] = "done"
=============================================================================
