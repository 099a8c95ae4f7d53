------------------------------ MODULE PrbWorker ------------------------------
(***************************************************************************)
(* One worker as the runtime bridge (standalone/prb) drives it.  A single  *)
(* thread, Processor::master_loop, takes events from a channel one at a    *)
(* time; whatever takes time runs in spawned tasks (calls of pRuntime,     *)
(* fetching what to sync next, transactions, restarts) that end by         *)
(* sending an event.  The repository stores relay chain headers and        *)
(* broadcasts each new range to the workers that wait at the tip.          *)
(*                                                                         *)
(* Event handlers are functions from a step to a step: the worker context  *)
(* with the events, tasks and calls the handler has produced so far.       *)
(* Messages shown to the operator have no other effect and are left out.   *)
(***************************************************************************)
EXTENDS Integers, Sequences, SequencesExt

CONSTANTS MaxRelay,            \* the last relay chain block of the run
          InitialRelay,        \* the block the repository is filled to at start
          ParaAt,              \* ParaAt[r]: the parachain head in relay block r
          Changes,             \* relay blocks that schedule new authorities
          FastSync,            \* allow_fast_sync
          Gatekeeper,          \* the worker is configured as a gatekeeper
          SupportsAttestation, \* pRuntime supports epid or dcap
          Histories,           \* how far the worker has come before: 0 new, 1 registered,
                               \* 2 measured, 3 bound to its pool
          CoolPeriodOutlasts,  \* what a deleted worker left under way ends within
                               \* RESTART_WORKER_COOL_PERIOD (15 s)
          ErrorLimit,          \* RpcErrors in a row until the worker is marked (3)
          MaxDisturbances,     \* bound: failures and commands
          MaxHeartbeats,       \* bound: heartbeats that find pRuntime's information due
          MaxBacklog           \* bound: events that wait when a block, a command or a
                               \* heartbeat comes

ASSUME PrbAssumption ==
    /\ MaxRelay \in Nat /\ InitialRelay \in 1..MaxRelay
    /\ ParaAt \in [0..MaxRelay -> Nat] /\ ParaAt[0] = 0
    /\ \A r \in 1..MaxRelay : ParaAt[r - 1] <= ParaAt[r]
    /\ Changes \subseteq 1..MaxRelay /\ Histories \subseteq 0..3
    /\ {FastSync, Gatekeeper, SupportsAttestation, CoolPeriodOutlasts} \subseteq BOOLEAN
    /\ ErrorLimit \in Nat \ {0} /\ {MaxDisturbances, MaxHeartbeats, MaxBacklog} \subseteq Nat

VARIABLES
    worker,    \* the WorkerContext
    bus,       \* the channel of the processor
    calls,     \* requests at pRuntime, each in a dispatch_pruntime_request
    tasks,     \* the other tasks that were spawned
    pruntime,  \* pRuntime, as far as its answers show it
    repo,      \* the repository: headers stored, range under way; skipped says
               \* that fill_gap has failed between two of its rounds
    chaintip,  \* the tip the processor knows of
    cache,     \* the processor's copy of the parachain state
    chain,     \* the parachain block in which each fact becomes true, 0: none
    faults,    \* calls, fetches and transactions that failed
    reboots,   \* restarts of pRuntime
    restarts,  \* restarts of the worker context
    commands,  \* commands and updates of the operator
    beats      \* heartbeats that found the information of pRuntime due

vars == <<worker, bus, calls, tasks, pruntime, repo, chaintip, cache, chain,
          faults, reboots, restarts, commands, beats>>
counters == <<faults, reboots, restarts, commands, beats>>
world == <<pruntime, repo, chain, counters>>

Undisturbed == faults + commands < MaxDisturbances
-----------------------------------------------------------------------------
(* Requests and events. *)

Req(kind) == [kind |-> kind]
Sync(headers, paras, blocks) ==
    [kind |-> "Sync", headers |-> headers, paras |-> paras, blocks |-> blocks]
LoadChainState(n) == [kind |-> "LoadChainState", at |-> n]

Request(r) == [ev |-> "Request", req |-> r]
Response(r, result, data) ==
    [ev |-> "Response", kind |-> r.kind, result |-> result, data |-> data]
Ev(name) == [ev |-> name]

(* SyncRequest::is_empty.  A range <<from, to>> is in the manifest; the     *)
(* range <<n + 1, n>> of para headers says at which relay block they are    *)
(* proved and carries no header.                                            *)
IsEmpty(r) == r.headers = <<>> /\ r.paras = <<>> /\ r.blocks = <<>>

IsCritical(kind) ==
    kind \in {"PrepareLifecycle", "InitRuntime", "LoadChainState", "PrepareRegister"}
-----------------------------------------------------------------------------
(* The worker context. *)

(* WorkerContext::create *)
CreateWorker(config) ==
    [present |-> TRUE, enabled |-> config.enabled, syncOnly |-> config.syncOnly,
     poolSyncOnly |-> config.poolSyncOnly,
     header |-> 0, para |-> 0, block |-> 0, pending |-> FALSE,
     state |-> IF config.enabled THEN "Starting" ELSE "Disabled",
     lock |-> FALSE, queue |-> <<>>, errors |-> 0, last |-> "None",
     infoRequested |-> FALSE, stopped |-> FALSE,
     info |-> [initialized |-> FALSE, canLoad |-> FALSE, registered |-> FALSE],
     stage |-> "None", score |-> FALSE, session |-> "None", sessionUpdated |-> FALSE]

DefaultConfig == [enabled |-> TRUE, syncOnly |-> FALSE, poolSyncOnly |-> FALSE]
NoWorker == [CreateWorker(DefaultConfig) EXCEPT !.present = FALSE]

Position(x) == <<x.header, x.para, x.block>>

(* Fault: a request is taken wherever it starts. *)
MatchAny(w, r) == TRUE

(* WorkerContext::is_match *)
IsMatch(w, r) ==
    /\ r.headers # <<>> => w.header = r.headers[1]
    /\ r.paras # <<>> => w.para = r.paras[1]
    /\ r.blocks # <<>> => w.block = r.blocks[1]

(* WorkerContext::is_reached_chaintip *)
IsReachedChaintip(w) ==
    w.block = w.para /\ w.header > chaintip.relay /\ w.para > chaintip.para

IsSyncOnly(w) == w.syncOnly \/ w.poolSyncOnly

(* A handler's step *)
Begin(w) == [w |-> w, out |-> <<>>, spawn |-> <<>>, call |-> <<>>]
Send(s, e) == [s EXCEPT !.out = Append(@, e)]
AddRequest(s, r) == Send(s, Request(r))
Spawn(s, t) == [s EXCEPT !.spawn = Append(@, t)]
SetState(s, state) == [s EXCEPT !.w.state = state]

(* execute_pruntime_request *)
Execute(s, r) ==
    [s EXCEPT !.w.lock = TRUE, !.call = Append(@, r),
              !.w.infoRequested = IF r.kind = "RegularGetInfo" THEN FALSE ELSE @]

(* request_next_sync *)
RequestNextSync(s) ==
    Spawn(s, [task |-> "NextSync", header |-> s.w.header, para |-> s.w.para,
              block |-> s.w.block])

(* prb starts with a new worker, or with one that was registered, measured   *)
(* and bound before; pRuntime has no state yet.                              *)
Init ==
    /\ worker = NoWorker
    /\ bus = <<[ev |-> "AddWorker", config |-> DefaultConfig]>>
    /\ calls = <<>> /\ tasks = <<>>
    /\ pruntime = [initialized |-> FALSE, canLoad |-> TRUE, header |-> 0, para |-> 0,
                   block |-> 0, fresh |-> FALSE]
    /\ repo = [stored |-> InitialRelay, phase |-> "idle", from |-> 0, full |-> FALSE,
               skipped |-> FALSE]
    /\ chaintip = [relay |-> InitialRelay, para |-> ParaAt[InitialRelay]]
    /\ cache = [at |-> ParaAt[InitialRelay], sound |-> TRUE]
    /\ \E known \in Histories :
          LET since(n) == IF known >= n THEN ParaAt[InitialRelay] ELSE 0
          IN  chain = [registered |-> since(1), score |-> since(2), bound |-> since(3),
                       computing |-> 0]
    /\ faults = 0 /\ reboots = 0 /\ restarts = 0 /\ commands = 0 /\ beats = 0
-----------------------------------------------------------------------------
(* Compute management (compute_management.rs). *)

(* determinate_next_stage *)
DeterminateNextStage(w) ==
    CASE ~w.info.registered -> "Register"
      [] w.info.registered /\ Gatekeeper -> "Completed"
      [] w.info.registered /\ ~Gatekeeper /\ ~w.score -> "InitialScore"
      [] OTHER -> IF w.session = "None" THEN "AddToPool"
                  ELSE IF w.session = "Ready" THEN "StartComputing" ELSE "Completed"

(* request_register *)
RequestRegister(s) ==
    IF s.w.stage = "Register" THEN s ELSE AddRequest(s, Req("PrepareRegister"))

(* Fault: the transaction is sent again whenever the stage is looked at. *)
AddToPoolAgain(s) ==
    IF ~s.w.sessionUpdated THEN s ELSE Spawn(s, [task |-> "AddToPool"])

(* request_add_to_pool *)
RequestAddToPool(s) ==
    IF ~s.w.sessionUpdated \/ s.w.stage = "AddToPool" THEN s
    ELSE Spawn(s, [task |-> "AddToPool"])

(* request_start_computing *)
RequestStartComputing(s) ==
    IF s.w.stage = "StartComputing" THEN s ELSE Spawn(s, [task |-> "StartComputing"])

(* request_compute_management *)
RequestComputeManagement(s0) ==
    LET s == [s0 EXCEPT !.w.stage = IF @ = "None" THEN "NotStarted" ELSE @]
        next == DeterminateNextStage(s.w)
        done == CASE next = "Register" -> RequestRegister(s)
                  [] next = "InitialScore" -> s
                  [] next = "AddToPool" -> RequestAddToPool(s)
                  [] next = "StartComputing" -> RequestStartComputing(s)
                  [] next = "Completed" -> SetState(s, "Working")
    IN  IF s.w.stage = "Completed" \/ IsSyncOnly(s.w) THEN s
        ELSE [done EXCEPT !.w.stage = next]

IsComputeManagementNeeded(w) == w.stage # "Completed" /\ ~IsSyncOnly(w)
-----------------------------------------------------------------------------
(* Requests of pRuntime and its answers. *)

(* The first part of handle_pruntime_request for a Sync that is empty *)
HandleEmptySync(s) ==
    IF IsReachedChaintip(s.w) THEN [s EXCEPT !.w.pending = TRUE] ELSE RequestNextSync(s)

(* handle_pruntime_request *)
HandlePRuntimeRequest(s, r) ==
    IF s.w.stopped THEN IF r.kind = "TakeCheckpoint" THEN Execute(s, r) ELSE s
    ELSE IF r.kind = "Sync" /\ IsEmpty(r) THEN HandleEmptySync(s)
    ELSE IF r.kind = "Sync" /\ ~IsMatch(s.w, r) THEN RequestNextSync(s)
    ELSE IF ~s.w.lock /\ s.w.queue = <<>> THEN Execute(s, r)
    ELSE [s EXCEPT !.w.queue = Append(@, r)]

(* request_init *)
RequestInit(s) ==
    IF SupportsAttestation THEN AddRequest(s, Req("InitRuntime"))
    ELSE SetState(s, "HasError")

(* request_prepare_lifecycle.  The worker has its phactory_info by then. *)
RequestPrepareLifecycle(s) ==
    IF ~s.w.info.initialized THEN RequestInit(s)
    ELSE IF FastSync /\ s.w.info.canLoad /\ chaintip.para > 1 THEN Send(s, Ev("LoadState"))
    ELSE IF IsReachedChaintip(s.w)
    THEN SetState(RequestComputeManagement([s EXCEPT !.w.pending = TRUE]), "Preparing")
    ELSE SetState(RequestNextSync(s), "Synchronizing")

WithInfo(s, data) ==
    [s EXCEPT !.w.info = [initialized |-> data.initialized, canLoad |-> data.canLoad,
                          registered |-> data.registered]]

(* Fault: a worker that manages its computing does not wait for a broadcast. *)
ManageOrWait(s) ==
    IF IsComputeManagementNeeded(s.w) THEN RequestComputeManagement(s)
    ELSE [s EXCEPT !.w.pending = TRUE]

(* A worker that has reached the tip waits for a broadcast *)
AtChaintip(s) ==
    LET waiting == [s EXCEPT !.w.pending = TRUE]
    IN  IF IsComputeManagementNeeded(s.w) THEN RequestComputeManagement(waiting)
        ELSE waiting

(* handle_pruntime_sync_response; -1 stands for None *)
HandleSyncResponse(s, data) ==
    LET synced(old, to) == IF to = -1 THEN old ELSE to + 1
        moved == [s EXCEPT !.w.header = synced(@, data.header),
                           !.w.para = synced(@, data.para),
                           !.w.block = synced(@, data.block)]
        asked == IF moved.w.info.registered /\ data.block # -1 /\ moved.w.para = moved.w.block
                 THEN AddRequest(moved, Req("GetEgressMessages")) ELSE moved
    IN  IF IsReachedChaintip(asked.w) THEN AtChaintip(asked) ELSE RequestNextSync(asked)

(* handle_pruntime_response *)
HandlePRuntimeResponse(s, kind, data) ==
    CASE kind = "PrepareLifecycle" ->
            RequestPrepareLifecycle(
                [WithInfo(s, data) EXCEPT !.w.header = data.header, !.w.para = data.para,
                                          !.w.block = data.block])
      [] kind \in {"InitRuntime", "LoadChainState"} -> AddRequest(s, Req("PrepareLifecycle"))
      [] kind = "Sync" -> HandleSyncResponse(s, data)
      [] kind = "RegularGetInfo" ->
            WithInfo(IF Position(s.w) = Position(data) THEN s
                     ELSE [SetState(s, "HasError") EXCEPT !.w.stopped = TRUE], data)
      [] kind = "PrepareRegister" -> Spawn(s, [task |-> "Register"])
      [] kind = "GetEgressMessages" ->
            IF data.messages /\ ~(chain.score \in 1..cache.at)
            THEN Spawn(s, [task |-> "SyncMessages"]) ELSE s
      [] kind = "SignEndpoints" -> Spawn(s, [task |-> "UpdateEndpoints"])
      [] kind = "TakeCheckpoint" -> s

(* An answer after RpcErrors: the state before them comes back *)
Recover(s) ==
    LET again == s.w.errors >= ErrorLimit /\ s.w.last # "None" /\ s.w.state = "RpcError"
    IN  [s EXCEPT !.w.state = IF again THEN s.w.last ELSE @,
                  !.w.errors = 0, !.w.last = "None"]

(* An RpcError; the count is not looked at beyond the limit *)
CountRpcError(s) ==
    IF s.w.errors + 1 < ErrorLimit THEN [s EXCEPT !.w.errors = @ + 1]
    ELSE [s EXCEPT !.w.errors = ErrorLimit, !.w.state = "RpcError",
                   !.w.last = IF s.w.state = "RpcError" THEN @ ELSE s.w.state]

(* WorkerEvent::PRuntimeResponse *)
HandleResponse(s, e) ==
    LET unlocked == [s EXCEPT !.w.lock = FALSE]
        handled == CASE e.result = "ok" ->
                            HandlePRuntimeResponse(Recover(unlocked), e.kind, e.data)
                     [] e.result = "ServerError" -> SetState(unlocked, "HasError")
                     [] e.result = "RpcError" -> CountRpcError(unlocked)
    IN  IF handled.w.queue = <<>> THEN handled
        ELSE Execute([handled EXCEPT !.w.queue = Tail(@)], Head(handled.w.queue))
-----------------------------------------------------------------------------
(* Processor::master_loop: one event at a time. *)

Next1(name) == bus # <<>> /\ Head(bus).ev = name

(* The handler's step takes effect *)
Commit(s) ==
    /\ worker' = s.w
    /\ bus' = Tail(bus) \o s.out
    /\ tasks' = tasks \o s.spawn
    /\ calls' = calls \o s.call

(* handle_worker_event: a worker that is missing or disabled takes no event  *)
(* but an update.                                                            *)
WorkerEvent(name, Handler(_, _)) ==
    LET s == Begin(worker)
        heard == worker.present /\ (worker.enabled \/ name = "UpdateWorker")
    IN  /\ Next1(name)
        /\ Commit(IF heard THEN Handler(s, Head(bus)) ELSE s)
        /\ UNCHANGED <<chaintip, cache>>

HandleAddWorker ==
    /\ Next1("AddWorker")
    /\ Commit(IF worker.present THEN Begin(worker)
              ELSE AddRequest(Begin(CreateWorker(Head(bus).config)), Req("PrepareLifecycle")))
    /\ UNCHANGED <<chaintip, cache, world>>

HandleDeleteWorker ==
    /\ Next1("DeleteWorker")
    /\ Commit(Begin(NoWorker))
    /\ UNCHANGED <<chaintip, cache, world>>

HandleUpdatePool ==
    /\ Next1("UpdatePool")
    /\ Commit(Begin(IF worker.present THEN [worker EXCEPT !.poolSyncOnly = Head(bus).syncOnly]
                    ELSE worker))
    /\ UNCHANGED <<chaintip, cache, world>>

(* An operator that differs from the known one: register again *)
HandleUpdatePoolOperator ==
    /\ Next1("UpdatePoolOperator")
    /\ Commit(IF worker.present THEN AddRequest(Begin(worker), Req("PrepareRegister"))
              ELSE Begin(worker))
    /\ UNCHANGED <<chaintip, cache, world>>

(* A heartbeat for which the information of pRuntime is due *)
HandleHeartbeat ==
    /\ Next1("Heartbeat")
    /\ Commit(IF worker.present /\ ~worker.infoRequested
              THEN AddRequest(Begin([worker EXCEPT !.infoRequested = TRUE]),
                              Req("RegularGetInfo"))
              ELSE Begin(worker))
    /\ UNCHANGED <<chaintip, cache, world>>

(* Fault: the worker goes on waiting for a broadcast. *)
BroadcastAndWait(s, r) ==
    IF ~s.w.pending THEN s
    ELSE IF ~IsReachedChaintip(s.w) THEN RequestNextSync(s)
    ELSE IF IsMatch(s.w, r) THEN AddRequest(s, r) ELSE s

(* ProcessorEvent::BroadcastSync for one worker *)
Broadcast(s, r) ==
    LET taken == [s EXCEPT !.w.pending = FALSE]
    IN  IF ~s.w.pending THEN s
        ELSE IF ~IsReachedChaintip(s.w) THEN RequestNextSync(taken)
        ELSE IF IsMatch(s.w, r) THEN AddRequest(taken, r) ELSE s

HandleBroadcastSync ==
    /\ Next1("BroadcastSync")
    /\ Commit(IF worker.present THEN Broadcast(Begin(worker), Head(bus).req)
              ELSE Begin(worker))
    /\ chaintip' = Head(bus).tip
    /\ UNCHANGED <<cache, world>>

(* ProcessorEvent::RequestUpdateSessionInfo, from the cached state *)
HandleUpdateSessionInfo ==
    LET known(block) == block \in 1..cache.at
        updated == [worker EXCEPT
            !.score = known(chain.score),
            !.session = IF ~known(chain.bound) THEN "None"
                        ELSE IF known(chain.computing) THEN "Computing" ELSE "Ready",
            !.sessionUpdated = TRUE]
    IN  /\ Next1("UpdateSessionInfo")
        /\ Commit(Begin(IF worker.present /\ worker.info.registered /\ known(chain.registered)
                        THEN updated ELSE worker))
        /\ UNCHANGED <<chaintip, cache, world>>

HandleChainState ==
    /\ Next1("ChainState")
    /\ Commit(Begin(worker))
    /\ cache' = [at |-> Head(bus).to, sound |-> TRUE]
    /\ UNCHANGED <<chaintip, world>>

(* Changes applied to a state they do not follow make a state that is none *)
HandleStorageChanges ==
    /\ Next1("StorageChanges")
    /\ Commit(Begin(worker))
    /\ cache' = [at |-> Head(bus).to,
                 sound |-> cache.sound /\ Head(bus).from = cache.at + 1]
    /\ UNCHANGED <<chaintip, world>>

HandlePRuntimeRequestEvent ==
    LET handle(s, e) == HandlePRuntimeRequest(s, e.req)
    IN  WorkerEvent("Request", handle) /\ UNCHANGED world

HandlePRuntimeResponseEvent ==
    WorkerEvent("Response", HandleResponse) /\ UNCHANGED world

(* WorkerEvent::RepositoryLoadStateRequest *)
HandleLoadState ==
    LET handle(s, e) == Spawn(s, [task |-> "LoadState", prefer |-> chaintip.para - 1])
    IN  WorkerEvent("LoadState", handle) /\ UNCHANGED world

HandleMarkError ==
    LET handle(s, e) == SetState(s, "HasError")
    IN  WorkerEvent("MarkError", handle) /\ UNCHANGED world

Restart(s, config) ==
    Spawn(SetState(s, "Restarting"), [task |-> "Delete", config |-> config])

Config(w) == [enabled |-> w.enabled, syncOnly |-> w.syncOnly, poolSyncOnly |-> w.poolSyncOnly]

(* WorkerEvent::UpdateWorker with another enabled or sync_only *)
HandleUpdateWorker ==
    LET new == [Head(bus).config EXCEPT !.poolSyncOnly = worker.poolSyncOnly]
        handle(s, e) == IF new # Config(s.w) THEN Restart(s, new) ELSE s
    IN  /\ WorkerEvent("UpdateWorker", handle)
        /\ restarts' = IF worker.present /\ new # Config(worker)
                       THEN restarts + 1 ELSE restarts
        /\ UNCHANGED <<pruntime, repo, chain, faults, reboots, commands, beats>>

(* handle_worker_lifecycle_command *)
HandleCommand ==
    LET handle(s, e) == CASE e.command = "Restart" -> Restart(s, Config(s.w))
                          [] e.command = "ForceRegister" -> AddRequest(s, Req("PrepareRegister"))
                          [] e.command = "UpdateEndpoint" -> AddRequest(s, Req("SignEndpoints"))
                          [] e.command = "TakeCheckpoint" -> AddRequest(s, Req("TakeCheckpoint"))
    IN  /\ Next1("Command")
        /\ restarts' = IF Head(bus).command = "Restart" /\ worker.present /\ worker.enabled
                       THEN restarts + 1 ELSE restarts
        /\ WorkerEvent("Command", handle)
        /\ UNCHANGED <<pruntime, repo, chain, faults, reboots, commands, beats>>
-----------------------------------------------------------------------------
(* pRuntime, modelled from its service, and the calls to it. *)

Registered == chain.registered \in 1..(pruntime.block - 1)

(* do_sync_request: headers, para headers and blocks, each dropping what      *)
(* pRuntime already has; an error ends the request and undoes nothing.       *)
ExecSync(p, r) ==
    LET h == r.headers
        withHeaders == h # <<>> /\ h[1] <= h[2]
        ok1 == p.initialized /\ (withHeaders => h[1] <= p.header)
        p1 == IF ~withHeaders THEN p
              ELSE IF ok1 /\ h[2] >= p.header
              THEN [p EXCEPT !.canLoad = FALSE, !.header = h[2] + 1, !.fresh = TRUE]
              ELSE [p EXCEPT !.canLoad = FALSE]
        oldParas == r.paras = <<>> \/ r.paras[2] < p1.para
        ok2 == ok1 /\ (oldParas \/ (/\ r.paras[1] <= p1.para
                                    /\ p1.fresh /\ h[2] = p1.header - 1))
        p2 == IF ok2 /\ ~oldParas THEN [p1 EXCEPT !.para = r.paras[2] + 1, !.fresh = FALSE]
              ELSE p1
        oldBlocks == r.blocks = <<>> \/ r.blocks[2] < p2.block
        ok3 == ok2 /\ (oldBlocks \/ (r.blocks[1] <= p2.block /\ r.blocks[2] < p2.para))
        p3 == IF ok3 /\ ~oldBlocks THEN [p2 EXCEPT !.block = r.blocks[2] + 1] ELSE p2
    IN  [p |-> p3, ok |-> ok3,
         data |-> [header |-> IF withHeaders THEN p3.header - 1 ELSE -1,
                   para |-> IF r.paras # <<>> THEN p3.para - 1 ELSE -1,
                   block |-> IF r.blocks # <<>> THEN p3.block - 1 ELSE -1]]

NoData == [none |-> TRUE]

(* What pRuntime does with a request *)
Exec(p, r) ==
    CASE r.kind \in {"PrepareLifecycle", "RegularGetInfo"} ->
            [p |-> p, ok |-> TRUE,
             data |-> [initialized |-> p.initialized, canLoad |-> p.canLoad,
                       registered |-> Registered, header |-> p.header, para |-> p.para,
                       block |-> p.block]]
      [] r.kind = "InitRuntime" ->
            [p |-> IF p.initialized THEN p
                   ELSE [p EXCEPT !.initialized = TRUE, !.header = 1, !.block = 1],
             ok |-> ~p.initialized, data |-> NoData]
      [] r.kind = "LoadChainState" ->
            LET ok == /\ p.canLoad /\ p.initialized /\ r.at > 0
                      /\ ~(chain.registered \in 1..r.at) /\ p.block <= 1 /\ p.para <= 1
            IN  [p |-> IF ok THEN [p EXCEPT !.canLoad = FALSE, !.block = r.at + 1, !.para = r.at]
                       ELSE p,
                 ok |-> ok, data |-> NoData]
      [] r.kind = "Sync" -> ExecSync(p, r)
      [] r.kind = "GetEgressMessages" ->
            [p |-> p, ok |-> p.initialized, data |-> [messages |-> Registered]]
      [] r.kind \in {"PrepareRegister", "SignEndpoints", "TakeCheckpoint"} ->
            [p |-> p, ok |-> p.initialized, data |-> NoData]

(* The end of dispatch_pruntime_request *)
Report(r, result, data) ==
    (IF result # "ok" /\ IsCritical(r.kind) THEN <<Ev("MarkError")>> ELSE <<>>)
        \o <<Response(r, result, data)>>

(* dispatch_pruntime_request *)
DispatchPRuntimeRequest(i) ==
    LET x == Exec(pruntime, calls[i])
    IN  /\ pruntime' = x.p
        /\ calls' = RemoveAt(calls, i)
        /\ bus' = bus \o Report(calls[i], IF x.ok THEN "ok" ELSE "ServerError", x.data)
        /\ UNCHANGED <<worker, tasks, repo, chaintip, cache, chain, counters>>

(* The connection fails, before or after pRuntime has done its part *)
LoseCall(i) ==
    /\ Undisturbed
    /\ \E reached \in BOOLEAN :
          pruntime' = IF reached THEN Exec(pruntime, calls[i]).p ELSE pruntime
    /\ calls' = RemoveAt(calls, i)
    /\ bus' = bus \o Report(calls[i], "RpcError", NoData)
    /\ faults' = faults + 1
    /\ UNCHANGED <<worker, tasks, repo, chaintip, cache, chain, reboots, restarts,
                   commands, beats>>

(* pRuntime starts again without a checkpoint; calls under way fail *)
PRuntimeRestart ==
    /\ Undisturbed /\ pruntime.initialized
    /\ pruntime' = [initialized |-> FALSE, canLoad |-> TRUE, header |-> 0, para |-> 0,
                    block |-> 0, fresh |-> FALSE]
    /\ calls' = <<>>
    /\ bus' = bus \o FlattenSeq([i \in DOMAIN calls |-> Report(calls[i], "RpcError", NoData)])
    /\ faults' = faults + 1 /\ reboots' = reboots + 1
    /\ UNCHANGED <<worker, tasks, repo, chaintip, cache, chain, restarts, commands, beats>>
-----------------------------------------------------------------------------
(* Spawned tasks. *)

IsTask(i, name) == tasks[i].task = name
EndTask(i) == tasks' = RemoveAt(tasks, i)
Smaller(a, b) == IF a < b THEN a ELSE b

(* The next parachain block a transaction can be in *)
NextPara == ParaAt[repo.stored] + 1

(* headers_db: headers are kept in records that end with a change of          *)
(* authorities, and a last record up to the tip; this is the end of num's.   *)
RecordEnd(num) ==
    LET ends == {r \in Changes : num <= r /\ r <= repo.stored}
    IN  IF ends = {} THEN repo.stored ELSE CHOOSE r \in ends : \A q \in ends : r <= q

(* generate_sync_request; known: the para head of the last header was found *)
GenerateSyncRequest(info, known) ==
    LET relayAt == info.header - 1
    IN  IF info.block < info.para
        THEN Sync(<<>>, <<>>,
                  <<info.block, Smaller(((info.block + 3) \div 4) * 4, info.para - 1)>>)
        ELSE IF known /\ relayAt >= 0 /\ ParaAt[relayAt] > 0 /\ info.para <= ParaAt[relayAt]
        THEN Sync(<<info.header, relayAt>>, <<info.para, ParaAt[relayAt]>>, <<>>)
        ELSE IF info.header <= repo.stored
        THEN Sync(<<info.header, RecordEnd(info.header)>>, <<>>, <<>>)
        ELSE Sync(<<>>, <<>>, <<>>)

(* do_request_next_sync *)
DoRequestNextSync(i) ==
    /\ IsTask(i, "NextSync")
    /\ EndTask(i)
    /\ \E known \in BOOLEAN :
          /\ known \/ Undisturbed
          /\ bus' = Append(bus, Request(GenerateSyncRequest(tasks[i], known)))
          /\ faults' = IF known THEN faults ELSE faults + 1
    /\ UNCHANGED <<worker, calls, pruntime, repo, chaintip, cache, chain, reboots, restarts,
                   commands, beats>>

(* The third failure to fetch what a worker needs is reported, and tried again *)
FailNextSync(i) ==
    /\ IsTask(i, "NextSync") /\ Undisturbed
    /\ bus' = Append(bus, Ev("MarkError"))
    /\ faults' = faults + 1
    /\ UNCHANGED <<worker, calls, tasks, pruntime, repo, chaintip, cache, chain, reboots,
                   restarts, commands, beats>>

(* get_load_state_request: the last state without the worker's registration *)
GetLoadStateRequest(i) ==
    LET at == IF chain.registered > 0 THEN chain.registered - 1 ELSE tasks[i].prefer
    IN  /\ IsTask(i, "LoadState")
        /\ EndTask(i)
        /\ \/ bus' = Append(bus, Request(LoadChainState(at))) /\ UNCHANGED faults
           \/ /\ Undisturbed
              /\ bus' = Append(bus, Ev("MarkError")) /\ faults' = faults + 1
        /\ UNCHANGED <<worker, calls, pruntime, repo, chaintip, cache, chain, reboots,
                       restarts, commands, beats>>

(* A transaction that the chain takes, or that fails *)
Transact(i, name, accepted, outcome, event) ==
    /\ IsTask(i, name)
    /\ EndTask(i)
    /\ \/ /\ accepted
          /\ chain' = outcome
          /\ bus' = bus \o event
          /\ UNCHANGED faults
       \/ /\ ~accepted \/ Undisturbed
          /\ chain' = chain
          /\ bus' = Append(bus, Ev("MarkError"))
          /\ faults' = IF accepted THEN faults + 1 ELSE faults
    /\ UNCHANGED <<worker, calls, pruntime, repo, chaintip, cache, reboots, restarts,
                   commands, beats>>

DoRegister(i) ==
    Transact(i, "Register", TRUE,
             [chain EXCEPT !.registered = IF @ = 0 THEN NextPara ELSE @],
             <<Request(Req("RegularGetInfo"))>>)

DoAddWorkerToPool(i) ==
    Transact(i, "AddToPool", chain.bound = 0, [chain EXCEPT !.bound = NextPara], <<>>)

DoStartComputing(i) ==
    Transact(i, "StartComputing", chain.bound > 0 /\ chain.computing = 0,
             [chain EXCEPT !.computing = NextPara], <<>>)

(* Tasks that tell the processor nothing: the benchmark report reaches the    *)
(* chain through the message loop, the endpoints with a transaction.         *)
SilentTask(i) ==
    /\ tasks[i].task \in {"SyncMessages", "UpdateEndpoints"}
    /\ EndTask(i)
    /\ chain' = IF IsTask(i, "SyncMessages") /\ chain.score = 0
                THEN [chain EXCEPT !.score = NextPara] ELSE chain
    /\ UNCHANGED <<worker, bus, calls, pruntime, repo, chaintip, cache, counters>>

CoolPeriodOver ==
    CoolPeriodOutlasts =>
        /\ calls = <<>>
        /\ \A j \in DOMAIN tasks : tasks[j].task \in {"Delete", "Add"}
        /\ \A k \in DOMAIN bus :
              bus[k].ev \notin {"DeleteWorker", "Request", "Response", "LoadState"}

(* do_restart: delete the worker, wait, add it again *)
DoRestart(i) ==
    /\ tasks[i].task \in {"Delete", "Add"}
    /\ \/ /\ IsTask(i, "Delete")
          /\ bus' = Append(bus, Ev("DeleteWorker"))
          /\ tasks' = [tasks EXCEPT ![i] = [task |-> "Add", config |-> tasks[i].config]]
       \/ /\ IsTask(i, "Add") /\ CoolPeriodOver
          /\ bus' = Append(bus, [ev |-> "AddWorker", config |-> tasks[i].config])
          /\ EndTask(i)
    /\ UNCHANGED <<worker, calls, pruntime, repo, chaintip, cache, chain, counters>>
-----------------------------------------------------------------------------
(* The repository (repository.rs). *)

(* A finalized block: fill_gap stores all headers up to it, in rounds that    *)
(* end with a change of authorities.  When a later round fails, the headers  *)
(* of the earlier ones are kept and there is no broadcast for them.          *)
FillGap ==
    /\ repo.phase = "idle" /\ Len(bus) <= MaxBacklog
    /\ \E to \in (repo.stored + 1)..MaxRelay :
          /\ to <= repo.stored + 2
          /\ \/ /\ repo' = [repo EXCEPT !.stored = to, !.phase = "broadcast",
                                         !.from = repo.stored + 1]
                /\ UNCHANGED faults
             \/ /\ Undisturbed
                /\ \E r \in Changes \cap (repo.stored + 1)..(to - 1) :
                      repo' = [repo EXCEPT !.stored = r, !.skipped = TRUE]
                /\ faults' = faults + 1
    /\ UNCHANGED <<worker, bus, calls, tasks, pruntime, chaintip, cache, chain, reboots,
                   restarts, commands, beats>>

ParaFrom == ParaAt[repo.from - 1] + 1
ParaTo == ParaAt[repo.stored]

BroadcastEvent ==
    [ev |-> "BroadcastSync",
     req |-> Sync(<<repo.from, repo.stored>>,
                  IF ParaFrom > ParaTo THEN <<>> ELSE <<ParaFrom, ParaTo>>, <<>>),
     tip |-> [relay |-> repo.stored, para |-> ParaTo]]

(* prepare_and_broadcast; it gives up when the new headers run over a change *)
(* of authorities, or when something cannot be fetched                       *)
PrepareAndBroadcast ==
    /\ repo.phase = "broadcast"
    /\ \/ /\ RecordEnd(repo.from) = repo.stored
          /\ bus' = Append(bus, BroadcastEvent)
          /\ repo' = [repo EXCEPT !.phase = IF ParaFrom <= ParaTo THEN "changes" ELSE "idle"]
          /\ UNCHANGED faults
       \/ /\ RecordEnd(repo.from) # repo.stored \/ Undisturbed
          /\ repo' = [repo EXCEPT !.phase = "idle", !.full = FALSE]
          /\ faults' = IF RecordEnd(repo.from) # repo.stored THEN faults ELSE faults + 1
          /\ UNCHANGED bus
    /\ UNCHANGED <<worker, calls, tasks, pruntime, chaintip, cache, chain, reboots, restarts,
                   commands, beats>>

(* Fault: the state counts as sent when it could not be fetched. *)
CountAsSent == repo' = [repo EXCEPT !.phase = "idle", !.full = TRUE]

(* A failed send_storage_changes *)
StateNotSent == repo' = [repo EXCEPT !.phase = "idle", !.full = FALSE]

(* send_storage_changes *)
SendStorageChanges ==
    /\ repo.phase = "changes"
    /\ \/ /\ bus' = bus \o
                <<IF repo.full THEN [ev |-> "StorageChanges", from |-> ParaFrom, to |-> ParaTo]
                  ELSE [ev |-> "ChainState", to |-> ParaTo],
                  Ev("UpdateSessionInfo")>>
          /\ repo' = [repo EXCEPT !.phase = "idle", !.full = TRUE]
          /\ UNCHANGED faults
       \/ /\ Undisturbed
          /\ StateNotSent
          /\ faults' = faults + 1
          /\ UNCHANGED bus
    /\ UNCHANGED <<worker, calls, tasks, pruntime, chaintip, cache, chain, reboots, restarts,
                   commands, beats>>
-----------------------------------------------------------------------------
(* The timer and the operator. *)

(* The timer; heartbeats that would find nothing due are left out *)
Heartbeat ==
    /\ worker.present /\ ~worker.infoRequested
    /\ beats < MaxHeartbeats /\ Len(bus) <= MaxBacklog
    /\ bus' = Append(bus, Ev("Heartbeat"))
    /\ beats' = beats + 1
    /\ UNCHANGED <<worker, calls, tasks, pruntime, repo, chaintip, cache, chain, faults,
                   reboots, restarts, commands>>

OperatorEvents ==
    {[ev |-> "Command", command |-> c] :
        c \in {"Restart", "ForceRegister", "UpdateEndpoint", "TakeCheckpoint"}}
    \cup {[ev |-> "UpdateWorker", config |-> [DefaultConfig EXCEPT !.enabled = b]] : b \in BOOLEAN}
    \cup {[ev |-> "UpdatePool", syncOnly |-> b] : b \in BOOLEAN}
    \cup {Ev("UpdatePoolOperator")}

Operate ==
    /\ Undisturbed /\ Len(bus) <= MaxBacklog
    /\ \E e \in OperatorEvents : bus' = Append(bus, e)
    /\ commands' = commands + 1
    /\ UNCHANGED <<worker, calls, tasks, pruntime, repo, chaintip, cache, chain, faults,
                   reboots, restarts, beats>>
-----------------------------------------------------------------------------
Handle ==
    \/ HandleAddWorker \/ HandleDeleteWorker \/ HandleUpdatePool
    \/ HandleUpdatePoolOperator \/ HandleHeartbeat \/ HandleBroadcastSync
    \/ HandleUpdateSessionInfo \/ HandleChainState \/ HandleStorageChanges
    \/ HandlePRuntimeRequestEvent \/ HandlePRuntimeResponseEvent \/ HandleLoadState
    \/ HandleMarkError \/ HandleUpdateWorker \/ HandleCommand

EndOfTask(i) ==
    \/ DoRequestNextSync(i) \/ GetLoadStateRequest(i) \/ DoRegister(i)
    \/ DoAddWorkerToPool(i) \/ DoStartComputing(i) \/ SilentTask(i) \/ DoRestart(i)

Next ==
    \/ Handle
    \/ \E i \in DOMAIN calls : DispatchPRuntimeRequest(i) \/ LoseCall(i)
    \/ PRuntimeRestart
    \/ \E i \in DOMAIN tasks : EndOfTask(i) \/ FailNextSync(i)
    \/ FillGap \/ PrepareAndBroadcast \/ SendStorageChanges
    \/ Heartbeat \/ Operate

Spec == Init /\ [][Next]_vars
-----------------------------------------------------------------------------
States == {"Starting", "Synchronizing", "Preparing", "Working", "HasError", "RpcError",
           "Restarting", "Disabled"}

(* The context, the numbers it holds and the counters are well formed. *)
TypeOK ==
    /\ worker.state \in States /\ worker.last \in States \cup {"None"}
    /\ worker.header \in 0..(MaxRelay + 1) /\ worker.para \in Nat /\ worker.block \in Nat
    /\ worker.errors \in 0..ErrorLimit
    /\ worker.stage \in {"None", "NotStarted", "Register", "InitialScore", "AddToPool",
                         "StartComputing", "Completed"}
    /\ {worker.lock, worker.pending, worker.stopped} \subseteq BOOLEAN
    /\ pruntime.header \in 0..(MaxRelay + 1)
    /\ cache.at \in Nat /\ cache.sound \in BOOLEAN

(* What carries a worker's progress: a request or an answer of the kinds      *)
(* that lead to the next step, a task that looks for it, or the wait for a   *)
(* broadcast.                                                                *)
Leading == {"PrepareLifecycle", "InitRuntime", "LoadChainState", "Sync"}
IsLeading(r) == r.kind \in Leading
Looks(t) == t.task \in {"NextSync", "LoadState"}
Carries(e) ==
    \/ e.ev = "Request" /\ IsLeading(e.req)
    \/ e.ev = "Response" /\ e.result = "ok" /\ IsLeading(e)
    \/ e.ev = "LoadState"
Threads ==
    {<<"bus", i>> : i \in {j \in DOMAIN bus : Carries(bus[j])}}
    \cup {<<"tasks", i>> : i \in {j \in DOMAIN tasks : Looks(tasks[j])}}
    \cup {<<"calls", i>> : i \in {j \in DOMAIN calls : IsLeading(calls[j])}}
    \cup {<<"queue", i>> : i \in {j \in DOMAIN worker.queue : IsLeading(worker.queue[j])}}
    \cup (IF worker.pending THEN {<<"pending", 0>>} ELSE {})

(* handle_pruntime_request, handle_pruntime_sync_response and BroadcastSync   *)
(* each hand a worker's progress on exactly once: never do two chains of     *)
(* requests drive one pRuntime, whichever calls fail and however often the   *)
(* worker is restarted (processor.rs).                                       *)
OneThread == \A a, b \in Threads : a = b

(* A queued Sync is executed without another look at is_match, after other   *)
(* answers have been handled: it still starts exactly where pRuntime stands, *)
(* whichever calls were lost and however often the worker was restarted,     *)
(* unless pRuntime itself was.                                               *)
SyncsFit ==
    reboots = 0 =>
        \A i \in DOMAIN calls : calls[i].kind = "Sync" =>
            /\ calls[i].headers # <<>> => calls[i].headers[1] = pruntime.header
            /\ calls[i].paras # <<>> => calls[i].paras[1] = pruntime.para
            /\ calls[i].blocks # <<>> => calls[i].blocks[1] = pruntime.block

(* The stage remembers what compute management has asked for: a worker that  *)
(* waits for its session has sent add_worker, one that waits to compute has   *)
(* sent start_computing, and neither is sent twice in the life of a context. *)
Sent(name) == Cardinality({i \in DOMAIN tasks : tasks[i].task = name})
OneTransactionPerStage ==
    restarts = 0 =>
        /\ Sent("AddToPool") + (IF chain.bound > 0 THEN 1 ELSE 0) <= 1
        /\ Sent("StartComputing") + (IF chain.computing > 0 THEN 1 ELSE 0) <= 1
        /\ faults = 0 /\ worker.stage = "AddToPool" =>
              Sent("AddToPool") = 1 \/ chain.bound > 0
        /\ faults = 0 /\ worker.stage = "StartComputing" =>
              Sent("StartComputing") = 1 \/ chain.computing > 0

(* The processor's copy of the parachain state only ever takes changes that   *)
(* follow the state it holds, whichever broadcast or fetch failed in between *)
(* (repository.rs, full_state_dispatched).  A fill_gap that fails between    *)
(* two rounds is the exception: background forgets to ask for a full state.  *)
CacheFollowsChain == repo.skipped \/ cache.sound

Healthy ==
    /\ worker.present /\ worker.enabled /\ ~worker.stopped
    /\ faults = 0 /\ restarts = 0

(* As long as every call, fetch and transaction succeeds, a worker is never   *)
(* left with nothing under way that leads to its next step, whichever        *)
(* answers were empty, refused as not matching, or meant for a tip it had    *)
(* not reached.                                                              *)
NeverStranded == Healthy => Threads # {}

(* "Need Restart Manually! Worker Info is not matching prb internal status"   *)
(* stops a worker only when a call was lost, or pRuntime or the worker was   *)
(* restarted (processor.rs, RegularGetInfo).  It does not hold: see README.  *)
AlarmIsReal == worker.stopped => faults > 0 \/ restarts > 0
=============================================================================
