----------------------------- MODULE Computation -----------------------------
(***************************************************************************)
(* Computing sessions and heartbeats.                                      *)
(*                                                                         *)
(* The computation pallet binds workers to the accounts of stake pools and *)
(* starts and stops their sessions.  Every block ends with a heartbeat     *)
(* challenge, which some workers hit and must answer.  The gatekeeper      *)
(* replays the state machine of every worker to know which heartbeats are  *)
(* due, reports workers that are late as offline and those that answer     *)
(* again as recovered, and settles the payouts.  The pallet applies its    *)
(* reports and tells the workers.                                          *)
(*                                                                         *)
(* Pallet, workers and gatekeeper run apart: each pRuntime handles the     *)
(* blocks at its own pace, heartbeats and reports arrive in order and      *)
(* once, any time later (see OffchainMq).  A block is the unit of time.    *)
(* An account is a pool and a worker, so SessionBindings is determined by  *)
(* WorkerBindings, with which it is always written.  The value V, scores   *)
(* and amounts are left out.                                               *)
(***************************************************************************)
EXTENDS Integers, Sequences, FiniteSets, SequencesExt

CONSTANTS Workers, Pools,
          NoPool,            \* no binding
          HeartbeatWindow,   \* blocks within which a heartbeat must arrive
          CoolDownPeriod,
          MaxBlocks,         \* bound: blocks
          MaxLag,            \* bound: blocks a pRuntime is behind
          MaxRegistrations,  \* bound: calls of register_worker
          MaxCalls           \* bound: other calls to the pallets

ASSUME ConstantsAssumption ==
    /\ IsFiniteSet(Workers) /\ IsFiniteSet(Pools)
    /\ NoPool \notin Pools
    /\ HeartbeatWindow \in Nat /\ CoolDownPeriod \in Nat
    /\ MaxBlocks \in Nat \ {0} /\ MaxLag \in Nat
    /\ MaxRegistrations \in Nat /\ MaxCalls \in Nat

VARIABLES
    height,      \* the block under construction
    current,     \* its events so far
    addedAt,     \* WorkerAddedAt, 0 for a worker that is not registered
    launchedAt,  \* GatekeeperLaunchedAt, 0 before
    binding,     \* WorkerBindings
    sessions,    \* Sessions, and whether Stakes has an entry
    online,      \* OnlineWorkers
    nextId,      \* NextSessionId
    worker,      \* pRuntime of each worker
    gk,          \* pRuntime of the gatekeeper
    reports,     \* its reports in transit
    calls        \* calls so far, and registrations

pallet == <<addedAt, launchedAt, binding, sessions, online, nextId>>
vars == <<height, current, pallet, worker, gk, reports, calls>>

Accounts == Pools \X Workers

-----------------------------------------------------------------------------
(* Events of a block.                                                      *)

Registered(w) == [type |-> "Registered", worker |-> w]
Launched == [type |-> "Launched"]
Started(w, id) == [type |-> "Started", worker |-> w, id |-> id]
Stopped(w) == [type |-> "Stopped", worker |-> w]
EnterUnresponsive(w) == [type |-> "EnterUnresponsive", worker |-> w]
ExitUnresponsive(w) == [type |-> "ExitUnresponsive", worker |-> w]
Challenge(hits) == [type |-> "HeartbeatChallenge", hits |-> hits]
Heartbeat(w, hb) == [type |-> "Heartbeat", worker |-> w, hb |-> hb]

-----------------------------------------------------------------------------
(* WorkerState: the machine that a worker runs and the gatekeeper replays. *)

Unregistered == [registered |-> FALSE, session |-> 0, paused |-> FALSE]

ProcessEvent(w, sm, e) ==
    CASE e = Registered(w) -> [sm EXCEPT !.registered = TRUE]
      [] e.type = "Started" /\ e.worker = w ->
            [sm EXCEPT !.session = e.id, !.paused = FALSE]
      [] e = Stopped(w) -> [sm EXCEPT !.session = 0, !.paused = FALSE]
      [] e = EnterUnresponsive(w) -> [sm EXCEPT !.paused = (sm.session # 0)]
      [] e = ExitUnresponsive(w) -> [sm EXCEPT !.paused = FALSE]
      [] OTHER -> sm

(* handle_heartbeat_challenge: whether the worker sends a heartbeat.       *)
Answers(w, sm, e) == /\ e.type = "HeartbeatChallenge" /\ w \in e.hits
                     /\ sm.registered /\ sm.session # 0 /\ ~sm.paused

-----------------------------------------------------------------------------
(* ComputingEconomics, while it handles a block: what it knows of each     *)
(* worker, who sent a good heartbeat, the settlements to report, and       *)
(* whether it met a heartbeat it did not expect.                           *)

Unknown == [known |-> FALSE, sm |-> Unregistered, waiting |-> << >>,
            unresponsive |-> FALSE]

(* Fault: a new session forgets the heartbeats that are due. *)
ReplayAndClear(w, info, e, h) ==
    LET known == info.known \/ e = Registered(w)
        started == e.type = "Started" /\ e.worker = w
    IN  IF ~known THEN info
        ELSE [known |-> TRUE,
              sm |-> ProcessEvent(w, info.sm, e),
              waiting |-> IF started THEN << >>
                          ELSE IF Answers(w, info.sm, e)
                          THEN Append(info.waiting, h) ELSE info.waiting,
              unresponsive |-> ~started /\ info.unresponsive]

(* process_system_event, for one worker.                                   *)
Replay(w, info, e, h) ==
    LET known == info.known \/ e = Registered(w)
        started == e.type = "Started" /\ e.worker = w
    IN  IF ~known THEN info
        ELSE [known |-> TRUE,
              sm |-> ProcessEvent(w, info.sm, e),
              waiting |-> IF Answers(w, info.sm, e)
                          THEN Append(info.waiting, h) ELSE info.waiting,
              unresponsive |-> ~started /\ info.unresponsive]

Settlement(w, info) == [worker |-> w, session |-> info.sm.session]

ProcessSystemEvent(eco, e, h) ==
    [eco EXCEPT
        !.info = [w \in Workers |-> Replay(w, eco.info[w], e, h)],
        !.settle = IF e.type = "Stopped" /\ eco.info[e.worker].known
                   THEN Append(@, Settlement(e.worker, eco.info[e.worker]))
                   ELSE @]

(* process_computing_report.                                               *)
ProcessHeartbeat(eco, w, hb) ==
    LET info == eco.info[w]
        popped == [eco EXCEPT !.info[w].waiting = Tail(@)]
    IN  IF ~info.known THEN eco
        ELSE IF info.waiting = << >> \/ Head(info.waiting) # hb.block
        THEN [eco EXCEPT !.poisoned = TRUE]
        ELSE IF hb.session # info.sm.session THEN popped
        ELSE [popped EXCEPT
                 !.flags = @ \cup {w},
                 !.settle = IF info.unresponsive THEN @
                            ELSE Append(@, Settlement(w, info))]

ProcessMessage(eco, e, h) ==
    IF eco.poisoned THEN eco
    ELSE IF e.type = "Heartbeat" THEN ProcessHeartbeat(eco, e.worker, e.hb)
    ELSE ProcessSystemEvent(eco, e, h)

ProcessMessages(eco, b) ==
    LET after[i \in 0..Len(b.events)] ==
            IF i = 0 THEN eco
            ELSE ProcessMessage(after[i - 1], b.events[i], b.height)
    IN  after[Len(b.events)]

Working(eco) == {w \in Workers : eco.info[w].sm.session # 0}

(* did_process_block: who is back, and who is late.                        *)
Recovered(eco) ==
    {w \in Working(eco) : eco.info[w].unresponsive /\ w \in eco.flags}

Late(eco, h) ==
    {w \in Working(eco) : /\ ~eco.info[w].unresponsive
                          /\ eco.info[w].waiting # << >>
                          /\ h - Head(eco.info[w].waiting) > HeartbeatWindow}

Silent(eco, h) ==
    [w \in Workers |->
        [eco.info[w] EXCEPT !.unresponsive =
            \/ w \in Late(eco, h)
            \/ eco.info[w].unresponsive /\ w \notin Recovered(eco)]]

Report(eco, h) == [ts |-> h, offline |-> Late(eco, h),
                   recovered |-> Recovered(eco), settle |-> eco.settle]

IsEmpty(r) == r.offline = {} /\ r.recovered = {} /\ r.settle = << >>

-----------------------------------------------------------------------------
NoSession == [state |-> "None", v_updated_at |-> 0, challenge_time_last |-> 0,
              cool_down_start |-> 0, id |-> 0, stake |-> FALSE]

Init == /\ height = 1 /\ current = << >>
        /\ addedAt = [w \in Workers |-> 0] /\ launchedAt = 0
        /\ binding = [w \in Workers |-> NoPool]
        /\ sessions = [a \in Accounts |-> NoSession]
        /\ online = 0 /\ nextId = 1
        /\ worker = [w \in Workers |->
                        [inbox |-> << >>, sm |-> Unregistered, out |-> << >>]]
        /\ gk = [inbox |-> << >>, launched |-> FALSE, poisoned |-> FALSE,
                 info |-> [w \in Workers |-> Unknown]]
        /\ reports = << >>
        /\ calls = [registry |-> 0, computation |-> 0]

Account(w) == <<binding[w], w>>
Bound(w) == binding[w] # NoPool
Computing(s) == s.state \in {"WorkerIdle", "WorkerUnresponsive"}

Count(what, max) == /\ calls[what] < max
                    /\ calls' = [calls EXCEPT ![what] = @ + 1]

Call == Count("computation", MaxCalls)

Emit(events) == current' = current \o events

-----------------------------------------------------------------------------
(* Calls to the pallets.                                                   *)

(* register_worker, or force_register_worker for a new worker.             *)
RegisterWorker(w) ==
    /\ Count("registry", MaxRegistrations)
    /\ addedAt' = [addedAt EXCEPT ![w] = IF @ = 0 THEN height ELSE @]
    /\ Emit(<<Registered(w)>>)
    /\ UNCHANGED <<height, launchedAt, binding, sessions, online, nextId,
                   worker, gk, reports>>

LaunchGatekeeper ==
    /\ launchedAt = 0 /\ launchedAt' = height
    /\ Emit(<<Launched>>)
    /\ UNCHANGED <<height, addedAt, binding, sessions, online, nextId,
                   worker, gk, reports, calls>>

(* Fault: the order of registration and launch is not checked. *)
RegisteredAtAll(w) == addedAt[w] # 0

IsWorkerRegisteredAfterGkLaunched(w) ==
    addedAt[w] # 0 /\ launchedAt # 0 /\ addedAt[w] > launchedAt

Bind(p, w) ==
    /\ Call
    /\ IsWorkerRegisteredAfterGkLaunched(w)
    /\ ~Bound(w)
    /\ sessions[<<p, w>>].state \in {"None", "Ready"}
    /\ binding' = [binding EXCEPT ![w] = p]
    /\ sessions' = [sessions EXCEPT ![<<p, w>>] =
           [NoSession EXCEPT !.state = "Ready", !.v_updated_at = height,
                             !.stake = sessions[<<p, w>>].stake]]
    /\ UNCHANGED <<height, current, addedAt, launchedAt, online, nextId,
                   worker, gk, reports>>

(* What stop_computing, reclaim and start_computing make of a session.     *)
StopSession(s) ==
    [s EXCEPT !.state = "WorkerCoolingDown", !.cool_down_start = height]
ReclaimSession(s) ==
    [s EXCEPT !.state = "Ready", !.cool_down_start = 0, !.stake = FALSE]
StartSession(s) ==
    [s EXCEPT !.state = "WorkerIdle", !.v_updated_at = height,
              !.id = nextId, !.stake = TRUE]

(* Fault: a session that computes is left alone. *)
UnbindOnly(w) ==
    /\ Call
    /\ Bound(w)
    /\ binding' = [binding EXCEPT ![w] = NoPool]
    /\ UNCHANGED <<height, current, addedAt, launchedAt, sessions, online,
                   nextId, worker, gk, reports>>

(* unbind of the pallet, or remove_worker of the pool: unbind_session.     *)
Unbind(w) ==
    /\ Call
    /\ Bound(w)
    /\ binding' = [binding EXCEPT ![w] = NoPool]
    /\ \/ /\ Computing(sessions[Account(w)])
          /\ sessions' = [sessions EXCEPT ![Account(w)] = StopSession(@)]
          /\ online' = online - 1
          /\ Emit(<<Stopped(w)>>)
       \/ /\ ~Computing(sessions[Account(w)])
          /\ UNCHANGED <<sessions, online, current>>
    /\ UNCHANGED <<height, addedAt, launchedAt, nextId, worker, gk, reports>>

StartComputing(w) ==
    /\ Call
    /\ Bound(w)
    /\ sessions[Account(w)].state = "Ready" /\ ~sessions[Account(w)].stake
    /\ sessions' = [sessions EXCEPT ![Account(w)] = StartSession(@)]
    /\ online' = online + 1
    /\ nextId' = nextId + 1
    /\ Emit(<<Started(w, nextId)>>)
    /\ UNCHANGED <<height, addedAt, launchedAt, binding, worker, gk, reports>>

StopComputing(w) ==
    /\ Call
    /\ Bound(w) /\ Computing(sessions[Account(w)])
    /\ sessions' = [sessions EXCEPT ![Account(w)] = StopSession(@)]
    /\ online' = online - 1
    /\ Emit(<<Stopped(w)>>)
    /\ UNCHANGED <<height, addedAt, launchedAt, binding, nextId, worker, gk,
                   reports>>

Reclaim(a) ==
    /\ Call
    /\ sessions[a].state = "WorkerCoolingDown"
    /\ height - sessions[a].cool_down_start >= CoolDownPeriod
    /\ sessions' = [sessions EXCEPT ![a] = ReclaimSession(@)]
    /\ UNCHANGED <<height, current, addedAt, launchedAt, binding, online,
                   nextId, worker, gk, reports>>

(* restart_computing of the pool: stop, reclaim at once, start.            *)
RestartComputing(w) ==
    /\ Call
    /\ Bound(w) /\ Computing(sessions[Account(w)])
    /\ sessions' = [sessions EXCEPT ![Account(w)] =
                       StartSession(ReclaimSession(StopSession(@)))]
    /\ nextId' = nextId + 1
    /\ Emit(<<Stopped(w), Started(w, nextId)>>)
    /\ UNCHANGED <<height, addedAt, launchedAt, binding, online, worker, gk,
                   reports>>

-----------------------------------------------------------------------------
(* Messages to the pallet.                                                 *)

(* sync_offchain_message of a worker, on_working_message_received.  The    *)
(* message goes on to the gatekeeper even when the worker is not bound.    *)
AcceptHeartbeat(w) ==
    /\ worker[w].out # << >>
    /\ LET hb == Head(worker[w].out)
       IN  /\ sessions' = IF Bound(w)
                          THEN [sessions EXCEPT
                                   ![Account(w)].challenge_time_last = hb.block]
                          ELSE sessions
           /\ Emit(<<Heartbeat(w, hb)>>)
    /\ worker' = [worker EXCEPT ![w].out = Tail(@)]
    /\ UNCHANGED <<height, addedAt, launchedAt, binding, online, nextId, gk,
                   reports, calls>>

(* Fault: a settlement of the same moment counts as new. *)
OlderSettlement(w, ts) == sessions[Account(w)].v_updated_at > ts

(* try_handle_settle: the session was updated since.                       *)
LateSettlement(w, ts) == sessions[Account(w)].v_updated_at >= ts

(* Workers of a report that the pallet does not skip.                      *)
NotSkipped(ws) == {w \in ws : Bound(w) /\ Computing(sessions[Account(w)])}

Settled(r) == {w \in Workers : /\ Bound(w) /\ ~LateSettlement(w, r.ts)
                               /\ \E s \in Range(r.settle) : s.worker = w}

(* on_gk_message_received.                                                 *)
AcceptReport ==
    /\ reports # << >>
    /\ LET r == Head(reports)
           off == NotSkipped(r.offline)
           on == NotSkipped(r.recovered)
       IN  /\ sessions' = [a \in Accounts |->
                 IF binding[a[2]] # a[1] THEN sessions[a]
                 ELSE [sessions[a] EXCEPT
                         !.state = IF a[2] \in on THEN "WorkerIdle"
                                   ELSE IF a[2] \in off THEN "WorkerUnresponsive"
                                   ELSE @,
                         !.v_updated_at = IF a[2] \in Settled(r) THEN height
                                          ELSE @]]
           /\ Emit(SetToSeq({EnterUnresponsive(w) : w \in off})
                      \o SetToSeq({ExitUnresponsive(w) : w \in on}))
    /\ reports' = Tail(reports)
    /\ UNCHANGED <<height, addedAt, launchedAt, binding, online, nextId, worker,
                   gk, calls>>

(* pow_target: with no worker online nobody hits a challenge.              *)
Hits == IF online = 0 THEN {{}} ELSE SUBSET Workers

(* on_finalize: the challenge ends the block.  Paused heartbeats are a     *)
(* challenge that nobody hits.                                             *)
EndBlock ==
    /\ height < MaxBlocks
    /\ Len(gk.inbox) < MaxLag
    /\ \A w \in Workers : Len(worker[w].inbox) < MaxLag
    /\ \E hits \in Hits :
          LET b == [height |-> height,
                    events |-> Append(current, Challenge(hits))]
          IN  /\ worker' = [w \in Workers |->
                               [worker[w] EXCEPT !.inbox = Append(@, b)]]
              /\ gk' = [gk EXCEPT !.inbox = Append(@, b)]
    /\ height' = height + 1
    /\ current' = << >>
    /\ UNCHANGED <<pallet, reports, calls>>

-----------------------------------------------------------------------------
(* The pRuntimes handle a block.                                           *)

WorkerStep(w, s, e, h) ==
    [s EXCEPT !.sm = ProcessEvent(w, s.sm, e),
              !.out = IF Answers(w, s.sm, e)
                      THEN Append(@, [session |-> s.sm.session, block |-> h])
                      ELSE @]

WorkerBlock(w) ==
    /\ worker[w].inbox # << >>
    /\ LET b == Head(worker[w].inbox)
           after[i \in 0..Len(b.events)] ==
              IF i = 0 THEN [worker[w] EXCEPT !.inbox = Tail(@)]
              ELSE WorkerStep(w, after[i - 1], b.events[i], b.height)
       IN  worker' = [worker EXCEPT ![w] = after[Len(b.events)]]
    /\ UNCHANGED <<height, current, pallet, gk, reports, calls>>

(* Nothing is handled before the launch; what precedes it in its block is  *)
(* still in the receiver then.                                             *)
GatekeeperBlock ==
    /\ gk.inbox # << >> /\ ~gk.poisoned
    /\ LET b == Head(gk.inbox)
           launched == gk.launched \/ Launched \in Range(b.events)
           start == [info |-> gk.info, flags |-> {}, settle |-> << >>,
                     poisoned |-> FALSE]
           eco == IF launched THEN ProcessMessages(start, b) ELSE start
           r == Report(eco, b.height)
       IN  /\ gk' = [inbox |-> Tail(gk.inbox), launched |-> launched,
                     poisoned |-> eco.poisoned, info |-> Silent(eco, b.height)]
           /\ reports' = IF eco.poisoned \/ IsEmpty(r) THEN reports
                         ELSE Append(reports, r)
    /\ UNCHANGED <<height, current, pallet, worker, calls>>

-----------------------------------------------------------------------------
Next == \/ LaunchGatekeeper
        \/ \E w \in Workers :
              \/ RegisterWorker(w)
              \/ Unbind(w)
              \/ StartComputing(w)
              \/ StopComputing(w)
              \/ RestartComputing(w)
              \/ AcceptHeartbeat(w)
              \/ WorkerBlock(w)
              \/ \E p \in Pools : Bind(p, w)
        \/ \E a \in Accounts : Reclaim(a)
        \/ AcceptReport
        \/ EndBlock
        \/ GatekeeperBlock

Spec == Init /\ [][Next]_vars

-----------------------------------------------------------------------------
(* Properties.                                                             *)

StateMachines == [registered : BOOLEAN, session : Nat, paused : BOOLEAN]

States == {"None", "Ready", "WorkerIdle", "WorkerUnresponsive",
           "WorkerCoolingDown"}

(* The variables have the shape of the pallet's storage and of the state   *)
(* of the pRuntimes; a machine is paused in a session only.                *)
TypeOK ==
    /\ height \in 1..MaxBlocks
    /\ calls \in [registry : 0..MaxRegistrations, computation : 0..MaxCalls]
    /\ addedAt \in [Workers -> 0..height] /\ launchedAt \in 0..height
    /\ binding \in [Workers -> Pools \cup {NoPool}]
    /\ sessions \in [Accounts ->
          [state : States, v_updated_at : 0..height,
           challenge_time_last : 0..height, cool_down_start : 0..height,
           id : 0..(nextId - 1), stake : BOOLEAN]]
    /\ online \in 0..Cardinality(Accounts) /\ nextId \in Nat \ {0}
    /\ \A w \in Workers :
          /\ worker[w].sm \in StateMachines
          /\ worker[w].out \in Seq([session : Nat, block : 1..height])
          /\ gk.info[w].sm \in StateMachines
          /\ worker[w].sm.paused => worker[w].sm.session # 0
          /\ gk.info[w].sm.paused => gk.info[w].sm.session # 0

(* The gatekeeper never meets a heartbeat other than the one it expects    *)
(* next, which would end it ("GK or Worker state poisoned"), however late  *)
(* heartbeats are and however sessions end and begin in between.           *)
HeartbeatsExpected == ~gk.poisoned

(* The heartbeats of w in a sequence of events.                            *)
HeartbeatsIn(w, events) ==
    LET upTo[i \in 0..Len(events)] ==
            IF i = 0 THEN << >>
            ELSE IF events[i].type = "Heartbeat" /\ events[i].worker = w
            THEN Append(upTo[i - 1], events[i].hb.block)
            ELSE upTo[i - 1]
    IN  upTo[Len(events)]

EventsIn(inbox) ==
    LET upTo[i \in 0..Len(inbox)] ==
            IF i = 0 THEN << >> ELSE upTo[i - 1] \o inbox[i].events
    IN  upTo[Len(inbox)]

(* Once it has handled the same blocks as a worker that computes, the      *)
(* gatekeeper waits for exactly the heartbeats of this worker that are     *)
(* under way: in blocks it has not handled, or not on chain yet; and it    *)
(* knows the state the worker is in.                                       *)
GatekeeperMirrorsWorker ==
    \A w \in Workers :
       worker[w].sm.session # 0 /\ worker[w].inbox = gk.inbox /\ ~gk.poisoned =>
          /\ gk.info[w].known /\ gk.info[w].sm = worker[w].sm
          /\ gk.info[w].waiting =
                HeartbeatsIn(w, EventsIn(gk.inbox) \o current)
                   \o [i \in 1..Len(worker[w].out) |-> worker[w].out[i].block]

(* A settlement that try_handle_settle will not drop was computed for the  *)
(* session that its account is in, or has ended last: restarts and moves   *)
(* to another pool while the report is under way never let it reach a      *)
(* session it is not about.                                                *)
SettlesOwnSession ==
    \A i \in 1..Len(reports) : \A s \in Range(reports[i].settle) :
       Bound(s.worker) /\ ~LateSettlement(s.worker, reports[i].ts)
          => sessions[Account(s.worker)].id = s.session

(* OnlineWorkers counts the sessions that compute, those are bound, and    *)
(* Stakes has an entry for them and the ones that cool down and no other.  *)
BooksBalance ==
    /\ online = Cardinality({a \in Accounts : Computing(sessions[a])})
    /\ \A a \in Accounts :
          /\ Computing(sessions[a]) => binding[a[2]] = a[1]
          /\ sessions[a].stake <=>
                \/ Computing(sessions[a])
                \/ sessions[a].state = "WorkerCoolingDown"

(* "Benchmark report must be valid": the heartbeat that comes next is      *)
(* younger than the challenge it answers and the last one answered.        *)
BenchmarkValid ==
    \A w \in Workers :
       worker[w].out # << >> /\ Bound(w) =>
          /\ height > sessions[Account(w)].challenge_time_last
          /\ Head(worker[w].out).block
                > sessions[Account(w)].challenge_time_last

(* No heartbeat ends the gatekeeper or panics in the runtime, however late *)
(* it is and whatever became of its session (gk.rs, computation.rs).       *)
HeartbeatsAccepted == HeartbeatsExpected /\ BenchmarkValid

(* A worker that has handled all events is in the session that the pallet  *)
(* has for it, and paused if and only if it is unresponsive there.         *)
WorkerFollowsPallet ==
    \A w \in Workers :
       worker[w].inbox = << >> /\ current = << >> =>
          LET s == sessions[Account(w)]
              computes == Bound(w) /\ Computing(s)
          IN  /\ worker[w].sm.session = IF computes THEN s.id ELSE 0
              /\ worker[w].sm.paused
                    <=> computes /\ s.state = "WorkerUnresponsive"

(* The pallet, the worker and the gatekeeper each keep a copy of where a   *)
(* worker stands, fed by the same events at different times: whenever two  *)
(* of them have handled the same events, they agree.                       *)
CopiesAgree == GatekeeperMirrorsWorker /\ WorkerFollowsPallet

(* Once a worker has answered every challenge, and everybody has handled   *)
(* all there is, it is not held to be unresponsive.                        *)
Answered(w) == /\ worker[w].inbox = << >> /\ worker[w].out = << >>
               /\ gk.inbox = << >> /\ gk.info[w].waiting = << >>
               /\ reports = << >> /\ current = << >>

AnsweredIsResponsive ==
    \A w \in Workers : Answered(w) /\ Bound(w) =>
       sessions[Account(w)].state # "WorkerUnresponsive"
=============================================================================
