-------------------------------- MODULE SideVm --------------------------------
(***************************************************************************)
(* Side VMs of contracts and the scheduler that shares the cores between   *)
(* them.                                                                   *)
(*                                                                         *)
(* A contract has at most one side VM.  Effects of blocks and of queries   *)
(* start it, stop it and send it messages; the end of each block starts    *)
(* again what has panicked.  Every start creates an instance: a task of    *)
(* its own with a channel of commands, which first waits for the instance  *)
(* before it, then polls the guest program, and whose end a watcher        *)
(* records in the contract's handle.                                       *)
(*                                                                         *)
(* The guest is polled only while the instance holds a guard of the task   *)
(* scheduler, which knows side VMs by contract: instances of one contract  *)
(* share an entry.  All of the scheduler is behind one mutex; a panic      *)
(* under it ends the process, because dropping the instance takes the      *)
(* poisoned mutex again.                                                   *)
(***************************************************************************)
EXTENDS Integers, FiniteSets, SequencesExt

CONSTANTS Vms,           \* contracts with a side VM
          virtual_cores,
          CommandCap,    \* capacity of an instance's command channel
          MaxStarts,     \* bound: instances of each contract
          MaxEffects,    \* bound: effects of blocks and queries, process restarts
          MaxRuntime     \* bound: polls that a contract's VM is charged for

ASSUME ConstantsAssumption ==
    /\ IsFiniteSet(Vms)
    /\ {virtual_cores, CommandCap} \subseteq Nat \ {0}
    /\ {MaxEffects, MaxRuntime} \subseteq Nat
    /\ MaxStarts \in [Vms -> Nat]

VARIABLES
    inst,   \* instances of each contract, in the order of their starts
    info,   \* sidevm_info of each contract
    sch,    \* the task scheduler, and the instances the executor shall poll
    effects,  \* effects and restarts of the process so far
    dead    \* the process has aborted

vars == <<inst, info, sch, effects, dead>>

-----------------------------------------------------------------------------
(* TaskScheduler.  Tasks are ordered by virtual runtime, equal ones by the *)
(* time they became ready.  An entry holds the waker of the instance that  *)
(* was polled.                                                             *)

NoTask == [state |-> "None", vruntime |-> 0]

Scheduled == {"ToRun", "Running"}

NewScheduler ==
    [tasks |-> [v \in Vms |-> NoTask], ready |-> <<>>, running_tasks |-> 0,
     virtual_clock |-> 0, woken |-> {}]

(* The entry with the smallest virtual runtime that became ready first.    *)
FirstReady(ready) ==
    CHOOSE e \in DOMAIN ready :
        \A d \in DOMAIN ready :
            \/ ready[e].vruntime < ready[d].vruntime
            \/ ready[e].vruntime = ready[d].vruntime /\ e <= d

(* One round of the loop of schedule: the entry of a task that has exited  *)
(* is thrown away, any other takes a core and is woken.                    *)
ScheduleOne(s) ==
    IF s.running_tasks >= virtual_cores \/ s.ready = <<>> THEN s
    ELSE LET k == FirstReady(s.ready)
             e == s.ready[k]
             rest == [s EXCEPT !.ready = RemoveAt(@, k)]
         IN  IF s.tasks[e.vm].state = "None" THEN rest
             ELSE [rest EXCEPT !.running_tasks = @ + 1,
                               !.virtual_clock = e.vruntime,
                               !.tasks[e.vm].state = "ToRun",
                               !.woken = @ \cup {<<e.vm, e.inst>>}]

(* schedule: a round throws an entry away or takes it from the queue, so   *)
(* there are at most as many as entries.                                   *)
Schedule(s) ==
    LET after[n \in 0..Len(s.ready)] == IF n = 0 THEN s ELSE ScheduleOne(after[n - 1])
    IN  after[Len(s.ready)]

(* Fault: the core of a task that exits is not given to the next one.      *)
ExitSilently(s, v) ==
    [s EXCEPT !.tasks[v] = NoTask,
              !.running_tasks = IF s.tasks[v].state \in Scheduled THEN @ - 1 ELSE @]

Exit(s, v) ==
    LET removed == [s EXCEPT !.tasks[v] = NoTask]
    IN  IF s.tasks[v].state \in Scheduled
        THEN Schedule([removed EXCEPT !.running_tasks = @ - 1])
        ELSE removed

(* Fault: a task that becomes ready waits for the next one to park.        *)
BecomeReadyOnly(s, v, i) ==
    LET vruntime == IF s.tasks[v].vruntime >= s.virtual_clock
                    THEN s.tasks[v].vruntime ELSE s.virtual_clock
    IN  [s EXCEPT !.tasks[v] = [state |-> "Ready", vruntime |-> vruntime],
                  !.ready = Append(@, [vm |-> v, inst |-> i, vruntime |-> vruntime]),
                  !.woken = @ \ {<<v, i>>}]

(* poll_resume of a task that is idle or new.                              *)
BecomeReady(s, v, i) ==
    LET vruntime == IF s.tasks[v].vruntime >= s.virtual_clock
                    THEN s.tasks[v].vruntime ELSE s.virtual_clock
    IN  Schedule([s EXCEPT
            !.tasks[v] = [state |-> "Ready", vruntime |-> vruntime],
            !.ready = Append(@, [vm |-> v, inst |-> i, vruntime |-> vruntime]),
            !.woken = @ \ {<<v, i>>}])

(* poll_resume of a ready task: its first entry gets the caller's waker.   *)
RefreshWaker(s, v, i) ==
    LET entries == {k \in DOMAIN s.ready : s.ready[k].vm = v}
        first == CHOOSE k \in entries : \A l \in entries :
                     \/ s.ready[k].vruntime < s.ready[l].vruntime
                     \/ s.ready[k].vruntime = s.ready[l].vruntime /\ k <= l
    IN  [s EXCEPT !.ready = IF entries = {} THEN @ ELSE [@ EXCEPT ![first].inst = i],
                  !.woken = @ \ {<<v, i>>}]

(* park, for a task that the scheduler knows to run.                       *)
Park(s, v, charge) ==
    Schedule([s EXCEPT !.tasks[v] = [state |-> "Idle", vruntime |-> @.vruntime + charge],
                       !.running_tasks = @ - 1])

-----------------------------------------------------------------------------
(* Instances and the handle of a contract.                                 *)

Phases == {"waiting", "starting", "live", "leaving", "ended"}

(* ExitReason, as far as restarts tell reasons apart: Final stands for     *)
(* Exited, Stopped, FailedToStart and the others after which nobody starts *)
(* the VM again, Panicked also for Stifled.                                *)
Reasons == {"None", "Final", "Panicked", "Restore"}

(* An instance that waits for instance prev of its contract, 0 for none,   *)
(* and was started by an effect or after a panic.                          *)
NewInstance(prev, by) ==
    [phase |-> IF prev = 0 THEN "starting" ELSE "waiting", prev |-> prev, by |-> by,
     cmds |-> <<>>, polling |-> FALSE, reason |-> "None", reported |-> FALSE,
     lost |-> FALSE]

(* No side VM, or one that did not start because its code is too large.    *)
NoInfo == [kind |-> "none", at |-> 0]

Init ==
    /\ inst = [v \in Vms |-> <<>>]
    /\ info = [v \in Vms |-> NoInfo]
    /\ sch = NewScheduler
    /\ effects = 0
    /\ dead = FALSE

(* The handle says Running until the watcher has seen the instance end.    *)
HandleRunning(v) ==
    info[v].kind = "instance" /\ ~inst[v][info[v].at].reported

(* try_send: a command is lost when the channel is full or closed.  A lost *)
(* Stop is logged.                                                         *)
TrySend(x, cmd) ==
    IF x.phase = "ended" THEN x
    ELSE IF Len(x.cmds) < CommandCap THEN [x EXCEPT !.cmds = Append(@, cmd)]
    ELSE [x EXCEPT !.lost = @ \/ cmd = "Stop"]

(* The instances of a contract after a command to the one of its handle.   *)
Told(v, cmd) ==
    IF HandleRunning(v) THEN [inst[v] EXCEPT ![info[v].at] = TrySend(@, cmd)]
                        ELSE inst[v]

(* do_start_sidevm.                                                        *)
Launch(v, instances, prev) ==
    /\ Len(instances) < MaxStarts[v]
    /\ inst' = [inst EXCEPT ![v] = Append(instances, NewInstance(prev, "effect"))]
    /\ info' = [info EXCEPT ![v].kind = "instance", ![v].at = Len(instances) + 1]

(* Fault: the previous instance is waited for but not stopped.             *)
StartUntold(v, code) ==
    LET prev == IF HandleRunning(v) THEN info[v].at ELSE 0
    IN  IF code = "found" THEN Launch(v, inst[v], prev)
        ELSE /\ info' = [info EXCEPT ![v] = [kind |-> code, at |-> 0]]
             /\ UNCHANGED inst

(* start_sidevm: the code may be unknown here or too large (none).         *)
StartSidevm(v, code) ==
    LET told == Told(v, "Stop")
        prev == IF HandleRunning(v) THEN info[v].at ELSE 0
    IN  IF code = "found" THEN Launch(v, told, prev)
        ELSE /\ info' = [info EXCEPT ![v] = [kind |-> code, at |-> 0]]
             /\ inst' = [inst EXCEPT ![v] = told]

Codes == {"found", "WaitingForCode", "none"}

-----------------------------------------------------------------------------
(* Effects of blocks and queries on the side VM of a contract.             *)

(* PinkEvent::DeploySidevmTo.  SidevmOperation::Start sends one Stop more, *)
(* which changes nothing for an instance that has one.                     *)
DeploySidevm(v, code) == StartSidevm(v, code)

(* StopSidevm, ForceStopSidevm, and a Start that is for other workers.     *)
StopSidevm(v) ==
    /\ HandleRunning(v)
    /\ inst' = [inst EXCEPT ![v] = Told(v, "Stop")]
    /\ UNCHANGED info

(* SidevmMessage, set_weight, queries and HTTP requests.                   *)
PushMessage(v) ==
    /\ HandleRunning(v)
    /\ inst' = [inst EXCEPT ![v] = Told(v, "Message")]
    /\ UNCHANGED info

(* upload_sidevm_code before the deadline: a running instance is stopped   *)
(* before the upload is refused; one that waits for code is started with   *)
(* no predecessor to wait for.                                             *)
UploadSidevmCode(v) ==
    \/ StopSidevm(v)
    \/ /\ info[v].kind = "WaitingForCode"
       /\ \E code \in {"found", "none"} : StartSidevm(v, code)

Effect(v) ==
    /\ effects < MaxEffects
    /\ effects' = effects + 1
    /\ \/ \E code \in Codes : DeploySidevm(v, code)
       \/ StopSidevm(v)
       \/ PushMessage(v)
       \/ UploadSidevmCode(v)
    /\ UNCHANGED <<sch, dead>>

NeedRestart(reason) == reason \in {"Panicked", "Restore"}

(* restart_sidevm_if_needed at the end of a block: what has panicked is    *)
(* started again, and what is past its deadline is stopped.                *)
RestartIfNeeded(v) ==
    /\ info[v].kind = "instance"
    /\ \/ /\ ~HandleRunning(v)
          /\ NeedRestart(inst[v][info[v].at].reason)
          /\ Len(inst[v]) < MaxStarts[v]
          /\ inst' = [inst EXCEPT ![v] = Append(@, NewInstance(0, "restart"))]
          /\ info' = [info EXCEPT ![v].at = Len(inst[v]) + 1]
       \/ StopSidevm(v)
    /\ UNCHANGED <<sch, effects, dead>>

-----------------------------------------------------------------------------
(* The task of an instance: Spawner::start and WasmRun::poll.              *)

(* Fault: a Stop that comes while the instance waits is ignored.           *)
IgnoreWhileWaiting(v, i) ==
    /\ inst[v][i].phase = "waiting"
    /\ inst[v][i].cmds # <<>>
    /\ inst' = [inst EXCEPT ![v][i] = [@ EXCEPT !.cmds = Tail(@), !.phase = "starting"]]
    /\ UNCHANGED <<info, sch, effects, dead>>

(* Any command but Stop ends the wait for the previous instance, too.      *)
CommandWhileWaiting(v, i) ==
    LET x == inst[v][i]
    IN  /\ x.phase = "waiting"
        /\ x.cmds # <<>>
        /\ inst' = [inst EXCEPT ![v][i] =
               IF Head(x.cmds) = "Stop"
               THEN [x EXCEPT !.cmds = <<>>, !.phase = "ended", !.reason = "Final"]
               ELSE [x EXCEPT !.cmds = Tail(x.cmds), !.phase = "starting"]]
        /\ UNCHANGED <<info, sch, effects, dead>>

PreviousStopped(v, i) ==
    /\ inst[v][i].phase = "waiting"
    /\ inst[v][inst[v][i].prev].reported
    /\ inst' = [inst EXCEPT ![v][i].phase = "starting"]
    /\ UNCHANGED <<info, sch, effects, dead>>

(* The module is compiled and instantiated, which resets the task.         *)
Instantiate(v, i) ==
    /\ inst[v][i].phase = "starting"
    /\ \/ /\ inst' = [inst EXCEPT ![v][i].phase = "live"]
          /\ sch' = [Exit(sch, v) EXCEPT !.woken = @ \cup {<<v, i>>}]
       \/ /\ inst' = [inst EXCEPT ![v][i] =
                 [@ EXCEPT !.cmds = <<>>, !.phase = "ended", !.reason = "Final"]]
          /\ UNCHANGED sch
    /\ UNCHANGED <<info, effects, dead>>

(* The end of the task drops WasmRun, which leaves the scheduler, and the  *)
(* channel.                                                                *)
End(v, i, reason) ==
    /\ inst' = [inst EXCEPT ![v][i] = [@ EXCEPT !.phase = "ended", !.reason = reason,
                                                !.cmds = <<>>, !.lost = FALSE]]
    /\ sch' = [Exit(sch, v) EXCEPT !.woken = @ \ {<<v, i>>}]

(* The loop polls channel and guest again after each command but Stop.     *)
HandleCommand(v, i) ==
    /\ inst[v][i].phase = "live"
    /\ ~inst[v][i].polling
    /\ inst[v][i].cmds # <<>>
    /\ IF Head(inst[v][i].cmds) = "Stop" THEN End(v, i, "Final")
       ELSE /\ inst' = [inst EXCEPT ![v][i].cmds = Tail(@)]
            /\ sch' = [sch EXCEPT !.woken = @ \cup {<<v, i>>}]
    /\ UNCHANGED <<info, effects, dead>>

(* poll asks the scheduler first.                                          *)
PollResume(v, i) ==
    /\ inst[v][i].phase = "live"
    /\ ~inst[v][i].polling
    /\ <<v, i>> \in sch.woken
    /\ \/ /\ sch.tasks[v].state \in {"None", "Idle"}
          /\ sch' = BecomeReady(sch, v, i)
          /\ UNCHANGED <<inst, dead>>
       \/ /\ sch.tasks[v].state = "Ready"
          /\ sch' = RefreshWaker(sch, v, i)
          /\ UNCHANGED <<inst, dead>>
       \/ /\ sch.tasks[v].state = "ToRun"
          /\ sch' = [sch EXCEPT !.tasks[v].state = "Running", !.woken = @ \ {<<v, i>>}]
          /\ inst' = [inst EXCEPT ![v][i].polling = TRUE]
          /\ UNCHANGED dead
       \/ /\ sch.tasks[v].state = "Running"
          /\ dead' = TRUE
          /\ UNCHANGED <<inst, sch>>
    /\ UNCHANGED <<info, effects>>

(* The guest returns to wait, to be polled again, or for good; then the    *)
(* guard is dropped, which parks the task.                                 *)
FinishPoll(v, i, outcome) ==
    LET s == IF outcome = "more" THEN [sch EXCEPT !.woken = @ \cup {<<v, i>>}] ELSE sch
    IN  /\ inst[v][i].polling
        /\ outcome = "more" => sch.tasks[v].vruntime < MaxRuntime
        /\ inst' = [inst EXCEPT ![v][i] =
               IF outcome \in {"Final", "Panicked"}
               THEN [@ EXCEPT !.polling = FALSE, !.phase = "leaving", !.reason = outcome]
               ELSE [@ EXCEPT !.polling = FALSE]]
        /\ CASE sch.tasks[v].state = "None" -> sch' = s /\ UNCHANGED dead
             [] sch.tasks[v].state = "Running" -> sch' = Park(s, v, 1) /\ UNCHANGED dead
             [] OTHER -> dead' = TRUE /\ UNCHANGED sch
        /\ UNCHANGED <<info, effects>>

(* A timer or a socket of the guest is ready.                              *)
GuestEvent(v, i) ==
    /\ inst[v][i].phase = "live"
    /\ sch.tasks[v].vruntime < MaxRuntime
    /\ sch' = [sch EXCEPT !.woken = @ \cup {<<v, i>>}]
    /\ UNCHANGED <<inst, info, effects, dead>>

(* The loop ends after the guest did.                                      *)
Leave(v, i) ==
    /\ inst[v][i].phase = "leaving"
    /\ End(v, i, inst[v][i].reason)
    /\ UNCHANGED <<info, effects, dead>>

(* The watcher sets the handle and wakes whoever waits for the instance.   *)
Report(v, i) ==
    /\ inst[v][i].phase = "ended"
    /\ ~inst[v][i].reported
    /\ inst' = [inst EXCEPT ![v][i].reported = TRUE]
    /\ UNCHANGED <<info, sch, effects, dead>>

(* The process ends and starts from a checkpoint, in which a running VM is *)
(* one to restore.                                                         *)
RestartProcess ==
    /\ effects < MaxEffects
    /\ effects' = effects + 1
    /\ inst' = [v \in Vms |-> [i \in DOMAIN inst[v] |->
           [inst[v][i] EXCEPT !.phase = "ended", !.cmds = <<>>, !.polling = FALSE,
                              !.reported = TRUE,
                              !.reason = IF inst[v][i].reported THEN @ ELSE "Restore"]]]
    /\ sch' = NewScheduler
    /\ UNCHANGED <<info, dead>>

Task(v, i) ==
    \/ CommandWhileWaiting(v, i) \/ PreviousStopped(v, i) \/ Instantiate(v, i)
    \/ HandleCommand(v, i) \/ PollResume(v, i)
    \/ \E outcome \in {"pending", "more", "Final", "Panicked"} :
           FinishPoll(v, i, outcome)
    \/ Leave(v, i) \/ Report(v, i)

Next ==
    /\ ~dead
    /\ \/ \E v \in Vms : Effect(v) \/ RestartIfNeeded(v)
       \/ \E v \in Vms : \E i \in DOMAIN inst[v] : Task(v, i) \/ GuestEvent(v, i)
       \/ RestartProcess

(* Every task is polled again and again by a pool of threads, a guest runs *)
(* out of gas before it blocks a thread, and select! polls its branches in *)
(* random order, so that commands are taken even if the guest is busy.     *)
Fairness ==
    \A v \in Vms : \A i \in 1..MaxStarts[v] :
        LET Here == ~dead /\ i \in DOMAIN inst[v]
        IN  WF_vars(Here /\ Task(v, i)) /\ WF_vars(Here /\ HandleCommand(v, i))

Spec == Init /\ [][Next]_vars /\ Fairness

-----------------------------------------------------------------------------
(* Properties.                                                             *)

Instance ==
    [phase : Phases, prev : Nat, by : {"effect", "restart"},
     cmds : Seq({"Stop", "Message"}), polling : BOOLEAN, reason : Reasons,
     reported : BOOLEAN, lost : BOOLEAN]

Handle == [kind : {"none", "instance", "WaitingForCode"}, at : Nat]

TaskState == [state : {"None", "Idle", "Ready", "ToRun", "Running"}, vruntime : Nat]

Entry == [vm : Vms, inst : Nat, vruntime : Nat]

Scheduler ==
    [tasks : [Vms -> TaskState], ready : Seq(Entry), running_tasks : Nat,
     virtual_clock : Nat, woken : SUBSET (Vms \X Nat)]

(* Instances, handles and the scheduler are well formed, no channel holds  *)
(* more than its capacity, and the number of running tasks never           *)
(* underflows in exit and park.                                            *)
TypeOK ==
    /\ inst \in [Vms -> Seq(Instance)]
    /\ \A v \in Vms : /\ Len(inst[v]) <= MaxStarts[v]
                      /\ \A i \in DOMAIN inst[v] : Len(inst[v][i].cmds) <= CommandCap
    /\ info \in [Vms -> Handle]
    /\ sch \in Scheduler
    /\ effects \in 0..MaxEffects
    /\ dead \in BOOLEAN

(* Side VMs have been started once, and again only after a panic or with   *)
(* the process.                                                            *)
StartedOnce == \A v \in Vms : \A i \in DOMAIN inst[v] : i > 1 => inst[v][i].by = "restart"

Polling == {v \in Vms : \E i \in DOMAIN inst[v] : inst[v][i].polling}

(* As long as side VMs are only restarted after panics, the scheduler      *)
(* (poll_resume, park, exit, schedule) counts the cores in use correctly:  *)
(* no more guests are polled than there are cores, none waits while a core *)
(* is free, and no assertion of it fails.                                  *)
CoresShared ==
    StartedOnce =>
        /\ ~dead
        /\ Polling = {v \in Vms : sch.tasks[v].state = "Running"}
        /\ sch.running_tasks =
               Cardinality({v \in Vms : sch.tasks[v].state \in Scheduled})
        /\ sch.running_tasks <= virtual_cores
        /\ (\E v \in Vms : sch.tasks[v].state = "Ready")
               => sch.running_tasks = virtual_cores

(* A guest that is ready gets a core, however busy the others are          *)
(* (schedule takes the least virtual runtime first).                       *)
EachGetsTurn ==
    \A v \in Vms :
        sch.tasks[v].state = "Ready"
            ~> (sch.tasks[v].state # "Ready" \/ ~StartedOnce)

HasStop(v, i) == i \in DOMAIN inst[v] /\ "Stop" \in Range(inst[v][i].cmds)

Ended(v, i) == i \in DOMAIN inst[v] /\ inst[v][i].phase = "ended"

(* An instance that has a Stop in its channel ends, whether it still waits *)
(* for the one before it, runs or is being polled (Spawner::start).        *)
StopTakesEffect ==
    \A v \in Vms : \A i \in 1..MaxStarts[v] :
        HasStop(v, i) ~> (Ended(v, i) \/ dead)

(* An instance that its contract's handle no longer refers to, so that     *)
(* nothing can reach it, is about to end, unless the loss of its Stop was  *)
(* logged (start_sidevm, upload_sidevm_code, restart_sidevm_if_needed).    *)
NoOrphan ==
    \A v \in Vms : \A i \in DOMAIN inst[v] :
        \/ info[v].kind = "instance" /\ info[v].at = i
        \/ inst[v][i].phase \in {"leaving", "ended"}
        \/ HasStop(v, i)
        \/ inst[v][i].lost

(* The assertions of the task scheduler hold: no running task is resumed   *)
(* and only running tasks are parked.  They fail when two instances of one *)
(* contract overlap: see README.                                           *)
NeverPoisoned == ~dead
=============================================================================
