----------------------------- MODULE SideVmProofs -----------------------------
(***************************************************************************)
(* Proofs about side VMs and the scheduler of their tasks, for any         *)
(* contracts, cores, capacity of the channels and number of starts.        *)
(***************************************************************************)
EXTENDS SideVm, WellFoundedInduction, FiniteSetTheorems, SequenceTheorems, TLAPS

-----------------------------------------------------------------------------
(* Induction and recursion on natural numbers.  The statements speak of    *)
(* sets and functions where those of the library speak of operators, so    *)
(* that the provers can instantiate them.                                  *)

(* A set of natural numbers has a least element.                          *)
LEMMA LeastNatural ==
    ASSUME NEW T \in SUBSET Nat, T # {}
    PROVE  \E x \in T : \A y \in T : x <= y
<1>1. PICK x \in T : \A y \in T : ~(<<y, x>> \in OpToRel(<, Nat))
  BY NatLessThanWellFounded, WFMin
<1>2. \A y \in T : ~(y < x)
  BY <1>1 DEF OpToRel
<1> QED
  BY <1>2

(* Induction up to N, stated with a set in place of a predicate.           *)
LEMMA IntervalInduction ==
    ASSUME NEW N \in Nat, NEW P \in SUBSET (0..N), 0 \in P,
           \A k \in 1..N : k - 1 \in P => k \in P
    PROVE  P = 0..N
<1> DEFINE T == (0..N) \ P
<1>1. ASSUME NEW k \in T, \A y \in T : k <= y PROVE FALSE
  <2>1. k \in 1..N /\ k - 1 \in 0..N /\ k - 1 \notin T
    BY <1>1
  <2> QED
    BY <2>1
<1>2. T \in SUBSET Nat
  OBVIOUS
<1> HIDE DEF T
<1>3. T = {}
  BY <1>1, <1>2, LeastNatural
<1> QED
  BY <1>3 DEF T

(* f is the sequence of values that N steps lead to from init.             *)
Iterates(f, N, X, init, step) ==
    f \in [0..N -> X] /\ f[0] = init /\ \A i \in 1..N : f[i] = step[i][f[i - 1]]

(* N steps lead somewhere: a function on 0..N can be defined by recursion.  *)
LEMMA IterationExists ==
    ASSUME NEW N \in Nat, NEW X, NEW init \in X, NEW step \in [1..N -> [X -> X]]
    PROVE  \E f : Iterates(f, N, X, init, step)
<1> DEFINE Ok(k) == \E f \in [0..k -> X] :
                       f[0] = init /\ \A i \in 1..k : f[i] = step[i][f[i - 1]]
           T == {k \in 0..N : ~Ok(k)}
<1>1. Ok(0)
  <2> DEFINE g == [i \in 0..0 |-> init]
  <2>1. g \in [0..0 -> X] /\ g[0] = init /\ 1..0 = {}
    OBVIOUS
  <2> HIDE DEF g
  <2> QED
    BY <2>1
<1>2. ASSUME NEW k \in 1..N, Ok(k - 1)
      PROVE  Ok(k)
  <2>1. PICK f \in [0..(k - 1) -> X] :
            f[0] = init /\ \A i \in 1..(k - 1) : f[i] = step[i][f[i - 1]]
    BY <1>2
  <2> DEFINE g == [i \in 0..k |-> IF i = k THEN step[k][f[k - 1]] ELSE f[i]]
  <2>2. g \in [0..k -> X]
    BY <2>1
  <2>3. g[0] = init
    BY <2>1
  <2>4. ASSUME NEW i \in 1..k PROVE g[i] = step[i][g[i - 1]]
    BY <2>1
  <2> HIDE DEF g
  <2> QED
    BY <2>2, <2>3, <2>4
<1> HIDE DEF Ok
<1>3. T = {}
  <2> SUFFICES ASSUME T # {} PROVE FALSE
    OBVIOUS
  <2>1. PICK k \in T : \A y \in T : k <= y
    <3>1. T \in SUBSET Nat
      OBVIOUS
    <3> HIDE DEF T
    <3> QED
      BY <3>1, LeastNatural
  <2>2. k \in 1..N
    BY <1>1
  <2>3. Ok(k - 1)
    BY <2>1, <2>2
  <2> QED
    BY <1>2, <2>2, <2>3
<1>4. Ok(N)
  BY <1>3
<1> QED
  BY <1>4 DEF Ok, Iterates

States == {"None", "Idle", "Ready", "ToRun", "Running"}

(* The tasks that occupy a core.                                           *)
Occupied(s) == {v \in Vms : s.tasks[v].state \in Scheduled}

(* No task gives back a core that was not counted, whatever instances      *)
(* share an entry.                                                         *)
Counted(s) == Cardinality(Occupied(s)) <= s.running_tasks

(* Without overlapping instances the count is exact, and a task has an     *)
(* entry in the queue while it is ready, or if it has left.                *)
Exact(s) ==
    /\ s.running_tasks = Cardinality(Occupied(s))
    /\ s.running_tasks <= virtual_cores
    /\ \A k, l \in DOMAIN s.ready : s.ready[k].vm = s.ready[l].vm => k = l
    /\ \A k \in DOMAIN s.ready : s.tasks[s.ready[k].vm].state \in {"Ready", "None"}
    /\ \A v \in Vms : s.tasks[v].state = "Ready" => \E k \in DOMAIN s.ready : s.ready[k].vm = v

(* A task waits only for want of a core.                                   *)
Busy(s) ==
    (\E v \in Vms : s.tasks[v].state = "Ready") => s.running_tasks = virtual_cores

Queued(s, v) == \E k \in DOMAIN s.ready : s.ready[k].vm = v

(* What was seen to end has ended, and only a live instance is polled.     *)
Sound(x) ==
    /\ Len(x.cmds) <= CommandCap
    /\ x.reported => x.phase = "ended"
    /\ x.polling => x.phase = "live"

Ending(x) == x.phase \in {"leaving", "ended"} \/ "Stop" \in Range(x.cmds) \/ x.lost

(* The handle of a contract is that of the last of its instances, and all  *)
(* others are about to end.                                                *)
Handled(v, l, h) ==
    /\ Len(l) <= MaxStarts[v]
    /\ h.kind = "instance" => h.at = Len(l) /\ l # << >>
    /\ \A i \in DOMAIN l : /\ Sound(l[i])
                           /\ Ending(l[i]) \/ (h.kind = "instance" /\ h.at = i)

Handles ==
    /\ inst \in [Vms -> Seq(Instance)]
    /\ info \in [Vms -> Handle]
    /\ \A v \in Vms : Handled(v, inst[v], info[v])

Newest(l) == l[Len(l)]

(* Only the last instance of a contract is in the scheduler, and an entry  *)
(* that is left over in the queue is that of a VM which stays stopped.     *)
Single(l, state, queued) ==
    /\ \A i \in DOMAIN l : i < Len(l) => l[i].phase = "ended"
    /\ state = "Running" <=> \E i \in DOMAIN l : l[i].polling
    /\ state # "None" => l # << >> /\ Newest(l).phase \in {"live", "leaving"}
    /\ l # << >> /\ Newest(l).phase = "leaving" => state \in {"None", "Idle"}
    /\ state = "None" /\ queued
           => l # << >> /\ Newest(l).phase = "ended" /\ Newest(l).reason = "Final"

OneAtATime(v) == Single(inst[v], sch.tasks[v].state, Queued(sch, v))

InOrder == ~dead /\ Exact(sch) /\ Busy(sch) /\ \A v \in Vms : OneAtATime(v)

(* The inductive invariant.                                                *)
IInv ==
    /\ Handles
    /\ sch \in Scheduler /\ Counted(sch)
    /\ effects \in 0..MaxEffects /\ dead \in BOOLEAN
    /\ StartedOnce => InOrder

-----------------------------------------------------------------------------
(* The queue of the scheduler.                                             *)

(* An element of a sequence.                                               *)
LEMMA Element ==
    ASSUME NEW S, NEW q \in Seq(S), NEW k \in DOMAIN q
    PROVE  q[k] \in S
  BY ElementOfSeq

(* What is left of a queue when entry k is taken.                          *)
Shorter(q, t, k) ==
    /\ DOMAIN t = 1..(Len(q) - 1) /\ Len(t) = Len(q) - 1
    /\ \A j \in 1..(k - 1) : t[j] = q[j]
    /\ \A j \in k..(Len(q) - 1) : t[j] = q[j + 1]

(* RemoveAt takes one entry out of a queue and keeps the order of the      *)
(* others.                                                                 *)
LEMMA Removal ==
    ASSUME NEW S, NEW q \in Seq(S), NEW k \in 1..Len(q)
    PROVE  RemoveAt(q, k) \in Seq(S) /\ Shorter(q, RemoveAt(q, k), k)
<1> DEFINE a == SubSeq(q, 1, k - 1)
           b == SubSeq(q, k + 1, Len(q))
<1>1. Len(q) \in Nat /\ k \in Nat
  OBVIOUS
<1>2. a \in Seq(S) /\ Len(a) = k - 1 /\ \A j \in 1..(k - 1) : a[j] = q[j]
  BY <1>1
<1>3. b \in Seq(S) /\ Len(b) = Len(q) - k /\ \A j \in 1..(Len(q) - k) : b[j] = q[k + j]
  BY <1>1
<1>4. RemoveAt(q, k) = a \o b
  BY DEF RemoveAt
<1> HIDE DEF a, b
<1>5. /\ a \o b \in Seq(S) /\ Len(a \o b) = Len(a) + Len(b)
      /\ \A j \in 1..(Len(a) + Len(b)) :
             (a \o b)[j] = IF j <= Len(a) THEN a[j] ELSE b[j - Len(a)]
  BY <1>2, <1>3, ConcatProperties
<1>6. ASSUME NEW j \in 1..(k - 1) PROVE (a \o b)[j] = q[j]
  BY <1>1, <1>2, <1>3, <1>5
<1>7. ASSUME NEW j \in k..(Len(q) - 1) PROVE (a \o b)[j] = q[j + 1]
  <2>1. j \in 1..(Len(a) + Len(b)) /\ ~(j <= Len(a)) /\ j - Len(a) \in 1..(Len(q) - k)
    BY <1>1, <1>2, <1>3
  <2>2. (a \o b)[j] = b[j - Len(a)] /\ b[j - Len(a)] = q[k + (j - Len(a))]
    BY <2>1, <1>3, <1>5
  <2>3. k + (j - Len(a)) = j + 1
    BY <1>1, <1>2
  <2> QED
    BY <2>2, <2>3
<1>8. Len(a \o b) = Len(q) - 1 /\ DOMAIN (a \o b) = 1..(Len(q) - 1)
  BY <1>1, <1>2, <1>3, <1>5
<1> QED
  BY <1>4, <1>5, <1>6, <1>7, <1>8 DEF Shorter

(* There is an entry with the smallest virtual runtime that came first.    *)
LEMMA FirstReadyExists ==
    ASSUME NEW q \in Seq(Entry), q # << >>
    PROVE  FirstReady(q) \in 1..Len(q)
<1> DEFINE R == {q[e].vruntime : e \in DOMAIN q}
<1>1. Len(q) \in Nat /\ DOMAIN q = 1..Len(q) /\ 1 \in DOMAIN q
  BY EmptySeq
<1>2. ASSUME NEW e \in DOMAIN q PROVE q[e].vruntime \in Nat
  <2>1. q[e] \in Entry
    BY Element
  <2> QED
    BY <2>1 DEF Entry
<1>3. R \in SUBSET Nat /\ R # {}
  BY <1>1, <1>2
<1>4. PICK r \in R : \A y \in R : r <= y
  <2> HIDE DEF R
  <2> QED
    BY <1>3, LeastNatural
<1> DEFINE F == {e \in DOMAIN q : q[e].vruntime = r}
<1>5. F \in SUBSET Nat /\ F # {}
  BY <1>1, <1>4
<1>6. PICK e \in F : \A d \in F : e <= d
  <2> HIDE DEF F
  <2> QED
    BY <1>5, LeastNatural
<1>7. ASSUME NEW d \in DOMAIN q
      PROVE  \/ q[e].vruntime < q[d].vruntime
             \/ q[e].vruntime = q[d].vruntime /\ e <= d
  <2>1. q[d].vruntime \in Nat /\ r \in Nat /\ r <= q[d].vruntime /\ q[e].vruntime = r
    BY <1>2, <1>3, <1>4, <1>6
  <2>2. CASE q[d].vruntime = r
    BY <2>1, <2>2, <1>6
  <2>3. CASE q[d].vruntime # r
    BY <2>1, <2>3
  <2> QED
    BY <2>2, <2>3
<1>8. e \in DOMAIN q
  BY <1>6
<1> QED
  BY <1>1, <1>7, <1>8 DEF FirstReady

-----------------------------------------------------------------------------
(* schedule.                                                               *)

(* The fields of a scheduler.                                              *)
LEMMA SchedulerFields ==
    ASSUME NEW s \in Scheduler
    PROVE  /\ s.tasks \in [Vms -> TaskState] /\ s.ready \in Seq(Entry)
           /\ s.running_tasks \in Nat /\ s.virtual_clock \in Nat
           /\ s.woken \in SUBSET (Vms \X Nat)
           /\ \A v \in Vms : s.tasks[v].state \in States /\ s.tasks[v].vruntime \in Nat
           /\ Len(s.ready) \in Nat /\ DOMAIN s.ready = 1..Len(s.ready)
<1>1. /\ s.tasks \in [Vms -> TaskState] /\ s.ready \in Seq(Entry)
      /\ s.running_tasks \in Nat /\ s.virtual_clock \in Nat
      /\ s.woken \in SUBSET (Vms \X Nat)
  BY DEF Scheduler
<1>2. ASSUME NEW v \in Vms
      PROVE  s.tasks[v].state \in States /\ s.tasks[v].vruntime \in Nat
  <2>1. s.tasks[v] \in TaskState
    BY <1>1
  <2> QED
    BY <2>1 DEF TaskState, States
<1>3. Len(s.ready) \in Nat /\ DOMAIN s.ready = 1..Len(s.ready)
  BY <1>1
<1> QED
  BY <1>1, <1>2, <1>3

(* The fields of an entry.                                                 *)
LEMMA EntryFields ==
    ASSUME NEW s \in Scheduler, NEW k \in DOMAIN s.ready
    PROVE  /\ s.ready[k] \in Entry /\ s.ready[k].vm \in Vms
           /\ s.ready[k].inst \in Nat /\ s.ready[k].vruntime \in Nat
<1>1. s.ready[k] \in Entry
  BY SchedulerFields, Element
<1> QED
  BY <1>1 DEF Entry

(* Entry k of s is thrown away, or its task takes a core.                  *)
Drops(s, t, k) ==
    /\ s.tasks[s.ready[k].vm].state = "None"
    /\ t.tasks = s.tasks /\ t.running_tasks = s.running_tasks
Takes(s, t, k) ==
    /\ s.tasks[s.ready[k].vm].state # "None"
    /\ t.running_tasks = s.running_tasks + 1
    /\ t.tasks = [s.tasks EXCEPT ![s.ready[k].vm] = [@ EXCEPT !.state = "ToRun"]]
Round(s, t) ==
    /\ s.running_tasks < virtual_cores
    /\ \E k \in DOMAIN s.ready :
           /\ Shorter(s.ready, t.ready, k)
           /\ Drops(s, t, k) \/ Takes(s, t, k)

Stuck(s) == s.running_tasks >= virtual_cores \/ s.ready = << >>

(* A round of the loop.                                                    *)
LEMMA OneRound ==
    ASSUME NEW s \in Scheduler
    PROVE  /\ ScheduleOne(s) \in Scheduler
           /\ \/ Stuck(s) /\ ScheduleOne(s) = s
              \/ ~Stuck(s) /\ Round(s, ScheduleOne(s))
<1>1. CASE Stuck(s)
  BY <1>1 DEF Stuck, ScheduleOne
<1>2. CASE ~Stuck(s)
  <2> DEFINE k == FirstReady(s.ready)
             e == s.ready[k]
             r == RemoveAt(s.ready, k)
             rest == [s EXCEPT !.ready = r]
             up == [s.tasks[e.vm] EXCEPT !.state = "ToRun"]
             t == ScheduleOne(s)
  <2>1. s.running_tasks < virtual_cores /\ s.ready # << >>
    BY <1>2, SchedulerFields, ConstantsAssumption DEF Stuck
  <2>2. k \in 1..Len(s.ready) /\ k \in DOMAIN s.ready
    BY <2>1, SchedulerFields, FirstReadyExists
  <2>3. r \in Seq(Entry) /\ Shorter(s.ready, r, k)
    BY <2>2, SchedulerFields, Removal
  <2>4. e.vm \in Vms /\ e.inst \in Nat /\ e.vruntime \in Nat
    BY <2>2, EntryFields
  <2>5. t = IF s.tasks[e.vm].state = "None" THEN rest
            ELSE [rest EXCEPT !.running_tasks = @ + 1,
                              !.virtual_clock = e.vruntime,
                              !.tasks[e.vm].state = "ToRun",
                              !.woken = @ \cup {<<e.vm, e.inst>>}]
    BY <2>1, <1>2 DEF ScheduleOne, Stuck
  <2> HIDE DEF k, r, t
  <2>6. CASE s.tasks[e.vm].state = "None"
    <3>1. t \in Scheduler /\ t.ready = r /\ t.tasks = s.tasks
          /\ t.running_tasks = s.running_tasks
      BY <2>3, <2>5, <2>6 DEF Scheduler
    <3>2. Drops(s, t, k)
      BY <3>1, <2>6 DEF Drops
    <3> QED
      BY <1>2, <2>1, <2>2, <2>3, <3>1, <3>2 DEF Round, t
  <2>7. CASE s.tasks[e.vm].state # "None"
    <3>1. up \in TaskState
      BY SMTT(30), <2>4, SchedulerFields DEF TaskState
    <3>2. [s.tasks EXCEPT ![e.vm] = up] \in [Vms -> TaskState]
      BY <3>1, SchedulerFields
    <3>3. <<e.vm, e.inst>> \in Vms \X Nat
      BY <2>4
    <3> DEFINE tasks == [s.tasks EXCEPT ![e.vm] = up]
               woken == s.woken \cup {<<e.vm, e.inst>>}
    <3>4. t = [s EXCEPT !.ready = r, !.running_tasks = s.running_tasks + 1,
                        !.virtual_clock = e.vruntime, !.tasks = tasks, !.woken = woken]
      BY <2>5, <2>7 DEF Scheduler
    <3>5. tasks \in [Vms -> TaskState] /\ woken \in SUBSET (Vms \X Nat)
          /\ s.running_tasks + 1 \in Nat
      BY <3>2, <3>3, SchedulerFields
    <3>6. t.tasks = tasks
      <4> HIDE DEF tasks, woken
      <4> QED
        BY <3>4 DEF Scheduler
    <3>7. t \in Scheduler /\ t.ready = r /\ t.running_tasks = s.running_tasks + 1
      <4> HIDE DEF tasks, woken, e
      <4> QED
        BY <2>3, <2>4, <3>4, <3>5 DEF Scheduler
    <3>8. Takes(s, t, k)
      BY <3>6, <3>7, <2>7 DEF Takes
    <3> QED
      BY <1>2, <2>1, <2>2, <2>3, <3>7, <3>8 DEF Round, t
  <2> QED
    BY <2>6, <2>7
<1> QED
  BY <1>1, <1>2

(* The tasks that occupy a core can be counted.                            *)
LEMMA OccupiedType ==
    ASSUME NEW s
    PROVE  IsFiniteSet(Occupied(s)) /\ Cardinality(Occupied(s)) \in Nat
<1>1. Occupied(s) \subseteq Vms
  BY DEF Occupied
<1> QED
  BY <1>1, ConstantsAssumption, FS_Subset, FS_CardinalityType

(* One more task occupies a core, or one less.                             *)
LEMMA OccupiedMore ==
    ASSUME NEW s, NEW t, NEW v \in Vms, Occupied(t) = Occupied(s) \cup {v}
    PROVE  Cardinality(Occupied(t)) =
               IF v \in Occupied(s) THEN Cardinality(Occupied(s))
               ELSE Cardinality(Occupied(s)) + 1
  BY OccupiedType, FS_AddElement

(* A task that gives up its core makes one core less in use.               *)
LEMMA OccupiedLess ==
    ASSUME NEW s, NEW t, NEW v \in Vms, Occupied(t) = Occupied(s) \ {v}
    PROVE  Cardinality(Occupied(t)) =
               IF v \in Occupied(s) THEN Cardinality(Occupied(s)) - 1
               ELSE Cardinality(Occupied(s))
  BY OccupiedType, FS_RemoveElement

(* The tasks of t are those of s with v in another state.                  *)
Becomes(s, t, v, state) ==
    /\ t.tasks[v].state = state
    /\ \A u \in Vms \ {v} : t.tasks[u] = s.tasks[u]

(* A change of one task occupies or frees at most its own core.            *)
LEMMA OccupiedAfter ==
    ASSUME NEW s, NEW t, NEW v \in Vms, NEW state, Becomes(s, t, v, state)
    PROVE  /\ state \in Scheduled => Occupied(t) = Occupied(s) \cup {v}
           /\ state \notin Scheduled => Occupied(t) = Occupied(s) \ {v}
  BY DEF Becomes, Occupied

(* A round of schedule that takes an entry changes the state of its task   *)
(* only.                                                                   *)
LEMMA TakesBecomes ==
    ASSUME NEW s \in Scheduler, NEW t, NEW k \in DOMAIN s.ready, Takes(s, t, k)
    PROVE  Becomes(s, t, s.ready[k].vm, "ToRun")
<1> DEFINE v == s.ready[k].vm
<1>1. v \in Vms /\ s.tasks \in [Vms -> TaskState]
  BY EntryFields, SchedulerFields
<1>2. t.tasks = [s.tasks EXCEPT ![v] = [@ EXCEPT !.state = "ToRun"]]
  BY DEF Takes
<1>3. s.tasks[v] \in TaskState
  BY <1>1
<1>4. [s.tasks[v] EXCEPT !.state = "ToRun"].state = "ToRun"
  BY <1>3 DEF TaskState
<1> HIDE DEF v
<1> QED
  BY <1>1, <1>2, <1>4 DEF Becomes, v

(* A round keeps the count above the cores in use.                         *)
LEMMA RoundCounts ==
    ASSUME NEW s \in Scheduler, NEW t \in Scheduler, Round(s, t), Counted(s)
    PROVE  Counted(t)
<1>1. PICK k \in DOMAIN s.ready : Drops(s, t, k) \/ Takes(s, t, k)
  BY DEF Round
<1>2. CASE Drops(s, t, k)
  BY <1>2 DEF Drops, Counted, Occupied
<1>3. CASE Takes(s, t, k)
  <2> DEFINE v == s.ready[k].vm
  <2>1. v \in Vms /\ Becomes(s, t, v, "ToRun")
    BY <1>3, TakesBecomes, EntryFields
  <2> HIDE DEF v
  <2>2. Occupied(t) = Occupied(s) \cup {v}
    BY <2>1, OccupiedAfter DEF Scheduled
  <2>3. Cardinality(Occupied(t)) <= Cardinality(Occupied(s)) + 1
    <3>1. Cardinality(Occupied(t)) = IF v \in Occupied(s) THEN Cardinality(Occupied(s))
                                     ELSE Cardinality(Occupied(s)) + 1
      BY <2>1, <2>2, OccupiedMore
    <3> QED
      BY <3>1, OccupiedType
  <2>4. t.running_tasks = s.running_tasks + 1
    BY <1>3 DEF Takes
  <2> QED
    BY <2>3, <2>4, SchedulerFields, OccupiedType DEF Counted
<1> QED
  BY <1>1, <1>2, <1>3

(* What is left of a queue holds no entry twice and none that is new.      *)
LEMMA ShorterFrom ==
    ASSUME NEW s \in Scheduler, NEW t, NEW k \in DOMAIN s.ready, Shorter(s.ready, t.ready, k)
    PROVE  /\ \A j \in DOMAIN t.ready : \E i \in DOMAIN s.ready \ {k} :
                  t.ready[j] = s.ready[i] /\ i = IF j < k THEN j ELSE j + 1
           /\ \A i \in DOMAIN s.ready \ {k} : \E j \in DOMAIN t.ready : t.ready[j] = s.ready[i]
<1>1. Len(s.ready) \in Nat /\ DOMAIN s.ready = 1..Len(s.ready)
      /\ DOMAIN t.ready = 1..(Len(s.ready) - 1)
  BY SchedulerFields DEF Shorter
<1>2. ASSUME NEW j \in DOMAIN t.ready
      PROVE  \E i \in DOMAIN s.ready \ {k} :
                 t.ready[j] = s.ready[i] /\ i = IF j < k THEN j ELSE j + 1
  <2>1. CASE j < k
    <3>1. j \in 1..(k - 1) /\ j \in DOMAIN s.ready \ {k}
      BY <1>1, <2>1
    <3> QED
      BY <3>1, <2>1 DEF Shorter
  <2>2. CASE ~(j < k)
    <3>1. j \in k..(Len(s.ready) - 1) /\ j + 1 \in DOMAIN s.ready \ {k}
      BY <1>1, <2>2
    <3> QED
      BY <3>1, <2>2 DEF Shorter
  <2> QED
    BY <2>1, <2>2
<1>3. ASSUME NEW i \in DOMAIN s.ready \ {k}
      PROVE  \E j \in DOMAIN t.ready : t.ready[j] = s.ready[i]
  <2>1. CASE i < k
    <3>1. i \in 1..(k - 1) /\ i \in DOMAIN t.ready
      BY <1>1, <2>1
    <3> QED
      BY <3>1 DEF Shorter
  <2>2. CASE ~(i < k)
    <3>1. i - 1 \in k..(Len(s.ready) - 1) /\ i - 1 \in DOMAIN t.ready /\ (i - 1) + 1 = i
      BY <1>1, <2>2
    <3>2. t.ready[i - 1] = s.ready[(i - 1) + 1]
      BY <3>1 DEF Shorter
    <3> QED
      BY <3>1, <3>2
  <2> QED
    BY <2>1, <2>2
<1> QED
  BY <1>2, <1>3

(* Between s and t some ready tasks were given a core.                     *)
Moves(s, t) ==
    /\ Exact(t)
    /\ \A v \in Vms : \/ t.tasks[v] = s.tasks[v]
                      \/ s.tasks[v].state = "Ready" /\ t.tasks[v].state = "ToRun"
    /\ \A v \in Vms : Queued(t, v) => Queued(s, v)

(* A round keeps the count exact: it takes a task that is ready.           *)
LEMMA RoundMoves ==
    ASSUME NEW s \in Scheduler, NEW t \in Scheduler, Round(s, t), Exact(s)
    PROVE  Moves(s, t)
<1>1. PICK k \in DOMAIN s.ready : /\ Shorter(s.ready, t.ready, k)
                                  /\ Drops(s, t, k) \/ Takes(s, t, k)
  BY DEF Round
<1> DEFINE v == s.ready[k].vm
<1>2. /\ \A j \in DOMAIN t.ready : \E i \in DOMAIN s.ready \ {k} :
             t.ready[j] = s.ready[i] /\ i = IF j < k THEN j ELSE j + 1
      /\ \A i \in DOMAIN s.ready \ {k} : \E j \in DOMAIN t.ready : t.ready[j] = s.ready[i]
  BY <1>1, ShorterFrom
<1>3. \A u \in Vms : Queued(t, u) => Queued(s, u) /\ u # v
  BY <1>2 DEF Queued, Exact
<1>4. \A u \in Vms \ {v} : Queued(s, u) => Queued(t, u)
  BY <1>2 DEF Queued
<1>5. ASSUME NEW i \in DOMAIN t.ready, NEW j \in DOMAIN t.ready, t.ready[i].vm = t.ready[j].vm
      PROVE  i = j
  <2>1. PICK a \in DOMAIN s.ready :
            t.ready[i] = s.ready[a] /\ a = IF i < k THEN i ELSE i + 1
    BY <1>2
  <2>2. PICK b \in DOMAIN s.ready :
            t.ready[j] = s.ready[b] /\ b = IF j < k THEN j ELSE j + 1
    BY <1>2
  <2>3. a = b
    BY <2>1, <2>2, <1>5 DEF Exact
  <2> QED
    BY <2>1, <2>2, <2>3, SchedulerFields
<1>6. v \in Vms /\ s.tasks[v].state \in {"Ready", "None"} /\ \A j \in DOMAIN t.ready : t.ready[j].vm \in Vms
  BY EntryFields DEF Exact
<1>7. CASE Drops(s, t, k)
  <2>1. t.tasks = s.tasks /\ t.running_tasks = s.running_tasks /\ s.tasks[v].state = "None"
    BY <1>7 DEF Drops
  <2> HIDE DEF v
  <2>2. Occupied(t) = Occupied(s)
    BY <2>1 DEF Occupied
  <2>3. \A u \in Vms : t.tasks[u].state = "Ready" => Queued(t, u)
    BY <2>1, <1>4 DEF Exact, Queued
  <2>4. \A j \in DOMAIN t.ready : t.tasks[t.ready[j].vm].state \in {"Ready", "None"}
    BY <2>1, <1>2 DEF Exact
  <2>5. Exact(t)
    BY <2>1, <2>2, <2>3, <2>4, <1>5 DEF Exact, Queued
  <2> QED
    BY <2>1, <2>5, <1>3 DEF Moves
<1>8. CASE Takes(s, t, k)
  <2>1. t.running_tasks = s.running_tasks + 1 /\ s.tasks[v].state = "Ready"
    BY <1>6, <1>8 DEF Takes
  <2>2. Becomes(s, t, v, "ToRun")
    BY <1>8, TakesBecomes
  <2> HIDE DEF v
  <2>3. Occupied(t) = Occupied(s) \cup {v} /\ v \notin Occupied(s)
    BY <2>1, <2>2, <1>6, OccupiedAfter DEF Scheduled, Occupied
  <2>4. t.running_tasks = Cardinality(Occupied(t))
    <3>1. Cardinality(Occupied(t)) = Cardinality(Occupied(s)) + 1
      BY <2>3, <1>6, OccupiedMore
    <3> QED
      BY <3>1, <2>1 DEF Exact
  <2>5. t.running_tasks <= virtual_cores
    BY <2>1, SchedulerFields, ConstantsAssumption DEF Round
  <2>6. \A u \in Vms : t.tasks[u].state = "Ready" => Queued(t, u)
    BY <2>2, <1>4 DEF Exact, Queued, Becomes
  <2>7. ASSUME NEW j \in DOMAIN t.ready
        PROVE  t.tasks[t.ready[j].vm].state \in {"Ready", "None"}
    <3>1. t.ready[j].vm \in Vms \ {v}
      BY <1>3, <1>6 DEF Queued
    <3> QED
      BY <3>1, <2>2, <1>2 DEF Exact, Becomes
  <2>8. Exact(t)
    BY <2>4, <2>5, <2>6, <2>7, <1>5 DEF Exact, Queued
  <2>9. \A u \in Vms : \/ t.tasks[u] = s.tasks[u]
                       \/ s.tasks[u].state = "Ready" /\ t.tasks[u].state = "ToRun"
    BY <2>1, <2>2 DEF Becomes
  <2> QED
    BY <2>8, <2>9, <1>3 DEF Moves
<1> QED
  BY <1>1, <1>7, <1>8

(* f is the run of the loop of schedule from s.                            *)
Runs(f, s) ==
    /\ f[0] = s /\ \A n \in 1..Len(s.ready) : f[n] = ScheduleOne(f[n - 1])
    /\ \A n \in 0..Len(s.ready) : f[n] \in Scheduler

(* The recursion of Schedule has a solution.                               *)
LEMMA ScheduleRun ==
    ASSUME NEW s \in Scheduler
    PROVE  \E f : Runs(f, s) /\ Schedule(s) = f[Len(s.ready)]
<1> DEFINE N == Len(s.ready)
           step == [i \in 1..N |-> [t \in Scheduler |-> ScheduleOne(t)]]
           Rec(f) == [i \in 0..N |-> IF i = 0 THEN s ELSE ScheduleOne(f[i - 1])]
           after == CHOOSE f : f = Rec(f)
<1>1. N \in Nat
  BY SchedulerFields
<1>2. Schedule(s) = after[N]
  BY DEF Schedule
<1> HIDE DEF N
<1>3. step \in [1..N -> [Scheduler -> Scheduler]]
  BY OneRound
<1>4. PICK g \in [0..N -> Scheduler] : g[0] = s /\ \A i \in 1..N : g[i] = step[i][g[i - 1]]
  <2> HIDE DEF step
  <2>1. \E g : Iterates(g, N, Scheduler, s, step)
    BY <1>1, <1>3, IterationExists
  <2> QED
    BY <2>1 DEF Iterates
<1>5. g = Rec(g)
  <2>1. ASSUME NEW i \in 0..N PROVE g[i] = Rec(g)[i]
    <3>1. CASE i = 0
      BY <3>1, <1>1, <1>4
    <3>2. CASE i # 0
      <4>1. i \in 1..N /\ g[i - 1] \in Scheduler
        BY <1>1, <1>4, <3>2
      <4> QED
        BY <4>1, <1>4, <3>2
    <3> QED
      BY <3>1, <3>2
  <2> QED
    BY <2>1
<1>6. after = Rec(after)
  <2> HIDE DEF Rec
  <2> QED
    BY <1>5
<1> HIDE DEF after
<1>7. after[0] = s
  BY <1>1, <1>6
<1>8. ASSUME NEW i \in 1..N PROVE after[i] = ScheduleOne(after[i - 1])
  <2>1. i \in 0..N /\ i # 0
    BY <1>1
  <2>2. Rec(after)[i] = ScheduleOne(after[i - 1])
    BY <2>1
  <2> QED
    BY <1>6, <2>2
<1>9. \A i \in 0..N : after[i] \in Scheduler
  <2> DEFINE P == {i \in 0..N : after[i] \in Scheduler}
  <2>1. ASSUME NEW k \in 1..N, k - 1 \in P PROVE k \in P
    <3>1. after[k - 1] \in Scheduler /\ k \in 0..N
      BY <2>1, <1>1
    <3> QED
      BY <3>1, <1>8, OneRound
  <2>2. 0 \in P /\ P \in SUBSET (0..N)
    BY <1>1, <1>7
  <2> HIDE DEF P
  <2>3. P = 0..N
    BY <1>1, <2>1, <2>2, IntervalInduction
  <2> QED
    BY <2>3 DEF P
<1> QED
  BY <1>2, <1>7, <1>8, <1>9 DEF Runs, N

(* The loop of schedule ends with all cores in use or an empty queue, and  *)
(* keeps its books.                                                        *)
LEMMA ScheduleEnds ==
    ASSUME NEW s \in Scheduler
    PROVE  /\ Schedule(s) \in Scheduler
           /\ Counted(s) => Counted(Schedule(s))
           /\ Exact(s) => Moves(s, Schedule(s)) /\ Busy(Schedule(s))
<1>1. PICK f : Runs(f, s) /\ Schedule(s) = f[Len(s.ready)]
  BY ScheduleRun
<1> DEFINE N == Len(s.ready)
           Good(n) == /\ Counted(s) => Counted(f[n])
                      /\ Exact(s) => Moves(s, f[n])
                      /\ Len(f[n].ready) = N - n \/ Stuck(f[n])
           P == {n \in 0..N : Good(n)}
<1>2. N \in Nat /\ s.ready \in Seq(Entry)
  BY SchedulerFields
<1> HIDE DEF N
<1>3. f[0] = s /\ \A n \in 1..N : f[n] = ScheduleOne(f[n - 1])
  BY <1>1 DEF Runs, N
<1>4. \A n \in 0..N : f[n] \in Scheduler
  BY <1>1 DEF Runs, N
<1>5. Good(0)
  BY <1>2, <1>3 DEF Moves, N
<1>6. ASSUME NEW k \in 1..N, Good(k - 1)
      PROVE  Good(k)
  <2> DEFINE x == f[k - 1]
             y == f[k]
  <2>1. x \in Scheduler /\ y \in Scheduler /\ y = ScheduleOne(x) /\ k - 1 \in Nat /\ k \in Nat
    BY <1>2, <1>3, <1>4
  <2>2. Len(x.ready) = N - (k - 1) \/ Stuck(x)
    BY <1>6
  <2>3. Counted(s) => Counted(x)
    BY <1>6
  <2>4. Exact(s) => Moves(s, x)
    BY <1>6
  <2> HIDE DEF x, y, Good
  <2>5. CASE Stuck(x) /\ y = x
    <3>1. Good(k)
      BY <2>3, <2>4, <2>5 DEF Good, y
    <3> QED
      BY <3>1
  <2>6. CASE ~Stuck(x) /\ Round(x, y)
    <3>1. Counted(s) => Counted(y)
      BY <2>1, <2>3, <2>6, RoundCounts
    <3>2. ASSUME Exact(s) PROVE Moves(s, y)
      <4>1. Moves(s, x) /\ Exact(x)
        BY <2>4, <3>2 DEF Moves
      <4>2. Moves(x, y)
        BY <4>1, <2>1, <2>6, RoundMoves
      <4> QED
        BY <4>1, <4>2 DEF Moves
    <3>3. Len(y.ready) = Len(x.ready) - 1
      BY <2>6 DEF Round, Shorter
    <3>4. Len(y.ready) = N - k
      BY <1>2, <2>1, <2>2, <2>6, <3>3
    <3> QED
      BY <3>1, <3>2, <3>4 DEF Good, y
  <2> QED
    BY <2>1, <2>5, <2>6, OneRound
<1>7. Good(N)
  <2> HIDE DEF Good
  <2>1. 0 \in P /\ P \in SUBSET (0..N) /\ \A k \in 1..N : k - 1 \in P => k \in P
    BY <1>2, <1>5, <1>6
  <2> HIDE DEF P
  <2>2. P = 0..N
    BY <1>2, <2>1, IntervalInduction
  <2> QED
    BY <1>2, <2>2 DEF P
<1> DEFINE t == f[N]
<1>8. t \in Scheduler /\ Schedule(s) = t
  BY <1>1, <1>2, <1>4 DEF N
<1>9. Stuck(t)
  <2>1. CASE Len(t.ready) = N - N
    <3>1. t.ready \in Seq(Entry) /\ Len(t.ready) = 0
      BY <1>2, <1>8, <2>1, SchedulerFields
    <3>2. t.ready = << >>
      BY <3>1, EmptySeq
    <3> QED
      BY <3>2 DEF Stuck
  <2> QED
    BY <1>7, <2>1
<1>10. ASSUME Exact(t) PROVE Busy(t)
  <2>1. CASE t.ready = << >>
    BY <2>1, <1>10 DEF Exact, Busy
  <2>2. CASE t.running_tasks >= virtual_cores
    BY <2>2, <1>8, <1>10, SchedulerFields, ConstantsAssumption DEF Exact, Busy
  <2> QED
    BY <1>9, <2>1, <2>2 DEF Stuck
<1>11. /\ Counted(s) => Counted(t)
       /\ Exact(s) => Moves(s, t)
  BY <1>7
<1> HIDE DEF t
<1> QED
  BY <1>8, <1>10, <1>11 DEF Moves

-----------------------------------------------------------------------------
(* The operations of the scheduler.                                        *)

(* The books only look at tasks, queue and count.                          *)
SameBooks(s, t) ==
    t.tasks = s.tasks /\ t.ready = s.ready /\ t.running_tasks = s.running_tasks

(* What the invariant says of the scheduler depends on the tasks, the queue*)
(* and the count only.                                                     *)
LEMMA SameBooksKept ==
    ASSUME NEW s, NEW t, SameBooks(s, t)
    PROVE  /\ Counted(s) => Counted(t)
           /\ Exact(s) => Exact(t)
           /\ Busy(s) => Busy(t)
           /\ \A v \in Vms : t.tasks[v] = s.tasks[v] /\ (Queued(t, v) <=> Queued(s, v))
<1>1. Occupied(t) = Occupied(s)
  BY DEF SameBooks, Occupied
<1> QED
  BY <1>1 DEF SameBooks, Counted, Exact, Busy, Queued

(* Waking an instance changes nothing else in the scheduler.               *)
LEMMA WokenOnly ==
    ASSUME NEW s \in Scheduler, NEW w \in SUBSET (Vms \X Nat)
    PROVE  [s EXCEPT !.woken = w] \in Scheduler /\ SameBooks(s, [s EXCEPT !.woken = w])
  BY DEF Scheduler, SameBooks

(* An operation on the task of v leaves it in one of the states, gives     *)
(* cores to ready tasks and touches no others.                             *)
Settles(s, t, v, states) ==
    /\ Exact(t) /\ Busy(t)
    /\ t.tasks[v].state \in states
    /\ \A u \in Vms \ {v} : /\ \/ t.tasks[u].state = s.tasks[u].state
                               \/ s.tasks[u].state = "Ready" /\ t.tasks[u].state = "ToRun"
                            /\ Queued(t, u) => Queued(s, u)

(* A scheduler with new books.                                             *)
Rewritten(s, v, task, ready, n, w) ==
    [s EXCEPT !.tasks[v] = task, !.ready = ready, !.running_tasks = n, !.woken = w]

(* The fields of a scheduler after the task of one VM was rewritten.       *)
LEMMA NewBooks ==
    ASSUME NEW s \in Scheduler, NEW v \in Vms, NEW task \in TaskState,
           NEW ready \in Seq(Entry), NEW n \in Nat, NEW w \in SUBSET (Vms \X Nat),
           NEW t, t = Rewritten(s, v, task, ready, n, w)
    PROVE  /\ t \in Scheduler /\ t.ready = ready /\ t.running_tasks = n
           /\ t.tasks[v] = task /\ Becomes(s, t, v, task.state)
<1> DEFINE tasks == [s.tasks EXCEPT ![v] = task]
<1>1. tasks \in [Vms -> TaskState] /\ tasks[v] = task /\ \A u \in Vms \ {v} : tasks[u] = s.tasks[u]
  BY SchedulerFields
<1>2. t = [s EXCEPT !.tasks = tasks, !.ready = ready, !.running_tasks = n, !.woken = w]
  BY DEF Scheduler, Rewritten
<1> HIDE DEF tasks
<1>3. t \in Scheduler /\ t.ready = ready /\ t.running_tasks = n /\ t.tasks = tasks
  BY <1>1, <1>2 DEF Scheduler
<1> QED
  BY <1>1, <1>3 DEF Becomes

(* A task gives back its core, if it has one: exit and park.               *)
LEMMA GivesBack ==
    ASSUME NEW s \in Scheduler, NEW t \in Scheduler, NEW v \in Vms,
           NEW state \in {"None", "Idle"}, Becomes(s, t, v, state), t.ready = s.ready,
           Counted(s),
           t.running_tasks = IF s.tasks[v].state \in Scheduled THEN s.running_tasks - 1
                             ELSE s.running_tasks
    PROVE  /\ Counted(t)
           /\ Exact(s) /\ (state = "Idle" => s.tasks[v].state # "Ready" /\ ~Queued(s, v))
                  => Exact(t)
           /\ \A u \in Vms : Queued(t, u) <=> Queued(s, u)
<1>1. Occupied(t) = Occupied(s) \ {v} /\ (v \in Occupied(s) <=> s.tasks[v].state \in Scheduled)
  BY OccupiedAfter DEF Scheduled, Occupied
<1>2. Cardinality(Occupied(t)) =
          IF v \in Occupied(s) THEN Cardinality(Occupied(s)) - 1 ELSE Cardinality(Occupied(s))
  BY <1>1, OccupiedLess
<1>3. Counted(t)
  BY <1>1, <1>2, OccupiedType, SchedulerFields DEF Counted
<1>4. ASSUME Exact(s), state = "Idle" => s.tasks[v].state # "Ready" /\ ~Queued(s, v)
      PROVE  Exact(t)
  <2>1. t.running_tasks = Cardinality(Occupied(t)) /\ t.running_tasks <= virtual_cores
    BY <1>1, <1>2, <1>4, OccupiedType, SchedulerFields, ConstantsAssumption DEF Exact
  <2>2. ASSUME NEW k \in DOMAIN t.ready
        PROVE  t.tasks[t.ready[k].vm].state \in {"Ready", "None"}
    <3>1. t.ready[k].vm \in Vms /\ s.tasks[t.ready[k].vm].state \in {"Ready", "None"}
      BY <1>4, EntryFields DEF Exact
    <3>2. CASE t.ready[k].vm = v
      BY <3>2, <1>4 DEF Becomes, Queued
    <3>3. CASE t.ready[k].vm # v
      BY <3>1, <3>3 DEF Becomes
    <3> QED
      BY <3>2, <3>3
  <2>3. \A u \in Vms : t.tasks[u].state = "Ready"
                           => u # v /\ \E k \in DOMAIN t.ready : t.ready[k].vm = u
    BY <1>4 DEF Exact, Becomes
  <2> QED
    BY <2>1, <2>2, <2>3, <1>4 DEF Exact
<1>5. \A u \in Vms : Queued(t, u) <=> Queued(s, u)
  BY DEF Queued
<1> QED
  BY <1>3, <1>4, <1>5

(* Scheduling after that.                                                  *)
LEMMA ThenSchedules ==
    ASSUME NEW s \in Scheduler, NEW t \in Scheduler, NEW v \in Vms, NEW state,
           Becomes(s, t, v, state), state # "Ready", Exact(t),
           \A u \in Vms \ {v} : Queued(t, u) => Queued(s, u)
    PROVE  Settles(s, Schedule(t), v, {state})
<1>1. Moves(t, Schedule(t)) /\ Busy(Schedule(t))
  BY ScheduleEnds
<1> QED
  BY <1>1 DEF Moves, Settles, Becomes

(* exit: the task is forgotten.                                            *)
LEMMA ExitSettles ==
    ASSUME NEW s \in Scheduler, NEW v \in Vms, Counted(s)
    PROVE  /\ Exit(s, v) \in Scheduler
           /\ Counted(Exit(s, v))
           /\ Exact(s) /\ Busy(s) => /\ Settles(s, Exit(s, v), v, {"None"})
                                     /\ Queued(Exit(s, v), v) => Queued(s, v)
<1> DEFINE removed == [s EXCEPT !.tasks[v] = NoTask]
           t == [removed EXCEPT !.running_tasks = @ - 1]
<1>1. NoTask \in TaskState /\ NoTask.state = "None"
  BY DEF NoTask, TaskState
<1>2. CASE s.tasks[v].state \in Scheduled
  <2>1. Exit(s, v) = Schedule(t)
    BY <1>2 DEF Exit
  <2>2. s.running_tasks - 1 \in Nat
    <3>1. v \in Occupied(s)
      BY <1>2 DEF Occupied
    <3>2. Cardinality(Occupied(s)) # 0
      BY <3>1, OccupiedType, FS_EmptySet
    <3> QED
      BY <3>2, OccupiedType, SchedulerFields DEF Counted
  <2>3. t = Rewritten(s, v, NoTask, s.ready, s.running_tasks - 1, s.woken)
    BY DEF Scheduler, Rewritten
  <2> HIDE DEF t
  <2>4. t \in Scheduler /\ t.ready = s.ready /\ t.running_tasks = s.running_tasks - 1
        /\ Becomes(s, t, v, "None")
    BY <1>1, <2>2, <2>3, SchedulerFields, NewBooks
  <2>5. Counted(t) /\ (Exact(s) => Exact(t)) /\ \A u \in Vms : Queued(t, u) <=> Queued(s, u)
    BY <1>2, <2>4, GivesBack
  <2>6. Schedule(t) \in Scheduler /\ Counted(Schedule(t))
    BY <2>4, <2>5, ScheduleEnds
  <2>7. ASSUME Exact(s)
        PROVE  Settles(s, Schedule(t), v, {"None"}) /\ (Queued(Schedule(t), v) => Queued(s, v))
    <3>1. Settles(s, Schedule(t), v, {"None"})
      BY <2>4, <2>5, <2>7, ThenSchedules
    <3>2. Moves(t, Schedule(t))
      BY <2>4, <2>5, <2>7, ScheduleEnds
    <3> QED
      BY <3>1, <3>2, <2>5 DEF Moves
  <2> QED
    BY <2>1, <2>6, <2>7
<1>3. CASE s.tasks[v].state \notin Scheduled
  <2>1. Exit(s, v) = removed
    BY <1>3 DEF Exit
  <2>2. removed = Rewritten(s, v, NoTask, s.ready, s.running_tasks, s.woken)
    BY DEF Scheduler, Rewritten
  <2> HIDE DEF removed
  <2>3. removed \in Scheduler /\ removed.ready = s.ready
        /\ removed.running_tasks = s.running_tasks /\ Becomes(s, removed, v, "None")
    BY <1>1, <2>2, SchedulerFields, NewBooks
  <2>4. /\ Counted(removed) /\ (Exact(s) => Exact(removed))
        /\ \A u \in Vms : Queued(removed, u) <=> Queued(s, u)
    BY <1>3, <2>3, GivesBack
  <2>5. Busy(s) => Busy(removed)
    BY <2>3 DEF Busy, Becomes
  <2> QED
    BY <2>1, <2>3, <2>4, <2>5 DEF Settles, Becomes
<1> QED
  BY <1>2, <1>3

(* park: the task of a running instance is idle again.                     *)
LEMMA ParkSettles ==
    ASSUME NEW s \in Scheduler, NEW v \in Vms, NEW charge \in Nat, Counted(s),
           s.tasks[v].state = "Running"
    PROVE  /\ Park(s, v, charge) \in Scheduler
           /\ Counted(Park(s, v, charge))
           /\ Exact(s) => Settles(s, Park(s, v, charge), v, {"Idle"})
<1> DEFINE task == [state |-> "Idle", vruntime |-> s.tasks[v].vruntime + charge]
           t == [s EXCEPT !.tasks[v] = [state |-> "Idle", vruntime |-> @.vruntime + charge],
                          !.running_tasks = @ - 1]
<1>1. task \in TaskState /\ task.state = "Idle"
  BY SchedulerFields DEF TaskState
<1>2. s.running_tasks - 1 \in Nat
  <2>1. v \in Occupied(s)
    BY DEF Occupied, Scheduled
  <2>2. Cardinality(Occupied(s)) # 0
    BY <2>1, OccupiedType, FS_EmptySet
  <2> QED
    BY <2>2, OccupiedType, SchedulerFields DEF Counted
<1>3. Park(s, v, charge) = Schedule(t)
  BY DEF Park
<1>4. t = Rewritten(s, v, task, s.ready, s.running_tasks - 1, s.woken)
  BY DEF Scheduler, Rewritten
<1> HIDE DEF t, task
<1>5. t \in Scheduler /\ t.ready = s.ready /\ t.running_tasks = s.running_tasks - 1
      /\ Becomes(s, t, v, "Idle")
  BY <1>1, <1>2, <1>4, SchedulerFields, NewBooks
<1>6. Exact(s) => ~Queued(s, v)
  BY DEF Exact, Queued
<1>7. Counted(t) /\ (Exact(s) => Exact(t)) /\ \A u \in Vms : Queued(t, u) <=> Queued(s, u)
  BY <1>5, <1>6, GivesBack DEF Scheduled
<1>8. Schedule(t) \in Scheduler /\ Counted(Schedule(t))
  BY <1>5, <1>7, ScheduleEnds
<1>9. ASSUME Exact(s) PROVE Settles(s, Schedule(t), v, {"Idle"})
  BY <1>5, <1>7, <1>9, ThenSchedules
<1> QED
  BY <1>3, <1>8, <1>9

(* poll_resume of a task that is idle or new: it is ready or gets a core.  *)
LEMMA BecomeReadySettles ==
    ASSUME NEW s \in Scheduler, NEW v \in Vms, NEW i \in Nat, Counted(s),
           s.tasks[v].state \in {"None", "Idle"}
    PROVE  /\ BecomeReady(s, v, i) \in Scheduler
           /\ Counted(BecomeReady(s, v, i))
           /\ Exact(s) /\ ~Queued(s, v)
                  => Settles(s, BecomeReady(s, v, i), v, {"Ready", "ToRun"})
<1> DEFINE r == IF s.tasks[v].vruntime >= s.virtual_clock
                THEN s.tasks[v].vruntime ELSE s.virtual_clock
           task == [state |-> "Ready", vruntime |-> r]
           e == [vm |-> v, inst |-> i, vruntime |-> r]
           q == Append(s.ready, e)
           w == s.woken \ {<<v, i>>}
           t == Rewritten(s, v, task, q, s.running_tasks, w)
<1>1. r \in Nat
  BY SchedulerFields
<1>2. BecomeReady(s, v, i) = Schedule(t)
  <2> HIDE DEF r
  <2>1. t = [s EXCEPT !.tasks[v] = task, !.ready = Append(@, e), !.woken = @ \ {<<v, i>>}]
    BY DEF Scheduler, Rewritten
  <2>2. BecomeReady(s, v, i) = Schedule([s EXCEPT !.tasks[v] = task, !.ready = Append(@, e),
                                                  !.woken = @ \ {<<v, i>>}])
    BY DEF BecomeReady, r
  <2> HIDE DEF t
  <2> QED
    BY <2>1, <2>2
<1> HIDE DEF r
<1>3. task \in TaskState /\ task.state = "Ready" /\ e \in Entry /\ e.vm = v
      /\ w \in SUBSET (Vms \X Nat)
  BY <1>1, SchedulerFields DEF TaskState, Entry
<1>4. /\ q \in Seq(Entry) /\ Len(q) = Len(s.ready) + 1 /\ DOMAIN q = 1..(Len(s.ready) + 1)
      /\ q[Len(s.ready) + 1] = e /\ \A k \in 1..Len(s.ready) : q[k] = s.ready[k]
  <2> HIDE DEF e
  <2> QED
    BY <1>3, SchedulerFields
<1> HIDE DEF task, e, q, w
<1>5. t \in Scheduler /\ t.ready = q /\ t.running_tasks = s.running_tasks
      /\ Becomes(s, t, v, "Ready")
  BY <1>3, <1>4, SchedulerFields, NewBooks
<1> HIDE DEF t
<1>6. Occupied(t) = Occupied(s)
  <2>1. v \notin Occupied(s) /\ "Ready" \notin Scheduled
    BY DEF Scheduled, Occupied
  <2>2. Occupied(t) = Occupied(s) \ {v}
    BY <1>5, <2>1, OccupiedAfter
  <2> QED
    BY <2>1, <2>2
<1>7. Counted(t)
  BY <1>5, <1>6 DEF Counted
<1>8. Schedule(t) \in Scheduler /\ Counted(Schedule(t))
  BY <1>5, <1>7, ScheduleEnds
<1>9. ASSUME Exact(s), ~Queued(s, v)
      PROVE  Settles(s, Schedule(t), v, {"Ready", "ToRun"})
  <2> DEFINE n == Len(s.ready) + 1
  <2>1. n \in Nat \ {0} /\ DOMAIN s.ready = 1..(n - 1)
        /\ DOMAIN t.ready = 1..n /\ t.ready[n].vm = v
        /\ \A k \in 1..(n - 1) : t.ready[k] = s.ready[k]
    BY <1>3, <1>4, <1>5, SchedulerFields
  <2> HIDE DEF n
  <2>2. \A k \in DOMAIN t.ready : k = n \/ k \in DOMAIN s.ready
    BY <2>1
  <2>3. \A k \in DOMAIN s.ready : s.ready[k].vm # v /\ s.ready[k].vm \in Vms
    BY <1>9, EntryFields DEF Queued
  <2>4. \A k, l \in DOMAIN t.ready : t.ready[k].vm = t.ready[l].vm => k = l
    BY SMTT(30), <1>9, <2>1, <2>2, <2>3 DEF Exact
  <2>5. ASSUME NEW k \in DOMAIN t.ready
        PROVE  t.tasks[t.ready[k].vm].state \in {"Ready", "None"}
    <3>1. CASE k = n
      BY <3>1, <2>1, <1>5 DEF Becomes
    <3>2. CASE k \in DOMAIN s.ready
      BY <3>2, <2>1, <2>3, <1>5, <1>9 DEF Becomes, Exact
    <3> QED
      BY <2>2, <3>1, <3>2
  <2>6. ASSUME NEW u \in Vms, t.tasks[u].state = "Ready"
        PROVE  \E k \in DOMAIN t.ready : t.ready[k].vm = u
    <3>1. n \in DOMAIN t.ready /\ \A k \in DOMAIN s.ready : k \in DOMAIN t.ready
      BY <2>1
    <3>2. CASE u = v
      BY <3>1, <3>2, <2>1
    <3>3. CASE u # v
      BY <3>1, <3>3, <2>1, <2>6, <1>5, <1>9 DEF Becomes, Exact
    <3> QED
      BY <3>2, <3>3
  <2>7. Exact(t)
    BY <2>4, <2>5, <2>6, <1>5, <1>6, <1>9 DEF Exact
  <2>8. \A u \in Vms \ {v} : Queued(t, u) => Queued(s, u)
    BY <2>1, <2>2 DEF Queued
  <2>9. Moves(t, Schedule(t)) /\ Busy(Schedule(t))
    BY <2>7, <1>5, ScheduleEnds
  <2> QED
    BY <2>8, <2>9, <1>5 DEF Moves, Settles, Becomes
<1> QED
  BY <1>2, <1>8, <1>9

(* poll_resume of a ready task: only a waker changes.                      *)
LEMMA RefreshWakerKeeps ==
    ASSUME NEW s \in Scheduler, NEW v \in Vms, NEW i \in Nat, Counted(s)
    PROVE  /\ RefreshWaker(s, v, i) \in Scheduler
           /\ Counted(RefreshWaker(s, v, i))
           /\ RefreshWaker(s, v, i).tasks = s.tasks
           /\ Exact(s) => Exact(RefreshWaker(s, v, i))
           /\ Busy(s) => Busy(RefreshWaker(s, v, i))
           /\ \A u \in Vms : Queued(RefreshWaker(s, v, i), u) => Queued(s, u)
<1> DEFINE entries == {k \in DOMAIN s.ready : s.ready[k].vm = v}
           first == CHOOSE k \in entries : \A l \in entries :
                        \/ s.ready[k].vruntime < s.ready[l].vruntime
                        \/ s.ready[k].vruntime = s.ready[l].vruntime /\ k <= l
           q == IF entries = {} THEN s.ready
                ELSE [s.ready EXCEPT ![first] = [@ EXCEPT !.inst = i]]
           w == s.woken \ {<<v, i>>}
           t == RefreshWaker(s, v, i)
<1>1. t = [s EXCEPT !.ready = q, !.woken = w]
  BY DEF RefreshWaker, Scheduler
<1>2. q \in Seq(Entry) /\ DOMAIN q = DOMAIN s.ready
      /\ \A k \in DOMAIN s.ready : q[k].vm = s.ready[k].vm
  <2> HIDE DEF first
  <2>1. \A k \in DOMAIN s.ready : [s.ready[k] EXCEPT !.inst = i] \in Entry
                                  /\ [s.ready[k] EXCEPT !.inst = i].vm = s.ready[k].vm
    <3> SUFFICES ASSUME NEW k \in DOMAIN s.ready
                 PROVE  /\ [s.ready[k] EXCEPT !.inst = i] \in Entry
                        /\ [s.ready[k] EXCEPT !.inst = i].vm = s.ready[k].vm
      OBVIOUS
    <3>1. s.ready[k] \in Entry
      BY EntryFields
    <3> QED
      BY <3>1 DEF Entry
  <2>2. s.ready \in Seq(Entry) /\ Len(s.ready) \in Nat /\ DOMAIN s.ready = 1..Len(s.ready)
    BY SchedulerFields
  <2>3. CASE entries = {} \/ first \notin DOMAIN s.ready
    <3>1. q = s.ready
      <4>1. CASE entries = {}
        BY <4>1
      <4>2. CASE entries # {} /\ first \notin DOMAIN s.ready
        <5> HIDE DEF entries
        <5>1. \A y : [s.ready EXCEPT ![first] = y] = s.ready
          BY <4>2, <2>2
        <5> QED
          BY <4>2, <5>1
      <4> QED
        BY <2>3, <4>1, <4>2
    <3> HIDE DEF q
    <3> QED
      BY <2>2, <3>1
  <2>4. CASE entries # {} /\ first \in DOMAIN s.ready
    <3> DEFINE y == [s.ready[first] EXCEPT !.inst = i]
    <3>1. y \in Entry /\ y.vm = s.ready[first].vm /\ q = [s.ready EXCEPT ![first] = y]
      BY <2>1, <2>4
    <3> HIDE DEF y, q, entries
    <3> QED
      BY <2>2, <2>4, <3>1
  <2> QED
    BY <2>3, <2>4
<1>3. w \in SUBSET (Vms \X Nat)
  BY SchedulerFields
<1> HIDE DEF q, w, t
<1>4. /\ t \in Scheduler /\ t.tasks = s.tasks /\ t.ready = q
      /\ t.running_tasks = s.running_tasks
  BY <1>1, <1>2, <1>3 DEF Scheduler
<1>5. Occupied(t) = Occupied(s)
  BY <1>4 DEF Occupied
<1>6. \A u \in Vms : Queued(t, u) <=> Queued(s, u)
  BY <1>2, <1>4 DEF Queued
<1>7. Exact(s) => Exact(t)
  BY <1>2, <1>4, <1>5 DEF Exact
<1>8. (Counted(s) => Counted(t)) /\ (Busy(s) => Busy(t))
  BY <1>4, <1>5 DEF Counted, Busy
<1> QED
  BY <1>4, <1>6, <1>7, <1>8 DEF t

(* poll_resume of a task that was given a core: it runs.                   *)
LEMMA RunSettles ==
    ASSUME NEW s \in Scheduler, NEW v \in Vms, NEW w \in SUBSET (Vms \X Nat), Counted(s),
           s.tasks[v].state = "ToRun",
           NEW t, t = [s EXCEPT !.tasks[v].state = "Running", !.woken = w]
    PROVE  /\ t \in Scheduler /\ Counted(t)
           /\ Exact(s) /\ Busy(s) => Settles(s, t, v, {"Running"})
<1> DEFINE task == [s.tasks[v] EXCEPT !.state = "Running"]
<1>1. s.tasks[v] \in TaskState
  BY SchedulerFields
<1>2. task \in TaskState /\ task.state = "Running"
  BY <1>1 DEF TaskState
<1>3. t = Rewritten(s, v, task, s.ready, s.running_tasks, w)
  BY DEF Scheduler, Rewritten
<1> HIDE DEF task
<1>4. t \in Scheduler /\ t.ready = s.ready /\ t.running_tasks = s.running_tasks
      /\ Becomes(s, t, v, "Running")
  BY <1>2, <1>3, SchedulerFields, NewBooks
<1>5. Occupied(t) = Occupied(s)
  <2>1. v \in Occupied(s) /\ Occupied(t) = Occupied(s) \cup {v}
    BY <1>4, OccupiedAfter DEF Scheduled, Occupied
  <2> QED
    BY <2>1
<1>6. Counted(t)
  BY <1>4, <1>5 DEF Counted
<1>7. ASSUME Exact(s), Busy(s) PROVE Settles(s, t, v, {"Running"})
  <2>1. \A k \in DOMAIN s.ready : s.ready[k].vm \in Vms \ {v}
    BY <1>7, EntryFields DEF Exact
  <2>2. Exact(t)
    BY <1>4, <1>5, <1>7, <2>1 DEF Exact, Becomes
  <2>3. Busy(t)
    BY <1>4, <1>7 DEF Busy, Becomes
  <2> QED
    BY <2>2, <2>3, <1>4 DEF Settles, Becomes, Queued
<1> QED
  BY <1>4, <1>6, <1>7

(* The scheduler of a new process.                                         *)
LEMMA NewSchedulerOK ==
    /\ NewScheduler \in Scheduler
    /\ Counted(NewScheduler) /\ Exact(NewScheduler) /\ Busy(NewScheduler)
    /\ \A v \in Vms : NewScheduler.tasks[v].state = "None" /\ ~Queued(NewScheduler, v)
<1>1. NoTask \in TaskState /\ NoTask.state = "None"
  BY DEF NoTask, TaskState
<1>2. << >> \in Seq(Entry) /\ DOMAIN << >> = {}
  OBVIOUS
<1>3. NewScheduler \in Scheduler
  BY <1>1, <1>2 DEF NewScheduler, Scheduler
<1>4. \A v \in Vms : NewScheduler.tasks[v].state = "None"
  BY <1>1 DEF NewScheduler
<1>5. NewScheduler.ready = << >> /\ NewScheduler.running_tasks = 0
  BY DEF NewScheduler
<1> HIDE DEF NewScheduler
<1>6. Occupied(NewScheduler) = {}
  BY <1>4 DEF Occupied, Scheduled
<1>7. Cardinality(Occupied(NewScheduler)) = 0
  BY <1>6, FS_EmptySet
<1> QED
  BY <1>2, <1>3, <1>4, <1>5, <1>7, ConstantsAssumption DEF Counted, Exact, Busy, Queued

-----------------------------------------------------------------------------
(* Instances and handles.                                                  *)

(* The types of the fields of an instance.                                 *)
LEMMA InstanceFields ==
    ASSUME NEW x \in Instance
    PROVE  /\ x.phase \in Phases /\ x.prev \in Nat /\ x.by \in {"effect", "restart"}
           /\ x.cmds \in Seq({"Stop", "Message"}) /\ x.polling \in BOOLEAN
           /\ x.reason \in Reasons /\ x.reported \in BOOLEAN /\ x.lost \in BOOLEAN
  BY DEF Instance

(* What the invariant says of the instances and the handle of a contract.  *)
LEMMA ListFields ==
    ASSUME Handles, NEW v \in Vms
    PROVE  /\ inst[v] \in Seq(Instance) /\ Len(inst[v]) \in Nat
           /\ DOMAIN inst[v] = 1..Len(inst[v])
           /\ \A i \in DOMAIN inst[v] : inst[v][i] \in Instance /\ Sound(inst[v][i])
           /\ info[v] \in Handle /\ Handled(v, inst[v], info[v])
<1>1. inst[v] \in Seq(Instance) /\ info[v] \in Handle /\ Handled(v, inst[v], info[v])
  BY DEF Handles
<1>2. \A i \in DOMAIN inst[v] : inst[v][i] \in Instance
  BY <1>1, Element
<1> QED
  BY <1>1, <1>2 DEF Handled

(* Instance x has become y, or is unchanged as far as the scheduler goes.  *)
Becoming(x, y) == y \in Instance /\ Sound(y) /\ (Ending(x) => Ending(y)) /\ y.by = x.by
Alike(x, y) == y.phase = x.phase /\ y.polling = x.polling /\ y.reason = x.reason

(* A change of one instance leaves the others of its contract alone.       *)
LEMMA Touch ==
    ASSUME NEW l \in Seq(Instance), NEW i \in DOMAIN l, NEW y \in Instance
    PROVE  /\ [l EXCEPT ![i] = y] \in Seq(Instance)
           /\ DOMAIN [l EXCEPT ![i] = y] = DOMAIN l
           /\ Len([l EXCEPT ![i] = y]) = Len(l)
           /\ [l EXCEPT ![i] = y][i] = y
           /\ \A j \in DOMAIN l \ {i} : [l EXCEPT ![i] = y][j] = l[j]
  OBVIOUS

(* One instance changes.                                                   *)
LEMMA TouchHandled ==
    ASSUME NEW v \in Vms, NEW l \in Seq(Instance), NEW h, Handled(v, l, h),
           NEW i \in DOMAIN l, NEW y, Becoming(l[i], y)
    PROVE  Handled(v, [l EXCEPT ![i] = y], h)
<1> DEFINE m == [l EXCEPT ![i] = y]
<1>1. y \in Instance
  BY DEF Becoming
<1>2. /\ DOMAIN m = DOMAIN l /\ Len(m) = Len(l) /\ m[i] = y
      /\ \A j \in DOMAIN l \ {i} : m[j] = l[j]
  BY <1>1, Touch
<1> HIDE DEF m
<1>3. l # << >> => m # << >>
  BY <1>2
<1>4. ASSUME NEW j \in DOMAIN m
      PROVE  Sound(m[j]) /\ (Ending(m[j]) \/ (h.kind = "instance" /\ h.at = j))
  <2>1. CASE j = i
    BY <1>2, <2>1 DEF Handled, Becoming
  <2>2. CASE j # i
    BY <1>2, <2>2 DEF Handled
  <2> QED
    BY <2>1, <2>2
<1> QED
  BY <1>2, <1>3, <1>4 DEF Handled, m

(* The last instance changes, with the task of the contract.               *)
LEMMA TouchSingle ==
    ASSUME NEW l \in Seq(Instance), NEW y \in Instance, l # << >>,
           NEW i \in DOMAIN l, i = Len(l),
           \A j \in DOMAIN l : Sound(l[j]) /\ (j < Len(l) => l[j].phase = "ended"),
           NEW state, NEW queued,
           state = "Running" <=> y.polling,
           state # "None" => y.phase \in {"live", "leaving"},
           y.phase = "leaving" => state \in {"None", "Idle"},
           state = "None" /\ queued => y.phase = "ended" /\ y.reason = "Final"
    PROVE  Single([l EXCEPT ![i] = y], state, queued)
<1> DEFINE m == [l EXCEPT ![i] = y]
<1>1. /\ DOMAIN m = DOMAIN l /\ Len(m) = Len(l) /\ m[i] = y
      /\ \A j \in DOMAIN l \ {i} : m[j] = l[j]
  BY Touch
<1>2. Len(l) \in Nat /\ DOMAIN l = 1..Len(l)
  OBVIOUS
<1> HIDE DEF m
<1>3. m # << >> /\ Newest(m) = y
  BY <1>1 DEF Newest
<1>4. \A j \in DOMAIN m : j # i => m[j].phase = "ended" /\ ~m[j].polling
  BY <1>1, <1>2 DEF Sound
<1>5. \A j \in DOMAIN m : j < Len(m) => m[j].phase = "ended"
  BY <1>1, <1>2, <1>4
<1>6. state = "Running" <=> \E j \in DOMAIN m : m[j].polling
  BY <1>1, <1>4
<1> QED
  BY <1>3, <1>5, <1>6 DEF Single, m

(* Instances change in a way that the scheduler does not see.              *)
LEMMA SameSingle ==
    ASSUME NEW l, NEW m, NEW state, NEW queued, Single(l, state, queued),
           DOMAIN m = DOMAIN l, Len(m) = Len(l), l # << >> => m # << >> /\ Len(l) \in DOMAIN l,
           m # << >> => l # << >>,
           \A j \in DOMAIN l : Alike(l[j], m[j])
    PROVE  Single(m, state, queued)
<1>1. l # << >> => Alike(Newest(l), Newest(m))
  BY DEF Newest
<1> QED
  BY <1>1 DEF Single, Alike

(* A task that was given a core, or not.                                   *)
LEMMA GivenCore ==
    ASSUME NEW l, NEW state, NEW queued, NEW state2, NEW queued2,
           Single(l, state, queued), queued2 => queued,
           state2 = state \/ (state = "Ready" /\ state2 = "ToRun")
    PROVE  Single(l, state2, queued2)
  BY DEF Single

(* The instance that has not ended is the last one.                        *)
LEMMA NotEnded ==
    ASSUME NEW l \in Seq(Instance), NEW state, NEW queued, Single(l, state, queued),
           NEW i \in DOMAIN l, l[i].phase # "ended"
    PROVE  i = Len(l) /\ Newest(l) = l[i] /\ l # << >>
  BY DEF Single, Newest

-----------------------------------------------------------------------------
(* Steps.                                                                  *)

(* A step that concerns one contract.                                      *)
LEMMA OneVm ==
    ASSUME IInv, NEW v \in Vms, NEW l \in Seq(Instance), NEW h \in Handle,
           inst' = [inst EXCEPT ![v] = l], info' = [info EXCEPT ![v] = h],
           Handled(v, l, h), Len(inst[v]) <= Len(l),
           \A i \in DOMAIN inst[v] : l[i].by = inst[v][i].by,
           sch' \in Scheduler, Counted(sch'), effects' \in 0..MaxEffects, dead' \in BOOLEAN,
           StartedOnce /\ StartedOnce' /\ InOrder =>
               /\ ~dead' /\ Settles(sch, sch', v, States)
               /\ Single(l, sch'.tasks[v].state, Queued(sch', v))
    PROVE  IInv'
<1>1. Handles
  BY DEF IInv
<1>2. /\ inst' \in [Vms -> Seq(Instance)] /\ inst'[v] = l
      /\ \A u \in Vms \ {v} : inst'[u] = inst[u]
  BY <1>1 DEF Handles
<1>3. /\ info' \in [Vms -> Handle] /\ info'[v] = h
      /\ \A u \in Vms \ {v} : info'[u] = info[u]
  BY <1>1 DEF Handles
<1>4. Handles'
  BY <1>1, <1>2, <1>3 DEF Handles
<1>5. ASSUME StartedOnce' PROVE StartedOnce
  <2> SUFFICES ASSUME NEW u \in Vms, NEW i \in DOMAIN inst[u], i > 1
               PROVE  inst[u][i].by = "restart"
    BY DEF StartedOnce
  <2>1. CASE u = v
    <3>1. i \in DOMAIN l
      BY <1>1, <2>1, ListFields
    <3>2. l[i].by = "restart"
      BY <3>1, <2>1, <1>2, <1>5 DEF StartedOnce
    <3> QED
      BY <3>2, <2>1
  <2>2. CASE u # v
    BY <2>2, <1>2, <1>5 DEF StartedOnce
  <2> QED
    BY <2>1, <2>2
<1>6. ASSUME StartedOnce' PROVE InOrder'
  <2>1. StartedOnce /\ InOrder
    BY <1>5, <1>6 DEF IInv
  <2>2. /\ ~dead' /\ Settles(sch, sch', v, States)
        /\ Single(l, sch'.tasks[v].state, Queued(sch', v))
    BY <1>6, <2>1
  <2>3. ASSUME NEW u \in Vms PROVE OneAtATime(u)'
    <3>1. CASE u = v
      BY <3>1, <1>2, <2>2 DEF OneAtATime
    <3>2. CASE u # v
      <4>1. Single(inst[u], sch.tasks[u].state, Queued(sch, u))
        BY <2>1 DEF InOrder, OneAtATime
      <4>2. /\ \/ sch'.tasks[u].state = sch.tasks[u].state
               \/ sch.tasks[u].state = "Ready" /\ sch'.tasks[u].state = "ToRun"
            /\ Queued(sch', u) => Queued(sch, u)
        BY <2>2, <3>2 DEF Settles
      <4>3. Single(inst[u], sch'.tasks[u].state, Queued(sch', u))
        BY <4>1, <4>2, GivenCore
      <4> QED
        BY <4>3, <3>2, <1>2 DEF OneAtATime
    <3> QED
      BY <3>1, <3>2
  <2> QED
    BY <2>2, <2>3 DEF InOrder, Settles
<1> QED
  BY <1>4, <1>6 DEF IInv

(* Nothing happens in the scheduler.                                       *)
LEMMA SettlesItself ==
    ASSUME NEW s \in Scheduler, NEW t \in Scheduler, NEW v \in Vms, Exact(s), Busy(s),
           SameBooks(s, t)
    PROVE  Settles(s, t, v, States) /\ t.tasks[v] = s.tasks[v]
           /\ (Queued(t, v) <=> Queued(s, v))
<1>1. /\ Exact(t) /\ Busy(t)
      /\ \A u \in Vms : t.tasks[u] = s.tasks[u] /\ (Queued(t, u) <=> Queued(s, u))
  BY SameBooksKept
<1>2. t.tasks[v].state \in States
  BY SchedulerFields
<1> QED
  BY <1>1, <1>2 DEF Settles

(* Instance i of a contract is y from now on.                              *)
Touched(v, i, y) == inst' = [inst EXCEPT ![v] = [inst[v] EXCEPT ![i] = y]]

WithWoken(s, w) == [s EXCEPT !.woken = w]

(* A step of one instance.                                                 *)
LEMMA OneInstance ==
    ASSUME IInv, NEW v \in Vms, NEW i \in DOMAIN inst[v], NEW y,
           Becoming(inst[v][i], y),
           Touched(v, i, y), info' = info,
           sch' \in Scheduler, Counted(sch'), effects' \in 0..MaxEffects, dead' \in BOOLEAN,
           StartedOnce /\ InOrder =>
               /\ ~dead' /\ Settles(sch, sch', v, States)
               /\ Single([inst[v] EXCEPT ![i] = y], sch'.tasks[v].state, Queued(sch', v))
    PROVE  IInv'
<1> DEFINE l == [inst[v] EXCEPT ![i] = y]
<1>1. Handles
  BY DEF IInv
<1>2. y \in Instance /\ y.by = inst[v][i].by
  BY DEF Becoming
<1>3. inst[v] \in Seq(Instance) /\ info[v] \in Handle /\ Handled(v, inst[v], info[v])
      /\ Len(inst[v]) \in Nat
  BY <1>1, ListFields
<1>4. /\ l \in Seq(Instance) /\ Len(l) = Len(inst[v]) /\ l[i] = y
      /\ \A j \in DOMAIN inst[v] \ {i} : l[j] = inst[v][j]
  BY <1>2, <1>3, Touch
<1>5. Handled(v, l, info[v])
  BY <1>3, TouchHandled
<1>6. info' = [info EXCEPT ![v] = info[v]]
  BY <1>1 DEF Handles
<1>7. inst' = [inst EXCEPT ![v] = l]
  BY DEF Touched
<1> HIDE DEF l
<1>8. \A j \in DOMAIN inst[v] : l[j].by = inst[v][j].by
  BY <1>2, <1>4
<1>9. Len(inst[v]) <= Len(l)
  BY <1>3, <1>4
<1> QED
  BY ZenonT(60), <1>3, <1>4, <1>5, <1>6, <1>7, <1>8, <1>9, OneVm DEF l

(* A Stop in a channel stays there when another command is taken, and the  *)
(* channel does not outgrow its capacity.                                  *)
LEMMA TailCommands ==
    ASSUME NEW c \in Seq({"Stop", "Message"}), c # << >>, Len(c) <= CommandCap
    PROVE  /\ Tail(c) \in Seq({"Stop", "Message"}) /\ Len(Tail(c)) <= CommandCap
           /\ Head(c) # "Stop" /\ "Stop" \in Range(c) => "Stop" \in Range(Tail(c))
<1>1. Len(c) \in Nat \ {0} /\ CommandCap \in Nat
  BY EmptySeq, ConstantsAssumption
<1>2. /\ Tail(c) \in Seq({"Stop", "Message"}) /\ Len(Tail(c)) = Len(c) - 1
      /\ \A k \in 1..(Len(c) - 1) : Tail(c)[k] = c[k + 1]
  BY <1>1
<1>3. ASSUME Head(c) # "Stop", "Stop" \in Range(c)
      PROVE  "Stop" \in Range(Tail(c))
  <2>1. PICK k \in DOMAIN c : c[k] = "Stop"
    BY <1>3 DEF Range
  <2>2. k \in 1..Len(c) /\ k # 1
    BY <2>1, <1>3
  <2>3. k - 1 \in 1..(Len(c) - 1) /\ (k - 1) + 1 = k
    BY <2>2, <1>1
  <2>4. Tail(c)[k - 1] = "Stop" /\ k - 1 \in DOMAIN Tail(c)
    BY <2>1, <2>3, <1>2
  <2> QED
    BY <2>4 DEF Range
<1> QED
  BY <1>1, <1>2, <1>3

(* A new channel is empty, which its capacity allows.                      *)
LEMMA EmptyCommands ==
    << >> \in Seq({"Stop", "Message"}) /\ Len(<< >>) <= CommandCap
  BY ConstantsAssumption

(* try_send keeps a channel within its capacity; a Stop is then in the     *)
(* channel, or its loss was logged, or the instance has ended.             *)
LEMMA TrySendBecoming ==
    ASSUME NEW x \in Instance, Sound(x), NEW cmd \in {"Stop", "Message"}
    PROVE  /\ Becoming(x, TrySend(x, cmd)) /\ Alike(x, TrySend(x, cmd))
           /\ cmd = "Stop" => Ending(TrySend(x, cmd))
<1> DEFINE y == TrySend(x, cmd)
<1>1. CASE x.phase = "ended"
  BY <1>1 DEF TrySend, Becoming, Alike, Ending
<1>2. CASE x.phase # "ended" /\ Len(x.cmds) < CommandCap
  <2> DEFINE c == Append(x.cmds, cmd)
  <2>1. y = [x EXCEPT !.cmds = c]
    BY <1>2 DEF TrySend
  <2>2. /\ c \in Seq({"Stop", "Message"}) /\ Len(c) = Len(x.cmds) + 1
        /\ DOMAIN c = 1..(Len(x.cmds) + 1) /\ c[Len(x.cmds) + 1] = cmd
        /\ \A k \in DOMAIN x.cmds : c[k] = x.cmds[k] /\ k \in DOMAIN c
    BY InstanceFields
  <2> HIDE DEF y, c
  <2>3. Len(c) <= CommandCap
    BY <1>2, <2>2, InstanceFields, ConstantsAssumption
  <2>4. cmd \in Range(c) /\ ("Stop" \in Range(x.cmds) => "Stop" \in Range(c))
    <3>1. Len(x.cmds) + 1 \in DOMAIN c
      BY <2>2, InstanceFields
    <3>2. cmd \in Range(c)
      BY <3>1, <2>2 DEF Range
    <3>3. ASSUME "Stop" \in Range(x.cmds) PROVE "Stop" \in Range(c)
      BY <3>3, <2>2 DEF Range
    <3> QED
      BY <3>2, <3>3
  <2>5. y \in Instance /\ y.cmds = c /\ y.phase = x.phase /\ y.polling = x.polling
        /\ y.reason = x.reason /\ y.reported = x.reported /\ y.lost = x.lost /\ y.by = x.by
    BY <2>1, <2>2 DEF Instance
  <2>6. Sound(y)
    BY <2>3, <2>5 DEF Sound
  <2>7. (Ending(x) => Ending(y)) /\ (cmd = "Stop" => Ending(y))
    BY <2>4, <2>5 DEF Ending
  <2> QED
    BY <2>5, <2>6, <2>7 DEF Becoming, Alike, y
<1>3. CASE x.phase # "ended" /\ ~(Len(x.cmds) < CommandCap)
  <2>1. y = [x EXCEPT !.lost = (x.lost \/ cmd = "Stop")]
    BY <1>3 DEF TrySend
  <2> HIDE DEF y
  <2> DEFINE b == (x.lost \/ cmd = "Stop")
  <2>2. b \in BOOLEAN
    OBVIOUS
  <2>3. (x.lost => b) /\ (cmd = "Stop" => b)
    OBVIOUS
  <2>4. y = [x EXCEPT !.lost = b]
    BY <2>1
  <2> HIDE DEF b
  <2>5. y \in Instance /\ y.cmds = x.cmds /\ y.phase = x.phase /\ y.polling = x.polling
        /\ y.reason = x.reason /\ y.reported = x.reported /\ y.lost = b /\ y.by = x.by
    BY <2>2, <2>4 DEF Instance
  <2>6. Sound(y)
    BY <2>5 DEF Sound
  <2>7. (Ending(x) => Ending(y)) /\ (cmd = "Stop" => Ending(y))
    BY <2>3, <2>5 DEF Ending
  <2> QED
    BY <2>5, <2>6, <2>7 DEF Becoming, Alike, y
<1> QED
  BY <1>1, <1>2, <1>3

(* A step of an instance that the scheduler does not see.                  *)
LEMMA Unseen ==
    ASSUME IInv, NEW v \in Vms, NEW i \in DOMAIN inst[v], NEW y,
           Becoming(inst[v][i], y), Alike(inst[v][i], y),
           Touched(v, i, y), info' = info,
           sch' \in Scheduler, SameBooks(sch, sch'), effects' \in 0..MaxEffects, dead' = dead
    PROVE  IInv'
<1> DEFINE l == [inst[v] EXCEPT ![i] = y]
<1>1. Handles /\ sch \in Scheduler /\ Counted(sch) /\ dead \in BOOLEAN /\ y \in Instance
  BY DEF IInv, Becoming
<1>2. inst[v] \in Seq(Instance) /\ Len(inst[v]) \in Nat /\ DOMAIN inst[v] = 1..Len(inst[v])
  BY <1>1, ListFields
<1>3. /\ DOMAIN l = DOMAIN inst[v] /\ Len(l) = Len(inst[v]) /\ l[i] = y
      /\ \A j \in DOMAIN inst[v] \ {i} : l[j] = inst[v][j]
  BY <1>1, <1>2, Touch
<1> HIDE DEF l
<1>4. Counted(sch')
  BY <1>1, SameBooksKept
<1>5. ASSUME StartedOnce, InOrder
      PROVE  /\ ~dead' /\ Settles(sch, sch', v, States)
             /\ Single(l, sch'.tasks[v].state, Queued(sch', v))
  <2>1. Settles(sch, sch', v, States) /\ sch'.tasks[v] = sch.tasks[v]
        /\ (Queued(sch', v) <=> Queued(sch, v))
    BY <1>1, <1>5, SettlesItself DEF InOrder
  <2>2. Single(inst[v], sch'.tasks[v].state, Queued(sch', v))
    <3>1. Single(inst[v], sch.tasks[v].state, Queued(sch, v))
      BY <1>5 DEF InOrder, OneAtATime
    <3> QED
      BY <2>1, <3>1, GivenCore
  <2>3. \A j \in DOMAIN inst[v] : Alike(inst[v][j], l[j])
    BY <1>3 DEF Alike
  <2>4. inst[v] # << >> /\ l # << >> /\ Len(inst[v]) \in DOMAIN inst[v]
    BY <1>2, <1>3
  <2>5. Single(l, sch'.tasks[v].state, Queued(sch', v))
    BY <1>3, <2>2, <2>3, <2>4, SameSingle
  <2> QED
    BY <1>5, <2>1, <2>5 DEF InOrder
<1> QED
  BY <1>1, <1>4, <1>5, OneInstance DEF l

(* An instance that is not in the scheduler yet goes on or ends.           *)
LEMMA Offstage ==
    ASSUME IInv, NEW v \in Vms, NEW i \in DOMAIN inst[v], NEW y,
           inst[v][i].phase \in {"waiting", "starting"}, Becoming(inst[v][i], y),
           y.phase \in {"starting", "ended"}, ~y.polling,
           Touched(v, i, y), info' = info,
           sch' = sch, effects' = effects, dead' = dead
    PROVE  IInv'
<1> DEFINE l == [inst[v] EXCEPT ![i] = y]
<1>1. Handles /\ sch \in Scheduler /\ Counted(sch) /\ dead \in BOOLEAN /\ y \in Instance
      /\ effects \in 0..MaxEffects
  BY DEF IInv, Becoming
<1>2. inst[v] \in Seq(Instance) /\ \A j \in DOMAIN inst[v] : Sound(inst[v][j])
  BY <1>1, ListFields
<1>3. ASSUME StartedOnce, InOrder
      PROVE  /\ ~dead' /\ Settles(sch, sch', v, States)
             /\ Single(l, sch'.tasks[v].state, Queued(sch', v))
  <2>1. Single(inst[v], sch.tasks[v].state, Queued(sch, v)) /\ ~dead
    BY <1>3 DEF InOrder, OneAtATime
  <2>2. i = Len(inst[v]) /\ Newest(inst[v]) = inst[v][i] /\ inst[v] # << >>
    BY <1>2, <2>1, NotEnded
  <2>3. sch.tasks[v].state = "None" /\ ~Queued(sch, v)
    BY <2>1, <2>2 DEF Single
  <2>4. \A j \in DOMAIN inst[v] : Sound(inst[v][j])
                                  /\ (j < Len(inst[v]) => inst[v][j].phase = "ended")
    BY <1>2, <2>1 DEF Single
  <2>5. Single(l, sch.tasks[v].state, Queued(sch, v))
    BY <1>1, <1>2, <2>2, <2>3, <2>4, TouchSingle
  <2>6. Settles(sch, sch', v, States)
    BY <1>1, <1>3, SettlesItself DEF InOrder, SameBooks
  <2> QED
    BY <2>1, <2>5, <2>6
<1> HIDE DEF l
<1> QED
  BY <1>1, <1>3, OneInstance DEF l

-----------------------------------------------------------------------------
(* The task of an instance.                                                *)

(* A command for an instance that waits for the one before it keeps the    *)
(* invariant: only a Stop ends it.                                         *)
LEMMA CommandWhileWaitingKeeps ==
    ASSUME IInv, NEW v \in Vms, NEW i \in DOMAIN inst[v], CommandWhileWaiting(v, i)
    PROVE  IInv'
<1> DEFINE x == inst[v][i]
           y == IF Head(x.cmds) = "Stop"
                THEN [x EXCEPT !.cmds = << >>, !.phase = "ended", !.reason = "Final"]
                ELSE [x EXCEPT !.cmds = Tail(x.cmds), !.phase = "starting"]
<1>1. x \in Instance /\ Sound(x)
  BY ListFields DEF IInv
<1>2. x.phase = "waiting" /\ x.cmds # << >> /\ info' = info /\ sch' = sch
      /\ effects' = effects /\ dead' = dead
  BY DEF CommandWhileWaiting
<1>3. Touched(v, i, y)
  BY DEF CommandWhileWaiting, Touched
<1> HIDE DEF x
<1>4. x.cmds \in Seq({"Stop", "Message"}) /\ Len(x.cmds) <= CommandCap /\ ~x.polling /\ ~x.reported
      /\ x.polling \in BOOLEAN /\ x.reported \in BOOLEAN
  BY <1>1, <1>2, InstanceFields DEF Sound
<1>5. CASE Head(x.cmds) = "Stop"
  <2>1. y = [x EXCEPT !.cmds = << >>, !.phase = "ended", !.reason = "Final"]
    BY <1>5
  <2> HIDE DEF y
  <2>2. y \in Instance /\ y.cmds = << >> /\ y.phase = "ended" /\ y.by = x.by
        /\ y.polling = x.polling
    BY <1>1, <2>1, EmptyCommands DEF Instance, Phases, Reasons
  <2>3. Becoming(x, y) /\ y.phase \in {"starting", "ended"} /\ ~y.polling
    BY <1>4, <2>2, EmptyCommands DEF Becoming, Sound, Ending
  <2> QED
    BY <1>2, <1>3, <2>3, Offstage DEF x
<1>6. CASE Head(x.cmds) # "Stop"
  <2>1. y = [x EXCEPT !.cmds = Tail(x.cmds), !.phase = "starting"]
    BY <1>6
  <2> HIDE DEF y
  <2> DEFINE c == Tail(x.cmds)
  <2>2. c \in Seq({"Stop", "Message"}) /\ Len(c) <= CommandCap
        /\ ("Stop" \in Range(x.cmds) => "Stop" \in Range(c))
    BY <1>2, <1>4, <1>6, TailCommands
  <2>3. y = [x EXCEPT !.cmds = c, !.phase = "starting"]
    BY <2>1
  <2> HIDE DEF c
  <2>4. y \in Instance /\ y.cmds = c /\ y.phase = "starting" /\ y.by = x.by
        /\ y.polling = x.polling /\ y.reported = x.reported /\ y.lost = x.lost
    BY <1>1, <2>2, <2>3 DEF Instance, Phases
  <2>5. Becoming(x, y) /\ y.phase \in {"starting", "ended"} /\ ~y.polling
    BY <1>2, <1>4, <2>2, <2>4 DEF Becoming, Sound, Ending
  <2> QED
    BY <1>2, <1>3, <2>5, Offstage DEF x
<1> QED
  BY <1>5, <1>6

(* The end of the wait for the instance before keeps the invariant.        *)
LEMMA PreviousStoppedKeeps ==
    ASSUME IInv, NEW v \in Vms, NEW i \in DOMAIN inst[v], PreviousStopped(v, i)
    PROVE  IInv'
<1> DEFINE x == inst[v][i]
           y == [x EXCEPT !.phase = "starting"]
<1>1. x \in Instance /\ Sound(x)
  BY ListFields DEF IInv
<1>2. x.phase = "waiting" /\ info' = info /\ sch' = sch /\ effects' = effects /\ dead' = dead
  BY DEF PreviousStopped
<1>3. Touched(v, i, y)
  BY DEF PreviousStopped, Touched
<1> HIDE DEF x
<1>4. y \in Instance /\ y.cmds = x.cmds /\ y.phase = "starting" /\ y.by = x.by
      /\ y.polling = x.polling /\ y.reported = x.reported /\ y.lost = x.lost
  BY <1>1 DEF Instance, Phases
<1> HIDE DEF y
<1>5. Becoming(x, y) /\ y.phase \in {"starting", "ended"} /\ ~y.polling
  BY <1>1, <1>2, <1>4 DEF Becoming, Sound, Ending
<1> QED
  BY <1>2, <1>3, <1>5, Offstage DEF x

(* An instance in the scheduler leaves it, or enters it anew: exit.        *)
LEMMA Exits ==
    ASSUME IInv, NEW v \in Vms, NEW i \in DOMAIN inst[v], NEW y, NEW w,
           inst[v][i].phase \in {"starting", "live", "leaving"}, Becoming(inst[v][i], y),
           ~inst[v][i].polling, ~y.polling, y.phase \in {"live", "ended"},
           y.phase = "live" => inst[v][i].phase = "starting",
           y.phase = "ended" => inst[v][i].phase = "leaving" \/ y.reason = "Final",
           Touched(v, i, y), info' = info,
           w \in SUBSET (Vms \X Nat), sch' = WithWoken(Exit(sch, v), w),
           effects' = effects, dead' = dead
    PROVE  IInv'
<1> DEFINE l == [inst[v] EXCEPT ![i] = y]
           s == Exit(sch, v)
<1>1. Handles /\ sch \in Scheduler /\ Counted(sch) /\ dead \in BOOLEAN /\ y \in Instance
      /\ effects \in 0..MaxEffects
  BY DEF IInv, Becoming
<1>2. inst[v] \in Seq(Instance) /\ \A j \in DOMAIN inst[v] : Sound(inst[v][j])
  BY <1>1, ListFields
<1>3. /\ s \in Scheduler /\ Counted(s)
      /\ Exact(sch) /\ Busy(sch) => /\ Settles(sch, s, v, {"None"})
                                    /\ Queued(s, v) => Queued(sch, v)
  BY <1>1, ExitSettles
<1> HIDE DEF s
<1>4. sch' \in Scheduler /\ SameBooks(s, sch')
  BY <1>3, WokenOnly DEF s, WithWoken
<1>5. Counted(sch')
  BY <1>3, <1>4, SameBooksKept
<1>6. ASSUME StartedOnce, InOrder
      PROVE  /\ ~dead' /\ Settles(sch, sch', v, States)
             /\ Single(l, sch'.tasks[v].state, Queued(sch', v))
  <2>1. Single(inst[v], sch.tasks[v].state, Queued(sch, v)) /\ ~dead
    BY <1>6 DEF InOrder, OneAtATime
  <2>2. i = Len(inst[v]) /\ Newest(inst[v]) = inst[v][i] /\ inst[v] # << >>
    BY <1>2, <2>1, NotEnded
  <2>3. Settles(sch, s, v, {"None"}) /\ (Queued(s, v) => Queued(sch, v))
    BY <1>3, <1>6 DEF InOrder
  <2>4. /\ Exact(sch') /\ Busy(sch')
        /\ \A u \in Vms : sch'.tasks[u] = s.tasks[u] /\ (Queued(sch', u) <=> Queued(s, u))
    <3>1. Exact(s) /\ Busy(s)
      BY <2>3 DEF Settles
    <3> QED
      BY <1>4, <3>1, SameBooksKept
  <2>5. Settles(sch, sch', v, States) /\ sch'.tasks[v].state = "None"
    BY <2>3, <2>4 DEF Settles, States
  <2>6. \A j \in DOMAIN inst[v] : Sound(inst[v][j])
                                  /\ (j < Len(inst[v]) => inst[v][j].phase = "ended")
    BY <1>2, <2>1 DEF Single
  <2>7. ASSUME Queued(sch', v) PROVE y.phase = "ended" /\ y.reason = "Final"
    <3>1. Queued(sch, v)
      BY <2>3, <2>4, <2>7
    <3>2. sch.tasks[v].state \in {"Ready", "None"}
      BY <3>1, <1>6 DEF InOrder, Exact, Queued
    <3>3. sch.tasks[v].state = "Ready"
      BY <3>1, <3>2, <2>1, <2>2 DEF Single
    <3>4. inst[v][i].phase = "live"
      BY <3>3, <2>1, <2>2 DEF Single
    <3> QED
      BY <3>4
  <2>8. Single(l, sch'.tasks[v].state, Queued(sch', v))
    BY <1>1, <1>2, <2>2, <2>5, <2>6, <2>7, TouchSingle
  <2> QED
    BY <2>1, <2>5, <2>8
<1> HIDE DEF l
<1> QED
  BY <1>1, <1>4, <1>5, <1>6, OneInstance DEF l

(* The start of the guest program, or its failure, keeps the invariant.    *)
LEMMA InstantiateKeeps ==
    ASSUME IInv, NEW v \in Vms, NEW i \in DOMAIN inst[v], Instantiate(v, i)
    PROVE  IInv'
<1> DEFINE x == inst[v][i]
           up == [x EXCEPT !.phase = "live"]
           down == [x EXCEPT !.cmds = << >>, !.phase = "ended", !.reason = "Final"]
<1>1. x \in Instance /\ Sound(x) /\ sch \in Scheduler /\ Counted(sch)
  BY ListFields DEF IInv
<1>2. x.phase = "starting" /\ info' = info /\ effects' = effects /\ dead' = dead
  BY DEF Instantiate
<1>3. \/ /\ Touched(v, i, up)
         /\ sch' = [Exit(sch, v) EXCEPT !.woken = @ \cup {<<v, i>>}]
      \/ /\ Touched(v, i, down)
         /\ sch' = sch
  BY DEF Instantiate, Touched
<1>4. i \in Nat
  BY ListFields DEF IInv
<1> HIDE DEF x
<1>5. up \in Instance /\ up.cmds = x.cmds /\ up.phase = "live" /\ up.by = x.by
      /\ up.polling = x.polling /\ up.reported = x.reported /\ up.lost = x.lost
  BY <1>1 DEF Instance, Phases
<1>6. down \in Instance /\ down.cmds = << >> /\ down.phase = "ended" /\ down.by = x.by
      /\ down.polling = x.polling
  BY <1>1, EmptyCommands DEF Instance, Phases, Reasons
<1> HIDE DEF up, down
<1>7. Becoming(x, up) /\ Becoming(x, down) /\ ~x.polling /\ ~up.polling /\ ~down.polling
  BY <1>1, <1>2, <1>5, <1>6, EmptyCommands DEF Becoming, Sound, Ending
<1>8. CASE /\ Touched(v, i, up)
           /\ sch' = [Exit(sch, v) EXCEPT !.woken = @ \cup {<<v, i>>}]
  <2> DEFINE w == Exit(sch, v).woken \cup {<<v, i>>}
  <2>1. Exit(sch, v) \in Scheduler
    BY <1>1, ExitSettles
  <2>2. w \in SUBSET (Vms \X Nat)
    BY <1>4, <2>1, SchedulerFields
  <2>3. sch' = WithWoken(Exit(sch, v), w)
    BY <1>8 DEF WithWoken
  <2> HIDE DEF w
  <2> QED
    BY <1>2, <1>5, <1>7, <1>8, <2>2, <2>3, Exits DEF x
<1>9. CASE /\ Touched(v, i, down)
           /\ sch' = sch
  BY <1>2, <1>6, <1>7, <1>9, Offstage DEF x
<1> QED
  BY <1>3, <1>8, <1>9

(* An index of an instance is a number, so it can be woken.                *)
LEMMA Wakes ==
    ASSUME IInv, NEW v \in Vms, NEW i \in DOMAIN inst[v], NEW s \in Scheduler
    PROVE  /\ i \in Nat
           /\ s.woken \cup {<<v, i>>} \in SUBSET (Vms \X Nat)
           /\ s.woken \ {<<v, i>>} \in SUBSET (Vms \X Nat)
<1>1. i \in Nat
  BY ListFields DEF IInv
<1> QED
  BY <1>1, SchedulerFields

(* The task of an instance ends.                                           *)
LEMMA EndKeeps ==
    ASSUME IInv, NEW v \in Vms, NEW i \in DOMAIN inst[v], NEW reason \in Reasons,
           End(v, i, reason), ~inst[v][i].polling,
           \/ inst[v][i].phase = "leaving"
           \/ inst[v][i].phase = "live" /\ reason = "Final",
           info' = info, effects' = effects, dead' = dead
    PROVE  IInv'
<1> DEFINE x == inst[v][i]
           y == [x EXCEPT !.phase = "ended", !.reason = reason, !.cmds = << >>, !.lost = FALSE]
           w == Exit(sch, v).woken \ {<<v, i>>}
<1>1. x \in Instance /\ Sound(x) /\ sch \in Scheduler /\ Counted(sch)
  BY ListFields DEF IInv
<1>2. Touched(v, i, y)
  BY DEF End, Touched
<1>3. sch' = WithWoken(Exit(sch, v), w)
  BY DEF End, WithWoken
<1>4. Exit(sch, v) \in Scheduler
  BY <1>1, ExitSettles
<1>5. w \in SUBSET (Vms \X Nat)
  BY <1>4, Wakes
<1> HIDE DEF x, w
<1>6. y \in Instance /\ y.cmds = << >> /\ y.phase = "ended" /\ y.by = x.by
      /\ y.polling = x.polling /\ y.reason = reason
  BY <1>1, EmptyCommands DEF Instance, Phases
<1> HIDE DEF y
<1>7. Becoming(x, y)
  BY <1>1, <1>6, EmptyCommands DEF Becoming, Sound, Ending, x
<1> QED
  BY <1>2, <1>3, <1>5, <1>6, <1>7, Exits DEF x

(* Dropping an instance takes its task out of the scheduler and keeps the  *)
(* invariant.                                                              *)
LEMMA LeaveKeeps ==
    ASSUME IInv, NEW v \in Vms, NEW i \in DOMAIN inst[v], Leave(v, i)
    PROVE  IInv'
<1>1. inst[v][i] \in Instance /\ Sound(inst[v][i])
  BY ListFields DEF IInv
<1>2. inst[v][i].reason \in Reasons /\ ~inst[v][i].polling
  BY <1>1, InstanceFields DEF Sound, Leave
<1> QED
  BY <1>2, EndKeeps DEF Leave

(* A command for a live instance keeps the invariant.                      *)
LEMMA HandleCommandKeeps ==
    ASSUME IInv, NEW v \in Vms, NEW i \in DOMAIN inst[v], HandleCommand(v, i)
    PROVE  IInv'
<1> DEFINE x == inst[v][i]
           c == Tail(x.cmds)
           y == [x EXCEPT !.cmds = c]
<1>1. x \in Instance /\ Sound(x) /\ sch \in Scheduler /\ effects \in 0..MaxEffects
  BY ListFields DEF IInv
<1>2. /\ x.phase = "live" /\ ~x.polling /\ x.cmds # << >>
      /\ info' = info /\ effects' = effects /\ dead' = dead
  BY DEF HandleCommand
<1>3. CASE Head(x.cmds) = "Stop"
  <2>1. End(v, i, "Final")
    BY <1>3 DEF HandleCommand
  <2> QED
    BY <1>2, <2>1, EndKeeps DEF Reasons
<1>4. CASE Head(x.cmds) # "Stop"
  <2>1. Touched(v, i, y)
    BY <1>4 DEF HandleCommand, Touched
  <2>2. sch' = [sch EXCEPT !.woken = @ \cup {<<v, i>>}]
    BY <1>4 DEF HandleCommand
  <2>3. sch' \in Scheduler /\ SameBooks(sch, sch')
    BY <1>1, <2>2, Wakes, WokenOnly
  <2>4. c \in Seq({"Stop", "Message"}) /\ Len(c) <= CommandCap
        /\ ("Stop" \in Range(x.cmds) => "Stop" \in Range(c))
    <3>1. x.cmds \in Seq({"Stop", "Message"}) /\ Len(x.cmds) <= CommandCap
      BY <1>1, InstanceFields DEF Sound
    <3> QED
      BY <1>2, <1>4, <3>1, TailCommands
  <2> HIDE DEF x, c
  <2>5. y \in Instance /\ y.cmds = c /\ y.phase = x.phase /\ y.by = x.by
        /\ y.polling = x.polling /\ y.reported = x.reported /\ y.lost = x.lost
        /\ y.reason = x.reason
    BY <1>1, <2>4 DEF Instance
  <2> HIDE DEF y
  <2>6. Becoming(x, y) /\ Alike(x, y)
    BY <1>1, <2>4, <2>5 DEF Becoming, Sound, Ending, Alike
  <2> QED
    BY <1>1, <1>2, <2>1, <2>3, <2>6, Unseen DEF x
<1> QED
  BY <1>3, <1>4

(* The watcher that records the end of an instance keeps the invariant.    *)
LEMMA ReportKeeps ==
    ASSUME IInv, NEW v \in Vms, NEW i \in DOMAIN inst[v], Report(v, i)
    PROVE  IInv'
<1> DEFINE x == inst[v][i]
           y == [x EXCEPT !.reported = TRUE]
<1>1. x \in Instance /\ Sound(x) /\ sch \in Scheduler /\ effects \in 0..MaxEffects
  BY ListFields DEF IInv
<1>2. x.phase = "ended" /\ info' = info /\ effects' = effects /\ dead' = dead
      /\ sch' = sch /\ Touched(v, i, y)
  BY DEF Report, Touched
<1> HIDE DEF x
<1>3. y \in Instance /\ y.cmds = x.cmds /\ y.phase = x.phase /\ y.by = x.by
      /\ y.polling = x.polling /\ y.lost = x.lost /\ y.reason = x.reason
  BY <1>1 DEF Instance
<1> HIDE DEF y
<1>4. Becoming(x, y) /\ Alike(x, y)
  BY <1>1, <1>2, <1>3 DEF Becoming, Sound, Ending, Alike
<1>5. SameBooks(sch, sch') /\ sch' \in Scheduler
  BY <1>1, <1>2 DEF SameBooks
<1> QED
  BY <1>1, <1>2, <1>4, <1>5, Unseen DEF x

(* An instance is itself.                                                  *)
LEMMA Untouched ==
    ASSUME IInv, NEW v \in Vms, NEW i \in DOMAIN inst[v], inst' = inst
    PROVE  Touched(v, i, inst[v][i]) /\ Becoming(inst[v][i], inst[v][i])
           /\ Alike(inst[v][i], inst[v][i])
           /\ [inst[v] EXCEPT ![i] = inst[v][i]] = inst[v]
<1>1. Handles
  BY DEF IInv
<1>2. inst[v] \in Seq(Instance) /\ inst[v][i] \in Instance /\ Sound(inst[v][i])
  BY <1>1, ListFields
<1>3. [inst[v] EXCEPT ![i] = inst[v][i]] = inst[v]
  BY <1>2
<1>4. inst = [inst EXCEPT ![v] = inst[v]]
  BY <1>1 DEF Handles
<1> QED
  BY <1>2, <1>3, <1>4 DEF Touched, Becoming, Alike

(* An event that wakes a guest keeps the invariant.                        *)
LEMMA GuestEventKeeps ==
    ASSUME IInv, NEW v \in Vms, NEW i \in DOMAIN inst[v], GuestEvent(v, i)
    PROVE  IInv'
<1>1. sch \in Scheduler /\ effects \in 0..MaxEffects
  BY DEF IInv
<1>2. /\ info' = info /\ effects' = effects /\ dead' = dead /\ inst' = inst
      /\ sch' = [sch EXCEPT !.woken = @ \cup {<<v, i>>}]
  BY DEF GuestEvent
<1>3. sch' \in Scheduler /\ SameBooks(sch, sch')
  BY <1>1, <1>2, Wakes, WokenOnly
<1>4. Touched(v, i, inst[v][i]) /\ Becoming(inst[v][i], inst[v][i])
      /\ Alike(inst[v][i], inst[v][i])
  BY <1>2, Untouched
<1> QED
  BY <1>1, <1>2, <1>3, <1>4, Unseen

(* The scheduler changes the task of a live instance that is not polled.   *)
LEMMA TaskMoves ==
    ASSUME IInv, NEW v \in Vms, NEW i \in DOMAIN inst[v], inst' = inst, info' = info,
           inst[v][i].phase = "live",
           sch' \in Scheduler, Counted(sch'), effects' = effects, dead' = dead,
           sch.tasks[v].state # "Running",
           StartedOnce /\ InOrder => Settles(sch, sch', v, {"Ready", "ToRun"})
    PROVE  IInv'
<1>1. Handles /\ effects \in 0..MaxEffects /\ dead \in BOOLEAN
  BY DEF IInv
<1>2. inst[v] \in Seq(Instance)
  BY <1>1, ListFields
<1>3. /\ Touched(v, i, inst[v][i]) /\ Becoming(inst[v][i], inst[v][i])
      /\ [inst[v] EXCEPT ![i] = inst[v][i]] = inst[v]
  BY Untouched
<1>4. ASSUME StartedOnce, InOrder
      PROVE  /\ ~dead' /\ Settles(sch, sch', v, States)
             /\ Single(inst[v], sch'.tasks[v].state, Queued(sch', v))
  <2>1. Single(inst[v], sch.tasks[v].state, Queued(sch, v)) /\ ~dead
    BY <1>4 DEF InOrder, OneAtATime
  <2>2. Newest(inst[v]) = inst[v][i] /\ inst[v] # << >>
    BY <1>2, <2>1, NotEnded
  <2>3. Settles(sch, sch', v, {"Ready", "ToRun"})
    BY <1>4
  <2>4. sch'.tasks[v].state \in {"Ready", "ToRun"} /\ Settles(sch, sch', v, States)
    BY <2>3 DEF Settles, States
  <2>5. Single(inst[v], sch'.tasks[v].state, Queued(sch', v))
    BY <2>1, <2>2, <2>4 DEF Single
  <2> QED
    BY <2>1, <2>4, <2>5
<1>5. StartedOnce /\ InOrder =>
          /\ ~dead' /\ Settles(sch, sch', v, States)
          /\ Single([inst[v] EXCEPT ![i] = inst[v][i]], sch'.tasks[v].state, Queued(sch', v))
  BY <1>3, <1>4
<1> QED
  BY <1>1, <1>3, <1>5, OneInstance

(* Without overlapping instances a live instance is polled exactly when    *)
(* its task runs.                                                          *)
LEMMA LivePolling ==
    ASSUME IInv, StartedOnce, InOrder, NEW v \in Vms, NEW i \in DOMAIN inst[v],
           inst[v][i].phase = "live"
    PROVE  /\ sch.tasks[v].state = "Running" <=> inst[v][i].polling
           /\ sch.tasks[v].state = "None" => ~Queued(sch, v)
           /\ i = Len(inst[v]) /\ inst[v] # << >>
           /\ \A j \in DOMAIN inst[v] : Sound(inst[v][j])
                                        /\ (j < Len(inst[v]) => inst[v][j].phase = "ended")
<1>1. inst[v] \in Seq(Instance) /\ Len(inst[v]) \in Nat /\ DOMAIN inst[v] = 1..Len(inst[v])
      /\ \A j \in DOMAIN inst[v] : Sound(inst[v][j])
  BY ListFields DEF IInv
<1>2. Single(inst[v], sch.tasks[v].state, Queued(sch, v))
  BY DEF InOrder, OneAtATime
<1>3. i = Len(inst[v]) /\ Newest(inst[v]) = inst[v][i] /\ inst[v] # << >>
  BY <1>1, <1>2, NotEnded
<1>4. \A j \in DOMAIN inst[v] : inst[v][j].polling => j = i
  BY <1>1, <1>2, <1>3 DEF Single, Sound
<1> QED
  BY <1>1, <1>2, <1>3, <1>4 DEF Single

(* poll_resume keeps the invariant; without overlapping instances its      *)
(* assertion holds.                                                        *)
LEMMA PollResumeKeeps ==
    ASSUME IInv, NEW v \in Vms, NEW i \in DOMAIN inst[v], PollResume(v, i)
    PROVE  IInv'
<1> DEFINE x == inst[v][i]
<1>1. x \in Instance /\ Sound(x) /\ sch \in Scheduler /\ effects \in 0..MaxEffects
      /\ Counted(sch) /\ dead \in BOOLEAN
  BY ListFields DEF IInv
<1>2. x.phase = "live" /\ ~x.polling /\ info' = info /\ effects' = effects
  BY DEF PollResume
<1>3. i \in Nat /\ sch.woken \ {<<v, i>>} \in SUBSET (Vms \X Nat)
  BY <1>1, Wakes
<1>4. CASE /\ sch.tasks[v].state \in {"None", "Idle"}
           /\ sch' = BecomeReady(sch, v, i)
           /\ UNCHANGED <<inst, dead>>
  <2>1. sch' \in Scheduler /\ Counted(sch')
        /\ (Exact(sch) /\ ~Queued(sch, v) => Settles(sch, sch', v, {"Ready", "ToRun"}))
    BY <1>1, <1>3, <1>4, BecomeReadySettles
  <2>2. ASSUME StartedOnce, InOrder PROVE Settles(sch, sch', v, {"Ready", "ToRun"})
    <3>1. Exact(sch) /\ (sch.tasks[v].state = "None" => ~Queued(sch, v))
      BY <2>2, <1>2, LivePolling DEF InOrder
    <3>2. sch.tasks[v].state = "Idle" => ~Queued(sch, v)
      BY <3>1 DEF Exact, Queued
    <3> QED
      BY <1>4, <2>1, <3>1, <3>2
  <2>3. inst' = inst /\ dead' = dead /\ sch.tasks[v].state # "Running"
    BY <1>4
  <2> QED
    BY <1>2, <2>1, <2>2, <2>3, TaskMoves
<1>5. CASE /\ sch.tasks[v].state = "Ready"
           /\ sch' = RefreshWaker(sch, v, i)
           /\ UNCHANGED <<inst, dead>>
  <2>1. /\ sch' \in Scheduler /\ Counted(sch') /\ sch'.tasks = sch.tasks
        /\ (Exact(sch) => Exact(sch')) /\ (Busy(sch) => Busy(sch'))
        /\ \A u \in Vms : Queued(sch', u) => Queued(sch, u)
    BY <1>1, <1>3, <1>5, RefreshWakerKeeps
  <2>2. ASSUME StartedOnce, InOrder PROVE Settles(sch, sch', v, {"Ready", "ToRun"})
    BY <1>5, <2>1, <2>2 DEF Settles, InOrder
  <2>3. inst' = inst /\ dead' = dead /\ sch.tasks[v].state # "Running"
    BY <1>5
  <2> QED
    BY <1>2, <2>1, <2>2, <2>3, TaskMoves
<1>6. CASE /\ sch.tasks[v].state = "ToRun"
           /\ sch' = [sch EXCEPT !.tasks[v].state = "Running", !.woken = @ \ {<<v, i>>}]
           /\ inst' = [inst EXCEPT ![v][i].polling = TRUE]
           /\ UNCHANGED dead
  <2> DEFINE y == [x EXCEPT !.polling = TRUE]
  <2>1. Touched(v, i, y)
    BY <1>6 DEF Touched
  <2>2. /\ sch' \in Scheduler /\ Counted(sch')
        /\ Exact(sch) /\ Busy(sch) => Settles(sch, sch', v, {"Running"})
    BY <1>1, <1>3, <1>6, RunSettles
  <2> HIDE DEF x
  <2>3. y \in Instance /\ y.cmds = x.cmds /\ y.phase = x.phase /\ y.by = x.by
        /\ y.polling = TRUE /\ y.lost = x.lost /\ y.reason = x.reason
        /\ y.reported = x.reported
    BY <1>1 DEF Instance
  <2> HIDE DEF y
  <2>4. Becoming(x, y)
    BY <1>1, <1>2, <2>3 DEF Becoming, Sound, Ending
  <2>5. ASSUME StartedOnce, InOrder
        PROVE  /\ ~dead' /\ Settles(sch, sch', v, States)
               /\ Single([inst[v] EXCEPT ![i] = y], sch'.tasks[v].state, Queued(sch', v))
    <3>1. Settles(sch, sch', v, {"Running"})
      BY <2>2, <2>5 DEF InOrder
    <3>2. sch'.tasks[v].state = "Running" /\ Settles(sch, sch', v, States)
      BY <3>1 DEF Settles, States
    <3>3. /\ i = Len(inst[v]) /\ inst[v] # << >> /\ inst[v] \in Seq(Instance)
          /\ \A j \in DOMAIN inst[v] : Sound(inst[v][j])
                                       /\ (j < Len(inst[v]) => inst[v][j].phase = "ended")
      BY <2>5, <1>2, LivePolling, ListFields DEF IInv, x
    <3>4. Single([inst[v] EXCEPT ![i] = y], sch'.tasks[v].state, Queued(sch', v))
      BY <1>2, <2>3, <3>2, <3>3, TouchSingle
    <3> QED
      BY <1>6, <2>5, <3>2, <3>4 DEF InOrder
  <2> QED
    BY <1>1, <1>2, <1>6, <2>1, <2>2, <2>4, <2>5, OneInstance DEF x
<1>7. CASE /\ sch.tasks[v].state = "Running"
           /\ dead' = TRUE
           /\ UNCHANGED <<inst, sch>>
  <2>1. ~(StartedOnce /\ InOrder)
    BY <1>2, <1>7, LivePolling
  <2>2. Touched(v, i, x) /\ Becoming(x, x)
    BY <1>7, Untouched
  <2>3. sch' \in Scheduler /\ Counted(sch') /\ dead' \in BOOLEAN /\ effects' \in 0..MaxEffects
    BY <1>1, <1>2, <1>7
  <2> QED
    BY <1>2, <2>1, <2>2, <2>3, OneInstance
<1> QED
  BY <1>4, <1>5, <1>6, <1>7 DEF PollResume

(* The end of a poll parks the task and keeps the invariant; without       *)
(* overlapping instances the assertion of park holds.                      *)
LEMMA FinishPollKeeps ==
    ASSUME IInv, NEW v \in Vms, NEW i \in DOMAIN inst[v],
           NEW outcome \in {"pending", "more", "Final", "Panicked"}, FinishPoll(v, i, outcome)
    PROVE  IInv'
<1> DEFINE x == inst[v][i]
           s == IF outcome = "more" THEN [sch EXCEPT !.woken = @ \cup {<<v, i>>}] ELSE sch
           y == IF outcome \in {"Final", "Panicked"}
                THEN [x EXCEPT !.polling = FALSE, !.phase = "leaving", !.reason = outcome]
                ELSE [x EXCEPT !.polling = FALSE]
<1>1. x \in Instance /\ Sound(x) /\ sch \in Scheduler /\ effects \in 0..MaxEffects
      /\ Counted(sch) /\ dead \in BOOLEAN
  BY ListFields DEF IInv
<1>2. x.polling /\ info' = info /\ effects' = effects /\ Touched(v, i, y)
  BY DEF FinishPoll, Touched
<1>3. x.phase = "live" /\ ~x.reported
  BY <1>1, <1>2 DEF Sound
<1>4. \/ sch.tasks[v].state = "None" /\ sch' = s /\ dead' = dead
      \/ sch.tasks[v].state = "Running" /\ sch' = Park(s, v, 1) /\ dead' = dead
      \/ sch.tasks[v].state \notin {"None", "Running"} /\ dead' = TRUE /\ sch' = sch
  BY DEF FinishPoll
<1>5. s \in Scheduler /\ SameBooks(sch, s)
  <2>1. CASE outcome = "more"
    <3>1. s = WithWoken(sch, sch.woken \cup {<<v, i>>})
      BY <2>1 DEF WithWoken
    <3> QED
      BY <3>1, <1>1, Wakes, WokenOnly DEF WithWoken
  <2>2. CASE outcome # "more"
    BY <2>2, <1>1 DEF SameBooks
  <2> QED
    BY <2>1, <2>2
<1> HIDE DEF x, s
<1>6. y \in Instance /\ y.cmds = x.cmds /\ y.by = x.by /\ ~y.polling /\ y.lost = x.lost
      /\ y.reported = x.reported /\ y.phase \in {"live", "leaving"}
  <2>1. CASE outcome \in {"Final", "Panicked"}
    BY <2>1, <1>1 DEF Instance, Phases, Reasons
  <2>2. CASE outcome \notin {"Final", "Panicked"}
    BY <2>2, <1>1, <1>3 DEF Instance
  <2> QED
    BY <2>1, <2>2
<1> HIDE DEF y
<1>7. Becoming(x, y)
  BY <1>1, <1>3, <1>6 DEF Becoming, Sound, Ending
<1>8. /\ Counted(s) /\ (Exact(sch) => Exact(s))
      /\ \A u \in Vms : s.tasks[u] = sch.tasks[u] /\ (Queued(s, u) <=> Queued(sch, u))
  BY <1>1, <1>5, SameBooksKept
<1>9. sch' \in Scheduler /\ Counted(sch') /\ dead' \in BOOLEAN
  <2>1. CASE sch.tasks[v].state = "Running" /\ sch' = Park(s, v, 1) /\ dead' = dead
    BY <2>1, <1>1, <1>5, <1>8, ParkSettles
  <2> QED
    BY <1>1, <1>4, <1>5, <1>8, <2>1
<1>10. ASSUME StartedOnce, InOrder
       PROVE  /\ ~dead' /\ Settles(sch, sch', v, States)
              /\ Single([inst[v] EXCEPT ![i] = y], sch'.tasks[v].state, Queued(sch', v))
  <2>1. /\ sch.tasks[v].state = "Running" /\ i = Len(inst[v]) /\ inst[v] # << >>
        /\ \A j \in DOMAIN inst[v] : Sound(inst[v][j])
                                     /\ (j < Len(inst[v]) => inst[v][j].phase = "ended")
    BY <1>2, <1>3, <1>10, LivePolling DEF x
  <2>2. sch' = Park(s, v, 1) /\ dead' = dead /\ ~dead
    BY <1>4, <1>10, <2>1 DEF InOrder
  <2>3. Settles(s, sch', v, {"Idle"})
    BY <1>5, <1>8, <1>10, <2>1, <2>2, ParkSettles DEF InOrder
  <2>4. Settles(sch, sch', v, States) /\ sch'.tasks[v].state = "Idle"
    BY <1>8, <2>3 DEF Settles, States
  <2>5. inst[v] \in Seq(Instance)
    BY ListFields DEF IInv
  <2>6. Single([inst[v] EXCEPT ![i] = y], sch'.tasks[v].state, Queued(sch', v))
    BY <1>6, <2>1, <2>4, <2>5, TouchSingle
  <2> QED
    BY <2>2, <2>4, <2>6
<1> QED
  BY <1>1, <1>2, <1>7, <1>9, <1>10, OneInstance DEF x

(* The process ends and starts from a checkpoint.                          *)
LEMMA RestartProcessKeeps ==
    ASSUME IInv, ~dead, RestartProcess
    PROVE  IInv'
<1> DEFINE y(v, i) == [inst[v][i] EXCEPT
               !.phase = "ended", !.cmds = << >>, !.polling = FALSE, !.reported = TRUE,
               !.reason = IF inst[v][i].reported THEN inst[v][i].reason ELSE "Restore"]
<1>1. Handles /\ effects \in 0..MaxEffects /\ dead \in BOOLEAN
  BY DEF IInv
<1>2. /\ effects < MaxEffects /\ effects' = effects + 1 /\ sch' = NewScheduler
      /\ info' = info /\ dead' = dead
      /\ inst' = [v \in Vms |-> [i \in DOMAIN inst[v] |-> y(v, i)]]
  BY DEF RestartProcess
<1>3. ASSUME NEW v \in Vms, NEW i \in DOMAIN inst[v]
      PROVE  /\ y(v, i) \in Instance /\ y(v, i).phase = "ended" /\ y(v, i).cmds = << >>
             /\ ~y(v, i).polling /\ y(v, i).by = inst[v][i].by
  <2> DEFINE x == inst[v][i]
             r == IF x.reported THEN x.reason ELSE "Restore"
             z == [x EXCEPT !.phase = "ended", !.cmds = << >>, !.polling = FALSE,
                            !.reported = TRUE, !.reason = r]
  <2>1. x \in Instance
    BY <1>1, ListFields
  <2>2. r \in Reasons
    BY <2>1, InstanceFields DEF Reasons
  <2> HIDE DEF x, r
  <2>3. z \in Instance /\ z.phase = "ended" /\ z.cmds = << >> /\ ~z.polling /\ z.by = x.by
    BY <2>1, <2>2, EmptyCommands DEF Instance, Phases
  <2>4. z = y(v, i)
    BY DEF x, r
  <2> HIDE DEF y, z
  <2> QED
    BY <2>3, <2>4 DEF x
<1>4. ASSUME NEW v \in Vms
      PROVE  /\ inst'[v] \in Seq(Instance) /\ Len(inst'[v]) = Len(inst[v])
             /\ DOMAIN inst'[v] = DOMAIN inst[v]
             /\ \A i \in DOMAIN inst[v] : inst'[v][i] = y(v, i)
  <2> HIDE DEF y
  <2>1. inst'[v] = [i \in DOMAIN inst[v] |-> y(v, i)]
    BY <1>2
  <2>2. Len(inst[v]) \in Nat /\ DOMAIN inst[v] = 1..Len(inst[v])
    BY <1>1, ListFields
  <2> QED
    BY <2>1, <2>2, <1>3
<1>5. \A v \in Vms : \A i \in DOMAIN inst'[v] :
          /\ inst'[v][i].phase = "ended" /\ ~inst'[v][i].polling /\ Sound(inst'[v][i])
          /\ inst'[v][i].by = inst[v][i].by
  <2> SUFFICES ASSUME NEW v \in Vms, NEW i \in DOMAIN inst'[v]
               PROVE  /\ inst'[v][i].phase = "ended" /\ ~inst'[v][i].polling
                      /\ Sound(inst'[v][i]) /\ inst'[v][i].by = inst[v][i].by
    OBVIOUS
  <2> HIDE DEF y
  <2>1. i \in DOMAIN inst[v] /\ inst'[v][i] = y(v, i)
    BY <1>4
  <2> QED
    BY <2>1, <1>3, EmptyCommands DEF Sound
<1> HIDE DEF y
<1>6. Handles'
  <2>1. inst' \in [Vms -> Seq(Instance)]
    BY <1>2, <1>4
  <2>2. ASSUME NEW v \in Vms PROVE Handled(v, inst'[v], info'[v])
    <3>1. Handled(v, inst[v], info[v]) /\ Len(inst[v]) \in Nat /\ inst[v] \in Seq(Instance)
      BY <1>1, ListFields
    <3>2. inst[v] # << >> => inst'[v] # << >>
      BY <3>1, <1>4, EmptySeq
    <3> QED
      BY <3>1, <3>2, <1>2, <1>4, <1>5 DEF Handled, Ending
  <2> QED
    BY <1>1, <1>2, <2>1, <2>2 DEF Handles
<1>7. InOrder'
  <2>1. ASSUME NEW v \in Vms PROVE OneAtATime(v)'
    <3>1. sch'.tasks[v].state = "None" /\ ~Queued(sch', v)
      BY <1>2, NewSchedulerOK
    <3>2. Single(inst'[v], sch'.tasks[v].state, Queued(sch', v))
      <4>1. inst'[v] # << >> => Newest(inst'[v]).phase = "ended"
        <5>1. inst'[v] \in Seq(Instance)
          BY <1>4
        <5>2. inst'[v] # << >> => Len(inst'[v]) \in DOMAIN inst'[v]
          BY <5>1, EmptySeq
        <5> QED
          BY <5>2, <1>5 DEF Newest
      <4> QED
        BY <3>1, <4>1, <1>5 DEF Single
    <3> QED
      BY <3>2 DEF OneAtATime
  <2> QED
    BY <1>2, <2>1, NewSchedulerOK DEF InOrder
<1>8. sch' \in Scheduler /\ Counted(sch') /\ effects' \in 0..MaxEffects /\ dead' \in BOOLEAN
  BY <1>1, <1>2, NewSchedulerOK, ConstantsAssumption
<1> QED
  BY <1>6, <1>7, <1>8 DEF IInv

-----------------------------------------------------------------------------
(* Effects and restarts.                                                   *)

(* The instance of a handle that says Running.                             *)
LEMMA RunningInstance ==
    ASSUME Handles, NEW v \in Vms
    PROVE  /\ HandleRunning(v) => info[v].at \in DOMAIN inst[v] /\ info[v].at = Len(inst[v])
           /\ \A i \in DOMAIN inst[v] : Ending(inst[v][i]) \/ (HandleRunning(v) /\ info[v].at = i)
<1>1. inst[v] \in Seq(Instance) /\ Len(inst[v]) \in Nat /\ DOMAIN inst[v] = 1..Len(inst[v])
      /\ (\A i \in DOMAIN inst[v] : Sound(inst[v][i])) /\ Handled(v, inst[v], info[v])
  BY ListFields
<1>2. HandleRunning(v) => info[v].at \in DOMAIN inst[v] /\ info[v].at = Len(inst[v])
  BY <1>1, EmptySeq DEF HandleRunning, Handled
<1>3. ASSUME NEW i \in DOMAIN inst[v]
      PROVE  Ending(inst[v][i]) \/ (HandleRunning(v) /\ info[v].at = i)
  BY <1>1 DEF Handled, HandleRunning, Sound, Ending
<1> QED
  BY <1>2, <1>3

(* A command to the instance of a handle.                                  *)
TellsList(v, m, cmd) ==
    /\ m \in Seq(Instance) /\ Len(m) = Len(inst[v]) /\ DOMAIN m = DOMAIN inst[v]
    /\ \A i \in DOMAIN inst[v] : /\ Becoming(inst[v][i], m[i]) /\ Alike(inst[v][i], m[i])
                                 /\ cmd = "Stop" => Ending(m[i])

(* A command to the instance of the handle leaves the list of instances    *)
(* well formed.                                                            *)
LEMMA ToldList ==
    ASSUME Handles, NEW v \in Vms, NEW cmd \in {"Stop", "Message"}
    PROVE  TellsList(v, Told(v, cmd), cmd)
<1>1. inst[v] \in Seq(Instance)
      /\ \A i \in DOMAIN inst[v] : inst[v][i] \in Instance /\ Sound(inst[v][i])
  BY ListFields
<1>2. \A i \in DOMAIN inst[v] : Becoming(inst[v][i], inst[v][i]) /\ Alike(inst[v][i], inst[v][i])
  BY <1>1 DEF Becoming, Alike
<1>3. CASE HandleRunning(v)
  <2> DEFINE k == info[v].at
             y == TrySend(inst[v][k], cmd)
             m == [inst[v] EXCEPT ![k] = y]
  <2>1. k \in DOMAIN inst[v]
    BY <1>3, RunningInstance
  <2>2. Becoming(inst[v][k], y) /\ Alike(inst[v][k], y) /\ (cmd = "Stop" => Ending(y))
    BY <1>1, <2>1, TrySendBecoming
  <2>3. Told(v, cmd) = m
    BY <1>3 DEF Told
  <2> HIDE DEF k, y
  <2>4. /\ m \in Seq(Instance) /\ Len(m) = Len(inst[v]) /\ DOMAIN m = DOMAIN inst[v]
        /\ m[k] = y /\ \A j \in DOMAIN inst[v] \ {k} : m[j] = inst[v][j]
    BY <1>1, <2>1, <2>2, Touch DEF Becoming
  <2> HIDE DEF m
  <2>5. ASSUME NEW i \in DOMAIN inst[v]
        PROVE  /\ Becoming(inst[v][i], m[i]) /\ Alike(inst[v][i], m[i])
               /\ cmd = "Stop" => Ending(m[i])
    <3>1. CASE i = k
      BY <3>1, <2>2, <2>4
    <3>2. CASE i # k
      <4>1. Ending(inst[v][i])
        BY <3>2, RunningInstance DEF k
      <4> QED
        BY <3>2, <4>1, <1>2, <2>4
    <3> QED
      BY <3>1, <3>2
  <2> QED
    BY <2>3, <2>4, <2>5 DEF TellsList
<1>4. CASE ~HandleRunning(v)
  <2>1. Told(v, cmd) = inst[v]
    BY <1>4 DEF Told
  <2>2. \A i \in DOMAIN inst[v] : Ending(inst[v][i])
    BY <1>4, RunningInstance
  <2> QED
    BY <1>1, <1>2, <2>1, <2>2 DEF TellsList
<1> QED
  BY <1>3, <1>4

(* A list of instances that was told something is as good to the scheduler. *)
LEMMA ToldSingle ==
    ASSUME IInv, NEW v \in Vms, NEW m, NEW cmd, TellsList(v, m, cmd), StartedOnce, InOrder
    PROVE  Single(m, sch.tasks[v].state, Queued(sch, v))
<1>1. inst[v] \in Seq(Instance) /\ Len(inst[v]) \in Nat /\ DOMAIN inst[v] = 1..Len(inst[v])
  BY ListFields DEF IInv
<1>2. Single(inst[v], sch.tasks[v].state, Queued(sch, v))
  BY DEF InOrder, OneAtATime
<1>3. /\ inst[v] # << >> => m # << >> /\ Len(inst[v]) \in DOMAIN inst[v]
      /\ m # << >> => inst[v] # << >>
  BY <1>1, EmptySeq DEF TellsList
<1> QED
  BY <1>2, <1>3, SameSingle DEF TellsList

(* Effects that do not touch the scheduler: what it has to do with them.   *)
LEMMA EffectStep ==
    ASSUME IInv, NEW v \in Vms, NEW l \in Seq(Instance), NEW h \in Handle,
           inst' = [inst EXCEPT ![v] = l], info' = [info EXCEPT ![v] = h],
           Handled(v, l, h), Len(inst[v]) <= Len(l),
           \A i \in DOMAIN inst[v] : l[i].by = inst[v][i].by,
           sch' = sch, effects' \in 0..MaxEffects, dead' = dead,
           StartedOnce /\ StartedOnce' /\ InOrder =>
               Single(l, sch.tasks[v].state, Queued(sch, v))
    PROVE  IInv'
<1>1. sch \in Scheduler /\ Counted(sch) /\ dead \in BOOLEAN
  BY DEF IInv
<1>2. ASSUME StartedOnce, StartedOnce', InOrder
      PROVE  /\ ~dead' /\ Settles(sch, sch', v, States)
             /\ Single(l, sch'.tasks[v].state, Queued(sch', v))
  <2>1. Settles(sch, sch', v, States)
    BY <1>1, <1>2, SettlesItself DEF InOrder, SameBooks
  <2> QED
    BY <1>2, <2>1 DEF InOrder
<1> QED
  BY <1>1, <1>2, OneVm

(* Stop and messages.                                                      *)
LEMMA TellKeeps ==
    ASSUME IInv, NEW v \in Vms, NEW cmd \in {"Stop", "Message"},
           inst' = [inst EXCEPT ![v] = Told(v, cmd)], info' = info,
           sch' = sch, effects' \in 0..MaxEffects, dead' = dead
    PROVE  IInv'
<1> DEFINE m == Told(v, cmd)
<1>1. Handles
  BY DEF IInv
<1>2. TellsList(v, m, cmd)
  BY <1>1, ToldList
<1>3. inst' = [inst EXCEPT ![v] = m]
  OBVIOUS
<1> HIDE DEF m
<1>4. /\ Handled(v, inst[v], info[v]) /\ info[v] \in Handle /\ Len(inst[v]) \in Nat
      /\ inst[v] \in Seq(Instance)
  BY <1>1, ListFields
<1>5. Handled(v, m, info[v])
  <2>1. inst[v] # << >> => m # << >>
    BY <1>2, <1>4, EmptySeq DEF TellsList
  <2> QED
    BY <1>2, <1>4, <2>1 DEF Handled, TellsList, Becoming
<1>6. /\ Len(inst[v]) <= Len(m) /\ m \in Seq(Instance)
      /\ \A i \in DOMAIN inst[v] : m[i].by = inst[v][i].by
  BY <1>2, <1>4 DEF TellsList, Becoming
<1>7. info' = [info EXCEPT ![v] = info[v]]
  BY <1>1 DEF Handles
<1>8. StartedOnce /\ InOrder => Single(m, sch.tasks[v].state, Queued(sch, v))
  BY <1>2, ToldSingle
<1> QED
  BY <1>3, <1>4, <1>5, <1>6, <1>7, <1>8, EffectStep

(* A new instance of a contract, after others that have all ended.         *)
LEMMA AppendSingle ==
    ASSUME NEW m \in Seq(Instance), NEW x \in Instance, ~x.polling,
           x.phase \in {"waiting", "starting"},
           \A i \in DOMAIN m : m[i].phase = "ended" /\ Sound(m[i]),
           NEW state, state = "None", NEW queued, ~queued
    PROVE  Single(Append(m, x), state, queued)
<1> DEFINE l == Append(m, x)
<1>1. /\ Len(m) \in Nat /\ DOMAIN m = 1..Len(m) /\ Len(l) = Len(m) + 1
      /\ DOMAIN l = 1..(Len(m) + 1)
      /\ l[Len(m) + 1] = x /\ \A i \in 1..Len(m) : l[i] = m[i]
  OBVIOUS
<1> HIDE DEF l
<1>2. \A i \in DOMAIN l : i = Len(m) + 1 \/ i \in DOMAIN m
  BY <1>1
<1>3. \A i \in DOMAIN l : ~l[i].polling /\ (i < Len(l) => l[i].phase = "ended")
  BY <1>1, <1>2 DEF Sound
<1>4. Newest(l) = x
  BY <1>1 DEF Newest
<1> QED
  BY <1>3, <1>4 DEF Single, l

(* A new instance is well formed and is not polled.                        *)
LEMMA NewInstanceType ==
    ASSUME NEW prev \in Nat, NEW by \in {"effect", "restart"}
    PROVE  LET x == NewInstance(prev, by)
           IN  /\ x \in Instance /\ Sound(x) /\ ~x.polling /\ x.by = by
               /\ x.phase \in {"waiting", "starting"}
<1> DEFINE x == NewInstance(prev, by)
<1>1. /\ x \in Instance /\ x.polling = FALSE /\ x.by = by /\ x.cmds = << >>
      /\ x.phase \in {"waiting", "starting"} /\ x.reported = FALSE
  BY EmptyCommands DEF NewInstance, Instance, Phases, Reasons
<1> HIDE DEF x
<1>2. Sound(x)
  BY <1>1, EmptyCommands DEF Sound
<1> QED
  BY <1>1, <1>2 DEF x

(* A new instance is started while all others are about to end.            *)
LEMMA LaunchKeeps ==
    ASSUME IInv, NEW v \in Vms, NEW m, TellsList(v, m, "Stop"), Len(m) < MaxStarts[v],
           NEW prev \in Nat, NEW by \in {"effect", "restart"}, NEW h \in Handle,
           inst' = [inst EXCEPT ![v] = Append(m, NewInstance(prev, by))],
           info' = [info EXCEPT ![v] = h], h.kind = "instance", h.at = Len(m) + 1,
           by = "restart" => /\ inst[v] # << >> /\ Newest(inst[v]).phase = "ended"
                             /\ Newest(inst[v]).reason # "Final",
           sch' = sch, effects' \in 0..MaxEffects, dead' = dead
    PROVE  IInv'
<1> DEFINE x == NewInstance(prev, by)
           l == Append(m, x)
<1>1. Handles
  BY DEF IInv
<1>2. x \in Instance /\ Sound(x) /\ ~x.polling /\ x.by = by /\ x.phase \in {"waiting", "starting"}
  BY NewInstanceType
<1>3. /\ inst[v] \in Seq(Instance) /\ Len(inst[v]) \in Nat /\ DOMAIN inst[v] = 1..Len(inst[v])
      /\ MaxStarts[v] \in Nat
  BY <1>1, ListFields, ConstantsAssumption
<1>4. m \in Seq(Instance) /\ Len(m) = Len(inst[v]) /\ DOMAIN m = DOMAIN inst[v]
      /\ \A i \in DOMAIN m : /\ Sound(m[i]) /\ Ending(m[i]) /\ m[i].by = inst[v][i].by
                             /\ m[i].phase = inst[v][i].phase
  BY DEF TellsList, Becoming, Alike
<1> HIDE DEF x
<1>5. /\ l \in Seq(Instance) /\ Len(l) = Len(m) + 1 /\ DOMAIN l = 1..(Len(m) + 1)
      /\ l[Len(m) + 1] = x /\ \A i \in 1..Len(m) : l[i] = m[i]
  BY <1>2, <1>4
<1>6. inst' = [inst EXCEPT ![v] = l]
  BY DEF x
<1> HIDE DEF l
<1>7. \A i \in DOMAIN l : i = Len(m) + 1 \/ i \in DOMAIN m
  BY <1>3, <1>4, <1>5
<1>8. Handled(v, l, h)
  <2>1. Len(l) <= MaxStarts[v] /\ h.at = Len(l) /\ l # << >>
    BY <1>3, <1>4, <1>5
  <2>2. ASSUME NEW i \in DOMAIN l
        PROVE  Sound(l[i]) /\ (Ending(l[i]) \/ (h.kind = "instance" /\ h.at = i))
    <3>1. CASE i = Len(m) + 1
      BY <3>1, <1>2, <1>5
    <3>2. CASE i \in DOMAIN m
      BY <3>2, <1>3, <1>4, <1>5
    <3> QED
      BY <1>7, <3>1, <3>2
  <2> QED
    BY <2>1, <2>2 DEF Handled
<1>9. Len(inst[v]) <= Len(l) /\ \A i \in DOMAIN inst[v] : l[i].by = inst[v][i].by
  BY <1>3, <1>4, <1>5
<1>10. ASSUME StartedOnce, StartedOnce', InOrder
       PROVE  Single(l, sch.tasks[v].state, Queued(sch, v))
  <2>1. Single(inst[v], sch.tasks[v].state, Queued(sch, v))
    BY <1>10 DEF InOrder, OneAtATime
  <2>2. /\ \A i \in DOMAIN inst[v] : inst[v][i].phase = "ended"
        /\ sch.tasks[v].state = "None" /\ ~Queued(sch, v)
    <3>1. CASE by = "restart"
      <4>1. \A i \in DOMAIN inst[v] : i < Len(inst[v]) \/ inst[v][i] = Newest(inst[v])
        BY <1>3 DEF Newest
      <4> QED
        BY <2>1, <3>1, <4>1 DEF Single
    <3>2. CASE by = "effect"
      <4>1. inst'[v] = l
        BY <1>1, <1>6 DEF Handles
      <4>2. Len(m) + 1 \in DOMAIN l /\ (Len(m) + 1 > 1 => l[Len(m) + 1].by = "restart")
        BY <4>1, <1>3, <1>4, <1>5, <1>10 DEF StartedOnce
      <4>3. Len(inst[v]) = 0
        BY <4>2, <3>2, <1>2, <1>3, <1>4, <1>5
      <4>4. inst[v] = << >> /\ DOMAIN inst[v] = {}
        BY <4>3, <1>3, EmptySeq
      <4> QED
        BY <4>4, <2>1 DEF Single
    <3> QED
      BY <3>1, <3>2
  <2>3. \A i \in DOMAIN m : m[i].phase = "ended" /\ Sound(m[i])
    BY <1>4, <2>2
  <2> QED
    BY <1>2, <1>4, <2>2, <2>3, AppendSingle DEF l
<1> QED
  BY <1>5, <1>6, <1>8, <1>9, <1>10, EffectStep

(* start_sidevm keeps the invariant: the instance before has its Stop, or  *)
(* its loss was logged, when the handle moves on.                          *)
LEMMA StartSidevmKeeps ==
    ASSUME IInv, NEW v \in Vms, NEW code \in Codes, StartSidevm(v, code),
           sch' = sch, effects' \in 0..MaxEffects, dead' = dead
    PROVE  IInv'
<1> DEFINE told == Told(v, "Stop")
           prev == IF HandleRunning(v) THEN info[v].at ELSE 0
<1>1. Handles
  BY DEF IInv
<1>2. TellsList(v, told, "Stop")
  BY <1>1, ToldList
<1>3. info[v] \in Handle /\ info \in [Vms -> Handle]
  BY <1>1 DEF Handles
<1>4. prev \in Nat
  BY <1>3 DEF Handle
<1>5. CASE code = "found"
  <2> DEFINE h == [info[v] EXCEPT !.kind = "instance", !.at = Len(told) + 1]
  <2>1. Launch(v, told, prev)
    BY <1>5 DEF StartSidevm
  <2> HIDE DEF told, prev
  <2>2. Len(told) \in Nat
    BY <1>2 DEF TellsList
  <2>3. Len(told) < MaxStarts[v]
        /\ inst' = [inst EXCEPT ![v] = Append(told, NewInstance(prev, "effect"))]
    BY <2>1 DEF Launch
  <2>4. info' = [info EXCEPT ![v] = h]
    <3>1. info' = [info EXCEPT ![v].kind = "instance", ![v].at = Len(told) + 1]
      BY <2>1 DEF Launch
    <3> QED
      BY <1>3, <3>1
  <2>5. h \in Handle /\ h.kind = "instance" /\ h.at = Len(told) + 1
    <3> DEFINE n == Len(told) + 1
               x == info[v]
    <3>1. n \in Nat /\ x \in Handle
      BY <1>3, <2>2
    <3> HIDE DEF n, x
    <3>2. ASSUME NEW z, z = [x EXCEPT !.kind = "instance", !.at = n]
          PROVE  z \in Handle /\ z.kind = "instance" /\ z.at = n
      BY <3>1, <3>2 DEF Handle
    <3> QED
      BY <3>2 DEF n, x
  <2> HIDE DEF h
  <2> QED
    BY <1>2, <1>4, <2>3, <2>4, <2>5, LaunchKeeps
<1>6. CASE code # "found"
  <2> DEFINE h == [kind |-> code, at |-> 0]
  <2>1. inst' = [inst EXCEPT ![v] = told] /\ info' = [info EXCEPT ![v] = h]
    BY <1>6 DEF StartSidevm
  <2>2. h \in Handle /\ h.kind # "instance"
    BY <1>6 DEF Handle, Codes
  <2> HIDE DEF h, told
  <2>3. Len(inst[v]) \in Nat /\ Handled(v, inst[v], info[v])
    BY <1>1, ListFields
  <2>4. Handled(v, told, h)
    BY <1>2, <2>2, <2>3 DEF Handled, TellsList, Becoming
  <2>5. /\ told \in Seq(Instance) /\ Len(inst[v]) <= Len(told)
        /\ \A i \in DOMAIN inst[v] : told[i].by = inst[v][i].by
    BY <1>2, <2>3 DEF TellsList, Becoming
  <2>6. StartedOnce /\ InOrder => Single(told, sch.tasks[v].state, Queued(sch, v))
    BY <1>2, ToldSingle
  <2> QED
    BY <2>1, <2>2, <2>4, <2>5, <2>6, EffectStep
<1> QED
  BY <1>5, <1>6

(* A Stop for the instance of the handle keeps the invariant.              *)
LEMMA StopSidevmKeeps ==
    ASSUME IInv, NEW v \in Vms, StopSidevm(v), sch' = sch, effects' \in 0..MaxEffects,
           dead' = dead
    PROVE  IInv'
  BY TellKeeps DEF StopSidevm

(* Every effect of a block or a query keeps the invariant.                 *)
LEMMA EffectKeeps ==
    ASSUME IInv, NEW v \in Vms, Effect(v)
    PROVE  IInv'
<1>1. effects' \in 0..MaxEffects /\ sch' = sch /\ dead' = dead
  BY ConstantsAssumption DEF Effect, IInv
<1>2. CASE \E code \in Codes : DeploySidevm(v, code)
  BY <1>1, <1>2, StartSidevmKeeps DEF DeploySidevm
<1>3. CASE StopSidevm(v)
  BY <1>1, <1>3, StopSidevmKeeps
<1>4. CASE PushMessage(v)
  BY <1>1, <1>4, TellKeeps DEF PushMessage
<1>5. CASE UploadSidevmCode(v)
  <2>1. CASE \E code \in {"found", "none"} : StartSidevm(v, code)
    <3>1. PICK code \in {"found", "none"} : StartSidevm(v, code)
      BY <2>1
    <3>2. code \in Codes
      BY DEF Codes
    <3> QED
      BY <1>1, <3>1, <3>2, StartSidevmKeeps
  <2> QED
    BY <1>1, <1>5, <2>1, StopSidevmKeeps DEF UploadSidevmCode
<1> QED
  BY <1>2, <1>3, <1>4, <1>5 DEF Effect

(* restart_sidevm_if_needed keeps the invariant: a VM that has panicked has*)
(* left the scheduler.                                                     *)
LEMMA RestartIfNeededKeeps ==
    ASSUME IInv, NEW v \in Vms, RestartIfNeeded(v)
    PROVE  IInv'
<1>1. Handles /\ effects' \in 0..MaxEffects /\ sch' = sch /\ dead' = dead
      /\ info[v].kind = "instance"
  BY DEF RestartIfNeeded, IInv
<1>2. CASE /\ ~HandleRunning(v)
           /\ NeedRestart(inst[v][info[v].at].reason)
           /\ Len(inst[v]) < MaxStarts[v]
           /\ inst' = [inst EXCEPT ![v] = Append(@, NewInstance(0, "restart"))]
           /\ info' = [info EXCEPT ![v].at = Len(inst[v]) + 1]
  <2> DEFINE h == [info[v] EXCEPT !.at = Len(inst[v]) + 1]
  <2>1. /\ inst[v] \in Seq(Instance) /\ Len(inst[v]) \in Nat /\ info[v] \in Handle
        /\ Handled(v, inst[v], info[v]) /\ DOMAIN inst[v] = 1..Len(inst[v])
        /\ \A i \in DOMAIN inst[v] : Sound(inst[v][i])
    BY <1>1, ListFields
  <2>2. Told(v, "Stop") = inst[v]
    BY <1>2 DEF Told
  <2>3. TellsList(v, inst[v], "Stop")
    BY <1>1, <2>2, ToldList
  <2>4. h \in Handle /\ h.kind = "instance" /\ h.at = Len(inst[v]) + 1
    BY <1>1, <2>1 DEF Handle
  <2>5. info' = [info EXCEPT ![v] = h]
    BY <1>2
  <2>6. inst[v] # << >> /\ info[v].at = Len(inst[v]) /\ inst[v][info[v].at].reported
    BY <1>1, <1>2, <2>1 DEF Handled, HandleRunning
  <2>7. Newest(inst[v]).phase = "ended" /\ Newest(inst[v]).reason # "Final"
    <3>1. Len(inst[v]) \in DOMAIN inst[v]
      BY <2>1, <2>6, EmptySeq
    <3> QED
      BY <1>2, <2>1, <2>6, <3>1 DEF Newest, Sound, NeedRestart
  <2>8. inst' = [inst EXCEPT ![v] = Append(inst[v], NewInstance(0, "restart"))]
    BY <1>2
  <2>9. Len(inst[v]) < MaxStarts[v]
    BY <1>2
  <2> HIDE DEF h
  <2> DEFINE m == inst[v]
  <2>10. /\ TellsList(v, m, "Stop") /\ Len(m) < MaxStarts[v] /\ h.at = Len(m) + 1
         /\ inst' = [inst EXCEPT ![v] = Append(m, NewInstance(0, "restart"))]
    BY <2>3, <2>4, <2>8, <2>9
  <2> HIDE DEF m
  <2> QED
    BY <1>1, <2>4, <2>5, <2>6, <2>7, <2>10, LaunchKeeps
<1>3. CASE StopSidevm(v)
  BY <1>1, <1>3, StopSidevmKeeps
<1> QED
  BY <1>2, <1>3 DEF RestartIfNeeded

-----------------------------------------------------------------------------
(* Theorems.                                                               *)

(* The invariant holds when the process starts.                            *)
LEMMA InitOK ==
    ASSUME Init
    PROVE  IInv
<1>1. << >> \in Seq(Instance) /\ Len(<< >>) = 0 /\ DOMAIN << >> = {}
  OBVIOUS
<1>2. NoInfo \in Handle /\ NoInfo.kind = "none"
  BY DEF NoInfo, Handle
<1>3. inst \in [Vms -> Seq(Instance)] /\ \A v \in Vms : inst[v] = << >>
  BY <1>1 DEF Init
<1>4. info \in [Vms -> Handle] /\ \A v \in Vms : info[v] = NoInfo
  BY <1>2 DEF Init
<1>5. ASSUME NEW v \in Vms PROVE Handled(v, inst[v], info[v])
  <2>1. MaxStarts[v] \in Nat
    BY ConstantsAssumption
  <2> QED
    BY <2>1, <1>1, <1>2, <1>3, <1>4 DEF Handled
<1>6. Handles
  BY <1>3, <1>4, <1>5 DEF Handles
<1>7. sch = NewScheduler /\ effects = 0 /\ dead = FALSE
  BY DEF Init
<1>8. \A v \in Vms : OneAtATime(v)
  BY <1>1, <1>3, <1>7, NewSchedulerOK DEF OneAtATime, Single
<1>9. sch \in Scheduler /\ Counted(sch) /\ Exact(sch) /\ Busy(sch)
  BY <1>7, NewSchedulerOK
<1>10. effects \in 0..MaxEffects /\ dead \in BOOLEAN
  <2>1. MaxEffects \in Nat
    BY ConstantsAssumption
  <2>2. dead \in BOOLEAN
    BY <1>7
  <2> QED
    BY <1>7, <2>1, <2>2
<1> QED
  BY <1>6, <1>7, <1>8, <1>9, <1>10 DEF IInv, InOrder

(* Every step keeps the invariant.                                         *)
LEMMA StepOK ==
    ASSUME IInv, [Next]_vars
    PROVE  IInv'
<1>1. CASE \E v \in Vms : Effect(v) \/ RestartIfNeeded(v)
  BY <1>1, EffectKeeps, RestartIfNeededKeeps
<1>2. CASE \E v \in Vms : \E i \in DOMAIN inst[v] : Task(v, i) \/ GuestEvent(v, i)
  <2>1. PICK v \in Vms : \E i \in DOMAIN inst[v] : Task(v, i) \/ GuestEvent(v, i)
    BY <1>2
  <2>4. PICK i \in DOMAIN inst[v] : Task(v, i) \/ GuestEvent(v, i)
    BY <2>1
  <2>2. CASE GuestEvent(v, i)
    BY <2>2, GuestEventKeeps
  <2>3. CASE Task(v, i)
    BY <2>3, CommandWhileWaitingKeeps, PreviousStoppedKeeps, InstantiateKeeps,
       HandleCommandKeeps, PollResumeKeeps, FinishPollKeeps, LeaveKeeps, ReportKeeps DEF Task
  <2> QED
    BY <2>4, <2>2, <2>3
<1>3. CASE ~dead /\ RestartProcess
  BY <1>3, RestartProcessKeeps
<1>4. CASE UNCHANGED vars
  BY <1>4 DEF vars, IInv, Handles, StartedOnce, InOrder, OneAtATime
<1> QED
  BY <1>1, <1>2, <1>3, <1>4 DEF Next

(* The inductive invariant holds of every behaviour of side VMs and their  *)
(* scheduler.                                                              *)
THEOREM Inductive == Spec => []IInv
  BY InitOK, StepOK, PTL DEF Spec

(* No channel of commands holds more than its capacity, and the number of  *)
(* running tasks stays a natural number: neither exit nor park takes it    *)
(* below zero, even when instances of one contract overlap.                *)
THEOREM TypeCorrect == Spec => []TypeOK
<1>1. IInv => TypeOK
  <2> SUFFICES ASSUME IInv PROVE TypeOK
    OBVIOUS
  <2>1. Handles /\ sch \in Scheduler /\ effects \in 0..MaxEffects /\ dead \in BOOLEAN
    BY DEF IInv
  <2>2. inst \in [Vms -> Seq(Instance)] /\ info \in [Vms -> Handle]
    BY <2>1 DEF Handles
  <2>3. ASSUME NEW v \in Vms
        PROVE  /\ Len(inst[v]) <= MaxStarts[v]
               /\ \A i \in DOMAIN inst[v] : Len(inst[v][i].cmds) <= CommandCap
    BY <2>1 DEF Handles, Handled, Sound
  <2> QED
    BY <2>1, <2>2, <2>3 DEF TypeOK
<1> QED
  BY <1>1, Inductive, PTL

(* Whatever starts, stops, uploads, panics and restarts come together, an  *)
(* instance that the handle of its contract does not refer to is about to  *)
(* end, or the loss of its Stop was logged.                                *)
THEOREM NothingIsOrphaned == Spec => []NoOrphan
<1>1. IInv => NoOrphan
  <2> SUFFICES ASSUME IInv, NEW v \in Vms, NEW i \in DOMAIN inst[v]
               PROVE  \/ info[v].kind = "instance" /\ info[v].at = i
                      \/ inst[v][i].phase \in {"leaving", "ended"}
                      \/ HasStop(v, i)
                      \/ inst[v][i].lost
    BY DEF NoOrphan
  <2>1. Ending(inst[v][i]) \/ (info[v].kind = "instance" /\ info[v].at = i)
    BY DEF IInv, Handles, Handled
  <2> QED
    BY <2>1 DEF Ending, HasStop
<1> QED
  BY <1>1, Inductive, PTL

(* While side VMs are only started again after a panic or with the         *)
(* process, the scheduler counts the cores in use exactly, for any number  *)
(* of contracts and cores: no guest is polled without a core, none waits   *)
(* while a core is free, and no assertion of it fails.                     *)
THEOREM CoresAreShared == Spec => []CoresShared
<1>1. IInv => CoresShared
  <2> SUFFICES ASSUME IInv, StartedOnce
               PROVE  /\ ~dead
                      /\ Polling = {v \in Vms : sch.tasks[v].state = "Running"}
                      /\ sch.running_tasks =
                             Cardinality({v \in Vms : sch.tasks[v].state \in Scheduled})
                      /\ sch.running_tasks <= virtual_cores
                      /\ (\E v \in Vms : sch.tasks[v].state = "Ready")
                             => sch.running_tasks = virtual_cores
    BY DEF CoresShared
  <2>1. ~dead /\ Exact(sch) /\ Busy(sch) /\ \A v \in Vms : OneAtATime(v)
    BY DEF IInv, InOrder
  <2>2. \A v \in Vms : sch.tasks[v].state = "Running"
                           <=> \E i \in DOMAIN inst[v] : inst[v][i].polling
    BY <2>1 DEF OneAtATime, Single
  <2>3. Polling = {v \in Vms : sch.tasks[v].state = "Running"}
    BY <2>2 DEF Polling
  <2>4. /\ sch.running_tasks =
               Cardinality({v \in Vms : sch.tasks[v].state \in Scheduled})
        /\ sch.running_tasks <= virtual_cores
    BY <2>1 DEF Exact, Occupied
  <2>5. (\E v \in Vms : sch.tasks[v].state = "Ready")
            => sch.running_tasks = virtual_cores
    BY <2>1 DEF Busy
  <2> QED
    BY <2>1, <2>3, <2>4, <2>5
<1> QED
  BY <1>1, Inductive, PTL
=============================================================================
