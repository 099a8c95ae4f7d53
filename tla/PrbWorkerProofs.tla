--------------------------- MODULE PrbWorkerProofs ---------------------------
(***************************************************************************)
(* Proofs about one worker of the bridge, for relay chains of any length,  *)
(* any heads and changes of authorities, and any number of failures,       *)
(* restarts and commands.                                                  *)
(***************************************************************************)
EXTENDS PrbWorker, WellFoundedInduction, SequenceTheorems, TLAPS

-----------------------------------------------------------------------------
(* Induction and recursion on natural numbers.  The statements speak of    *)
(* sets and functions where those of the library speak of operators, so    *)
(* that the provers can instantiate them.                                  *)

(* A set of natural numbers has a least element.                          *)
LEMMA LeastNatural ==
    ASSUME NEW T \in SUBSET Nat, T # {}
    PROVE  \E x \in T : \A y \in T : x <= y
<1>1. PICK x \in T : \A y \in T : ~(<<y, x>> \in OpToRel(<, Nat))
  BY NatLessThanWellFounded, WFMin
<1>2. \A y \in T : ~(y < x)
  BY <1>1 DEF OpToRel
<1> QED
  BY <1>2

(* Induction up to N, stated with a set in place of a predicate.           *)
LEMMA IntervalInduction ==
    ASSUME NEW N \in Nat, NEW P \in SUBSET (0..N), 0 \in P,
           \A k \in 1..N : k - 1 \in P => k \in P
    PROVE  P = 0..N
<1> DEFINE T == (0..N) \ P
<1>1. ASSUME NEW k \in T, \A y \in T : k <= y PROVE FALSE
  <2>1. k \in 1..N /\ k - 1 \in 0..N /\ k - 1 \notin T
    BY <1>1
  <2> QED
    BY <2>1
<1>2. T \in SUBSET Nat
  OBVIOUS
<1> HIDE DEF T
<1>3. T = {}
  BY <1>1, <1>2, LeastNatural
<1> QED
  BY <1>3 DEF T

(* f is the sequence of values that N steps lead to from init.             *)
Iterates(f, N, X, init, step) ==
    f \in [0..N -> X] /\ f[0] = init /\ \A i \in 1..N : f[i] = step[i][f[i - 1]]

(* N steps lead somewhere: a function on 0..N can be defined by recursion.  *)
LEMMA IterationExists ==
    ASSUME NEW N \in Nat, NEW X, NEW init \in X, NEW step \in [1..N -> [X -> X]]
    PROVE  \E f : Iterates(f, N, X, init, step)
<1> DEFINE Ok(k) == \E f \in [0..k -> X] :
                       f[0] = init /\ \A i \in 1..k : f[i] = step[i][f[i - 1]]
           T == {k \in 0..N : ~Ok(k)}
<1>1. Ok(0)
  <2> DEFINE g == [i \in 0..0 |-> init]
  <2>1. g \in [0..0 -> X] /\ g[0] = init /\ 1..0 = {}
    OBVIOUS
  <2> HIDE DEF g
  <2> QED
    BY <2>1
<1>2. ASSUME NEW k \in 1..N, Ok(k - 1)
      PROVE  Ok(k)
  <2>1. PICK f \in [0..(k - 1) -> X] :
            f[0] = init /\ \A i \in 1..(k - 1) : f[i] = step[i][f[i - 1]]
    BY <1>2
  <2> DEFINE g == [i \in 0..k |-> IF i = k THEN step[k][f[k - 1]] ELSE f[i]]
  <2>2. g \in [0..k -> X]
    BY <2>1
  <2>3. g[0] = init
    BY <2>1
  <2>4. ASSUME NEW i \in 1..k PROVE g[i] = step[i][g[i - 1]]
    BY <2>1
  <2> HIDE DEF g
  <2> QED
    BY <2>2, <2>3, <2>4
<1> HIDE DEF Ok
<1>3. T = {}
  <2> SUFFICES ASSUME T # {} PROVE FALSE
    OBVIOUS
  <2>1. PICK k \in T : \A y \in T : k <= y
    <3>1. T \in SUBSET Nat
      OBVIOUS
    <3> HIDE DEF T
    <3> QED
      BY <3>1, LeastNatural
  <2>2. k \in 1..N
    BY <1>1
  <2>3. Ok(k - 1)
    BY <2>1, <2>2
  <2> QED
    BY <1>2, <2>2, <2>3
<1>4. Ok(N)
  BY <1>3
<1> QED
  BY <1>4 DEF Ok, Iterates

-----------------------------------------------------------------------------
(* Sequences of whatever elements.                                         *)

IsSeq(q) == \E S : q \in Seq(S)

(* The length of a sequence and its elements.                              *)
LEMMA SeqFacts ==
    ASSUME NEW q, IsSeq(q)
    PROVE  Len(q) \in Nat /\ DOMAIN q = 1..Len(q)
  BY DEF IsSeq

(* The empty sequence is one.                                              *)
LEMMA EmptyFacts ==
    IsSeq(<< >>) /\ Len(<< >>) = 0 /\ DOMAIN << >> = {}
<1>1. << >> \in Seq({}) /\ Len(<< >>) = 0 /\ DOMAIN << >> = {}
  OBVIOUS
<1> QED
  BY <1>1 DEF IsSeq

Longer(q, t, e) ==
    /\ IsSeq(t) /\ Len(t) = Len(q) + 1 /\ t[Len(t)] = e
    /\ \A i \in DOMAIN q : t[i] = q[i]

(* An element is added at the end.                                         *)
LEMMA AppendFacts ==
    ASSUME NEW q, IsSeq(q), NEW e
    PROVE  Longer(q, Append(q, e), e)
<1>1. PICK S : q \in Seq(S)
  BY DEF IsSeq
<1>2. q \in Seq(S \cup {e}) /\ e \in S \cup {e}
  BY <1>1
<1>3. /\ Append(q, e) \in Seq(S \cup {e}) /\ Len(Append(q, e)) = Len(q) + 1
      /\ \A i \in 1..Len(q) : Append(q, e)[i] = q[i]
      /\ Append(q, e)[Len(q) + 1] = e
  BY <1>2, AppendProperties
<1> QED
  BY <1>1, <1>3 DEF Longer, IsSeq

Joined(q, r, t) ==
    /\ IsSeq(t) /\ Len(t) = Len(q) + Len(r)
    /\ \A i \in DOMAIN q : t[i] = q[i]
    /\ \A i \in DOMAIN t \ DOMAIN q : i - Len(q) \in DOMAIN r /\ t[i] = r[i - Len(q)]

(* The elements of a concatenation come from either side.                  *)
LEMMA ConcatFacts ==
    ASSUME NEW q, IsSeq(q), NEW r, IsSeq(r)
    PROVE  Joined(q, r, q \o r)
<1>1. PICK S : q \in Seq(S)
  BY DEF IsSeq
<1>2. PICK R : r \in Seq(R)
  BY DEF IsSeq
<1>3. q \in Seq(S \cup R) /\ r \in Seq(S \cup R)
  BY <1>1, <1>2
<1>4. /\ q \o r \in Seq(S \cup R) /\ Len(q \o r) = Len(q) + Len(r)
      /\ \A i \in 1..(Len(q) + Len(r)) :
             (q \o r)[i] = IF i <= Len(q) THEN q[i] ELSE r[i - Len(q)]
  BY <1>3, ConcatProperties
<1>5. Len(q) \in Nat /\ Len(r) \in Nat /\ DOMAIN q = 1..Len(q) /\ DOMAIN r = 1..Len(r)
      /\ DOMAIN (q \o r) = 1..(Len(q) + Len(r))
  BY <1>1, <1>2, <1>4
<1> DEFINE t == q \o r
<1> HIDE DEF t
<1>6. \A i \in DOMAIN q : t[i] = q[i]
  BY <1>4, <1>5 DEF t
<1>7. ASSUME NEW i \in DOMAIN t \ DOMAIN q
      PROVE  i - Len(q) \in DOMAIN r /\ t[i] = r[i - Len(q)]
  <2>1. i \in 1..(Len(q) + Len(r)) /\ ~(i <= Len(q))
    BY <1>5 DEF t
  <2> QED
    BY <2>1, <1>4, <1>5 DEF t
<1>8. IsSeq(t) /\ Len(t) = Len(q) + Len(r)
  BY <1>4 DEF IsSeq, t
<1> QED
  BY <1>6, <1>7, <1>8 DEF Joined, t

Shifted(q, t) ==
    /\ IsSeq(t) /\ Len(t) = Len(q) - 1 /\ 1 \in DOMAIN q /\ Head(q) = q[1]
    /\ \A i \in DOMAIN t : i + 1 \in DOMAIN q /\ t[i] = q[i + 1]

(* The first element is taken.                                             *)
LEMMA TailFacts ==
    ASSUME NEW q, IsSeq(q), q # << >>
    PROVE  Shifted(q, Tail(q))
<1>1. PICK S : q \in Seq(S)
  BY DEF IsSeq
<1>2. /\ Tail(q) \in Seq(S) /\ Len(Tail(q)) = Len(q) - 1 /\ Head(q) = q[1]
      /\ \A i \in 1..(Len(q) - 1) : Tail(q)[i] = q[i + 1]
      /\ Len(q) \in Nat \ {0} /\ DOMAIN q = 1..Len(q)
  BY <1>1, EmptySeq
<1>3. IsSeq(Tail(q)) /\ DOMAIN Tail(q) = 1..(Len(q) - 1)
  BY <1>2 DEF IsSeq
<1>4. ASSUME NEW i \in DOMAIN Tail(q) PROVE i + 1 \in DOMAIN q /\ Tail(q)[i] = q[i + 1]
  BY <1>2, <1>3
<1> QED
  BY <1>2, <1>3, <1>4 DEF Shifted

Without(q, k, t) ==
    /\ IsSeq(t) /\ Len(t) = Len(q) - 1
    /\ \A i \in DOMAIN t : \/ i < k /\ i \in DOMAIN q /\ t[i] = q[i]
                           \/ i >= k /\ i + 1 \in DOMAIN q /\ t[i] = q[i + 1]

(* An element is taken out.                                                *)
LEMMA RemoveFacts ==
    ASSUME NEW q, IsSeq(q), NEW k \in DOMAIN q
    PROVE  Without(q, k, RemoveAt(q, k))
<1>1. PICK S : q \in Seq(S)
  BY DEF IsSeq
<1> DEFINE a == SubSeq(q, 1, k - 1)
           b == SubSeq(q, k + 1, Len(q))
<1>2. Len(q) \in Nat /\ k \in 1..Len(q) /\ DOMAIN q = 1..Len(q)
  BY <1>1
<1>3. a \in Seq(S) /\ Len(a) = k - 1 /\ \A j \in 1..(k - 1) : a[j] = q[j]
  BY <1>1, <1>2
<1>4. b \in Seq(S) /\ Len(b) = Len(q) - k /\ \A j \in 1..(Len(q) - k) : b[j] = q[k + j]
  BY <1>1, <1>2
<1>5. RemoveAt(q, k) = a \o b
  BY DEF RemoveAt
<1> HIDE DEF a, b
<1> DEFINE t == a \o b
<1>6. Joined(a, b, t)
  BY <1>3, <1>4, ConcatFacts DEF IsSeq
<1> HIDE DEF t
<1>7. IsSeq(t) /\ Len(t) = Len(q) - 1 /\ DOMAIN t = 1..(Len(q) - 1) /\ DOMAIN a = 1..(k - 1)
  <2>1. IsSeq(t) /\ Len(t) = Len(q) - 1
    BY <1>2, <1>3, <1>4, <1>6 DEF Joined
  <2> QED
    BY <1>3, <2>1, SeqFacts
<1>8. ASSUME NEW i \in DOMAIN t
      PROVE  \/ i < k /\ i \in DOMAIN q /\ t[i] = q[i]
             \/ i >= k /\ i + 1 \in DOMAIN q /\ t[i] = q[i + 1]
  <2>1. CASE i \in DOMAIN a
    BY <2>1, <1>2, <1>3, <1>6, <1>7 DEF Joined
  <2>2. CASE i \notin DOMAIN a
    <3>1. i - Len(a) \in DOMAIN b /\ t[i] = b[i - Len(a)]
      BY <2>2, <1>6 DEF Joined
    <3>2. DOMAIN b = 1..(Len(q) - k) /\ i \in Nat /\ i >= k
      BY <2>2, <1>2, <1>4, <1>7
    <3> DEFINE j == i - Len(a)
    <3>4. j \in 1..(Len(q) - k) /\ t[i] = b[j] /\ k + j = i + 1
      BY <3>1, <3>2, <1>2, <1>3
    <3> HIDE DEF j
    <3>3. t[i] = q[i + 1]
      BY <3>4, <1>4
    <3> QED
      BY <3>2, <3>3, <1>2, <1>7
  <2> QED
    BY <2>1, <2>2
<1> QED
  BY <1>5, <1>7, <1>8 DEF Without, t

-----------------------------------------------------------------------------
(* Steps of handlers.                                                      *)

WorkerFields ==
    {"present", "enabled", "syncOnly", "poolSyncOnly", "header", "para", "block", "pending",
     "state", "lock", "queue", "errors", "last", "infoRequested", "stopped", "info", "stage",
     "score", "session", "sessionUpdated"}

IsWorker(w) ==
    /\ w = [f \in WorkerFields |-> w[f]]
    /\ IsSeq(w.queue) /\ w.pending \in BOOLEAN

(* The worker is another, with the same place, queue and wait.             *)
Alike(w, x) ==
    /\ x.present = w.present /\ x.queue = w.queue /\ x.pending = w.pending
    /\ x.header = w.header /\ x.para = w.para /\ x.block = w.block

IsStep(s) ==
    /\ s = [f \in {"w", "out", "spawn", "call"} |-> s[f]]
    /\ IsWorker(s.w) /\ IsSeq(s.out) /\ IsSeq(s.spawn) /\ IsSeq(s.call)

Kinds ==
    {"PrepareLifecycle", "InitRuntime", "LoadChainState", "Sync", "RegularGetInfo",
     "PrepareRegister", "GetEgressMessages", "SignEndpoints", "TakeCheckpoint"}

RequestOK(r) == r.kind \in Kinds

(* What a handler sends to the processor.                                  *)
SentOK(e) ==
    /\ e.ev \in {"Request", "LoadState"}
    /\ e.ev = "Request" => RequestOK(e.req)

(* All that a step sends and holds is well formed.                         *)
Plain(s) ==
    /\ \A i \in DOMAIN s.out : SentOK(s.out[i])
    /\ \A i \in DOMAIN s.call : RequestOK(s.call[i])
    /\ \A i \in DOMAIN s.w.queue : RequestOK(s.w.queue[i])

(* The carriers of progress that a step holds.                             *)
OutPlaces(q) == {<<"out", i>> : i \in {j \in DOMAIN q : Carries(q[j])}}
SpawnPlaces(q) == {<<"spawn", i>> : i \in {j \in DOMAIN q : Looks(q[j])}}
CallPlaces(q) == {<<"call", i>> : i \in {j \in DOMAIN q : IsLeading(q[j])}}
QueuePlaces(q) == {<<"queue", i>> : i \in {j \in DOMAIN q : IsLeading(q[j])}}
PendingPlaces(b) == IF b THEN {<<"pending", 0>>} ELSE {}

Carried(s) ==
    OutPlaces(s.out) \cup SpawnPlaces(s.spawn) \cup CallPlaces(s.call)
    \cup QueuePlaces(s.w.queue) \cup PendingPlaces(s.w.pending)

Kept(s, t) ==
    /\ IsStep(t) /\ t.w.present = s.w.present
    /\ t.w.header = s.w.header /\ t.w.para = s.w.para /\ t.w.block = s.w.block
    /\ Plain(s) => Plain(t)

(* A handler that hands nothing on, and one that hands one carrier on.     *)
Idles(s, t) == Kept(s, t) /\ Carried(t) = Carried(s)
Steady(s, t) == t.call = s.call /\ t.w.queue = s.w.queue
Adds(s, t) == Kept(s, t) /\ \E p : Carried(t) = Carried(s) \cup {p}

Same(s, t) == t.out = s.out /\ t.spawn = s.spawn /\ t.call = s.call

(* A change of the worker in a step.                                       *)
LEMMA WorkerChange ==
    ASSUME NEW s, IsStep(s), NEW x, IsWorker(x), NEW t, t = [s EXCEPT !.w = x]
    PROVE  IsStep(t) /\ t.w = x /\ Same(s, t)
<1>1. t.w = x /\ Same(s, t) /\ t = [f \in {"w", "out", "spawn", "call"} |-> t[f]]
  BY DEF IsStep, Same
<1> QED
  BY <1>1 DEF IsStep, Same

(* A change of one field of the worker leaves the others alone.            *)
LEMMA FieldChange ==
    ASSUME NEW w, IsWorker(w), NEW f \in WorkerFields, NEW y, NEW x, x = [w EXCEPT ![f] = y],
           f = "queue" => IsSeq(y), f = "pending" => y \in BOOLEAN
    PROVE  /\ IsWorker(x) /\ x[f] = y
           /\ \A g \in WorkerFields \ {f} : x[g] = w[g]
<1>1. /\ x = [g \in WorkerFields |-> x[g]] /\ x[f] = y
      /\ \A g \in WorkerFields \ {f} : x[g] = w[g]
  BY DEF IsWorker
<1>2. IsSeq(x.queue)
  BY <1>1 DEF IsWorker, WorkerFields
<1>3. x.pending \in BOOLEAN
  BY <1>1 DEF IsWorker, WorkerFields
<1> QED
  BY <1>1, <1>2, <1>3 DEF IsWorker

(* A step that changes the worker but not its place, queue or wait.        *)
LEMMA WorkerOnly ==
    ASSUME NEW s, IsStep(s), NEW t, IsStep(t), Same(s, t), Alike(s.w, t.w)
    PROVE  Idles(s, t)
<1>3. Carried(t) = Carried(s)
  BY DEF Carried, Alike, Same
<1> QED
  BY <1>3 DEF Idles, Kept, Plain, Alike, Same

(* A step that changes other fields of the worker.                         *)
LEMMA OtherField ==
    ASSUME NEW s, IsStep(s), NEW f \in WorkerFields, NEW y,
           f \notin {"present", "queue", "pending", "header", "para", "block"},
           NEW t, t = [s EXCEPT !.w = [s.w EXCEPT ![f] = y]]
    PROVE  Idles(s, t) /\ Same(s, t) /\ Alike(s.w, t.w) /\ t.w[f] = y
           /\ \A g \in WorkerFields \ {f} : t.w[g] = s.w[g]
<1> DEFINE x == [s.w EXCEPT ![f] = y]
<1>1. IsWorker(s.w)
  BY DEF IsStep
<1>2. IsWorker(x) /\ x[f] = y /\ \A g \in WorkerFields \ {f} : x[g] = s.w[g]
  BY <1>1, FieldChange
<1> HIDE DEF x
<1>3. IsStep(t) /\ t.w = x /\ Same(s, t)
  BY <1>2, WorkerChange DEF x
<1>4. Alike(s.w, x)
  BY <1>2 DEF Alike, WorkerFields
<1> QED
  BY <1>2, <1>3, <1>4, WorkerOnly

WithPending(s, b) == [s EXCEPT !.w = [s.w EXCEPT !.pending = b]]

(* The worker waits for a broadcast, or no longer.                         *)
LEMMA PendingFacts ==
    ASSUME NEW s, IsStep(s), NEW b \in BOOLEAN,
           NEW t, t = WithPending(s, b)
    PROVE  /\ b => Adds(s, t)
           /\ Kept(s, t) /\ Same(s, t) /\ t.w.pending = b
           /\ ~b => Carried(t) = Carried(s) \ {<<"pending", 0>>}
           /\ \A g \in WorkerFields \ {"pending"} : t.w[g] = s.w[g]
<1> DEFINE x == [s.w EXCEPT !.pending = b]
<1>1. IsWorker(s.w) /\ "pending" \in WorkerFields
  BY DEF IsStep, WorkerFields
<1>2. IsWorker(x) /\ x.pending = b /\ \A g \in WorkerFields \ {"pending"} : x[g] = s.w[g]
  BY <1>1, FieldChange
<1> HIDE DEF x
<1>3. IsStep(t) /\ t.w = x /\ Same(s, t)
  BY <1>2, WorkerChange DEF x, WithPending
<1>4. x.queue = s.w.queue /\ x.present = s.w.present
      /\ x.header = s.w.header /\ x.para = s.w.para /\ x.block = s.w.block
  BY <1>2 DEF WorkerFields
<1>5. Kept(s, t)
  BY <1>3, <1>4 DEF Kept, Plain, Same
<1>8. Carried(t) = OutPlaces(s.out) \cup SpawnPlaces(s.spawn) \cup CallPlaces(s.call)
                   \cup QueuePlaces(s.w.queue) \cup PendingPlaces(b)
  BY <1>2, <1>3, <1>4 DEF Carried, Same
<1>9. PendingPlaces(s.w.pending) \subseteq {<<"pending", 0>>}
  BY DEF PendingPlaces
<1>10. PendingPlaces(TRUE) = {<<"pending", 0>>} /\ PendingPlaces(FALSE) = {}
  BY DEF PendingPlaces
<1>6. b => Carried(t) = Carried(s) \cup {<<"pending", 0>>}
  BY <1>8, <1>9, <1>10 DEF Carried
<1>11. <<"pending", 0>> \notin OutPlaces(s.out) \cup SpawnPlaces(s.spawn)
          \cup CallPlaces(s.call) \cup QueuePlaces(s.w.queue)
  BY DEF OutPlaces, SpawnPlaces, CallPlaces, QueuePlaces
<1>7. ~b => Carried(t) = Carried(s) \ {<<"pending", 0>>}
  BY <1>8, <1>9, <1>10, <1>11 DEF Carried
<1> QED
  BY <1>2, <1>3, <1>5, <1>6, <1>7 DEF Adds

WithQueue(s, q) == [s EXCEPT !.w = [s.w EXCEPT !.queue = q]]

(* A request is queued.                                                    *)
LEMMA QueueFacts ==
    ASSUME NEW s, IsStep(s), NEW r, RequestOK(r),
           NEW t, t = WithQueue(s, Append(s.w.queue, r))
    PROVE  /\ ~IsLeading(r) => Idles(s, t)
           /\ IsLeading(r) => Adds(s, t)
           /\ Same(s, t) /\ t.w.queue = Append(s.w.queue, r)
           /\ \A g \in WorkerFields \ {"queue"} : t.w[g] = s.w[g]
<1> DEFINE q == Append(s.w.queue, r)
           x == [s.w EXCEPT !.queue = q]
<1>1. IsWorker(s.w) /\ "queue" \in WorkerFields
  BY DEF IsStep, WorkerFields
<1>2. Longer(s.w.queue, q, r) /\ IsSeq(s.w.queue)
  BY <1>1, AppendFacts DEF IsWorker
<1>12. t = [s EXCEPT !.w = x]
  BY DEF WithQueue
<1> HIDE DEF q
<1>3. Len(s.w.queue) \in Nat /\ DOMAIN s.w.queue = 1..Len(s.w.queue)
      /\ DOMAIN q = 1..(Len(s.w.queue) + 1)
      /\ IsSeq(q) /\ q[Len(s.w.queue) + 1] = r
      /\ \A i \in DOMAIN s.w.queue : q[i] = s.w.queue[i]
  BY <1>2, SeqFacts DEF Longer
<1>4. IsWorker(x) /\ x.queue = q /\ \A g \in WorkerFields \ {"queue"} : x[g] = s.w[g]
  BY <1>1, <1>3, FieldChange
<1> HIDE DEF x
<1>5. IsStep(t) /\ t.w = x /\ Same(s, t)
  BY <1>4, <1>12, WorkerChange DEF x
<1>6. x.pending = s.w.pending /\ x.present = s.w.present
      /\ x.header = s.w.header /\ x.para = s.w.para /\ x.block = s.w.block
  BY <1>4 DEF WorkerFields
<1>7. Kept(s, t)
  <2>1. \A j \in DOMAIN q : j \in DOMAIN s.w.queue \/ q[j] = r
    BY <1>3
  <2>3. t.w.queue = q /\ t.out = s.out /\ t.call = s.call
    BY <1>4, <1>5 DEF Same
  <2>2. Plain(s) => Plain(t)
    BY <1>3, <2>1, <2>3 DEF Plain
  <2> QED
    BY <1>5, <1>6, <2>2 DEF Kept
<1> DEFINE new == IF IsLeading(r) THEN {<<"queue", Len(s.w.queue) + 1>>} ELSE {}
<1>13. {j \in DOMAIN q : IsLeading(q[j])} = {j \in DOMAIN s.w.queue : IsLeading(s.w.queue[j])}
         \cup (IF IsLeading(r) THEN {Len(s.w.queue) + 1} ELSE {})
  BY <1>3
<1>8. QueuePlaces(q) = QueuePlaces(s.w.queue) \cup new
  BY <1>13 DEF QueuePlaces
<1> HIDE DEF new
<1>9. Carried(t) = Carried(s) \cup new
  BY <1>4, <1>5, <1>6, <1>8 DEF Carried, Same
<1>10. Idles(s, t) \/ IsLeading(r)
  BY <1>7, <1>9 DEF Idles, new
<1>11. Adds(s, t) \/ ~IsLeading(r)
  BY <1>7, <1>9 DEF Adds, new
<1> QED
  BY <1>4, <1>5, <1>10, <1>11 DEF q

(* An event is sent.                                                       *)
LEMMA SendFacts ==
    ASSUME NEW s, IsStep(s), NEW e, SentOK(e)
    PROVE  /\ ~Carries(e) => Idles(s, Send(s, e))
           /\ Carries(e) => Adds(s, Send(s, e))
           /\ Send(s, e).w = s.w /\ Send(s, e).out = Append(s.out, e)
           /\ Send(s, e).spawn = s.spawn /\ Send(s, e).call = s.call
<1> DEFINE t == Send(s, e)
           q == Append(s.out, e)
<1>1. /\ t.w = s.w /\ t.out = q
      /\ t.spawn = s.spawn /\ t.call = s.call
      /\ t = [f \in {"w", "out", "spawn", "call"} |-> t[f]]
  BY DEF IsStep, Send
<1>2. Longer(s.out, q, e) /\ IsSeq(s.out)
  BY AppendFacts DEF IsStep
<1> HIDE DEF t, q
<1>3. Len(s.out) \in Nat /\ DOMAIN s.out = 1..Len(s.out)
      /\ DOMAIN q = 1..(Len(s.out) + 1) /\ IsSeq(q) /\ q[Len(s.out) + 1] = e
      /\ \A i \in DOMAIN s.out : q[i] = s.out[i]
  BY <1>2, SeqFacts DEF Longer
<1>4. IsStep(t)
  BY <1>1, <1>3 DEF IsStep
<1>5. Kept(s, t)
  BY <1>1, <1>3, <1>4 DEF Kept, Plain
<1> DEFINE new == IF Carries(e) THEN {<<"out", Len(s.out) + 1>>} ELSE {}
<1>6. {j \in DOMAIN q : Carries(q[j])} = {j \in DOMAIN s.out : Carries(s.out[j])}
         \cup (IF Carries(e) THEN {Len(s.out) + 1} ELSE {})
  BY <1>3
<1>7. OutPlaces(q) = OutPlaces(s.out) \cup new
  BY <1>6 DEF OutPlaces
<1> HIDE DEF new
<1>8. Carried(t) = Carried(s) \cup new
  BY <1>1, <1>7 DEF Carried
<1>9. Idles(s, t) \/ Carries(e)
  BY <1>5, <1>8 DEF Idles, new
<1>10. Adds(s, t) \/ ~Carries(e)
  BY <1>5, <1>8 DEF Adds, new
<1> QED
  BY <1>1, <1>9, <1>10 DEF t, q

(* A task is spawned.                                                      *)
LEMMA SpawnFacts ==
    ASSUME NEW s, IsStep(s), NEW e
    PROVE  /\ ~Looks(e) => Idles(s, Spawn(s, e))
           /\ Looks(e) => Adds(s, Spawn(s, e))
           /\ Spawn(s, e).w = s.w /\ Spawn(s, e).spawn = Append(s.spawn, e)
           /\ Spawn(s, e).out = s.out /\ Spawn(s, e).call = s.call
<1> DEFINE t == Spawn(s, e)
           q == Append(s.spawn, e)
<1>1. /\ t.w = s.w /\ t.spawn = q
      /\ t.out = s.out /\ t.call = s.call
      /\ t = [f \in {"w", "out", "spawn", "call"} |-> t[f]]
  BY DEF IsStep, Spawn
<1>2. Longer(s.spawn, q, e) /\ IsSeq(s.spawn)
  BY AppendFacts DEF IsStep
<1> HIDE DEF t, q
<1>3. Len(s.spawn) \in Nat /\ DOMAIN s.spawn = 1..Len(s.spawn)
      /\ DOMAIN q = 1..(Len(s.spawn) + 1) /\ IsSeq(q) /\ q[Len(s.spawn) + 1] = e
      /\ \A i \in DOMAIN s.spawn : q[i] = s.spawn[i]
  BY <1>2, SeqFacts DEF Longer
<1>4. IsStep(t)
  BY <1>1, <1>3 DEF IsStep
<1>5. Kept(s, t)
  BY <1>1, <1>3, <1>4 DEF Kept, Plain
<1> DEFINE new == IF Looks(e) THEN {<<"spawn", Len(s.spawn) + 1>>} ELSE {}
<1>6. {j \in DOMAIN q : Looks(q[j])} = {j \in DOMAIN s.spawn : Looks(s.spawn[j])}
         \cup (IF Looks(e) THEN {Len(s.spawn) + 1} ELSE {})
  BY <1>3
<1>7. SpawnPlaces(q) = SpawnPlaces(s.spawn) \cup new
  BY <1>6 DEF SpawnPlaces
<1> HIDE DEF new
<1>8. Carried(t) = Carried(s) \cup new
  BY <1>1, <1>7 DEF Carried
<1>9. Idles(s, t) \/ Looks(e)
  BY <1>5, <1>8 DEF Idles, new
<1>10. Adds(s, t) \/ ~Looks(e)
  BY <1>5, <1>8 DEF Adds, new
<1> QED
  BY <1>1, <1>9, <1>10 DEF t, q

(* A request is sent to pRuntime.                                          *)
LEMMA ExecuteFacts ==
    ASSUME NEW s, IsStep(s), NEW r, RequestOK(r)
    PROVE  /\ ~IsLeading(r) => Idles(s, Execute(s, r))
           /\ IsLeading(r) => Adds(s, Execute(s, r))
           /\ Alike(s.w, Execute(s, r).w) /\ Execute(s, r).call = Append(s.call, r)
           /\ Execute(s, r).out = s.out /\ Execute(s, r).spawn = s.spawn
<1> DEFINE t == Execute(s, r)
           q == Append(s.call, r)
           b == IF r.kind = "RegularGetInfo" THEN FALSE ELSE s.w.infoRequested
           y == [s.w EXCEPT !.lock = TRUE]
           x == [y EXCEPT !.infoRequested = b]
<1>0. IsWorker(s.w) /\ "lock" \in WorkerFields /\ "infoRequested" \in WorkerFields
  BY DEF IsStep, WorkerFields
<1>11. IsWorker(y) /\ \A g \in WorkerFields \ {"lock"} : y[g] = s.w[g]
  BY <1>0, FieldChange
<1>13. s.w = [f \in WorkerFields |-> s.w[f]] /\ s = [f \in {"w", "out", "spawn", "call"} |-> s[f]]
  BY <1>0 DEF IsWorker, IsStep
<1>1. /\ t.w = x /\ t.call = q /\ t.out = s.out /\ t.spawn = s.spawn
      /\ t = [f \in {"w", "out", "spawn", "call"} |-> t[f]]
  BY <1>13 DEF Execute, WorkerFields
<1> HIDE DEF b, y
<1>12. IsWorker(x) /\ \A g \in WorkerFields \ {"infoRequested"} : x[g] = y[g]
  BY <1>0, <1>11, FieldChange
<1>2. Longer(s.call, q, r) /\ IsSeq(s.call)
  BY AppendFacts DEF IsStep
<1> HIDE DEF t, q, x
<1>14. Alike(s.w, x)
  BY <1>11, <1>12 DEF Alike, WorkerFields
<1>3. Len(s.call) \in Nat /\ DOMAIN s.call = 1..Len(s.call)
      /\ DOMAIN q = 1..(Len(s.call) + 1) /\ IsSeq(q) /\ q[Len(s.call) + 1] = r
      /\ \A i \in DOMAIN s.call : q[i] = s.call[i]
  BY <1>2, SeqFacts DEF Longer
<1>4. IsStep(t)
  BY <1>1, <1>3, <1>12 DEF IsStep
<1>5. Kept(s, t)
  <2>1. \A j \in DOMAIN q : j \in DOMAIN s.call \/ q[j] = r
    BY <1>3
  <2>2. Plain(s) => Plain(t)
    BY <1>1, <1>3, <1>14, <2>1 DEF Plain, Alike
  <2> QED
    BY <1>1, <1>4, <1>14, <2>2 DEF Kept, Alike
<1> DEFINE new == IF IsLeading(r) THEN {<<"call", Len(s.call) + 1>>} ELSE {}
<1>6. {j \in DOMAIN q : IsLeading(q[j])} = {j \in DOMAIN s.call : IsLeading(s.call[j])}
         \cup (IF IsLeading(r) THEN {Len(s.call) + 1} ELSE {})
  BY <1>3
<1>7. CallPlaces(q) = CallPlaces(s.call) \cup new
  BY <1>6 DEF CallPlaces
<1> HIDE DEF new
<1>8. Carried(t) = Carried(s) \cup new
  BY <1>1, <1>7, <1>14 DEF Carried, Alike
<1>9. Idles(s, t) \/ IsLeading(r)
  BY <1>5, <1>8 DEF Idles, new
<1>10. Adds(s, t) \/ ~IsLeading(r)
  BY <1>5, <1>8 DEF Adds, new
<1> QED
  BY <1>1, <1>9, <1>10, <1>14 DEF t, q

-----------------------------------------------------------------------------
(* Compute management and the handlers of answers.                         *)

(* A handler that hands on nothing, or one carrier.                        *)
Hands(s, t) == Idles(s, t) \/ Adds(s, t)

(* A state is shown to the operator.                                       *)
LEMMA SetStateFacts ==
    ASSUME NEW s, IsStep(s), NEW state
    PROVE  Idles(s, SetState(s, state)) /\ Steady(s, SetState(s, state))
           /\ Alike(s.w, SetState(s, state).w)
<1>1. "state" \in WorkerFields
  BY DEF WorkerFields
<1>2. SetState(s, state) = [s EXCEPT !.w = [s.w EXCEPT !["state"] = state]]
  BY DEF SetState
<1> QED
  BY <1>1, <1>2, OtherField DEF Steady, Same, Alike

(* One after the other.                                                    *)
LEMMA Composed ==
    ASSUME NEW s, NEW t, NEW u, Steady(s, t), Steady(t, u)
    PROVE  /\ Steady(s, u)
           /\ Idles(s, t) /\ Idles(t, u) => Idles(s, u)
           /\ Idles(s, t) /\ Adds(t, u) => Adds(s, u)
           /\ Adds(s, t) /\ Idles(t, u) => Adds(s, u)
<1>1. Steady(s, u)
  BY DEF Steady
<1>2. Kept(s, t) /\ Kept(t, u) => Kept(s, u)
  BY DEF Kept
<1> QED
  BY <1>1, <1>2 DEF Idles, Adds

(* The wait for a broadcast and its end.                                   *)
LEMMA WaitFacts ==
    ASSUME NEW s, IsStep(s)
    PROVE  LET t == [s EXCEPT !.w.pending = TRUE]
           IN  Adds(s, t) /\ Steady(s, t) /\ t.out = s.out /\ t.spawn = s.spawn
<1> DEFINE t == [s EXCEPT !.w.pending = TRUE]
           b == TRUE
<1>1. t = WithPending(s, b) /\ b \in BOOLEAN /\ b
  BY DEF WithPending
<1> HIDE DEF t, b
<1>4. \A c \in BOOLEAN : t = WithPending(s, c) =>
          /\ c => Adds(s, t)
          /\ Same(s, t) /\ \A g \in WorkerFields \ {"pending"} : t.w[g] = s.w[g]
  BY PendingFacts
<1>2. Adds(s, t) /\ Same(s, t) /\ \A g \in WorkerFields \ {"pending"} : t.w[g] = s.w[g]
  BY <1>1, <1>4
<1>3. t.w.queue = s.w.queue
  BY <1>2 DEF WorkerFields
<1> QED
  BY <1>2, <1>3 DEF Steady, Same, t

(* The next thing to sync is looked for.                                   *)
LEMMA NextSyncFacts ==
    ASSUME NEW s, IsStep(s)
    PROVE  Adds(s, RequestNextSync(s)) /\ Steady(s, RequestNextSync(s))
<1> DEFINE e == [task |-> "NextSync", header |-> s.w.header, para |-> s.w.para,
                 block |-> s.w.block]
<1>1. Looks(e)
  BY DEF Looks
<1>2. RequestNextSync(s) = Spawn(s, e)
  BY DEF RequestNextSync
<1> HIDE DEF e
<1> QED
  BY <1>1, <1>2, SpawnFacts DEF Steady

(* A request is made.                                                      *)
LEMMA RequestFacts ==
    ASSUME NEW s, IsStep(s), NEW r, RequestOK(r)
    PROVE  /\ ~IsLeading(r) => Idles(s, AddRequest(s, r))
           /\ IsLeading(r) => Adds(s, AddRequest(s, r))
           /\ Steady(s, AddRequest(s, r))
<1> DEFINE e == Request(r)
<1>1. SentOK(e) /\ (Carries(e) <=> IsLeading(r))
  BY DEF Request, Carries, SentOK
<1>2. AddRequest(s, r) = Send(s, e)
  BY DEF AddRequest
<1> HIDE DEF e
<1> QED
  BY <1>1, <1>2, SendFacts DEF Steady

(* Compute management makes requests and sends transactions, but never     *)
(* hands on the progress of the worker.                                    *)
LEMMA ManagementFacts ==
    ASSUME NEW s0, IsStep(s0)
    PROVE  LET t == RequestComputeManagement(s0)
           IN  Idles(s0, t) /\ Steady(s0, t)
<1> DEFINE s == [s0 EXCEPT !.w.stage = IF @ = "None" THEN "NotStarted" ELSE @]
           next == DeterminateNextStage(s.w)
           done == CASE next = "Register" -> RequestRegister(s)
                     [] next = "InitialScore" -> s
                     [] next = "AddToPool" -> RequestAddToPool(s)
                     [] next = "StartComputing" -> RequestStartComputing(s)
                     [] next = "Completed" -> SetState(s, "Working")
           t == [done EXCEPT !.w.stage = next]
<1>0. "stage" \in WorkerFields
  BY DEF WorkerFields
<1>1. Idles(s0, s) /\ Steady(s0, s)
  <2> DEFINE y == IF s0.w.stage = "None" THEN "NotStarted" ELSE s0.w.stage
  <2>1. s = [s0 EXCEPT !.w = [s0.w EXCEPT !["stage"] = y]]
    OBVIOUS
  <2> HIDE DEF s, y
  <2> QED
    BY <1>0, <2>1, OtherField DEF Steady, Same, Alike
<1>2. IsStep(s)
  BY <1>1 DEF Idles, Kept
<1>3. RequestComputeManagement(s0) = IF s.w.stage = "Completed" \/ IsSyncOnly(s.w) THEN s ELSE t
  BY DEF RequestComputeManagement
<1> HIDE DEF s
<1>4. next \in {"Register", "InitialScore", "AddToPool", "StartComputing", "Completed"}
  BY DEF DeterminateNextStage
<1> HIDE DEF next
<1>5. Idles(s, s) /\ Steady(s, s)
  BY <1>2 DEF Idles, Kept, Steady
<1>6. Idles(s, RequestRegister(s)) /\ Steady(s, RequestRegister(s))
  <2>1. ~IsLeading(Req("PrepareRegister")) /\ RequestOK(Req("PrepareRegister"))
    BY DEF IsLeading, Req, Leading, RequestOK, Kinds
  <2> QED
    BY <2>1, <1>2, <1>5, RequestFacts DEF RequestRegister
<1>7. Idles(s, RequestAddToPool(s)) /\ Steady(s, RequestAddToPool(s))
  <2>1. ~Looks([task |-> "AddToPool"])
    BY DEF Looks
  <2> QED
    BY <2>1, <1>2, <1>5, SpawnFacts DEF RequestAddToPool, Steady
<1>8. Idles(s, RequestStartComputing(s)) /\ Steady(s, RequestStartComputing(s))
  <2>1. ~Looks([task |-> "StartComputing"])
    BY DEF Looks
  <2> QED
    BY <2>1, <1>2, <1>5, SpawnFacts DEF RequestStartComputing, Steady
<1>9. Idles(s, done) /\ Steady(s, done)
  BY <1>2, <1>4, <1>5, <1>6, <1>7, <1>8, SetStateFacts
<1> HIDE DEF done
<1>10. IsStep(done)
  BY <1>9 DEF Idles, Kept
<1>11. Idles(done, t) /\ Steady(done, t)
  <2>1. t = [done EXCEPT !.w = [done.w EXCEPT !["stage"] = next]]
    OBVIOUS
  <2> HIDE DEF t
  <2> QED
    BY <1>0, <1>10, <2>1, OtherField DEF Steady, Same, Alike
<1> HIDE DEF t
<1>12. Idles(s0, t) /\ Steady(s0, t)
  BY <1>1, <1>9, <1>11, Composed
<1> QED
  BY <1>1, <1>3, <1>12

(* The worker is at another place.                                         *)
Moved(s, t, h, p, b) ==
    /\ IsStep(t) /\ Same(s, t) /\ t.w.present = s.w.present /\ t.w.queue = s.w.queue
    /\ t.w.header = h /\ t.w.para = p /\ t.w.block = b
    /\ Carried(t) = Carried(s)

(* A move changes nothing but the numbers.                                 *)
LEMMA MoveFacts ==
    ASSUME NEW s, IsStep(s), NEW h, NEW p, NEW b
    PROVE  LET t == [s EXCEPT !.w.header = h, !.w.para = p, !.w.block = b]
           IN  Moved(s, t, h, p, b) /\ t.w.info = s.w.info
<1> DEFINE t == [s EXCEPT !.w.header = h, !.w.para = p, !.w.block = b]
           x == [s.w EXCEPT !.header = h]
           y == [x EXCEPT !.para = p]
           z == [y EXCEPT !.block = b]
<1>0. /\ IsWorker(s.w)
      /\ {"header", "para", "block"} \subseteq WorkerFields
  BY DEF IsStep, WorkerFields
<1>1. t = [s EXCEPT !.w = z]
  <2>1. s.w = [f \in WorkerFields |-> s.w[f]] /\ s = [f \in {"w", "out", "spawn", "call"} |-> s[f]]
    BY <1>0 DEF IsWorker, IsStep
  <2> QED
    BY <2>1
<1>2. IsWorker(x) /\ x.header = h /\ \A g \in WorkerFields \ {"header"} : x[g] = s.w[g]
  BY <1>0, FieldChange
<1> HIDE DEF t, x
<1>3. IsWorker(y) /\ y.para = p /\ \A g \in WorkerFields \ {"para"} : y[g] = x[g]
  BY <1>0, <1>2, FieldChange
<1> HIDE DEF y
<1>4. IsWorker(z) /\ z.block = b /\ \A g \in WorkerFields \ {"block"} : z[g] = y[g]
  BY <1>0, <1>3, FieldChange
<1> HIDE DEF z
<1>5. IsStep(t) /\ t.w = z /\ Same(s, t)
  BY <1>1, <1>4, WorkerChange
<1>6. z.header = h /\ z.para = p /\ z.block = b
  BY <1>2, <1>3, <1>4 DEF WorkerFields
<1>7. z.present = s.w.present /\ z.queue = s.w.queue /\ z.pending = s.w.pending
      /\ z.info = s.w.info
  BY <1>2, <1>3, <1>4 DEF WorkerFields
<1>8. Carried(t) = Carried(s)
  BY <1>5, <1>7 DEF Carried, Same
<1> QED
  BY <1>5, <1>6, <1>7, <1>8 DEF Moved, t

(* A handler that may move the worker, and hands on at most one carrier.   *)
Gains(s, t) ==
    /\ IsStep(t) /\ t.w.present = s.w.present /\ (Plain(s) => Plain(t)) /\ Steady(s, t)
    /\ \E p : Carried(t) \subseteq Carried(s) \cup {p}

(* What hands on nothing or one carrier hands on at most one.              *)
LEMMA HandsGains ==
    ASSUME NEW s, NEW t, Hands(s, t), Steady(s, t)
    PROVE  Gains(s, t)
  BY DEF Hands, Idles, Adds, Kept, Gains

(* The answer to an empty request.                                         *)
LEMMA EmptySyncFacts ==
    ASSUME NEW s, IsStep(s)
    PROVE  Adds(s, HandleEmptySync(s)) /\ Steady(s, HandleEmptySync(s))
  BY WaitFacts, NextSyncFacts DEF HandleEmptySync

(* At the tip the worker waits for a broadcast, whatever else it does.     *)
LEMMA ChaintipFacts ==
    ASSUME NEW s, IsStep(s)
    PROVE  Adds(s, AtChaintip(s)) /\ Steady(s, AtChaintip(s))
<1> DEFINE t == [s EXCEPT !.w.pending = TRUE]
           u == RequestComputeManagement(t)
<1>1. Adds(s, t) /\ Steady(s, t)
  BY WaitFacts
<1>2. AtChaintip(s) \in {t, u}
  BY DEF AtChaintip
<1> HIDE DEF t
<1>3. IsStep(t)
  BY <1>1 DEF Adds, Kept
<1>4. Idles(t, u) /\ Steady(t, u)
  BY <1>3, ManagementFacts
<1> HIDE DEF u
<1>5. Adds(s, u) /\ Steady(s, u)
  BY <1>1, <1>4, Composed
<1> QED
  BY <1>1, <1>2, <1>5

(* The start of the life of a worker.                                      *)
LEMMA LifecycleFacts ==
    ASSUME NEW s, IsStep(s)
    PROVE  LET t == RequestPrepareLifecycle(s) IN Hands(s, t) /\ Steady(s, t)
<1> DEFINE a == RequestInit(s)
           b == Send(s, Ev("LoadState"))
           c == [s EXCEPT !.w.pending = TRUE]
           d == RequestComputeManagement(c)
           e == SetState(d, "Preparing")
           f == RequestNextSync(s)
           g == SetState(f, "Synchronizing")
<1>1. Hands(s, a) /\ Steady(s, a)
  <2>1. IsLeading(Req("InitRuntime")) /\ RequestOK(Req("InitRuntime"))
    BY DEF IsLeading, Leading, Req, RequestOK, Kinds
  <2> QED
    BY <2>1, RequestFacts, SetStateFacts DEF RequestInit, Hands
<1>2. Adds(s, b) /\ Steady(s, b)
  <2>1. Carries(Ev("LoadState")) /\ SentOK(Ev("LoadState"))
    BY DEF Carries, Ev, SentOK
  <2> QED
    BY <2>1, SendFacts DEF Steady
<1>3. Adds(s, c) /\ Steady(s, c)
  BY WaitFacts
<1>4. RequestPrepareLifecycle(s) \in {a, b, e, g}
  BY DEF RequestPrepareLifecycle
<1> HIDE DEF a, b, c
<1>5. Idles(c, d) /\ Steady(c, d)
  BY <1>3, ManagementFacts DEF Adds, Kept
<1> HIDE DEF d
<1>6. Idles(d, e) /\ Steady(d, e)
  BY <1>5, SetStateFacts DEF Idles, Kept
<1>7. Adds(s, f) /\ Steady(s, f)
  BY NextSyncFacts
<1> HIDE DEF e, f
<1>8. Idles(f, g) /\ Steady(f, g)
  BY <1>7, SetStateFacts DEF Adds, Kept
<1> HIDE DEF g
<1>9. Adds(s, d) /\ Steady(s, d)
  BY <1>3, <1>5, Composed
<1>10. Adds(s, e) /\ Steady(s, e)
  BY <1>6, <1>9, Composed
<1>11. Adds(s, g) /\ Steady(s, g)
  BY <1>7, <1>8, Composed
<1> QED
  BY <1>1, <1>2, <1>4, <1>10, <1>11 DEF Hands

(* The number of the next header, para header or block after an answer.    *)
Synced(old, to) == IF to = -1 THEN old ELSE to + 1

(* The answer to a Sync moves the worker and hands its progress on.        *)
LEMMA SyncResponseFacts ==
    ASSUME NEW s, IsStep(s), NEW data
    PROVE  LET t == HandleSyncResponse(s, data)
           IN  /\ Gains(s, t)
               /\ t.w.header = Synced(s.w.header, data.header)
               /\ t.w.para = Synced(s.w.para, data.para)
               /\ t.w.block = Synced(s.w.block, data.block)
<1> DEFINE h == Synced(s.w.header, data.header)
           p == Synced(s.w.para, data.para)
           b == Synced(s.w.block, data.block)
           m == [s EXCEPT !.w.header = h, !.w.para = p, !.w.block = b]
           q == AddRequest(m, Req("GetEgressMessages"))
           Next2(a) == IF IsReachedChaintip(a.w) THEN AtChaintip(a) ELSE RequestNextSync(a)
           t == HandleSyncResponse(s, data)
<1>1. t \in {Next2(m), Next2(q)}
  <2>1. IsWorker(s.w)
    BY DEF IsStep
  <2>2. s.w = [f \in WorkerFields |-> s.w[f]] /\ s = [f \in {"w", "out", "spawn", "call"} |-> s[f]]
    BY <2>1 DEF IsWorker, IsStep
  <2> QED
    BY <2>2 DEF HandleSyncResponse, Synced
<1> HIDE DEF h, p, b
<1>2. Moved(s, m, h, p, b)
  BY MoveFacts
<1> HIDE DEF m, t
<1>3. IsStep(m) /\ Steady(s, m) /\ (Plain(s) => Plain(m)) /\ Carried(m) = Carried(s)
      /\ m.w.present = s.w.present /\ m.w.header = h /\ m.w.para = p /\ m.w.block = b
  BY <1>2 DEF Moved, Same, Steady, Plain
<1>4. ~IsLeading(Req("GetEgressMessages")) /\ RequestOK(Req("GetEgressMessages"))
  BY DEF IsLeading, Leading, Req, RequestOK, Kinds
<1>5. Idles(m, q) /\ Steady(m, q)
  BY <1>3, <1>4, RequestFacts
<1> HIDE DEF q
<1>6. Idles(m, m) /\ Steady(m, m)
  BY <1>3 DEF Idles, Kept, Steady
<1>7. ASSUME NEW a, Idles(m, a), Steady(m, a), t = Next2(a)
      PROVE  /\ Gains(s, t) /\ t.w.header = h /\ t.w.para = p /\ t.w.block = b
  <2>1. IsStep(a)
    BY <1>7 DEF Idles, Kept
  <2>2. Adds(a, t) /\ Steady(a, t)
    BY <1>7, <2>1, ChaintipFacts, NextSyncFacts
  <2>3. Adds(m, t) /\ Steady(m, t)
    BY <1>7, <2>2, Composed
  <2>4. Steady(s, t)
    BY <1>3, <2>3 DEF Steady
  <2> QED
    BY <1>3, <2>3, <2>4 DEF Adds, Kept, Gains
<1>8. CASE t = Next2(m)
  BY <1>6, <1>7, <1>8 DEF t, h, p, b
<1>9. CASE t = Next2(q)
  BY <1>5, <1>7, <1>9 DEF t, h, p, b
<1> QED
  BY SMTT(30), <1>1, <1>8, <1>9

(* A request of pRuntime is dropped, executed or queued; a Sync that is    *)
(* empty or does not fit leads to another look for what comes next.        *)
LEMMA RequestEventFacts ==
    ASSUME NEW s, IsStep(s), NEW r, RequestOK(r)
    PROVE  LET t == HandlePRuntimeRequest(s, r)
           IN  /\ Hands(s, t)
               /\ ~IsLeading(r) => Idles(s, t)
               /\ \/ Steady(s, t)
                  \/ /\ t.call = Append(s.call, r) /\ t.w.queue = s.w.queue
                     /\ r.kind = "Sync" => IsMatch(s.w, r)
                  \/ /\ t.call = s.call /\ t.w.queue = Append(s.w.queue, r)
                     /\ r.kind = "Sync" => IsMatch(s.w, r)
<1> DEFINE t == HandlePRuntimeRequest(s, r)
           x == Execute(s, r)
           q == [s EXCEPT !.w.queue = Append(@, r)]
<1>1. Idles(s, s) /\ Steady(s, s)
  BY DEF Idles, Kept, Steady
<1>2. /\ ~IsLeading(r) => Idles(s, x)
      /\ IsLeading(r) => Adds(s, x)
      /\ x.call = Append(s.call, r) /\ x.w.queue = s.w.queue
  BY ExecuteFacts DEF Alike
<1>3. /\ ~IsLeading(r) => Idles(s, q)
      /\ IsLeading(r) => Adds(s, q)
      /\ q.call = s.call /\ q.w.queue = Append(s.w.queue, r)
  <2>1. q = WithQueue(s, Append(s.w.queue, r))
    BY DEF WithQueue
  <2> HIDE DEF q
  <2> QED
    BY <2>1, QueueFacts DEF Same
<1>4. r.kind = "Sync" => IsLeading(r)
  BY DEF IsLeading, Leading
<1>5. \/ r.kind = "Sync" /\ t \in {HandleEmptySync(s), RequestNextSync(s)}
      \/ t = s
      \/ t = x /\ r.kind # "Sync"
      \/ t \in {x, q} /\ (r.kind = "Sync" => IsMatch(s.w, r))
  BY DEF HandlePRuntimeRequest
<1> HIDE DEF t, x, q
<1>6. CASE r.kind = "Sync" /\ t \in {HandleEmptySync(s), RequestNextSync(s)}
  <2>1. Adds(s, t) /\ Steady(s, t)
    BY <1>6, EmptySyncFacts, NextSyncFacts
  <2> QED
    BY <1>4, <1>6, <2>1 DEF Hands, t
<1>7. CASE t = s
  BY <1>1, <1>7 DEF Hands, t
<1>8. CASE t \in {x, q} /\ (r.kind = "Sync" => IsMatch(s.w, r))
  BY <1>2, <1>3, <1>8 DEF Hands, t
<1> QED
  BY <1>5, <1>6, <1>7, <1>8

(* What pRuntime says of itself is remembered.                             *)
LEMMA InfoFacts ==
    ASSUME NEW s, IsStep(s), NEW data
    PROVE  Idles(s, WithInfo(s, data)) /\ Steady(s, WithInfo(s, data))
<1> DEFINE y == [initialized |-> data.initialized, canLoad |-> data.canLoad,
                 registered |-> data.registered]
<1>1. "info" \in WorkerFields
  BY DEF WorkerFields
<1>2. WithInfo(s, data) = [s EXCEPT !.w = [s.w EXCEPT !["info"] = y]]
  BY DEF WithInfo
<1> HIDE DEF y
<1> QED
  BY <1>1, <1>2, OtherField DEF Steady, Same, Alike

(* An answer hands on at most one carrier, and one that is not of the      *)
(* leading kinds none.                                                     *)
LEMMA ResponseFacts ==
    ASSUME NEW s, IsStep(s), NEW kind \in Kinds, NEW data
    PROVE  LET t == HandlePRuntimeResponse(s, kind, data)
           IN  Gains(s, t) /\ (kind \notin Leading => Carried(t) = Carried(s))
<1> DEFINE t == HandlePRuntimeResponse(s, kind, data)
<1>1. Idles(s, s) /\ Steady(s, s)
  BY DEF Idles, Kept, Steady
<1>2. CASE kind = "PrepareLifecycle"
  <2> DEFINE a == WithInfo(s, data)
             m == [a EXCEPT !.w.header = data.header, !.w.para = data.para,
                            !.w.block = data.block]
  <2>1. t = RequestPrepareLifecycle(m)
    BY <1>2 DEF HandlePRuntimeResponse
  <2>2. Idles(s, a) /\ Steady(s, a)
    BY SMTT(30), InfoFacts
  <2> HIDE DEF a
  <2>3. Moved(a, m, data.header, data.para, data.block)
    BY <2>2, MoveFacts DEF Idles, Kept
  <2> HIDE DEF m
  <2>4. /\ IsStep(m) /\ Carried(m) = Carried(s) /\ m.w.present = s.w.present
        /\ Steady(s, m) /\ (Plain(s) => Plain(m))
    BY <2>2, <2>3 DEF Moved, Same, Idles, Kept, Steady, Plain
  <2> HIDE DEF t
  <2>5. Gains(m, t)
    BY <2>1, <2>4, LifecycleFacts, HandsGains
  <2>6. Gains(s, t)
    BY <2>4, <2>5 DEF Gains, Steady
  <2> QED
    BY <1>2, <2>6 DEF Leading, t
<1>3. CASE kind \in {"InitRuntime", "LoadChainState"}
  <2>1. t = AddRequest(s, Req("PrepareLifecycle"))
    BY <1>3 DEF HandlePRuntimeResponse
  <2>2. RequestOK(Req("PrepareLifecycle")) /\ IsLeading(Req("PrepareLifecycle"))
    BY DEF Req, RequestOK, Kinds, IsLeading, Leading
  <2>3. Gains(s, t)
    BY <2>1, <2>2, RequestFacts, HandsGains DEF Hands
  <2> QED
    BY <1>3, <2>3 DEF Leading
<1>4. CASE kind = "Sync"
  <2>1. t = HandleSyncResponse(s, data)
    BY <1>4 DEF HandlePRuntimeResponse
  <2> QED
    BY <1>4, <2>1, SyncResponseFacts DEF Leading
<1>5. CASE kind = "RegularGetInfo"
  <2> DEFINE a == SetState(s, "HasError")
             b == [a EXCEPT !.w.stopped = TRUE]
             c == IF Position(s.w) = Position(data) THEN s ELSE b
  <2>1. t = WithInfo(c, data)
    BY <1>5 DEF HandlePRuntimeResponse
  <2>2. Idles(s, a) /\ Steady(s, a)
    BY SetStateFacts
  <2> HIDE DEF a
  <2>3. Idles(a, b) /\ Steady(a, b)
    <3>1. "stopped" \in WorkerFields /\ b = [a EXCEPT !.w = [a.w EXCEPT !["stopped"] = TRUE]]
      BY DEF WorkerFields
    <3> HIDE DEF b
    <3> QED
      BY <2>2, <3>1, OtherField DEF Idles, Kept, Steady, Same, Alike
  <2>4. Idles(s, c) /\ Steady(s, c)
    BY <1>1, <2>2, <2>3, Composed
  <2> HIDE DEF t, c
  <2>5. Idles(c, t) /\ Steady(c, t)
    BY <2>1, <2>4, InfoFacts DEF Idles, Kept
  <2>6. Idles(s, t) /\ Steady(s, t)
    BY <2>4, <2>5, Composed
  <2> QED
    BY <2>6, HandsGains DEF Hands, Idles, t
<1>6. CASE kind \in {"PrepareRegister", "GetEgressMessages", "SignEndpoints", "TakeCheckpoint"}
  <2>1. \/ t = s
        \/ \E name \in {"Register", "SyncMessages", "UpdateEndpoints"} :
              t = Spawn(s, [task |-> name])
    BY <1>6 DEF HandlePRuntimeResponse
  <2>2. \A name \in {"Register", "SyncMessages", "UpdateEndpoints"} : ~Looks([task |-> name])
    BY DEF Looks
  <2> HIDE DEF t
  <2>3. Idles(s, t) /\ Steady(s, t)
    BY <1>1, <2>1, <2>2, SpawnFacts DEF Steady
  <2> QED
    BY <2>3, HandsGains DEF Hands, Idles, t
<1> QED
  BY <1>2, <1>3, <1>4, <1>5, <1>6 DEF Kinds

-----------------------------------------------------------------------------
(* Carriers, counted by where they are.                                    *)

One(A) == \A a, b \in A : a = b

EventMarks(q) == {j \in DOMAIN q : Carries(q[j])}
TaskMarks(q) == {j \in DOMAIN q : Looks(q[j])}
RequestMarks(q) == {j \in DOMAIN q : IsLeading(q[j])}

(* No carrier is anywhere, or one is somewhere.                            *)
Nowhere(A, B, C, D, E) == A = {} /\ B = {} /\ C = {} /\ D = {} /\ E = {}
Somewhere(A, B, C, D, E) ==
    /\ One(A) /\ One(B) /\ One(C) /\ One(D) /\ One(E)
    /\ A # {} => B = {} /\ C = {} /\ D = {} /\ E = {}
    /\ B # {} => C = {} /\ D = {} /\ E = {}
    /\ C # {} => D = {} /\ E = {}
    /\ D # {} => E = {}

(* T is made of pairs with different first components.                     *)
Pairs(T, A, B, C, D, E, ta, tb, tc, td, te) ==
    /\ \A i \in A : <<ta, i>> \in T
    /\ \A i \in B : <<tb, i>> \in T
    /\ \A i \in C : <<tc, i>> \in T
    /\ \A i \in D : <<td, i>> \in T
    /\ \A i \in E : <<te, i>> \in T
    /\ \A x \in T : \/ \E i \in A : x = <<ta, i>>
                    \/ \E i \in B : x = <<tb, i>>
                    \/ \E i \in C : x = <<tc, i>>
                    \/ \E i \in D : x = <<td, i>>
                    \/ \E i \in E : x = <<te, i>>
    /\ ta \notin {tb, tc, td, te} /\ tb \notin {tc, td, te} /\ tc \notin {td, te} /\ td # te

(* Such a set has no element when the sets of second components have none, *)
(* and one at most when they have.                                         *)
LEMMA PairFacts ==
    ASSUME NEW T, NEW A, NEW B, NEW C, NEW D, NEW E, NEW ta, NEW tb, NEW tc, NEW td, NEW te,
           Pairs(T, A, B, C, D, E, ta, tb, tc, td, te)
    PROVE  (T = {} <=> Nowhere(A, B, C, D, E)) /\ (One(T) <=> Somewhere(A, B, C, D, E))
<1>1. T = {} <=> Nowhere(A, B, C, D, E)
  BY DEF Nowhere, Pairs
<1>2. ASSUME One(T) PROVE Somewhere(A, B, C, D, E)
  <2>0. \A t, u, i, j : <<t, i>> \in T /\ <<u, j>> \in T => t = u /\ i = j
    BY <1>2 DEF One
  <2>1. One(A) /\ One(B) /\ One(C) /\ One(D) /\ One(E)
    BY ZenonT(60), <2>0 DEF One, Pairs
  <2>2. \A i \in A : (\A j \in B : FALSE) /\ (\A j \in C : FALSE) /\ (\A j \in D : FALSE)
                     /\ (\A j \in E : FALSE)
    BY <2>0 DEF Pairs
  <2>3. \A i \in B : (\A j \in C : FALSE) /\ (\A j \in D : FALSE) /\ (\A j \in E : FALSE)
    BY <2>0 DEF Pairs
  <2>4. /\ \A i \in C : (\A j \in D : FALSE) /\ (\A j \in E : FALSE)
        /\ \A i \in D, j \in E : FALSE
    BY <2>0 DEF Pairs
  <2> QED
    BY <2>1, <2>2, <2>3, <2>4 DEF Somewhere
<1>3. ASSUME Somewhere(A, B, C, D, E) PROVE One(T)
  BY <1>3 DEF Somewhere, One, Pairs
<1> QED
  BY <1>1, <1>2, <1>3

PendingMarks(b) == IF b THEN {0} ELSE {}

(* The carriers that a step holds.                                         *)
LEMMA CarriedFacts ==
    ASSUME NEW s, IsStep(s)
    PROVE  LET A == EventMarks(s.out)
               B == TaskMarks(s.spawn)
               C == RequestMarks(s.call)
               D == RequestMarks(s.w.queue)
           IN  /\ Carried(s) = {} <=> Nowhere(A, B, C, D, PendingMarks(s.w.pending))
               /\ One(Carried(s)) <=> Somewhere(A, B, C, D, PendingMarks(s.w.pending))
<1> DEFINE A == EventMarks(s.out)
           B == TaskMarks(s.spawn)
           C == RequestMarks(s.call)
           D == RequestMarks(s.w.queue)
           E == PendingMarks(s.w.pending)
           T == Carried(s)
           ta == "out"
           tb == "spawn"
           tc == "call"
           td == "queue"
           te == "pending"
<1>1. T = {<<ta, i>> : i \in A} \cup {<<tb, i>> : i \in B} \cup {<<tc, i>> : i \in C}
          \cup {<<td, i>> : i \in D} \cup {<<te, i>> : i \in E}
  BY DEF Carried, OutPlaces, SpawnPlaces, CallPlaces, QueuePlaces, PendingPlaces, EventMarks,
         TaskMarks, RequestMarks, PendingMarks
<1>3. Pairs(T, A, B, C, D, E, ta, tb, tc, td, te)
  <2>1. ta \notin {tb, tc, td, te} /\ tb \notin {tc, td, te} /\ tc \notin {td, te} /\ td # te
    OBVIOUS
  <2> HIDE DEF A, B, C, D, E, T, ta, tb, tc, td, te
  <2>2. /\ \A i \in A : <<ta, i>> \in T
        /\ \A i \in B : <<tb, i>> \in T
        /\ \A i \in C : <<tc, i>> \in T
        /\ \A i \in D : <<td, i>> \in T
        /\ \A i \in E : <<te, i>> \in T
    BY <1>1
  <2>3. \A x \in T : \/ \E i \in A : x = <<ta, i>>
                     \/ \E i \in B : x = <<tb, i>>
                     \/ \E i \in C : x = <<tc, i>>
                     \/ \E i \in D : x = <<td, i>>
                     \/ \E i \in E : x = <<te, i>>
    BY <1>1
  <2> QED
    BY <2>1, <2>2, <2>3 DEF Pairs
<1> HIDE DEF A, B, C, D, E, T, ta, tb, tc, td, te
<1>4. (T = {} <=> Nowhere(A, B, C, D, E)) /\ (One(T) <=> Somewhere(A, B, C, D, E))
  BY <1>3, PairFacts
<1> QED
  BY <1>4 DEF A, B, C, D, E, T

(* The carriers of the system.                                             *)
ThreadsOf(q, t, c, w) ==
    {<<"bus", i>> : i \in EventMarks(q)} \cup {<<"tasks", i>> : i \in TaskMarks(t)}
    \cup {<<"calls", i>> : i \in RequestMarks(c)} \cup {<<"queue", i>> : i \in RequestMarks(w.queue)}
    \cup PendingPlaces(w.pending)

(* There are none, or there is one.                                        *)
LEMMA ThreadFacts ==
    ASSUME NEW q, NEW ts, NEW cs, NEW w
    PROVE  LET A == EventMarks(q)
               B == TaskMarks(ts)
               C == RequestMarks(cs)
               D == RequestMarks(w.queue)
               E == PendingMarks(w.pending)
           IN  /\ ThreadsOf(q, ts, cs, w) = {} <=> Nowhere(A, B, C, D, E)
               /\ One(ThreadsOf(q, ts, cs, w)) <=> Somewhere(A, B, C, D, E)
<1> DEFINE A == EventMarks(q)
           B == TaskMarks(ts)
           C == RequestMarks(cs)
           D == RequestMarks(w.queue)
           E == PendingMarks(w.pending)
           T == ThreadsOf(q, ts, cs, w)
           ta == "bus"
           tb == "tasks"
           tc == "calls"
           td == "queue"
           te == "pending"
<1>1. T = {<<ta, i>> : i \in A} \cup {<<tb, i>> : i \in B} \cup {<<tc, i>> : i \in C}
          \cup {<<td, i>> : i \in D} \cup {<<te, i>> : i \in E}
  BY DEF ThreadsOf, PendingPlaces, PendingMarks
<1>3. Pairs(T, A, B, C, D, E, ta, tb, tc, td, te)
  <2>1. ta \notin {tb, tc, td, te} /\ tb \notin {tc, td, te} /\ tc \notin {td, te} /\ td # te
    OBVIOUS
  <2> HIDE DEF A, B, C, D, E, T, ta, tb, tc, td, te
  <2>2. /\ \A i \in A : <<ta, i>> \in T
        /\ \A i \in B : <<tb, i>> \in T
        /\ \A i \in C : <<tc, i>> \in T
        /\ \A i \in D : <<td, i>> \in T
        /\ \A i \in E : <<te, i>> \in T
    BY <1>1
  <2>3. \A x \in T : \/ \E i \in A : x = <<ta, i>>
                     \/ \E i \in B : x = <<tb, i>>
                     \/ \E i \in C : x = <<tc, i>>
                     \/ \E i \in D : x = <<td, i>>
                     \/ \E i \in E : x = <<te, i>>
    BY <1>1
  <2> QED
    BY <2>1, <2>2, <2>3 DEF Pairs
<1> HIDE DEF A, B, C, D, E, T, ta, tb, tc, td, te
<1>4. (T = {} <=> Nowhere(A, B, C, D, E)) /\ (One(T) <=> Somewhere(A, B, C, D, E))
  BY <1>3, PairFacts
<1> QED
  BY <1>4 DEF A, B, C, D, E, T

(* The threads of the system are these.                                    *)
LEMMA ThreadsAre ==
    /\ Threads = ThreadsOf(bus, tasks, calls, worker)
    /\ Threads' = ThreadsOf(bus', tasks', calls', worker')
    /\ OneThread <=> One(ThreadsOf(bus, tasks, calls, worker))
    /\ OneThread' <=> One(ThreadsOf(bus', tasks', calls', worker'))
<1>1. Threads = ThreadsOf(bus, tasks, calls, worker)
  BY DEF Threads, ThreadsOf, EventMarks, TaskMarks, RequestMarks, PendingPlaces
<1>2. Threads' = ThreadsOf(bus', tasks', calls', worker')
  BY DEF Threads, ThreadsOf, EventMarks, TaskMarks, RequestMarks, PendingPlaces
<1>3. (OneThread <=> One(Threads)) /\ (OneThread' <=> One(Threads'))
  BY DEF OneThread, One
<1> QED
  BY <1>1, <1>2, <1>3

(* Events that carry progress in a sequence whose first element is taken. *)
LEMMA EventTail ==
    ASSUME NEW q, IsSeq(q), q # << >>
    PROVE  /\ EventMarks(q) = {} => EventMarks(Tail(q)) = {}
           /\ One(EventMarks(q)) => One(EventMarks(Tail(q)))
           /\ Carries(Head(q)) => EventMarks(q) # {}
           /\ One(EventMarks(q)) /\ Carries(Head(q)) => EventMarks(Tail(q)) = {}
<1>1. Shifted(q, Tail(q))
  BY TailFacts
<1> DEFINE t == Tail(q)
           h == Head(q)
<1> HIDE DEF t, h
<1>2. /\ h = q[1] /\ 1 \in DOMAIN q /\ IsSeq(t)
      /\ \A i \in DOMAIN t : i + 1 \in DOMAIN q /\ t[i] = q[i + 1]
  BY <1>1 DEF Shifted, t, h
<1>3. DOMAIN t \subseteq Nat \ {0}
  BY <1>2, SeqFacts
<1>4. \A i \in EventMarks(t) : i \in Nat \ {0} /\ i + 1 \in EventMarks(q)
  BY <1>2, <1>3 DEF EventMarks
<1>5. Carries(h) => 1 \in EventMarks(q)
  BY <1>2 DEF EventMarks
<1>6. EventMarks(q) = {} => EventMarks(t) = {}
  BY <1>4
<1>7. One(EventMarks(q)) => One(EventMarks(t))
  BY <1>4 DEF One
<1>8. ASSUME One(EventMarks(q)), Carries(h), NEW i \in EventMarks(t) PROVE FALSE
  <2>1. i + 1 = 1
    BY <1>4, <1>5, <1>8 DEF One
  <2> QED
    BY <1>4, <2>1
<1> QED
  BY <1>5, <1>6, <1>7, <1>8 DEF t, h

(* Events that carry progress in a sequence that is made of two. *)
LEMMA EventJoin ==
    ASSUME NEW q, IsSeq(q), NEW r, IsSeq(r)
    PROVE  /\ IsSeq(q \o r)
           /\ EventMarks(q) = {} /\ EventMarks(r) = {} => EventMarks(q \o r) = {}
           /\ One(EventMarks(q)) /\ EventMarks(r) = {} => One(EventMarks(q \o r))
           /\ EventMarks(q) = {} /\ One(EventMarks(r)) => One(EventMarks(q \o r))
<1> DEFINE t == q \o r
<1>1. Joined(q, r, t)
  BY ConcatFacts
<1> HIDE DEF t
<1>2. IsSeq(t) /\ Len(q) \in Nat
  BY <1>1, SeqFacts DEF Joined
<1>3. DOMAIN t \subseteq Nat
  BY <1>2, SeqFacts
<1>4. \A i \in EventMarks(t) : i \in Nat /\ (i \in EventMarks(q) \/ i - Len(q) \in EventMarks(r))
  BY <1>1, <1>3 DEF Joined, EventMarks
<1>5. EventMarks(q) = {} /\ EventMarks(r) = {} => EventMarks(t) = {}
  BY <1>4
<1>6. One(EventMarks(q)) /\ EventMarks(r) = {} => One(EventMarks(t))
  BY <1>4 DEF One
<1>7. ASSUME EventMarks(q) = {}, One(EventMarks(r)) PROVE One(EventMarks(t))
  <2>1. \A i, j \in EventMarks(t) : i - Len(q) = j - Len(q)
    BY <1>4, <1>7 DEF One
  <2> QED
    BY <1>2, <1>4, <2>1 DEF One
<1> QED
  BY <1>2, <1>5, <1>6, <1>7 DEF t

(* Tasks that look for what comes next in a sequence from which an element is taken. *)
LEMMA TaskRemove ==
    ASSUME NEW q, IsSeq(q), NEW k \in DOMAIN q
    PROVE  /\ TaskMarks(q) = {} => TaskMarks(RemoveAt(q, k)) = {}
           /\ One(TaskMarks(q)) => One(TaskMarks(RemoveAt(q, k)))
           /\ Looks(q[k]) => TaskMarks(q) # {}
           /\ One(TaskMarks(q)) /\ Looks(q[k]) => TaskMarks(RemoveAt(q, k)) = {}
<1> DEFINE t == RemoveAt(q, k)
           From(i) == IF i < k THEN i ELSE i + 1
<1>1. Without(q, k, t)
  BY RemoveFacts
<1> HIDE DEF t
<1>2. IsSeq(t) /\ k \in Nat
  BY <1>1, SeqFacts DEF Without
<1>3. DOMAIN t \subseteq Nat
  BY <1>2, SeqFacts
<1>4. \A i \in TaskMarks(t) : i \in Nat /\ From(i) \in TaskMarks(q)
  BY <1>1, <1>2, <1>3 DEF TaskMarks, Without
<1>5. \A i \in Nat : From(i) # k
  BY <1>2
<1>9. \A i, j \in Nat : From(i) = From(j) => i = j
  BY <1>2
<1> HIDE DEF From
<1>6. Looks(q[k]) => k \in TaskMarks(q)
  BY DEF TaskMarks
<1>7. One(TaskMarks(q)) => One(TaskMarks(t))
  BY <1>4, <1>9 DEF One
<1>8. ASSUME One(TaskMarks(q)), Looks(q[k]), NEW i \in TaskMarks(t) PROVE FALSE
  BY <1>4, <1>5, <1>6, <1>8 DEF One
<1>10. TaskMarks(q) = {} => TaskMarks(t) = {}
  BY <1>4
<1> QED
  BY <1>6, <1>7, <1>8, <1>10 DEF t

(* Tasks that look for what comes next in a sequence that is made of two. *)
LEMMA TaskJoin ==
    ASSUME NEW q, IsSeq(q), NEW r, IsSeq(r)
    PROVE  /\ IsSeq(q \o r)
           /\ TaskMarks(q) = {} /\ TaskMarks(r) = {} => TaskMarks(q \o r) = {}
           /\ One(TaskMarks(q)) /\ TaskMarks(r) = {} => One(TaskMarks(q \o r))
           /\ TaskMarks(q) = {} /\ One(TaskMarks(r)) => One(TaskMarks(q \o r))
<1> DEFINE t == q \o r
<1>1. Joined(q, r, t)
  BY ConcatFacts
<1> HIDE DEF t
<1>2. IsSeq(t) /\ Len(q) \in Nat
  BY <1>1, SeqFacts DEF Joined
<1>3. DOMAIN t \subseteq Nat
  BY <1>2, SeqFacts
<1>4. \A i \in TaskMarks(t) : i \in Nat /\ (i \in TaskMarks(q) \/ i - Len(q) \in TaskMarks(r))
  BY <1>1, <1>3 DEF Joined, TaskMarks
<1>5. TaskMarks(q) = {} /\ TaskMarks(r) = {} => TaskMarks(t) = {}
  BY <1>4
<1>6. One(TaskMarks(q)) /\ TaskMarks(r) = {} => One(TaskMarks(t))
  BY <1>4 DEF One
<1>7. ASSUME TaskMarks(q) = {}, One(TaskMarks(r)) PROVE One(TaskMarks(t))
  <2>1. \A i, j \in TaskMarks(t) : i - Len(q) = j - Len(q)
    BY <1>4, <1>7 DEF One
  <2> QED
    BY <1>2, <1>4, <2>1 DEF One
<1> QED
  BY <1>2, <1>5, <1>6, <1>7 DEF t

(* Requests of the leading kinds in a sequence whose first element is taken. *)
LEMMA RequestTail ==
    ASSUME NEW q, IsSeq(q), q # << >>
    PROVE  /\ RequestMarks(q) = {} => RequestMarks(Tail(q)) = {}
           /\ One(RequestMarks(q)) => One(RequestMarks(Tail(q)))
           /\ IsLeading(Head(q)) => RequestMarks(q) # {}
           /\ One(RequestMarks(q)) /\ IsLeading(Head(q)) => RequestMarks(Tail(q)) = {}
<1>1. Shifted(q, Tail(q))
  BY TailFacts
<1> DEFINE t == Tail(q)
           h == Head(q)
<1> HIDE DEF t, h
<1>2. /\ h = q[1] /\ 1 \in DOMAIN q /\ IsSeq(t)
      /\ \A i \in DOMAIN t : i + 1 \in DOMAIN q /\ t[i] = q[i + 1]
  BY <1>1 DEF Shifted, t, h
<1>3. DOMAIN t \subseteq Nat \ {0}
  BY <1>2, SeqFacts
<1>4. \A i \in RequestMarks(t) : i \in Nat \ {0} /\ i + 1 \in RequestMarks(q)
  BY <1>2, <1>3 DEF RequestMarks
<1>5. IsLeading(h) => 1 \in RequestMarks(q)
  BY <1>2 DEF RequestMarks
<1>6. RequestMarks(q) = {} => RequestMarks(t) = {}
  BY <1>4
<1>7. One(RequestMarks(q)) => One(RequestMarks(t))
  BY <1>4 DEF One
<1>8. ASSUME One(RequestMarks(q)), IsLeading(h), NEW i \in RequestMarks(t) PROVE FALSE
  <2>1. i + 1 = 1
    BY <1>4, <1>5, <1>8 DEF One
  <2> QED
    BY <1>4, <2>1
<1> QED
  BY <1>5, <1>6, <1>7, <1>8 DEF t, h

(* Requests of the leading kinds in a sequence from which an element is taken. *)
LEMMA RequestRemove ==
    ASSUME NEW q, IsSeq(q), NEW k \in DOMAIN q
    PROVE  /\ RequestMarks(q) = {} => RequestMarks(RemoveAt(q, k)) = {}
           /\ One(RequestMarks(q)) => One(RequestMarks(RemoveAt(q, k)))
           /\ IsLeading(q[k]) => RequestMarks(q) # {}
           /\ One(RequestMarks(q)) /\ IsLeading(q[k]) => RequestMarks(RemoveAt(q, k)) = {}
<1> DEFINE t == RemoveAt(q, k)
           From(i) == IF i < k THEN i ELSE i + 1
<1>1. Without(q, k, t)
  BY RemoveFacts
<1> HIDE DEF t
<1>2. IsSeq(t) /\ k \in Nat
  BY <1>1, SeqFacts DEF Without
<1>3. DOMAIN t \subseteq Nat
  BY <1>2, SeqFacts
<1>4. \A i \in RequestMarks(t) : i \in Nat /\ From(i) \in RequestMarks(q)
  BY <1>1, <1>2, <1>3 DEF RequestMarks, Without
<1>5. \A i \in Nat : From(i) # k
  BY <1>2
<1>9. \A i, j \in Nat : From(i) = From(j) => i = j
  BY <1>2
<1> HIDE DEF From
<1>6. IsLeading(q[k]) => k \in RequestMarks(q)
  BY DEF RequestMarks
<1>7. One(RequestMarks(q)) => One(RequestMarks(t))
  BY <1>4, <1>9 DEF One
<1>8. ASSUME One(RequestMarks(q)), IsLeading(q[k]), NEW i \in RequestMarks(t) PROVE FALSE
  BY <1>4, <1>5, <1>6, <1>8 DEF One
<1>10. RequestMarks(q) = {} => RequestMarks(t) = {}
  BY <1>4
<1> QED
  BY <1>6, <1>7, <1>8, <1>10 DEF t

(* Requests of the leading kinds in a sequence that is made of two. *)
LEMMA RequestJoin ==
    ASSUME NEW q, IsSeq(q), NEW r, IsSeq(r)
    PROVE  /\ IsSeq(q \o r)
           /\ RequestMarks(q) = {} /\ RequestMarks(r) = {} => RequestMarks(q \o r) = {}
           /\ One(RequestMarks(q)) /\ RequestMarks(r) = {} => One(RequestMarks(q \o r))
           /\ RequestMarks(q) = {} /\ One(RequestMarks(r)) => One(RequestMarks(q \o r))
<1> DEFINE t == q \o r
<1>1. Joined(q, r, t)
  BY ConcatFacts
<1> HIDE DEF t
<1>2. IsSeq(t) /\ Len(q) \in Nat
  BY <1>1, SeqFacts DEF Joined
<1>3. DOMAIN t \subseteq Nat
  BY <1>2, SeqFacts
<1>4. \A i \in RequestMarks(t) : i \in Nat /\ (i \in RequestMarks(q) \/ i - Len(q) \in RequestMarks(r))
  BY <1>1, <1>3 DEF Joined, RequestMarks
<1>5. RequestMarks(q) = {} /\ RequestMarks(r) = {} => RequestMarks(t) = {}
  BY <1>4
<1>6. One(RequestMarks(q)) /\ RequestMarks(r) = {} => One(RequestMarks(t))
  BY <1>4 DEF One
<1>7. ASSUME RequestMarks(q) = {}, One(RequestMarks(r)) PROVE One(RequestMarks(t))
  <2>1. \A i, j \in RequestMarks(t) : i - Len(q) = j - Len(q)
    BY <1>4, <1>7 DEF One
  <2> QED
    BY <1>2, <1>4, <2>1 DEF One
<1> QED
  BY <1>2, <1>5, <1>6, <1>7 DEF t

-----------------------------------------------------------------------------
(* Handlers and the number of carriers.                                    *)

(* A handler that makes no carrier out of nothing, and one that makes one. *)
Orderly(s, t) ==
    IsStep(t) /\ t.w.present = s.w.present /\ (Plain(s) => Plain(t))
Quiet(s, t) ==
    /\ Orderly(s, t)
    /\ Carried(s) = {} => Carried(t) = {}
    /\ One(Carried(s)) => One(Carried(t))
Starts(s, t) == Orderly(s, t) /\ (Carried(s) = {} => One(Carried(t)))

(* Handlers that hand on nothing are quiet, those that hand on one start.  *)
LEMMA HandsFacts ==
    ASSUME NEW s, NEW t
    PROVE  /\ Idles(s, t) => Quiet(s, t)
           /\ Hands(s, t) => Starts(s, t)
           /\ Gains(s, t) => Starts(s, t)
           /\ Gains(s, t) /\ Carried(t) = Carried(s) => Quiet(s, t)
<1>1. Idles(s, t) => Quiet(s, t)
  BY DEF Idles, Kept, Quiet, Orderly
<1>2. Hands(s, t) => Starts(s, t)
  BY DEF Hands, Idles, Adds, Kept, Starts, Orderly, One
<1>3. Gains(s, t) => Starts(s, t)
  BY DEF Gains, Starts, Orderly, One
<1>4. Gains(s, t) /\ Carried(t) = Carried(s) => Quiet(s, t)
  BY DEF Gains, Quiet, Orderly
<1> QED
  BY <1>1, <1>2, <1>3, <1>4

(* One after the other.                                                    *)
LEMMA QuietComposed ==
    ASSUME NEW s, NEW t, NEW u
    PROVE  /\ Quiet(s, t) /\ Quiet(t, u) => Quiet(s, u)
           /\ Starts(s, t) /\ Quiet(t, u) => Starts(s, u)
           /\ Quiet(s, t) /\ Starts(t, u) => Starts(s, u)
  BY DEF Quiet, Starts, Orderly

(* Another queue.                                                          *)
LEMMA OtherQueue ==
    ASSUME NEW s, IsStep(s), NEW q, IsSeq(q), NEW t, t = WithQueue(s, q)
    PROVE  /\ IsStep(t) /\ Same(s, t) /\ t.w.queue = q
           /\ t.w.present = s.w.present /\ t.w.pending = s.w.pending
<1> DEFINE x == [s.w EXCEPT !.queue = q]
<1>1. IsWorker(s.w) /\ "queue" \in WorkerFields
  BY DEF IsStep, WorkerFields
<1>2. t = [s EXCEPT !.w = x]
  BY DEF WithQueue
<1>4. IsWorker(x) /\ x.queue = q /\ \A g \in WorkerFields \ {"queue"} : x[g] = s.w[g]
  BY <1>1, FieldChange
<1> HIDE DEF x
<1>5. IsStep(t) /\ t.w = x /\ Same(s, t)
  BY <1>2, <1>4, WorkerChange
<1> QED
  BY <1>4, <1>5 DEF WorkerFields

(* The request at the head of the queue is executed.                       *)
LEMMA PopFacts ==
    ASSUME NEW s, IsStep(s), Plain(s), s.w.queue # << >>
    PROVE  Quiet(s, Execute([s EXCEPT !.w.queue = Tail(@)], Head(s.w.queue)))
<1> DEFINE q == Tail(s.w.queue)
           r == Head(s.w.queue)
           u == [s EXCEPT !.w.queue = Tail(@)]
           t == Execute(u, r)
<1>1. IsSeq(s.w.queue)
  BY DEF IsStep, IsWorker
<1>2. Shifted(s.w.queue, q)
  BY <1>1, TailFacts
<1>3. /\ RequestMarks(s.w.queue) = {} => RequestMarks(q) = {}
      /\ One(RequestMarks(s.w.queue)) => One(RequestMarks(q))
      /\ IsLeading(r) => RequestMarks(s.w.queue) # {}
      /\ One(RequestMarks(s.w.queue)) /\ IsLeading(r) => RequestMarks(q) = {}
  BY <1>1, RequestTail
<1>4. u = WithQueue(s, q)
  BY DEF WithQueue
<1>5. RequestOK(r)
  BY <1>2 DEF Plain, Shifted
<1> HIDE DEF q, r, u
<1>6. /\ IsStep(u) /\ Same(s, u) /\ u.w.queue = q
      /\ u.w.present = s.w.present /\ u.w.pending = s.w.pending
  BY <1>2, <1>4, OtherQueue DEF Shifted
<1>7. Plain(u)
  BY <1>2, <1>6 DEF Plain, Same, Shifted
<1>8. /\ ~IsLeading(r) => Idles(u, t)
      /\ IsLeading(r) => Adds(u, t)
  BY <1>5, <1>6, ExecuteFacts
<1> HIDE DEF t
<1> DEFINE A == EventMarks(s.out)
           B == TaskMarks(s.spawn)
           C == RequestMarks(s.call)
           D == RequestMarks(s.w.queue)
           F == RequestMarks(q)
           E == PendingMarks(s.w.pending)
<1>9. /\ Carried(s) = {} <=> Nowhere(A, B, C, D, E)
      /\ One(Carried(s)) <=> Somewhere(A, B, C, D, E)
  BY CarriedFacts
<1>10. /\ Carried(u) = {} <=> Nowhere(A, B, C, F, E)
       /\ One(Carried(u)) <=> Somewhere(A, B, C, F, E)
  BY <1>6, CarriedFacts DEF Same
<1>11. /\ D = {} => F = {}
       /\ One(D) => One(F)
       /\ IsLeading(r) => D # {}
       /\ One(D) /\ IsLeading(r) => F = {}
  BY <1>3
<1> HIDE DEF A, B, C, D, E, F
<1>12. Orderly(s, t)
  BY <1>6, <1>7, <1>8 DEF Idles, Adds, Kept, Orderly
<1>13. CASE ~IsLeading(r)
  <2>1. Carried(t) = Carried(u)
    BY <1>8, <1>13 DEF Idles
  <2>2. Carried(s) = {} => Carried(u) = {}
    BY <1>9, <1>10, <1>11 DEF Nowhere
  <2>3. One(Carried(s)) => One(Carried(u))
    BY <1>9, <1>10, <1>11 DEF Somewhere
  <2> QED
    BY <1>12, <2>1, <2>2, <2>3 DEF Quiet, t, u, r
<1>14. CASE IsLeading(r)
  <2>1. Carried(s) # {}
    BY <1>9, <1>11, <1>14 DEF Nowhere
  <2>2. One(Carried(s)) => Carried(u) = {}
    BY <1>9, <1>10, <1>11, <1>14 DEF Nowhere, Somewhere
  <2>3. Carried(u) = {} => One(Carried(t))
    BY <1>8, <1>14 DEF Adds, One
  <2> QED
    BY <1>12, <2>1, <2>2, <2>3 DEF Quiet, t, u, r
<1> QED
  BY <1>13, <1>14

(* A field of the worker that no carrier is in.                            *)
LEMMA UnlockFacts ==
    ASSUME NEW s, IsStep(s)
    PROVE  LET t == [s EXCEPT !.w.lock = FALSE]
           IN  Idles(s, t)
<1> DEFINE t == [s EXCEPT !.w.lock = FALSE]
<1>1. "lock" \in WorkerFields /\ t = [s EXCEPT !.w = [s.w EXCEPT !["lock"] = FALSE]]
  BY DEF WorkerFields
<1> HIDE DEF t
<1>2. Idles(s, t)
  BY <1>1, OtherField
<1> QED
  BY <1>2 DEF t

WithErrors(s, x, y, z) == [s EXCEPT !.w.state = x, !.w.errors = y, !.w.last = z]

(* The count of errors is started again, or goes on.                       *)
LEMMA ErrorFacts ==
    ASSUME NEW s, IsStep(s)
    PROVE  Idles(s, Recover(s)) /\ Idles(s, CountRpcError(s))
<1>0. /\ {"state", "errors", "last"} \subseteq WorkerFields
      /\ s.w = [f \in WorkerFields |-> s.w[f]]
      /\ s = [f \in {"w", "out", "spawn", "call"} |-> s[f]]
  BY DEF WorkerFields, IsStep, IsWorker
<1>1. ASSUME NEW x, NEW y, NEW z
      PROVE  Idles(s, WithErrors(s, x, y, z))
  <2> DEFINE a == [s EXCEPT !.w = [s.w EXCEPT !["state"] = x]]
             b == [a EXCEPT !.w = [a.w EXCEPT !["errors"] = y]]
             c == [b EXCEPT !.w = [b.w EXCEPT !["last"] = z]]
  <2>1. WithErrors(s, x, y, z) = c
    BY <1>0 DEF WithErrors
  <2>2. Idles(s, a)
    BY <1>0, OtherField
  <2> HIDE DEF a
  <2>3. Idles(a, b)
    BY <1>0, <2>2, OtherField DEF Idles, Kept
  <2> HIDE DEF b
  <2>4. Idles(b, c)
    BY <1>0, <2>3, OtherField DEF Idles, Kept
  <2> HIDE DEF c
  <2> QED
    BY <2>1, <2>2, <2>3, <2>4 DEF Idles, Kept
<1>2. ASSUME NEW y
      PROVE  Idles(s, [s EXCEPT !.w.errors = y])
  <2> DEFINE c == [s EXCEPT !.w = [s.w EXCEPT !["errors"] = y]]
  <2>1. [s EXCEPT !.w.errors = y] = c
    OBVIOUS
  <2>2. Idles(s, c)
    BY <1>0, OtherField
  <2> QED
    BY <2>1, <2>2
<1>3. Idles(s, Recover(s))
  <2> DEFINE again == s.w.errors >= ErrorLimit /\ s.w.last # "None" /\ s.w.state = "RpcError"
             x == IF again THEN s.w.last ELSE s.w.state
             y == 0
             z == "None"
  <2>1. Recover(s) = WithErrors(s, x, y, z)
    BY <1>0 DEF Recover, WithErrors
  <2> HIDE DEF x, y, z
  <2> QED
    BY <1>1, <2>1
<1>4. Idles(s, CountRpcError(s))
  <2> DEFINE z == IF s.w.state = "RpcError" THEN s.w.last ELSE s.w.state
             y == s.w.errors + 1
             a == WithErrors(s, "RpcError", ErrorLimit, z)
             b == [s EXCEPT !.w.errors = y]
  <2>1. CountRpcError(s) \in {a, b}
    BY <1>0 DEF CountRpcError, WithErrors
  <2> HIDE DEF z, y
  <2>2. Idles(s, a) /\ Idles(s, b)
    BY <1>1, <1>2
  <2> HIDE DEF a, b
  <2> QED
    BY <2>1, <2>2
<1> QED
  BY <1>3, <1>4

Results == {"ok", "ServerError", "RpcError"}

(* A call has ended: at most one carrier comes of it, and none unless the  *)
(* answer carried progress; then a queued request is executed.             *)
LEMMA HandleResponseFacts ==
    ASSUME NEW s, IsStep(s), Plain(s), NEW e, e.ev = "Response", e.kind \in Kinds,
           e.result \in Results
    PROVE  LET t == HandleResponse(s, e)
           IN  /\ Starts(s, t)
               /\ ~Carries(e) => Quiet(s, t)
<1> DEFINE t == HandleResponse(s, e)
           u == [s EXCEPT !.w.lock = FALSE]
           h == CASE e.result = "ok" -> HandlePRuntimeResponse(Recover(u), e.kind, e.data)
                  [] e.result = "ServerError" -> SetState(u, "HasError")
                  [] e.result = "RpcError" -> CountRpcError(u)
           p == Execute([h EXCEPT !.w.queue = Tail(@)], Head(h.w.queue))
<1>1. t = IF h.w.queue = << >> THEN h ELSE p
  BY DEF HandleResponse
<1>2. Idles(s, u)
  BY UnlockFacts
<1>3. IsStep(u) /\ Quiet(s, u)
  BY <1>2, HandsFacts DEF Idles, Kept
<1> HIDE DEF u
<1>4. Starts(u, h) /\ (~Carries(e) => Quiet(u, h))
  <2>1. CASE e.result = "ok"
    <3> DEFINE v == Recover(u)
    <3>1. h = HandlePRuntimeResponse(v, e.kind, e.data)
      BY <2>1
    <3>2. Idles(u, v)
      BY <1>3, ErrorFacts
    <3>3. IsStep(v) /\ Quiet(u, v)
      BY <3>2, HandsFacts DEF Idles, Kept
    <3> HIDE DEF v, h
    <3>4. Gains(v, h) /\ (e.kind \notin Leading => Carried(h) = Carried(v))
      BY <3>1, <3>3, ResponseFacts
    <3>5. e.kind \notin Leading <=> ~Carries(e)
      BY <2>1 DEF Carries, IsLeading
    <3>6. Starts(v, h) /\ (~Carries(e) => Quiet(v, h))
      BY <3>4, <3>5, HandsFacts
    <3>7. Starts(u, h) /\ (~Carries(e) => Quiet(u, h))
      BY <3>3, <3>6, QuietComposed
    <3> QED
      BY <3>7
  <2>2. CASE e.result # "ok"
    <3>1. h \in {SetState(u, "HasError"), CountRpcError(u)}
      BY <2>2 DEF Results
    <3> HIDE DEF h
    <3>2. Idles(u, h)
      BY <1>3, <3>1, SetStateFacts, ErrorFacts
    <3>3. Quiet(u, h) /\ Starts(u, h)
      BY <3>2, HandsFacts DEF Hands
    <3> QED
      BY <3>3
  <2> QED
    BY <2>1, <2>2
<1> HIDE DEF h
<1>5. Starts(s, h) /\ (~Carries(e) => Quiet(s, h))
  BY <1>3, <1>4, QuietComposed
<1>6. IsStep(h) /\ Plain(h)
  BY <1>5 DEF Starts, Orderly
<1>7. CASE h.w.queue = << >>
  BY <1>1, <1>5, <1>7
<1>8. CASE h.w.queue # << >>
  <2>1. Quiet(h, p)
    BY <1>6, <1>8, PopFacts
  <2>2. t = p
    BY <1>1, <1>8
  <2> HIDE DEF t, p
  <2>3. Starts(s, t) /\ (~Carries(e) => Quiet(s, t))
    BY <1>5, <2>1, <2>2, QuietComposed
  <2> QED
    BY <2>3 DEF t
<1> QED
  BY <1>7, <1>8

(* A broadcast is taken by a worker that waits for one: what it had in its *)
(* wait goes on as a request or as a look for what comes next.             *)
LEMMA BroadcastFacts ==
    ASSUME NEW s, IsStep(s), NEW r, RequestOK(r)
    PROVE  Quiet(s, Broadcast(s, r))
<1> DEFINE t == Broadcast(s, r)
           u == [s EXCEPT !.w.pending = FALSE]
<1>1. Quiet(s, s)
  BY DEF Quiet, Orderly
<1>2. \/ t = s
      \/ s.w.pending /\ t \in {RequestNextSync(u), AddRequest(u, r)}
  BY DEF Broadcast
<1> HIDE DEF t
<1>3. Kept(s, u) /\ Carried(u) = Carried(s) \ {<<"pending", 0>>}
  <2> DEFINE b == FALSE
  <2>1. u = WithPending(s, b) /\ b \in BOOLEAN /\ ~b
    BY DEF WithPending
  <2> HIDE DEF b, u
  <2>2. \A c \in BOOLEAN : u = WithPending(s, c) =>
            Kept(s, u) /\ (~c => Carried(u) = Carried(s) \ {<<"pending", 0>>})
    BY PendingFacts
  <2> QED
    BY <2>1, <2>2
<1> HIDE DEF u
<1>4. CASE s.w.pending /\ t \in {RequestNextSync(u), AddRequest(u, r)}
  <2>1. Hands(u, t)
    BY <1>3, <1>4, NextSyncFacts, RequestFacts DEF Kept, Hands
  <2>2. Starts(u, t)
    BY <2>1, HandsFacts
  <2>3. <<"pending", 0>> \in Carried(s)
    BY <1>4 DEF Carried, PendingPlaces
  <2>4. Carried(s) # {} /\ (One(Carried(s)) => Carried(u) = {})
    BY <1>3, <2>3 DEF One
  <2> QED
    BY <1>3, <2>2, <2>4 DEF Kept, Starts, Quiet, Orderly, t
<1> QED
  BY <1>1, <1>2, <1>4 DEF t

-----------------------------------------------------------------------------
(* The inductive invariant.                                                *)

Commands == {"Restart", "ForceRegister", "UpdateEndpoint", "TakeCheckpoint"}

EventOK(e) ==
    /\ e.ev \in {"Request", "BroadcastSync"} => RequestOK(e.req)
    /\ e.ev = "Response" => e.kind \in Kinds /\ e.result \in Results
    /\ e.ev = "Command" => e.command \in Commands

(* The events, requests and the worker are well formed.                    *)
Shape ==
    /\ IsSeq(bus) /\ IsSeq(tasks) /\ IsSeq(calls) /\ IsWorker(worker)
    /\ \A i \in DOMAIN bus : EventOK(bus[i])
    /\ \A i \in DOMAIN calls : RequestOK(calls[i])
    /\ \A i \in DOMAIN worker.queue : RequestOK(worker.queue[i])

(* No worker is added behind the deletion of another.                      *)
InOrder(q) ==
    \A i, j \in DOMAIN q : q[i].ev = "AddWorker" /\ q[j].ev = "DeleteWorker" => i < j
HasAdd(q) == \E i \in DOMAIN q : q[i].ev = "AddWorker"

(* Neither its queue nor its wait carries the worker's progress.           *)
Idle(w) == RequestMarks(w.queue) = {} /\ PendingMarks(w.pending) = {}

(* When a worker is about to be added nothing is left of the last one.     *)
AddsAfresh ==
    /\ InOrder(bus)
    /\ HasAdd(bus) /\ ~worker.present => Threads = {}
    /\ ~worker.present => Idle(worker)

Single == OneThread /\ AddsAfresh

ThreadInv == Shape /\ (CoolPeriodOutlasts => Single)

(* An event of the copy of the parachain state that the processor keeps.   *)
IsState(e) == e.ev \in {"StorageChanges", "ChainState"}

(* An event was taken from the channel; none of this kind was sent.        *)
Took ==
    \E r : IsSeq(r) /\ (\A i \in DOMAIN r : ~IsState(r[i])) /\ bus' = Tail(bus) \o r

(* Events were sent to the channel, none of this kind.                     *)
Told == \E r : IsSeq(r) /\ (\A i \in DOMAIN r : ~IsState(r[i])) /\ bus' = bus \o r

Switches(e) == e.ev \in {"AddWorker", "DeleteWorker"}

(* Events are added to the channel of the processor, none that adds or     *)
(* deletes the worker.                                                     *)
LEMMA BusJoin ==
    ASSUME NEW q, IsSeq(q), \A i \in DOMAIN q : EventOK(q[i]),
           NEW r, IsSeq(r), \A i \in DOMAIN r : EventOK(r[i]) /\ ~Switches(r[i])
    PROVE  /\ IsSeq(q \o r) /\ \A i \in DOMAIN (q \o r) : EventOK((q \o r)[i])
           /\ (InOrder(q) => InOrder(q \o r)) /\ (HasAdd(q \o r) => HasAdd(q))
<1> DEFINE t == q \o r
<1>1. Joined(q, r, t)
  BY ConcatFacts
<1> HIDE DEF t
<1>2. \A i \in DOMAIN t : /\ EventOK(t[i])
                          /\ Switches(t[i]) => i \in DOMAIN q /\ q[i] = t[i]
  BY <1>1 DEF Joined
<1>3. IsSeq(t) /\ (InOrder(q) => InOrder(t)) /\ (HasAdd(t) => HasAdd(q))
  BY <1>1, <1>2 DEF Joined, InOrder, HasAdd, Switches
<1> QED
  BY <1>2, <1>3 DEF t

(* The first event is taken.                                               *)
LEMMA BusTail ==
    ASSUME NEW q, IsSeq(q), q # << >>, \A i \in DOMAIN q : EventOK(q[i])
    PROVE  /\ IsSeq(Tail(q)) /\ \A i \in DOMAIN Tail(q) : EventOK(Tail(q)[i])
           /\ (InOrder(q) => InOrder(Tail(q))) /\ (HasAdd(Tail(q)) => HasAdd(q))
           /\ EventOK(Head(q))
           /\ InOrder(q) /\ Head(q).ev = "DeleteWorker" => ~HasAdd(q)
           /\ Head(q).ev = "AddWorker" => HasAdd(q)
<1> DEFINE t == Tail(q)
           h == Head(q)
<1>1. Shifted(q, t) /\ h = q[1]
  BY TailFacts DEF Shifted
<1> HIDE DEF t, h
<1>2. IsSeq(t) /\ 1 \in DOMAIN q /\ \A i \in DOMAIN t : i + 1 \in DOMAIN q /\ t[i] = q[i + 1]
  BY <1>1 DEF Shifted
<1>3. DOMAIN t \subseteq Nat /\ DOMAIN q \subseteq Nat \ {0}
  BY <1>2, SeqFacts
<1>4. \A i \in DOMAIN t : EventOK(t[i])
  BY <1>2
<1>5. InOrder(q) => InOrder(t)
  BY <1>2, <1>3 DEF InOrder
<1>6. HasAdd(t) => HasAdd(q)
  BY <1>2 DEF HasAdd
<1>7. EventOK(h)
  BY <1>1, <1>2
<1>8. h.ev = "AddWorker" => HasAdd(q)
  BY <1>1, <1>2 DEF HasAdd
<1>9. ASSUME InOrder(q), h.ev = "DeleteWorker", HasAdd(q) PROVE FALSE
  <2>1. PICK i \in DOMAIN q : q[i].ev = "AddWorker"
    BY <1>9 DEF HasAdd
  <2>2. i < 1
    BY <1>1, <1>2, <1>9, <2>1 DEF InOrder
  <2> QED
    BY <1>3, <2>2
<1> QED
  BY <1>2, <1>4, <1>5, <1>6, <1>7, <1>8, <1>9 DEF t, h

(* A handler starts from the worker alone.                                 *)
LEMMA BeginFacts ==
    ASSUME NEW w, IsWorker(w)
    PROVE  /\ IsStep(Begin(w)) /\ Begin(w).w = w
           /\ (\A i \in DOMAIN w.queue : RequestOK(w.queue[i])) => Plain(Begin(w))
           /\ LET D == RequestMarks(w.queue)
                  E == PendingMarks(w.pending)
              IN  /\ Carried(Begin(w)) = {} <=> Nowhere({}, {}, {}, D, E)
                  /\ One(Carried(Begin(w))) <=> Somewhere({}, {}, {}, D, E)
<1> DEFINE b == Begin(w)
<1>1. /\ b.w = w /\ b.out = << >> /\ b.spawn = << >> /\ b.call = << >>
      /\ b = [f \in {"w", "out", "spawn", "call"} |-> b[f]]
  BY DEF Begin
<1> HIDE DEF b
<1>2. IsStep(b)
  BY <1>1, EmptyFacts DEF IsStep
<1>3. (\A i \in DOMAIN w.queue : RequestOK(w.queue[i])) => Plain(b)
  BY <1>1, EmptyFacts DEF Plain
<1>4. EventMarks(b.out) = {} /\ TaskMarks(b.spawn) = {} /\ RequestMarks(b.call) = {}
  BY <1>1, EmptyFacts DEF EventMarks, TaskMarks, RequestMarks
<1>5. LET D == RequestMarks(w.queue)
          E == PendingMarks(w.pending)
      IN  /\ Carried(b) = {} <=> Nowhere({}, {}, {}, D, E)
          /\ One(Carried(b)) <=> Somewhere({}, {}, {}, D, E)
  BY <1>1, <1>2, <1>4, CarriedFacts
<1> QED
  BY <1>1, <1>2, <1>3, <1>5 DEF b

(* What a handler leaves is well formed.                                   *)
LEMMA CommitShape ==
    ASSUME Shape, bus # << >>, NEW s, IsStep(s), Plain(s), Commit(s)
    PROVE  Shape' /\ (InOrder(bus) => InOrder(bus')) /\ (HasAdd(bus') => HasAdd(bus)) /\ Took
<1>1. /\ IsSeq(Tail(bus)) /\ \A i \in DOMAIN Tail(bus) : EventOK(Tail(bus)[i])
      /\ (InOrder(bus) => InOrder(Tail(bus))) /\ (HasAdd(Tail(bus)) => HasAdd(bus))
  BY BusTail DEF Shape
<1>2. IsSeq(s.out) /\ \A i \in DOMAIN s.out : EventOK(s.out[i]) /\ ~Switches(s.out[i])
  BY DEF IsStep, Plain, SentOK, EventOK, Switches
<1>3. /\ IsSeq(bus') /\ \A i \in DOMAIN bus' : EventOK(bus'[i])
      /\ (InOrder(bus) => InOrder(bus')) /\ (HasAdd(bus') => HasAdd(bus))
  <2> DEFINE q == Tail(bus)
  <2> HIDE DEF q
  <2>1. bus' = q \o s.out
    BY DEF Commit, q
  <2>2. /\ IsSeq(q) /\ \A i \in DOMAIN q : EventOK(q[i])
        /\ (InOrder(bus) => InOrder(q)) /\ (HasAdd(q) => HasAdd(bus))
    BY <1>1 DEF q
  <2> QED
    BY <1>2, <2>1, <2>2, BusJoin
<1>4. IsSeq(tasks')
  BY ConcatFacts DEF Commit, Shape, IsStep, Joined
<1>5. IsSeq(calls') /\ \A i \in DOMAIN calls' : RequestOK(calls'[i])
  <2>1. Joined(calls, s.call, calls')
    BY ConcatFacts DEF Commit, Shape, IsStep
  <2> QED
    BY <2>1 DEF Joined, Shape, Plain
<1>6. IsWorker(worker') /\ \A i \in DOMAIN worker'.queue : RequestOK(worker'.queue[i])
  BY DEF Commit, IsStep, Plain
<1>7. Took
  <2>1. \A i \in DOMAIN s.out : ~IsState(s.out[i])
    BY DEF Plain, SentOK, IsState
  <2> QED
    BY <1>2, <2>1 DEF Took, Commit
<1> QED
  BY <1>3, <1>4, <1>5, <1>6, <1>7 DEF Shape

(* What a handler leaves has one carrier at most: it makes none out of     *)
(* nothing, or it has taken the only one there was.                        *)
LEMMA CommitThreads ==
    ASSUME Shape, OneThread, bus # << >>, NEW s, IsStep(s), Commit(s)
    PROVE  /\ Quiet(Begin(worker), s) => OneThread' /\ (Threads = {} => Threads' = {})
           /\ Carries(Head(bus)) /\ Starts(Begin(worker), s) => OneThread'
           /\ Threads = {} /\ One(Carried(s)) => OneThread'
<1> DEFINE A == EventMarks(bus)
           A1 == EventMarks(Tail(bus))
           A2 == EventMarks(s.out)
           A3 == EventMarks(bus')
           B == TaskMarks(tasks)
           B2 == TaskMarks(s.spawn)
           B3 == TaskMarks(tasks')
           C == RequestMarks(calls)
           C2 == RequestMarks(s.call)
           C3 == RequestMarks(calls')
           D == RequestMarks(worker.queue)
           D3 == RequestMarks(s.w.queue)
           E == PendingMarks(worker.pending)
           E3 == PendingMarks(s.w.pending)
           T == ThreadsOf(bus, tasks, calls, worker)
           T3 == ThreadsOf(bus', tasks', calls', worker')
           K == Carried(Begin(worker))
           K3 == Carried(s)
<1>1. /\ A = {} => A1 = {}
      /\ One(A) => One(A1)
      /\ Carries(Head(bus)) => A # {}
      /\ One(A) /\ Carries(Head(bus)) => A1 = {}
  BY EventTail DEF Shape
<1>2. IsSeq(Tail(bus))
  BY TailFacts DEF Shape, Shifted
<1>3. /\ A1 = {} /\ A2 = {} => A3 = {}
      /\ One(A1) /\ A2 = {} => One(A3)
      /\ A1 = {} /\ One(A2) => One(A3)
  BY <1>2, EventJoin DEF IsStep, Commit
<1>4. /\ B = {} /\ B2 = {} => B3 = {}
      /\ One(B) /\ B2 = {} => One(B3)
      /\ B = {} /\ One(B2) => One(B3)
  BY TaskJoin DEF Shape, IsStep, Commit
<1>5. /\ C = {} /\ C2 = {} => C3 = {}
      /\ One(C) /\ C2 = {} => One(C3)
      /\ C = {} /\ One(C2) => One(C3)
  BY RequestJoin DEF Shape, IsStep, Commit
<1>6. /\ T = {} <=> Nowhere(A, B, C, D, E)
      /\ One(T) <=> Somewhere(A, B, C, D, E)
  BY ThreadFacts
<1>7. /\ T3 = {} <=> Nowhere(A3, B3, C3, D3, E3)
      /\ One(T3) <=> Somewhere(A3, B3, C3, D3, E3)
  BY ThreadFacts DEF Commit
<1>8. /\ K = {} <=> Nowhere({}, {}, {}, D, E)
      /\ One(K) <=> Somewhere({}, {}, {}, D, E)
  BY BeginFacts DEF Shape
<1>9. /\ K3 = {} <=> Nowhere(A2, B2, C2, D3, E3)
      /\ One(K3) <=> Somewhere(A2, B2, C2, D3, E3)
  BY CarriedFacts
<1>10. /\ OneThread /\ One(T) /\ (OneThread' <=> One(T3))
       /\ Threads = T /\ Threads' = T3
  BY ThreadsAre
<1>11. /\ Quiet(Begin(worker), s) => (K = {} => K3 = {}) /\ (One(K) => One(K3))
       /\ Starts(Begin(worker), s) => (K = {} => One(K3))
  BY DEF Quiet, Starts
<1> HIDE DEF A, A1, A2, A3, B, B2, B3, C, C2, C3, D, D3, E, E3, T, T3, K, K3
(* Nothing is left outside the step. *)
<1>12. ASSUME A1 = {}, B = {}, C = {}, One(K3) PROVE One(T3)
  <2>1. One(A3) /\ One(B3) /\ One(C3)
    BY <1>3, <1>4, <1>5, <1>9, <1>12 DEF Somewhere
  <2>2. (A2 = {} => A3 = {}) /\ (B2 = {} => B3 = {}) /\ (C2 = {} => C3 = {})
    BY <1>3, <1>4, <1>5, <1>12
  <2> QED
    BY <1>7, <1>9, <1>12, <2>1, <2>2 DEF Somewhere
(* The step holds nothing. *)
<1>13. ASSUME K3 = {} PROVE One(T3) /\ (T = {} => T3 = {})
  <2>1. A2 = {} /\ B2 = {} /\ C2 = {} /\ D3 = {} /\ E3 = {}
    BY <1>9, <1>13 DEF Nowhere
  <2>2. One(A) /\ One(B) /\ One(C)
    BY <1>6, <1>10 DEF Somewhere
  <2>3. One(A3) /\ One(B3) /\ One(C3)
    BY <1>1, <1>3, <1>4, <1>5, <2>1, <2>2
  <2>4. (A = {} => A3 = {}) /\ (B = {} => B3 = {}) /\ (C = {} => C3 = {})
    BY <1>1, <1>3, <1>4, <1>5, <2>1
  <2>5. One({})
    BY DEF One
  <2>6. One(T3)
    BY <1>6, <1>7, <1>10, <2>1, <2>3, <2>4, <2>5 DEF Somewhere
  <2>7. T = {} => T3 = {}
    BY <1>6, <1>7, <2>1, <2>4 DEF Nowhere
  <2> QED
    BY <2>6, <2>7
<1>14. ASSUME Quiet(Begin(worker), s) PROVE One(T3) /\ (T = {} => T3 = {})
  <2>1. CASE K = {}
    BY <1>11, <1>13, <1>14, <2>1
  <2>2. CASE K # {}
    <3>1. D # {} \/ E # {}
      BY <1>8, <2>2 DEF Nowhere
    <3>2. A = {} /\ B = {} /\ C = {}
      BY <1>6, <1>10, <3>1 DEF Somewhere
    <3>3. One(K)
      BY <1>6, <1>8, <1>10 DEF Somewhere, One
    <3>4. One(T3)
      BY <1>1, <1>11, <1>12, <1>14, <3>2, <3>3
    <3>5. T # {}
      BY <1>6, <3>1 DEF Nowhere
    <3> QED
      BY <3>4, <3>5
  <2> QED
    BY <2>1, <2>2
<1>15. ASSUME Carries(Head(bus)), Starts(Begin(worker), s) PROVE One(T3)
  <2>1. A # {} /\ A1 = {} /\ B = {} /\ C = {} /\ D = {} /\ E = {}
    BY <1>1, <1>6, <1>10, <1>15 DEF Somewhere
  <2>2. K = {}
    BY <1>8, <2>1 DEF Nowhere
  <2> QED
    BY <1>11, <1>12, <1>15, <2>1, <2>2
<1>16. ASSUME T = {}, One(K3) PROVE One(T3)
  BY <1>1, <1>6, <1>12, <1>16 DEF Nowhere
<1> QED
  BY <1>10, <1>14, <1>15, <1>16 DEF K3

(* What a handler that is orderly leaves satisfies the invariant.          *)
LEMMA CommitInv ==
    ASSUME ThreadInv, bus # << >>, NEW s, Commit(s),
           \/ Quiet(Begin(worker), s)
           \/ worker.present /\ Carries(Head(bus)) /\ Starts(Begin(worker), s)
    PROVE  ThreadInv' /\ Took
<1>1. Shape
  BY DEF ThreadInv
<1>2. IsStep(Begin(worker)) /\ Plain(Begin(worker)) /\ Begin(worker).w = worker
  BY <1>1, BeginFacts DEF Shape
<1>3. IsStep(s) /\ Plain(s) /\ s.w.present = worker.present
  BY <1>2 DEF Quiet, Starts, Orderly
<1>4. Shape' /\ (InOrder(bus) => InOrder(bus')) /\ (HasAdd(bus') => HasAdd(bus)) /\ Took
  BY <1>1, <1>3, CommitShape
<1>5. worker'.present = worker.present
  BY <1>3 DEF Commit
<1>6. ASSUME OneThread, AddsAfresh
      PROVE  OneThread' /\ AddsAfresh'
  <2>1. /\ Quiet(Begin(worker), s) => OneThread' /\ (Threads = {} => Threads' = {})
        /\ Carries(Head(bus)) /\ Starts(Begin(worker), s) => OneThread'
    BY <1>1, <1>3, <1>6, CommitThreads
  <2>2. HasAdd(bus') /\ ~worker'.present => Threads' = {}
    BY <1>4, <1>5, <1>6, <2>1 DEF AddsAfresh
  <2>3. ASSUME ~worker'.present PROVE Idle(worker')
    <3>1. ~worker.present /\ Idle(worker) /\ Quiet(Begin(worker), s)
      BY <1>5, <1>6, <2>3 DEF AddsAfresh
    <3>2. Carried(Begin(worker)) = {}
      BY <1>1, <3>1, BeginFacts DEF Idle, Nowhere, Shape
    <3>3. Carried(s) = {}
      BY <3>1, <3>2 DEF Quiet
    <3>4. Idle(s.w)
      BY <1>3, <3>3, CarriedFacts DEF Nowhere, Idle
    <3> QED
      BY <3>4 DEF Commit
  <2>4. InOrder(bus')
    BY <1>4, <1>6 DEF AddsAfresh
  <2> QED
    BY <2>1, <2>2, <2>3, <2>4 DEF AddsAfresh
<1> QED
  BY <1>4, <1>6 DEF ThreadInv, Single

-----------------------------------------------------------------------------
(* Every event that the processor handles.                                 *)

(* Nothing but other fields of the worker change.                          *)
LEMMA BeginAlike ==
    ASSUME NEW w, IsWorker(w), NEW x, IsWorker(x), Alike(w, x)
    PROVE  Idles(Begin(w), Begin(x))
<1>1. IsStep(Begin(w)) /\ IsStep(Begin(x)) /\ Begin(w).w = w /\ Begin(x).w = x
  BY BeginFacts
<1>2. Same(Begin(w), Begin(x))
  BY DEF Begin, Same
<1> QED
  BY <1>1, <1>2, WorkerOnly

(* A field that is neither the place, the queue nor the wait.              *)
LEMMA OtherWorker ==
    ASSUME NEW w, IsWorker(w), NEW f \in WorkerFields, NEW y,
           f \notin {"present", "queue", "pending", "header", "para", "block"},
           NEW x, x = [w EXCEPT ![f] = y]
    PROVE  IsWorker(x) /\ Alike(w, x)
<1>0. f # "queue" /\ f # "pending"
  OBVIOUS
<1>2. /\ x = [g \in WorkerFields |-> x[g]]
      /\ \A g \in WorkerFields \ {f} : x[g] = w[g]
  BY DEF IsWorker
<1>1. IsWorker(x) /\ \A g \in WorkerFields \ {f} : x[g] = w[g]
  BY <1>0, <1>2 DEF IsWorker, WorkerFields
<1> QED
  BY <1>1 DEF Alike, WorkerFields

(* A handler that does nothing.                                            *)
LEMMA BeginQuiet ==
    ASSUME IsWorker(worker)
    PROVE  Quiet(Begin(worker), Begin(worker))
  BY BeginFacts DEF Quiet, Orderly

(* The pool's setting is remembered.                                       *)
LEMMA UpdatePoolInv ==
    ASSUME ThreadInv, HandleUpdatePool PROVE ThreadInv' /\ Took
<1> DEFINE x == [worker EXCEPT !.poolSyncOnly = Head(bus).syncOnly]
           w == IF worker.present THEN x ELSE worker
<1>1. bus # << >> /\ Commit(Begin(w)) /\ IsWorker(worker)
  BY DEF HandleUpdatePool, Next1, ThreadInv, Shape
<1>2. IsWorker(x) /\ Alike(worker, x)
  <2>1. "poolSyncOnly" \in WorkerFields
    BY DEF WorkerFields
  <2> QED
    BY <1>1, <2>1, OtherWorker
<1>3. IsWorker(w) /\ Alike(worker, w)
  BY <1>1, <1>2 DEF Alike
<1> HIDE DEF w
<1>4. Quiet(Begin(worker), Begin(w))
  BY <1>1, <1>3, BeginAlike, HandsFacts
<1> QED
  BY <1>1, <1>4, CommitInv

(* The session of the worker is looked up.                                 *)
LEMMA UpdateSessionInfoInv ==
    ASSUME ThreadInv, HandleUpdateSessionInfo PROVE ThreadInv' /\ Took
<1> DEFINE known(block) == block \in 1..cache.at
           a == known(chain.score)
           b == IF ~known(chain.bound) THEN "None"
                ELSE IF known(chain.computing) THEN "Computing" ELSE "Ready"
           x == [worker EXCEPT !.score = a]
           y == [x EXCEPT !.session = b]
           z == [y EXCEPT !.sessionUpdated = TRUE]
           w == IF worker.present /\ worker.info.registered /\ known(chain.registered)
                THEN z ELSE worker
<1>0. IsWorker(worker) /\ worker = [f \in WorkerFields |-> worker[f]]
  BY DEF ThreadInv, Shape, IsWorker
<1>1. bus # << >> /\ Commit(Begin(w))
  BY <1>0 DEF HandleUpdateSessionInfo, Next1
<1> HIDE DEF a, b
<1>2. {"score", "session", "sessionUpdated"} \subseteq WorkerFields
  BY DEF WorkerFields
<1>3. IsWorker(x) /\ Alike(worker, x)
  BY <1>0, <1>2, OtherWorker
<1> HIDE DEF x
<1>4. IsWorker(y) /\ Alike(x, y)
  BY <1>2, <1>3, OtherWorker
<1> HIDE DEF y
<1>5. IsWorker(z) /\ Alike(y, z)
  BY <1>2, <1>4, OtherWorker
<1> HIDE DEF z
<1>6. IsWorker(w) /\ Alike(worker, w)
  BY <1>0, <1>3, <1>4, <1>5 DEF Alike
<1> HIDE DEF w
<1>7. Quiet(Begin(worker), Begin(w))
  BY <1>0, <1>6, BeginAlike, HandsFacts
<1> QED
  BY <1>1, <1>7, CommitInv

(* The state of the parachain is taken over, or changed.                   *)
LEMMA CacheInv ==
    ASSUME ThreadInv, HandleChainState \/ HandleStorageChanges PROVE ThreadInv' /\ Took
<1>1. bus # << >> /\ Commit(Begin(worker)) /\ IsWorker(worker)
  BY DEF HandleChainState, HandleStorageChanges, Next1, ThreadInv, Shape
<1> QED
  BY <1>1, BeginQuiet, CommitInv

(* The operator of the pool is another.                                    *)
LEMMA UpdatePoolOperatorInv ==
    ASSUME ThreadInv, HandleUpdatePoolOperator PROVE ThreadInv' /\ Took
<1> DEFINE r == Req("PrepareRegister")
           t == AddRequest(Begin(worker), r)
           s == IF worker.present THEN t ELSE Begin(worker)
<1>1. bus # << >> /\ Commit(s) /\ IsWorker(worker)
  BY DEF HandleUpdatePoolOperator, Next1, ThreadInv, Shape
<1>2. RequestOK(r) /\ ~IsLeading(r)
  BY DEF Req, RequestOK, Kinds, IsLeading, Leading
<1> HIDE DEF r
<1>3. Idles(Begin(worker), t)
  BY <1>1, <1>2, BeginFacts, RequestFacts
<1>4. Quiet(Begin(worker), s)
  BY <1>1, <1>3, HandsFacts, BeginQuiet
<1> HIDE DEF s
<1> QED
  BY <1>1, <1>4, CommitInv

(* A heartbeat asks for the information of pRuntime.                       *)
LEMMA HeartbeatInv ==
    ASSUME ThreadInv, HandleHeartbeat PROVE ThreadInv' /\ Took
<1> DEFINE r == Req("RegularGetInfo")
           x == [worker EXCEPT !.infoRequested = TRUE]
           t == AddRequest(Begin(x), r)
           s == IF worker.present /\ ~worker.infoRequested THEN t ELSE Begin(worker)
<1>1. bus # << >> /\ Commit(s) /\ IsWorker(worker)
  BY DEF HandleHeartbeat, Next1, ThreadInv, Shape
<1>2. RequestOK(r) /\ ~IsLeading(r)
  BY DEF Req, RequestOK, Kinds, IsLeading, Leading
<1>3. IsWorker(x) /\ Alike(worker, x)
  <2>1. "infoRequested" \in WorkerFields
    BY DEF WorkerFields
  <2> QED
    BY <1>1, <2>1, OtherWorker
<1> HIDE DEF r, x
<1>4. Idles(Begin(worker), Begin(x))
  BY <1>1, <1>3, BeginAlike
<1>5. Idles(Begin(x), t)
  BY <1>2, <1>3, BeginFacts, RequestFacts
<1> HIDE DEF t
<1>6. Quiet(Begin(worker), t)
  BY <1>4, <1>5, HandsFacts, QuietComposed
<1>7. Quiet(Begin(worker), s)
  BY <1>1, <1>6, BeginQuiet
<1> HIDE DEF s
<1> QED
  BY <1>1, <1>7, CommitInv

(* A range of headers is broadcast.                                        *)
LEMMA BroadcastInv ==
    ASSUME ThreadInv, HandleBroadcastSync PROVE ThreadInv' /\ Took
<1> DEFINE r == Head(bus).req
           s == IF worker.present THEN Broadcast(Begin(worker), r) ELSE Begin(worker)
<1>1. bus # << >> /\ Commit(s) /\ IsWorker(worker) /\ Head(bus).ev = "BroadcastSync"
  BY DEF HandleBroadcastSync, Next1, ThreadInv, Shape
<1>2. RequestOK(r)
  <2>1. EventOK(Head(bus))
    BY <1>1, BusTail DEF ThreadInv, Shape
  <2> QED
    BY <1>1, <2>1 DEF EventOK
<1> HIDE DEF r
<1>3. Quiet(Begin(worker), s)
  BY <1>1, <1>2, BeginFacts, BroadcastFacts, BeginQuiet
<1> HIDE DEF s
<1> QED
  BY <1>1, <1>3, CommitInv

(* A worker is deleted: nothing adds one until it has been.                *)
LEMMA DeleteWorkerInv ==
    ASSUME ThreadInv, HandleDeleteWorker PROVE ThreadInv' /\ Took
<1> DEFINE s == Begin(NoWorker)
<1>1. bus # << >> /\ Commit(s) /\ Head(bus).ev = "DeleteWorker" /\ Shape
  BY DEF HandleDeleteWorker, Next1, ThreadInv
<1>2. IsWorker(NoWorker) /\ NoWorker.queue = << >> /\ ~NoWorker.pending
  <2>1. /\ NoWorker = [f \in WorkerFields |-> NoWorker[f]]
        /\ NoWorker.queue = << >> /\ NoWorker.pending = FALSE
    BY DEF NoWorker, CreateWorker, DefaultConfig, WorkerFields
  <2> QED
    BY <2>1, EmptyFacts DEF IsWorker
<1>3. IsStep(s) /\ Plain(s) /\ s.w = NoWorker /\ Carried(s) = {}
  <2>1. RequestMarks(NoWorker.queue) = {} /\ PendingMarks(NoWorker.pending) = {}
    BY <1>2, EmptyFacts DEF RequestMarks, PendingMarks
  <2> QED
    BY <1>2, <2>1, BeginFacts, EmptyFacts DEF Nowhere
<1> HIDE DEF s
<1>4. Shape' /\ (InOrder(bus) => InOrder(bus')) /\ (HasAdd(bus') => HasAdd(bus)) /\ Took
  BY <1>1, <1>3, CommitShape
<1>5. InOrder(bus) => ~HasAdd(bus)
  BY <1>1, BusTail DEF Shape
<1>6. ASSUME OneThread PROVE OneThread'
  <2> DEFINE A == EventMarks(bus)
             A1 == EventMarks(Tail(bus))
             A3 == EventMarks(bus')
             B == TaskMarks(tasks)
             B3 == TaskMarks(tasks')
             C == RequestMarks(calls)
             C3 == RequestMarks(calls')
             D == RequestMarks(worker.queue)
             D3 == RequestMarks(worker'.queue)
             E == PendingMarks(worker.pending)
             E3 == PendingMarks(worker'.pending)
  <2>1. Somewhere(A, B, C, D, E)
    BY <1>6, ThreadFacts, ThreadsAre
  <2>2. /\ EventMarks(s.out) = {} /\ TaskMarks(s.spawn) = {} /\ RequestMarks(s.call) = {}
        /\ RequestMarks(s.w.queue) = {} /\ PendingMarks(s.w.pending) = {}
    BY <1>3, CarriedFacts DEF Nowhere
  <2>3. (A = {} => A1 = {}) /\ (One(A) => One(A1)) /\ IsSeq(Tail(bus))
    BY <1>1, EventTail, BusTail DEF Shape
  <2>4. (A1 = {} => A3 = {}) /\ (One(A1) => One(A3))
    BY <1>1, <1>3, <2>2, <2>3, EventJoin DEF Commit, IsStep
  <2>5. (B = {} => B3 = {}) /\ (One(B) => One(B3))
    BY <1>1, <1>3, <2>2, TaskJoin DEF Commit, IsStep, Shape
  <2>6. (C = {} => C3 = {}) /\ (One(C) => One(C3))
    BY <1>1, <1>3, <2>2, RequestJoin DEF Commit, IsStep, Shape
  <2>7. D3 = {} /\ E3 = {}
    BY <1>1, <2>2 DEF Commit
  <2> HIDE DEF A, A1, A3, B, B3, C, C3, D, D3, E, E3
  <2>8. Somewhere(A3, B3, C3, D3, E3)
    BY <2>1, <2>3, <2>4, <2>5, <2>6, <2>7 DEF Somewhere, One
  <2> QED
    BY <2>8, ThreadFacts, ThreadsAre DEF A3, B3, C3, D3, E3
<1>7. Idle(worker')
  BY <1>1, <1>3, CarriedFacts DEF Nowhere, Idle, Commit
<1> QED
  BY <1>4, <1>5, <1>6, <1>7 DEF ThreadInv, Single, AddsAfresh

(* A worker is added: nothing is left of the one before.                   *)
LEMMA AddWorkerInv ==
    ASSUME ThreadInv, HandleAddWorker PROVE ThreadInv' /\ Took
<1>0. Shape /\ IsWorker(worker) /\ bus # << >> /\ HasAdd(bus)
  <2>1. Shape /\ IsWorker(worker) /\ bus # << >> /\ Head(bus).ev = "AddWorker"
    BY DEF HandleAddWorker, Next1, ThreadInv, Shape
  <2> QED
    BY <2>1, BusTail DEF Shape
<1>1. CASE worker.present
  <2>1. Commit(Begin(worker))
    BY <1>1 DEF HandleAddWorker
  <2> QED
    BY <1>0, <2>1, BeginQuiet, CommitInv
<1>2. CASE ~worker.present
  <2> DEFINE w == CreateWorker(Head(bus).config)
             r == Req("PrepareLifecycle")
             s == AddRequest(Begin(w), r)
  <2>1. Commit(s)
    BY <1>2 DEF HandleAddWorker
  <2>2. IsWorker(w) /\ w.queue = << >> /\ w.pending = FALSE /\ w.present = TRUE
    <3>1. /\ w = [f \in WorkerFields |-> w[f]]
          /\ w.queue = << >> /\ w.pending = FALSE /\ w.present = TRUE
      BY DEF CreateWorker, WorkerFields
    <3> QED
      BY <3>1, EmptyFacts DEF IsWorker
  <2> HIDE DEF w
  <2>3. IsStep(Begin(w)) /\ Plain(Begin(w)) /\ Begin(w).w = w /\ Carried(Begin(w)) = {}
    <3>1. RequestMarks(w.queue) = {} /\ PendingMarks(w.pending) = {}
      BY <2>2, EmptyFacts DEF RequestMarks, PendingMarks
    <3> QED
      BY <2>2, <3>1, BeginFacts, EmptyFacts DEF Nowhere
  <2>4. RequestOK(r) /\ IsLeading(r)
    BY DEF Req, RequestOK, Kinds, IsLeading, Leading
  <2> HIDE DEF r
  <2>5. Adds(Begin(w), s)
    BY <2>3, <2>4, RequestFacts
  <2> HIDE DEF s
  <2>6. IsStep(s) /\ Plain(s) /\ s.w.present = TRUE /\ One(Carried(s))
    BY <2>2, <2>3, <2>5 DEF Adds, Kept, One
  <2>7. AddsAfresh => Threads = {}
    BY <1>0, <1>2 DEF AddsAfresh
  <2>8. OneThread /\ AddsAfresh => OneThread'
    BY <1>0, <2>1, <2>6, <2>7, CommitThreads
  <2>9. Shape' /\ (InOrder(bus) => InOrder(bus')) /\ Took
    BY <1>0, <2>1, <2>6, CommitShape
  <2>10. worker'.present = TRUE
    BY <2>1, <2>6 DEF Commit
  <2> QED
    BY <2>8, <2>9, <2>10 DEF ThreadInv, Single, AddsAfresh
<1> QED
  BY <1>1, <1>2

(* A request of pRuntime.                                                  *)
LEMMA RequestEventInv ==
    ASSUME ThreadInv, HandlePRuntimeRequestEvent PROVE ThreadInv' /\ Took
<1> DEFINE e == Head(bus)
           b == Begin(worker)
           t == HandlePRuntimeRequest(b, e.req)
           s == IF worker.present /\ (worker.enabled \/ "Request" = "UpdateWorker")
                THEN t ELSE b
<1>1. bus # << >> /\ Commit(s) /\ IsWorker(worker) /\ e.ev = "Request"
  BY DEF HandlePRuntimeRequestEvent, WorkerEvent, Next1, ThreadInv, Shape
<1>2. RequestOK(e.req)
  <2>1. EventOK(e)
    BY <1>1, BusTail DEF ThreadInv, Shape
  <2> QED
    BY <1>1, <2>1 DEF EventOK
<1>3. Carries(e) <=> IsLeading(e.req)
  BY <1>1 DEF Carries
<1> HIDE DEF e
<1>4. Hands(b, t) /\ (~IsLeading(e.req) => Idles(b, t))
  BY <1>1, <1>2, BeginFacts, RequestEventFacts
<1> HIDE DEF t
<1>5. Starts(b, t) /\ (~Carries(e) => Quiet(b, t))
  BY <1>3, <1>4, HandsFacts
<1>6. Quiet(b, b)
  BY <1>1, BeginQuiet
<1>7. Quiet(b, s) \/ (worker.present /\ Carries(Head(bus)) /\ Starts(b, s))
  BY <1>5, <1>6 DEF e
<1> HIDE DEF s
<1> QED
  BY <1>1, <1>7, CommitInv

(* An answer of pRuntime.                                                  *)
LEMMA ResponseEventInv ==
    ASSUME ThreadInv, HandlePRuntimeResponseEvent PROVE ThreadInv' /\ Took
<1> DEFINE e == Head(bus)
           b == Begin(worker)
           t == HandleResponse(b, e)
           s == IF worker.present /\ (worker.enabled \/ "Response" = "UpdateWorker")
                THEN t ELSE b
<1>1. bus # << >> /\ Commit(s) /\ IsWorker(worker) /\ e.ev = "Response"
  BY DEF HandlePRuntimeResponseEvent, WorkerEvent, Next1, ThreadInv, Shape
<1>2. e.kind \in Kinds /\ e.result \in Results
  <2>1. EventOK(e)
    BY <1>1, BusTail DEF ThreadInv, Shape
  <2> QED
    BY <1>1, <2>1 DEF EventOK
<1>3. IsStep(b) /\ Plain(b)
  BY <1>1, BeginFacts DEF ThreadInv, Shape
<1> HIDE DEF e
<1>5. Starts(b, t) /\ (~Carries(e) => Quiet(b, t))
  BY <1>1, <1>2, <1>3, HandleResponseFacts
<1> HIDE DEF t
<1>6. Quiet(b, b)
  BY <1>1, BeginQuiet
<1>7. Quiet(b, s) \/ (worker.present /\ Carries(Head(bus)) /\ Starts(b, s))
  BY <1>5, <1>6 DEF e
<1> HIDE DEF s
<1> QED
  BY <1>1, <1>7, CommitInv

(* A state of the chain is asked for.                                      *)
LEMMA LoadStateInv ==
    ASSUME ThreadInv, HandleLoadState PROVE ThreadInv' /\ Took
<1> DEFINE e == Head(bus)
           b == Begin(worker)
           k == [task |-> "LoadState", prefer |-> chaintip.para - 1]
           t == Spawn(b, k)
           s == IF worker.present /\ (worker.enabled \/ "LoadState" = "UpdateWorker")
                THEN t ELSE b
<1>1. bus # << >> /\ Commit(s) /\ IsWorker(worker) /\ e.ev = "LoadState"
  BY DEF HandleLoadState, WorkerEvent, Next1, ThreadInv, Shape
<1>2. Looks(k) /\ Carries(e)
  BY <1>1 DEF Looks, Carries
<1> HIDE DEF e, k
<1>4. Hands(b, t)
  BY <1>1, <1>2, BeginFacts, SpawnFacts DEF Hands
<1> HIDE DEF t
<1>5. Starts(b, t)
  BY <1>4, HandsFacts
<1>6. Quiet(b, b)
  BY <1>1, BeginQuiet
<1>7. Quiet(b, s) \/ (worker.present /\ Carries(Head(bus)) /\ Starts(b, s))
  BY <1>2, <1>5, <1>6 DEF e
<1> HIDE DEF s
<1> QED
  BY <1>1, <1>7, CommitInv

(* A worker is marked as having an error.                                  *)
LEMMA MarkErrorInv ==
    ASSUME ThreadInv, HandleMarkError PROVE ThreadInv' /\ Took
<1> DEFINE b == Begin(worker)
           t == SetState(b, "HasError")
           s == IF worker.present /\ (worker.enabled \/ "MarkError" = "UpdateWorker")
                THEN t ELSE b
<1>1. bus # << >> /\ Commit(s) /\ IsWorker(worker)
  BY DEF HandleMarkError, WorkerEvent, Next1, ThreadInv, Shape
<1>2. Idles(b, t)
  BY <1>1, BeginFacts, SetStateFacts
<1> HIDE DEF t
<1>3. Quiet(b, s)
  BY <1>1, <1>2, BeginQuiet, HandsFacts
<1> HIDE DEF s
<1> QED
  BY <1>1, <1>3, CommitInv

(* A restart is a task that looks for nothing.                             *)
LEMMA RestartFacts ==
    ASSUME NEW s, IsStep(s), NEW config
    PROVE  Quiet(s, Restart(s, config))
<1> DEFINE u == SetState(s, "Restarting")
           k == [task |-> "Delete", config |-> config]
<1>1. Restart(s, config) = Spawn(u, k)
  BY DEF Restart
<1>2. Idles(s, u)
  BY SetStateFacts
<1>3. ~Looks(k)
  BY DEF Looks
<1> HIDE DEF u, k
<1>4. Idles(u, Spawn(u, k))
  BY <1>2, <1>3, SpawnFacts DEF Idles, Kept
<1> QED
  BY <1>1, <1>2, <1>4, HandsFacts, QuietComposed

(* The configuration of the worker is another.                             *)
LEMMA UpdateWorkerInv ==
    ASSUME ThreadInv, HandleUpdateWorker PROVE ThreadInv' /\ Took
<1> DEFINE b == Begin(worker)
           new == [Head(bus).config EXCEPT !.poolSyncOnly = worker.poolSyncOnly]
           t == IF new # Config(b.w) THEN Restart(b, new) ELSE b
           s == IF worker.present /\ (worker.enabled \/ "UpdateWorker" = "UpdateWorker")
                THEN t ELSE b
<1>1. bus # << >> /\ Commit(s) /\ IsWorker(worker)
  BY DEF HandleUpdateWorker, WorkerEvent, Next1, ThreadInv, Shape
<1> HIDE DEF new
<1>2. Quiet(b, b)
  BY <1>1, BeginQuiet
<1>4. Quiet(b, Restart(b, new))
  BY <1>1, BeginFacts, RestartFacts
<1>3. Quiet(b, s)
  BY <1>2, <1>4
<1> HIDE DEF s
<1> QED
  BY <1>1, <1>3, CommitInv

(* A command of the operator.                                              *)
LEMMA CommandInv ==
    ASSUME ThreadInv, HandleCommand PROVE ThreadInv' /\ Took
<1> DEFINE e == Head(bus)
           b == Begin(worker)
           t == CASE e.command = "Restart" -> Restart(b, Config(b.w))
                  [] e.command = "ForceRegister" -> AddRequest(b, Req("PrepareRegister"))
                  [] e.command = "UpdateEndpoint" -> AddRequest(b, Req("SignEndpoints"))
                  [] e.command = "TakeCheckpoint" -> AddRequest(b, Req("TakeCheckpoint"))
           s == IF worker.present /\ (worker.enabled \/ "Command" = "UpdateWorker")
                THEN t ELSE b
<1>1. bus # << >> /\ Commit(s) /\ IsWorker(worker) /\ e.ev = "Command"
  BY DEF HandleCommand, WorkerEvent, Next1, ThreadInv, Shape
<1>2. e.command \in Commands
  <2>1. EventOK(e)
    BY <1>1, BusTail DEF ThreadInv, Shape
  <2> QED
    BY <1>1, <2>1 DEF EventOK
<1> HIDE DEF e
<1>3. \A k \in {"PrepareRegister", "SignEndpoints", "TakeCheckpoint"} :
          RequestOK(Req(k)) /\ ~IsLeading(Req(k))
  BY DEF Req, RequestOK, Kinds, IsLeading, Leading
<1>4. \A k \in {"PrepareRegister", "SignEndpoints", "TakeCheckpoint"} :
          Quiet(b, AddRequest(b, Req(k)))
  BY <1>1, <1>3, BeginFacts, RequestFacts, HandsFacts
<1>5. Quiet(b, Restart(b, Config(b.w)))
  BY <1>1, BeginFacts, RestartFacts
<1>6. Quiet(b, t)
  BY <1>2, <1>4, <1>5 DEF Commands
<1> HIDE DEF t
<1>7. Quiet(b, s)
  BY <1>1, <1>6, BeginQuiet
<1> HIDE DEF s
<1> QED
  BY <1>1, <1>7, CommitInv

-----------------------------------------------------------------------------
(* Calls, tasks, the repository, the timer and the operator.               *)

Follows(A, B) == (A = {} => B = {}) /\ (One(A) => One(B))
Leaves(A, B) == A # {} /\ (One(A) => B = {})

(* A step outside the processor takes a carrier from a task or a call      *)
(* before it sends one.                                                    *)
LEMMA OutsideThreads ==
    ASSUME ThreadInv, worker' = worker, NEW r, bus' = bus \o r, IsSeq(r),
           \A i \in DOMAIN r : EventOK(r[i]),
           IsSeq(tasks'), IsSeq(calls'), \A i \in DOMAIN calls' : RequestOK(calls'[i]),
           Follows(TaskMarks(tasks), TaskMarks(tasks')),
           Follows(RequestMarks(calls), RequestMarks(calls')),
           One(EventMarks(r)),
           \/ EventMarks(r) = {}
           \/ Leaves(TaskMarks(tasks), TaskMarks(tasks'))
           \/ Leaves(RequestMarks(calls), RequestMarks(calls'))
    PROVE  Shape' /\ (OneThread => OneThread' /\ (Threads = {} => Threads' = {}))
<1> DEFINE A == EventMarks(bus)
           A2 == EventMarks(r)
           A3 == EventMarks(bus')
           B == TaskMarks(tasks)
           B3 == TaskMarks(tasks')
           C == RequestMarks(calls)
           C3 == RequestMarks(calls')
           D == RequestMarks(worker.queue)
           E == PendingMarks(worker.pending)
           T == ThreadsOf(bus, tasks, calls, worker)
           T3 == ThreadsOf(bus', tasks', calls', worker')
<1>1. Shape
  BY DEF ThreadInv
<1>2. IsSeq(bus') /\ \A i \in DOMAIN bus' : EventOK(bus'[i])
  <2>1. Joined(bus, r, bus')
    BY <1>1, ConcatFacts DEF Shape
  <2> QED
    BY <1>1, <2>1 DEF Joined, Shape
<1>3. Shape'
  BY <1>1, <1>2 DEF Shape
<1>4. /\ A = {} /\ A2 = {} => A3 = {}
      /\ One(A) /\ A2 = {} => One(A3)
      /\ A = {} /\ One(A2) => One(A3)
  BY <1>1, EventJoin DEF Shape
<1>5. /\ T = {} <=> Nowhere(A, B, C, D, E)
      /\ One(T) <=> Somewhere(A, B, C, D, E)
  BY ThreadFacts
<1>6. /\ T3 = {} <=> Nowhere(A3, B3, C3, D, E)
      /\ One(T3) <=> Somewhere(A3, B3, C3, D, E)
  BY ThreadFacts
<1>7. /\ (OneThread <=> One(T)) /\ (OneThread' <=> One(T3))
      /\ Threads = T /\ Threads' = T3
  BY ThreadsAre
<1>8. Follows(B, B3) /\ Follows(C, C3) /\ One(A2) /\ (A2 = {} \/ Leaves(B, B3) \/ Leaves(C, C3))
  OBVIOUS
<1> HIDE DEF A, A2, A3, B, B3, C, C3, D, E, T, T3
<1>10. ASSUME OneThread
       PROVE  One(T3) /\ (T = {} => T3 = {})
  <2>0. Somewhere(A, B, C, D, E)
    BY <1>5, <1>7, <1>10
  <2>1. CASE A2 = {}
    <3>1. Follows(A, A3)
      BY <1>4, <2>1 DEF Follows
    <3>2. Somewhere(A3, B3, C3, D, E)
      BY <1>8, <2>0, <3>1 DEF Somewhere, Follows
    <3>3. Nowhere(A, B, C, D, E) => Nowhere(A3, B3, C3, D, E)
      BY <1>8, <3>1 DEF Nowhere, Follows
    <3> QED
      BY <1>5, <1>6, <3>2, <3>3
  <2>2. CASE Leaves(B, B3)
    <3>1. A = {} /\ C = {} /\ D = {} /\ E = {} /\ B # {} /\ B3 = {} /\ C3 = {}
      BY <1>8, <2>0, <2>2 DEF Somewhere, Leaves, Follows
    <3>2. Somewhere(A3, B3, C3, D, E)
      BY <1>4, <1>8, <3>1 DEF Somewhere, One
    <3>3. ~Nowhere(A, B, C, D, E)
      BY <3>1 DEF Nowhere
    <3> QED
      BY <1>5, <1>6, <3>2, <3>3
  <2>3. CASE Leaves(C, C3)
    <3>1. A = {} /\ B = {} /\ D = {} /\ E = {} /\ C # {} /\ C3 = {} /\ B3 = {}
      BY <1>8, <2>0, <2>3 DEF Somewhere, Leaves, Follows
    <3>2. Somewhere(A3, B3, C3, D, E)
      BY <1>4, <1>8, <3>1 DEF Somewhere, One
    <3>3. ~Nowhere(A, B, C, D, E)
      BY <3>1 DEF Nowhere
    <3> QED
      BY <1>5, <1>6, <3>2, <3>3
  <2> QED
    BY <1>8, <2>1, <2>2, <2>3
<1> QED
  BY <1>3, <1>7, <1>10

(* When it neither adds nor deletes the worker it keeps the invariant.     *)
LEMMA OutsideInv ==
    ASSUME ThreadInv, worker' = worker, NEW r, bus' = bus \o r, IsSeq(r),
           \A i \in DOMAIN r : EventOK(r[i]) /\ ~Switches(r[i]),
           IsSeq(tasks'), IsSeq(calls'), \A i \in DOMAIN calls' : RequestOK(calls'[i]),
           Follows(TaskMarks(tasks), TaskMarks(tasks')),
           Follows(RequestMarks(calls), RequestMarks(calls')),
           One(EventMarks(r)),
           \/ EventMarks(r) = {}
           \/ Leaves(TaskMarks(tasks), TaskMarks(tasks'))
           \/ Leaves(RequestMarks(calls), RequestMarks(calls'))
    PROVE  ThreadInv'
<1>1. Shape
  BY DEF ThreadInv
<1>2. (InOrder(bus) => InOrder(bus')) /\ (HasAdd(bus') => HasAdd(bus))
  BY <1>1, BusJoin DEF Shape
<1>3. Shape' /\ (OneThread => OneThread' /\ (Threads = {} => Threads' = {}))
  BY OutsideThreads
<1>4. OneThread /\ AddsAfresh => AddsAfresh'
  BY <1>2, <1>3 DEF AddsAfresh
<1> QED
  BY <1>3, <1>4 DEF ThreadInv, Single

(* An event alone.                                                         *)
LEMMA OneEvent ==
    ASSUME NEW e, EventOK(e), ~Switches(e)
    PROVE  /\ IsSeq(<<e>>) /\ (\A i \in DOMAIN <<e>> : EventOK(<<e>>[i]) /\ ~Switches(<<e>>[i]))
           /\ One(EventMarks(<<e>>)) /\ (~Carries(e) => EventMarks(<<e>>) = {})
<1>1. <<e>> \in Seq({e}) /\ DOMAIN <<e>> = {1} /\ <<e>>[1] = e
  OBVIOUS
<1>2. IsSeq(<<e>>)
  BY <1>1 DEF IsSeq
<1>3. One(EventMarks(<<e>>)) /\ (~Carries(e) => EventMarks(<<e>>) = {})
  BY <1>1 DEF One, EventMarks
<1> QED
  BY <1>1, <1>2, <1>3

(* An event is added at the end.                                           *)
LEMMA AppendIs ==
    ASSUME NEW q, IsSeq(q), NEW e
    PROVE  Append(q, e) = q \o <<e>>
<1>1. PICK S : q \in Seq(S)
  BY DEF IsSeq
<1> QED
  BY <1>1

(* No event.                                                               *)
LEMMA NoEvent ==
    /\ IsSeq(<< >>) /\ (\A i \in DOMAIN << >> : EventOK(<< >>[i]) /\ ~Switches(<< >>[i]))
    /\ One(EventMarks(<< >>)) /\ EventMarks(<< >>) = {}
  BY EmptyFacts DEF One, EventMarks

(* Nothing is added.                                                       *)
LEMMA ConcatEmpty ==
    ASSUME NEW q, IsSeq(q)
    PROVE  q \o << >> = q
<1>1. PICK S : q \in Seq(S)
  BY DEF IsSeq
<1> QED
  BY <1>1, ConcatEmptySeq

(* The end of a call is reported with an answer, which carries progress    *)
(* only when the call has succeeded and was of the leading kinds.          *)
LEMMA ReportFacts ==
    ASSUME NEW r, RequestOK(r), NEW result \in Results, NEW data
    PROVE  LET q == Report(r, result, data)
           IN  /\ IsSeq(q) /\ (\A i \in DOMAIN q : EventOK(q[i]) /\ ~Switches(q[i]))
               /\ One(EventMarks(q))
               /\ ~(result = "ok" /\ IsLeading(r)) => EventMarks(q) = {}
<1> DEFINE e == Response(r, result, data)
           m == Ev("MarkError")
           q == Report(r, result, data)
<1>1. EventOK(e) /\ ~Switches(e) /\ (Carries(e) <=> result = "ok" /\ IsLeading(r))
  BY DEF Response, EventOK, Switches, Carries, RequestOK, IsLeading
<1>2. EventOK(m) /\ ~Switches(m) /\ ~Carries(m)
  BY DEF Ev, EventOK, Switches, Carries
<1>3. q \in {<<m>> \o <<e>>, << >> \o <<e>>}
  BY DEF Report
<1> HIDE DEF e, m, q
<1>4. /\ IsSeq(<<e>>) /\ \A i \in DOMAIN <<e>> : EventOK(<<e>>[i]) /\ ~Switches(<<e>>[i])
      /\ One(EventMarks(<<e>>)) /\ (~Carries(e) => EventMarks(<<e>>) = {})
  BY <1>1, OneEvent
<1>5. ASSUME NEW p, IsSeq(p), \A i \in DOMAIN p : EventOK(p[i]) /\ ~Switches(p[i]),
             EventMarks(p) = {}, q = p \o <<e>>
      PROVE  /\ IsSeq(q) /\ (\A i \in DOMAIN q : EventOK(q[i]) /\ ~Switches(q[i]))
             /\ One(EventMarks(q))
             /\ ~(result = "ok" /\ IsLeading(r)) => EventMarks(q) = {}
  <2>1. Joined(p, <<e>>, q)
    BY <1>4, <1>5, ConcatFacts
  <2>2. IsSeq(q) /\ \A i \in DOMAIN q : EventOK(q[i]) /\ ~Switches(q[i])
    BY <1>4, <1>5, <2>1 DEF Joined
  <2>3. One(EventMarks(q)) /\ (~Carries(e) => EventMarks(q) = {})
    BY <1>4, <1>5, EventJoin
  <2> QED
    BY <1>1, <2>2, <2>3
<1>6. CASE q = <<m>> \o <<e>>
  <2>1. /\ IsSeq(<<m>>) /\ \A i \in DOMAIN <<m>> : EventOK(<<m>>[i]) /\ ~Switches(<<m>>[i])
        /\ EventMarks(<<m>>) = {}
    BY <1>2, OneEvent
  <2> QED
    BY <1>5, <1>6, <2>1 DEF q
<1>7. CASE q = << >> \o <<e>>
  BY <1>5, <1>7, NoEvent DEF q
<1> QED
  BY <1>3, <1>6, <1>7

(* Sequences of elements of S, one after the other, are one.               *)
LEMMA FlattenType ==
    ASSUME NEW S, NEW seqs \in Seq(Seq(S))
    PROVE  FlattenSeq(seqs) \in Seq(S)
<1> DEFINE N == Len(seqs)
           X == Seq(S)
<1>0. N \in Nat /\ DOMAIN seqs = 1..N /\ \A i \in 1..N : seqs[i] \in X
  OBVIOUS
<1>1. CASE N = 0
  <2>1. seqs = << >>
    BY <1>1
  <2>2. FlattenSeq(seqs) = seqs
    BY <1>1 DEF FlattenSeq
  <2>3. << >> \in Seq(S)
    OBVIOUS
  <2> QED
    BY <2>1, <2>2, <2>3
<1>2. CASE N # 0
  <2> DEFINE Rec(f) == [i \in 1..N |-> IF i = 1 THEN seqs[i] ELSE f[i - 1] \o seqs[i]]
             flat == CHOOSE f : f = Rec(f)
             M == N - 1
             first == seqs[1]
             step == [k \in 1..M |-> [x \in X |-> x \o seqs[k + 1]]]
  <2>1. FlattenSeq(seqs) = flat[N]
    BY <1>2 DEF FlattenSeq
  <2>2. M \in Nat /\ first \in X
    BY <1>0, <1>2
  <2>3. \A k \in 1..M, x \in X : x \o seqs[k + 1] \in X
    <3> SUFFICES ASSUME NEW k \in 1..M, NEW x \in X PROVE x \o seqs[k + 1] \in X
      OBVIOUS
    <3>1. seqs[k + 1] \in X
      BY <1>0, <1>2
    <3> QED
      BY <3>1
  <2> HIDE DEF X, first
  <2>4. step \in [1..M -> [X -> X]]
    BY <2>3
  <2>5. PICK g \in [0..M -> X] : g[0] = first /\ \A i \in 1..M : g[i] = step[i][g[i - 1]]
    <3> HIDE DEF step, M
    <3>1. \E g : Iterates(g, M, X, first, step)
      BY <2>2, <2>4, IterationExists
    <3> QED
      BY <3>1 DEF Iterates
  <2> DEFINE h == [i \in 1..N |-> g[i - 1]]
  <2>6. h = Rec(h)
    <3>1. ASSUME NEW i \in 1..N PROVE h[i] = Rec(h)[i]
      <4>1. CASE i = 1
        BY <4>1, <1>0, <2>5 DEF first
      <4>2. CASE i # 1
        <5>1. i - 1 \in 1..M /\ i - 1 \in 1..N /\ i - 2 \in 0..M /\ (i - 1) + 1 = i
              /\ (i - 1) - 1 = i - 2
          BY <4>2, <1>0
        <5>2. g[i - 1] = step[i - 1][g[i - 2]] /\ g[i - 2] \in X
          BY <5>1, <2>5
        <5>3. g[i - 1] = g[i - 2] \o seqs[i]
          BY <5>1, <5>2
        <5>4. h[i] = g[i - 1] /\ h[i - 1] = g[i - 2]
          BY <5>1
        <5>5. Rec(h)[i] = h[i - 1] \o seqs[i]
          BY <4>2
        <5> QED
          BY <5>3, <5>4, <5>5
      <4> QED
        BY <4>1, <4>2
    <3> QED
      BY <3>1
  <2>7. flat = Rec(flat)
    <3> HIDE DEF Rec, h
    <3> QED
      BY <2>6
  <2> HIDE DEF flat
  <2>8. flat[1] = seqs[1]
    BY <1>0, <1>2, <2>7
  <2>9. ASSUME NEW i \in 2..N PROVE flat[i] = flat[i - 1] \o seqs[i]
    <3>1. i \in 1..N /\ i # 1
      BY <1>0
    <3>2. Rec(flat)[i] = flat[i - 1] \o seqs[i]
      BY <3>1
    <3> QED
      BY <2>7, <3>2
  <2> DEFINE P == {i \in 0..M : flat[i + 1] \in X}
  <2>10. 0 \in P
    BY <2>2, <2>8 DEF first
  <2>11. ASSUME NEW k \in 1..M, k - 1 \in P PROVE k \in P
    <3>1. k + 1 \in 2..N /\ (k + 1) - 1 = k /\ (k - 1) + 1 = k /\ k \in 0..M
      BY <1>0
    <3>2. flat[k] \in X /\ flat[k + 1] = flat[k] \o seqs[k + 1]
      BY <2>9, <2>11, <3>1
    <3> QED
      BY <2>3, <3>1, <3>2
  <2>12. P \in SUBSET (0..M)
    OBVIOUS
  <2> HIDE DEF P, M
  <2>13. P = 0..M
    BY <2>2, <2>10, <2>11, <2>12, IntervalInduction
  <2>14. flat[M + 1] \in X
    <3>1. M \in P
      BY <2>2, <2>13
    <3> QED
      BY <3>1 DEF P
  <2> QED
    BY <1>0, <2>1, <2>14 DEF M, X
<1> QED
  BY <1>1, <1>2

(* A sequence that is as before.                                           *)
LEMMA FollowsItself ==
    ASSUME NEW A
    PROVE  Follows(A, A)
  BY DEF Follows

(* A call ends, with an answer or without.                                 *)
LEMMA CallInv ==
    ASSUME ThreadInv, NEW i \in DOMAIN calls, DispatchPRuntimeRequest(i) \/ LoseCall(i)
    PROVE  ThreadInv'
<1>1. /\ IsSeq(calls) /\ RequestOK(calls[i]) /\ \A k \in DOMAIN calls : RequestOK(calls[k])
      /\ IsSeq(tasks) /\ worker' = worker /\ tasks' = tasks /\ calls' = RemoveAt(calls, i)
  BY DEF ThreadInv, Shape, DispatchPRuntimeRequest, LoseCall
<1>2. \E result \in Results : \E data : bus' = bus \o Report(calls[i], result, data)
  BY DEF DispatchPRuntimeRequest, LoseCall, Results
<1>r. PICK result \in Results : \E data : bus' = bus \o Report(calls[i], result, data)
  BY <1>2
<1>3. PICK data : bus' = bus \o Report(calls[i], result, data)
  BY <1>r
<1> DEFINE r == Report(calls[i], result, data)
<1>4. /\ IsSeq(r) /\ \A k \in DOMAIN r : EventOK(r[k]) /\ ~Switches(r[k])
      /\ One(EventMarks(r))
      /\ ~(result = "ok" /\ IsLeading(calls[i])) => EventMarks(r) = {}
  BY <1>1, ReportFacts
<1>5. bus' = bus \o r
  BY <1>3
<1> HIDE DEF r
<1>6. Without(calls, i, calls')
  BY <1>1, RemoveFacts
<1>7. IsSeq(calls') /\ \A k \in DOMAIN calls' : RequestOK(calls'[k])
  BY <1>1, <1>6 DEF Without
<1>8. /\ Follows(RequestMarks(calls), RequestMarks(calls'))
      /\ IsLeading(calls[i]) => Leaves(RequestMarks(calls), RequestMarks(calls'))
  BY <1>1, RequestRemove DEF Follows, Leaves
<1> QED
  BY <1>1, <1>4, <1>5, <1>7, <1>8, FollowsItself, OutsideInv

(* pRuntime is restarted: every call fails.                                *)
LEMMA PRuntimeRestartInv ==
    ASSUME ThreadInv, PRuntimeRestart PROVE ThreadInv' /\ Told
<1> DEFINE seqs == [i \in DOMAIN calls |-> Report(calls[i], "RpcError", NoData)]
           r == FlattenSeq(seqs)
           Ok(e) == EventOK(e) /\ ~Switches(e) /\ ~Carries(e) /\ ~IsState(e)
           m == Ev("MarkError")
           S == {e \in {m} \cup {Response(calls[i], "RpcError", NoData) : i \in DOMAIN calls} :
                    Ok(e)}
<1>1. /\ IsSeq(calls) /\ \A i \in DOMAIN calls : RequestOK(calls[i])
      /\ IsSeq(tasks) /\ worker' = worker /\ tasks' = tasks /\ calls' = << >> /\ bus' = bus \o r
  BY DEF ThreadInv, Shape, PRuntimeRestart
<1>2. seqs \in Seq(Seq(S))
  <2>1. \A i \in DOMAIN calls : seqs[i] \in Seq(S)
    <3> SUFFICES ASSUME NEW i \in DOMAIN calls PROVE seqs[i] \in Seq(S)
      OBVIOUS
    <3> DEFINE e == Response(calls[i], "RpcError", NoData)
    <3>1. Ok(e) /\ Ok(m)
      BY <1>1 DEF Response, Ev, EventOK, Switches, Carries, RequestOK, Results, IsState
    <3>2. seqs[i] \in {<<m>> \o <<e>>, << >> \o <<e>>}
      BY DEF Report
    <3>3. e \in S /\ m \in S
      BY <3>1
    <3> HIDE DEF e, m, S, seqs
    <3>4. <<e>> \in Seq(S) /\ <<m>> \in Seq(S) /\ << >> \in Seq(S)
      BY <3>3
    <3>5. <<m>> \o <<e>> \in Seq(S) /\ << >> \o <<e>> \in Seq(S)
      BY <3>4, ConcatProperties
    <3> QED
      BY <3>2, <3>5
  <2>2. Len(calls) \in Nat /\ DOMAIN calls = 1..Len(calls)
    BY <1>1, SeqFacts
  <2>3. seqs \in [1..Len(calls) -> Seq(S)]
    BY <2>1, <2>2
  <2> HIDE DEF seqs, S
  <2> QED
    BY <2>2, <2>3
<1>3. r \in Seq(S)
  <2> HIDE DEF seqs, S
  <2> QED
    BY <1>2, FlattenType
<1>4. \A e \in S : Ok(e)
  OBVIOUS
<1> HIDE DEF r, S, seqs
<1>5. IsSeq(r) /\ \A i \in DOMAIN r : Ok(r[i])
  BY <1>3, <1>4 DEF IsSeq
<1>6. EventMarks(r) = {} /\ One(EventMarks(r))
  BY <1>5 DEF EventMarks, One
<1>7. IsSeq(calls') /\ DOMAIN calls' = {} /\ RequestMarks(calls') = {}
  BY <1>1, EmptyFacts DEF RequestMarks
<1>8. Follows(RequestMarks(calls), RequestMarks(calls'))
  BY <1>7 DEF Follows, One
<1>9. Told
  BY <1>1, <1>5 DEF Told
<1> QED
  BY <1>1, <1>5, <1>6, <1>7, <1>8, <1>9, FollowsItself, OutsideInv

(* An event that carries nothing, from outside.                            *)
LEMMA SendInv ==
    ASSUME ThreadInv, worker' = worker, tasks' = tasks, calls' = calls,
           NEW e, EventOK(e), ~Switches(e), ~Carries(e), bus' = Append(bus, e)
    PROVE  ThreadInv'
<1>1. /\ IsSeq(bus) /\ IsSeq(tasks) /\ IsSeq(calls)
      /\ \A i \in DOMAIN calls : RequestOK(calls[i])
  BY DEF ThreadInv, Shape
<1> DEFINE r == <<e>>
<1>2. bus' = bus \o r
  BY <1>1, AppendIs
<1>3. /\ IsSeq(r) /\ \A i \in DOMAIN r : EventOK(r[i]) /\ ~Switches(r[i])
      /\ One(EventMarks(r)) /\ EventMarks(r) = {}
  BY OneEvent
<1> HIDE DEF r
<1> QED
  BY <1>1, <1>2, <1>3, FollowsItself, OutsideInv

(* A task ends; the events it sends carry progress only when it did.       *)
LEMMA TaskEnd ==
    ASSUME ThreadInv, NEW i \in DOMAIN tasks, EndTask(i), worker' = worker, calls' = calls,
           NEW r, bus' = bus \o r, IsSeq(r),
           \A k \in DOMAIN r : EventOK(r[k]) /\ ~Switches(r[k]),
           One(EventMarks(r)), EventMarks(r) = {} \/ Looks(tasks[i])
    PROVE  ThreadInv'
<1>1. /\ IsSeq(tasks) /\ IsSeq(calls) /\ (\A k \in DOMAIN calls : RequestOK(calls[k]))
      /\ tasks' = RemoveAt(tasks, i)
  BY DEF ThreadInv, Shape, EndTask
<1>2. IsSeq(tasks')
  BY <1>1, RemoveFacts DEF Without
<1>3. /\ Follows(TaskMarks(tasks), TaskMarks(tasks'))
      /\ Looks(tasks[i]) => Leaves(TaskMarks(tasks), TaskMarks(tasks'))
  BY <1>1, TaskRemove DEF Follows, Leaves
<1> QED
  BY <1>1, <1>2, <1>3, FollowsItself, OutsideInv

(* The same for one event, and for none.                                   *)
LEMMA TaskSends ==
    ASSUME ThreadInv, NEW i \in DOMAIN tasks, EndTask(i), worker' = worker, calls' = calls
    PROVE  /\ bus' = bus => ThreadInv'
           /\ \A e : /\ bus' = Append(bus, e) /\ EventOK(e) /\ ~Switches(e)
                     /\ ~Carries(e) \/ Looks(tasks[i])
                     => ThreadInv'
<1>1. IsSeq(bus)
  BY DEF ThreadInv, Shape
<1>2. ASSUME bus' = bus PROVE ThreadInv'
  <2> DEFINE r == << >>
  <2>1. bus' = bus \o r
    BY <1>1, <1>2, ConcatEmpty
  <2>2. /\ IsSeq(r) /\ \A k \in DOMAIN r : EventOK(r[k]) /\ ~Switches(r[k])
        /\ One(EventMarks(r)) /\ EventMarks(r) = {}
    BY NoEvent
  <2> HIDE DEF r
  <2> QED
    BY <2>1, <2>2, TaskEnd
<1>3. ASSUME NEW e, bus' = Append(bus, e), EventOK(e), ~Switches(e),
             ~Carries(e) \/ Looks(tasks[i])
      PROVE  ThreadInv'
  <2> DEFINE r == <<e>>
  <2>1. bus' = bus \o r
    BY <1>1, <1>3, AppendIs
  <2>2. /\ IsSeq(r) /\ \A k \in DOMAIN r : EventOK(r[k]) /\ ~Switches(r[k])
        /\ One(EventMarks(r)) /\ (EventMarks(r) = {} \/ Looks(tasks[i]))
    BY <1>3, OneEvent
  <2> HIDE DEF r
  <2> QED
    BY <2>1, <2>2, TaskEnd
<1> QED
  BY <1>2, <1>3

(* Events of tasks, well formed.                                           *)
LEMMA TaskEvents ==
    /\ EventOK(Ev("MarkError")) /\ ~Switches(Ev("MarkError")) /\ ~Carries(Ev("MarkError"))
    /\ \A r : RequestOK(r) => EventOK(Request(r)) /\ ~Switches(Request(r))
    /\ LET g == Request(Req("RegularGetInfo"))
       IN  EventOK(g) /\ ~Switches(g) /\ ~Carries(g)
<1>1. EventOK(Ev("MarkError")) /\ ~Switches(Ev("MarkError")) /\ ~Carries(Ev("MarkError"))
  BY DEF Ev, EventOK, Switches, Carries
<1>2. \A r : RequestOK(r) => EventOK(Request(r)) /\ ~Switches(Request(r))
  BY DEF Request, EventOK, Switches
<1>3. RequestOK(Req("RegularGetInfo")) /\ ~Carries(Request(Req("RegularGetInfo")))
  BY DEF Request, Req, RequestOK, Kinds, Carries, IsLeading, Leading
<1> QED
  BY <1>1, <1>2, <1>3

(* What to sync next has been found.                                       *)
LEMMA NextSyncInv ==
    ASSUME ThreadInv, NEW i \in DOMAIN tasks, DoRequestNextSync(i) PROVE ThreadInv'
<1>1. EndTask(i) /\ worker' = worker /\ calls' = calls /\ Looks(tasks[i])
  BY DEF DoRequestNextSync, IsTask, Looks
<1>2. PICK known \in BOOLEAN : bus' = Append(bus, Request(GenerateSyncRequest(tasks[i], known)))
  BY DEF DoRequestNextSync
<1> DEFINE q == GenerateSyncRequest(tasks[i], known)
<1>3. RequestOK(q)
  <2>1. q.kind = "Sync"
    BY DEF GenerateSyncRequest, Sync
  <2> QED
    BY <2>1 DEF RequestOK, Kinds
<1> HIDE DEF q
<1>4. EventOK(Request(q)) /\ ~Switches(Request(q))
  BY <1>3, TaskEvents
<1> QED
  BY <1>1, <1>2, <1>4, TaskSends DEF q

(* It could not be found: it is looked for again.                          *)
LEMMA FailNextSyncInv ==
    ASSUME ThreadInv, NEW i \in DOMAIN tasks, FailNextSync(i) PROVE ThreadInv'
  BY SendInv, TaskEvents DEF FailNextSync

(* A state of the chain was fetched, or not.                               *)
LEMMA GetLoadStateInv ==
    ASSUME ThreadInv, NEW i \in DOMAIN tasks, GetLoadStateRequest(i) PROVE ThreadInv'
<1>1. EndTask(i) /\ worker' = worker /\ calls' = calls /\ Looks(tasks[i])
  BY DEF GetLoadStateRequest, IsTask, Looks
<1>2. \/ bus' = Append(bus, Ev("MarkError"))
      \/ \E at : bus' = Append(bus, Request(LoadChainState(at)))
  BY DEF GetLoadStateRequest
<1>3. \A at : RequestOK(LoadChainState(at))
  BY DEF LoadChainState, RequestOK, Kinds
<1> QED
  BY <1>1, <1>2, <1>3, TaskSends, TaskEvents

(* A transaction of the worker.                                            *)
LEMMA TransactionInv ==
    ASSUME ThreadInv, NEW i \in DOMAIN tasks,
           DoRegister(i) \/ DoAddWorkerToPool(i) \/ DoStartComputing(i) \/ SilentTask(i)
    PROVE  ThreadInv'
<1>1. EndTask(i) /\ worker' = worker /\ calls' = calls /\ IsSeq(bus)
  BY DEF DoRegister, DoAddWorkerToPool, DoStartComputing, SilentTask, Transact, ThreadInv, Shape
<1>2. \/ bus' = Append(bus, Ev("MarkError"))
      \/ bus' = bus \o <<Request(Req("RegularGetInfo"))>>
      \/ bus' = bus \o << >>
      \/ bus' = bus
  BY DEF DoRegister, DoAddWorkerToPool, DoStartComputing, SilentTask, Transact
<1>3. bus' \in {bus, Append(bus, Ev("MarkError")), Append(bus, Request(Req("RegularGetInfo")))}
  BY <1>1, <1>2, AppendIs, ConcatEmpty
<1> QED
  BY <1>1, <1>3, TaskSends, TaskEvents

(* Without Append: what is before the end stays where it was.              *)
LEMMA AppendSplit ==
    ASSUME NEW q, IsSeq(q), NEW e
    PROVE  LET t == Append(q, e)
           IN  /\ DOMAIN q \subseteq Nat /\ DOMAIN t = DOMAIN q \cup {Len(q) + 1}
               /\ Len(q) \in Nat /\ DOMAIN q = 1..Len(q)
               /\ t[Len(q) + 1] = e /\ \A i \in DOMAIN q : t[i] = q[i]
<1> DEFINE t == Append(q, e)
<1>1. Longer(q, t, e)
  BY AppendFacts
<1>2. Len(q) \in Nat /\ DOMAIN q = 1..Len(q)
  BY SeqFacts
<1> HIDE DEF t
<1>3. DOMAIN t = 1..(Len(q) + 1) /\ t[Len(q) + 1] = e /\ \A i \in DOMAIN q : t[i] = q[i]
  BY <1>1, <1>2, SeqFacts DEF Longer
<1> QED
  BY <1>2, <1>3 DEF t

(* A restart: the worker is deleted, and added when nothing is left.       *)
LEMMA DoRestartInv ==
    ASSUME ThreadInv, NEW i \in DOMAIN tasks, DoRestart(i)
    PROVE  ThreadInv'
<1>0. /\ Shape /\ worker' = worker /\ calls' = calls
      /\ IsSeq(bus) /\ IsSeq(tasks) /\ IsSeq(calls)
      /\ \A k \in DOMAIN calls : RequestOK(calls[k])
  BY DEF ThreadInv, DoRestart, Shape
<1> DEFINE a == [ev |-> "AddWorker", config |-> tasks[i].config]
           d == Ev("DeleteWorker")
<1>1. CASE /\ bus' = Append(bus, d)
           /\ tasks' = [tasks EXCEPT ![i] = [task |-> "Add", config |-> tasks[i].config]]
  <2>1. d.ev = "DeleteWorker" /\ EventOK(d) /\ ~Carries(d)
    BY DEF Ev, EventOK, Carries
  <2> HIDE DEF d
  <2>2. bus' = bus \o <<d>>
    BY <1>0, <1>1, AppendIs
  <2>3. /\ IsSeq(<<d>>) /\ \A k \in DOMAIN <<d>> : EventOK(<<d>>[k])
        /\ EventMarks(<<d>>) = {} /\ One(EventMarks(<<d>>))
    <3>1. <<d>> \in Seq({d}) /\ DOMAIN <<d>> = {1} /\ <<d>>[1] = d
      OBVIOUS
    <3> QED
      BY <2>1, <3>1 DEF IsSeq, EventMarks, One
  <2>4. /\ IsSeq(tasks') /\ DOMAIN tasks' = DOMAIN tasks
        /\ \A k \in DOMAIN tasks : k # i => tasks'[k] = tasks[k]
        /\ tasks'[i].task = "Add"
    <3> DEFINE c == [task |-> "Add", config |-> tasks[i].config]
    <3>1. PICK S : tasks \in Seq(S)
      BY <1>0 DEF IsSeq
    <3>2. c.task = "Add"
      OBVIOUS
    <3> HIDE DEF c
    <3>3. tasks' = [tasks EXCEPT ![i] = c]
      BY <1>1 DEF c
    <3>4. tasks' \in Seq(S \cup {c}) /\ DOMAIN tasks' = DOMAIN tasks /\ tasks'[i] = c
          /\ \A k \in DOMAIN tasks : k # i => tasks'[k] = tasks[k]
      BY <3>1, <3>3
    <3> QED
      BY <3>2, <3>4 DEF IsSeq
  <2>5. TaskMarks(tasks') \subseteq TaskMarks(tasks)
    BY <2>4 DEF TaskMarks, Looks
  <2>6. Follows(TaskMarks(tasks), TaskMarks(tasks'))
    BY <2>5 DEF Follows, One
  <2>7. Shape' /\ (OneThread => OneThread' /\ (Threads = {} => Threads' = {}))
    <3> DEFINE r == <<d>>
    <3> HIDE DEF r
    <3>1. /\ bus' = bus \o r /\ IsSeq(r) /\ \A k \in DOMAIN r : EventOK(r[k])
          /\ EventMarks(r) = {} /\ One(EventMarks(r))
      BY <2>2, <2>3 DEF r
    <3> QED
      BY <1>0, <2>4, <2>6, <3>1, FollowsItself, OutsideThreads
  <2>8. (InOrder(bus) => InOrder(bus')) /\ (HasAdd(bus') => HasAdd(bus))
    <3> DEFINE q == Append(bus, d)
    <3>1. /\ DOMAIN bus \subseteq Nat /\ DOMAIN q = DOMAIN bus \cup {Len(bus) + 1}
          /\ Len(bus) \in Nat /\ DOMAIN bus = 1..Len(bus)
          /\ q[Len(bus) + 1] = d /\ \A k \in DOMAIN bus : q[k] = bus[k]
      BY <1>0, AppendSplit
    <3> HIDE DEF q
    <3>2. \A k \in DOMAIN q : q[k].ev = "AddWorker" => k \in DOMAIN bus
      BY <2>1, <3>1
    <3>3. InOrder(bus) => InOrder(q)
      BY <3>1, <3>2 DEF InOrder
    <3>4. HasAdd(q) => HasAdd(bus)
      BY <3>1, <3>2 DEF HasAdd
    <3> QED
      BY <1>1, <3>3, <3>4 DEF q
  <2> QED
    BY <1>0, <2>7, <2>8 DEF ThreadInv, Single, AddsAfresh
<1>2. CASE bus' = Append(bus, a) /\ EndTask(i) /\ CoolPeriodOver /\ IsTask(i, "Add")
  <2>1. a.ev = "AddWorker" /\ EventOK(a) /\ ~Carries(a)
    BY DEF EventOK, Carries
  <2> HIDE DEF a
  <2>2. bus' = bus \o <<a>>
    BY <1>0, <1>2, AppendIs
  <2>3. /\ IsSeq(<<a>>) /\ \A k \in DOMAIN <<a>> : EventOK(<<a>>[k])
        /\ EventMarks(<<a>>) = {} /\ One(EventMarks(<<a>>))
    <3>1. <<a>> \in Seq({a}) /\ DOMAIN <<a>> = {1} /\ <<a>>[1] = a
      OBVIOUS
    <3> QED
      BY <2>1, <3>1 DEF IsSeq, EventMarks, One
  <2>4. IsSeq(tasks') /\ Follows(TaskMarks(tasks), TaskMarks(tasks'))
    BY <1>0, <1>2, RemoveFacts, TaskRemove DEF EndTask, Without, Follows
  <2>5. Shape' /\ (OneThread => OneThread' /\ (Threads = {} => Threads' = {}))
    <3> DEFINE r == <<a>>
    <3> HIDE DEF r
    <3>1. /\ bus' = bus \o r /\ IsSeq(r) /\ \A k \in DOMAIN r : EventOK(r[k])
          /\ EventMarks(r) = {} /\ One(EventMarks(r))
      BY <2>2, <2>3 DEF r
    <3> QED
      BY <1>0, <2>4, <3>1, FollowsItself, OutsideThreads
  <2>6. ASSUME CoolPeriodOutlasts, OneThread, AddsAfresh
        PROVE  OneThread' /\ AddsAfresh'
    <3>1. /\ calls = << >>
          /\ \A j \in DOMAIN tasks : tasks[j].task \in {"Delete", "Add"}
          /\ \A k \in DOMAIN bus :
                bus[k].ev \notin {"DeleteWorker", "Request", "Response", "LoadState"}
      BY <1>2, <2>6 DEF CoolPeriodOver
    <3>2. InOrder(bus')
      <4> DEFINE q == Append(bus, a)
      <4>1. /\ DOMAIN q = DOMAIN bus \cup {Len(bus) + 1}
            /\ q[Len(bus) + 1] = a /\ \A k \in DOMAIN bus : q[k] = bus[k]
        BY <1>0, AppendSplit
      <4> HIDE DEF q
      <4>2. \A k \in DOMAIN q : q[k].ev # "DeleteWorker"
        BY <2>1, <3>1, <4>1
      <4> QED
        BY <1>2, <4>2 DEF InOrder, q
    <3>3. ~worker.present => Threads = {}
      <4>1. EventMarks(bus) = {}
        BY <3>1 DEF EventMarks, Carries
      <4>2. TaskMarks(tasks) = {}
        BY <3>1 DEF TaskMarks, Looks
      <4>3. RequestMarks(calls) = {}
        BY <3>1, EmptyFacts DEF RequestMarks
      <4>4. ~worker.present => Idle(worker)
        BY <2>6 DEF AddsAfresh
      <4> QED
        BY <4>1, <4>2, <4>3, <4>4, ThreadFacts, ThreadsAre DEF Nowhere, Idle
    <3> QED
      BY <1>0, <2>5, <2>6, <3>2, <3>3 DEF AddsAfresh
  <2> QED
    BY <2>5, <2>6 DEF ThreadInv, Single
<1> QED
  BY <1>1, <1>2 DEF DoRestart

(* Nothing that the invariant speaks of changes.                           *)
LEMMA SameInv ==
    ASSUME ThreadInv, UNCHANGED <<worker, bus, tasks, calls>> PROVE ThreadInv'
<1>1. Shape'
  BY DEF ThreadInv, Shape
<1>2. Threads' = Threads /\ (OneThread => OneThread')
  BY ThreadsAre
<1>3. AddsAfresh => AddsAfresh'
  BY <1>2 DEF AddsAfresh
<1> QED
  BY <1>1, <1>2, <1>3 DEF ThreadInv, Single

(* The repository, the timer and the operator.                             *)
LEMMA WorldInv ==
    ASSUME ThreadInv,
           FillGap \/ PrepareAndBroadcast \/ SendStorageChanges \/ Heartbeat \/ Operate
    PROVE  ThreadInv'
<1>0. worker' = worker /\ tasks' = tasks /\ calls' = calls
  BY DEF FillGap, PrepareAndBroadcast, SendStorageChanges, Heartbeat, Operate
<1>1. CASE bus' = bus
  BY <1>0, <1>1, SameInv
<1>2. CASE bus' = Append(bus, BroadcastEvent)
  <2> DEFINE e == BroadcastEvent
  <2>1. EventOK(e) /\ ~Switches(e) /\ ~Carries(e)
    BY DEF BroadcastEvent, Sync, EventOK, Switches, Carries, RequestOK, Kinds
  <2> HIDE DEF e
  <2> QED
    BY <1>0, <1>2, <2>1, SendInv DEF e
<1>3. CASE bus' = Append(bus, Ev("Heartbeat"))
  <2> DEFINE e == Ev("Heartbeat")
  <2>1. EventOK(e) /\ ~Switches(e) /\ ~Carries(e)
    BY DEF Ev, EventOK, Switches, Carries
  <2> HIDE DEF e
  <2> QED
    BY <1>0, <1>3, <2>1, SendInv DEF e
<1>4. ASSUME NEW e \in OperatorEvents, bus' = Append(bus, e) PROVE ThreadInv'
  <2>1. /\ e.ev \in {"Command", "UpdateWorker", "UpdatePool", "UpdatePoolOperator"}
        /\ e.ev = "Command" => e.command \in Commands
    BY <1>4 DEF OperatorEvents, Commands, Ev
  <2>2. EventOK(e) /\ ~Switches(e) /\ ~Carries(e)
    BY <2>1 DEF EventOK, Switches, Carries
  <2> QED
    BY <1>0, <1>4, <2>2, SendInv
<1> DEFINE Sends(c) == /\ c.ev \in {"StorageChanges", "ChainState"}
                       /\ bus' = bus \o <<c, Ev("UpdateSessionInfo")>>
<1>5. ASSUME NEW c, Sends(c)
      PROVE  ThreadInv'
  <2> DEFINE u == Ev("UpdateSessionInfo")
             r == <<c, u>>
  <2>1. u.ev = "UpdateSessionInfo"
    BY DEF Ev
  <2> HIDE DEF u
  <2>2. r \in Seq({c, u}) /\ DOMAIN r = {1, 2} /\ r[1] = c /\ r[2] = u
    OBVIOUS
  <2>3. bus' = bus \o r
    BY <1>5 DEF u
  <2> HIDE DEF r
  <2>4. \A i \in DOMAIN r : EventOK(r[i]) /\ ~Switches(r[i]) /\ ~Carries(r[i])
    BY <1>5, <2>1, <2>2 DEF EventOK, Switches, Carries
  <2>5. IsSeq(r) /\ EventMarks(r) = {} /\ One(EventMarks(r))
    BY <2>2, <2>4 DEF IsSeq, EventMarks, One
  <2>6. IsSeq(tasks) /\ IsSeq(calls) /\ \A i \in DOMAIN calls : RequestOK(calls[i])
    BY DEF ThreadInv, Shape
  <2> QED
    BY <1>0, <2>3, <2>4, <2>5, <2>6, FollowsItself, OutsideInv
<1>6. \/ bus' = bus
      \/ bus' = Append(bus, BroadcastEvent)
      \/ bus' = Append(bus, Ev("Heartbeat"))
      \/ \E e \in OperatorEvents : bus' = Append(bus, e)
      \/ \E c : Sends(c)
  <2>1. CASE FillGap \/ PrepareAndBroadcast \/ Heartbeat \/ Operate
    BY <2>1 DEF FillGap, PrepareAndBroadcast, Heartbeat, Operate
  <2>2. CASE SendStorageChanges
    <3> DEFINE c == IF repo.full THEN [ev |-> "StorageChanges", from |-> ParaFrom, to |-> ParaTo]
                    ELSE [ev |-> "ChainState", to |-> ParaTo]
    <3>1. c.ev \in {"StorageChanges", "ChainState"}
      OBVIOUS
    <3>2. bus' = bus \/ Sends(c)
      BY <2>2, <3>1 DEF SendStorageChanges
    <3> HIDE DEF c, Sends
    <3> QED
      BY <3>2
  <2> QED
    BY <2>1, <2>2
<1> HIDE DEF Sends
<1> QED
  BY SMTT(30), <1>1, <1>2, <1>3, <1>4, <1>5, <1>6

(* The invariant holds at the start.                                       *)
LEMMA ThreadInit ==
    Init => ThreadInv
<1> SUFFICES ASSUME Init PROVE ThreadInv
  OBVIOUS
<1> DEFINE a == [ev |-> "AddWorker", config |-> DefaultConfig]
<1>1. worker = NoWorker /\ bus = <<a>> /\ calls = << >> /\ tasks = << >>
  BY DEF Init
<1>2. a.ev = "AddWorker" /\ EventOK(a) /\ ~Carries(a)
  BY DEF EventOK, Carries
<1>3. IsWorker(worker) /\ worker.queue = << >> /\ worker.pending = FALSE
  <2>1. /\ NoWorker = [f \in WorkerFields |-> NoWorker[f]]
        /\ NoWorker.queue = << >> /\ NoWorker.pending = FALSE
    BY DEF NoWorker, CreateWorker, DefaultConfig, WorkerFields
  <2> QED
    BY <1>1, <2>1, EmptyFacts DEF IsWorker
<1> HIDE DEF a
<1>4. <<a>> \in Seq({a}) /\ DOMAIN <<a>> = {1} /\ <<a>>[1] = a
  OBVIOUS
<1>5. Shape
  BY <1>1, <1>2, <1>3, <1>4, EmptyFacts DEF Shape, IsSeq
<1>6. InOrder(bus)
  BY <1>1, <1>2, <1>4 DEF InOrder
<1>7. /\ EventMarks(bus) = {} /\ TaskMarks(tasks) = {} /\ RequestMarks(calls) = {}
      /\ RequestMarks(worker.queue) = {} /\ PendingMarks(worker.pending) = {}
  BY <1>1, <1>2, <1>3, <1>4, EmptyFacts
  DEF EventMarks, TaskMarks, RequestMarks, PendingMarks
<1>8. Threads = {}
  BY <1>7, ThreadFacts, ThreadsAre DEF Nowhere
<1> QED
  BY <1>5, <1>6, <1>7, <1>8 DEF ThreadInv, Single, AddsAfresh, OneThread, Idle

(* Every step keeps it.                                                    *)
LEMMA ThreadStep ==
    ASSUME ThreadInv, [Next]_vars
    PROVE  ThreadInv'
<1>1. CASE Handle
  BY <1>1, AddWorkerInv, DeleteWorkerInv, UpdatePoolInv, UpdatePoolOperatorInv, HeartbeatInv,
     BroadcastInv, UpdateSessionInfoInv, CacheInv, RequestEventInv, ResponseEventInv,
     LoadStateInv, MarkErrorInv, UpdateWorkerInv, CommandInv
  DEF Handle
<1>2. CASE \E i \in DOMAIN calls : DispatchPRuntimeRequest(i) \/ LoseCall(i)
  BY <1>2, CallInv
<1>3. CASE PRuntimeRestart
  BY <1>3, PRuntimeRestartInv
<1>4. CASE \E i \in DOMAIN tasks : EndOfTask(i) \/ FailNextSync(i)
  BY <1>4, NextSyncInv, GetLoadStateInv, TransactionInv, DoRestartInv, FailNextSyncInv
  DEF EndOfTask
<1>5. CASE FillGap \/ PrepareAndBroadcast \/ SendStorageChanges \/ Heartbeat \/ Operate
  BY <1>5, WorldInv
<1>6. CASE UNCHANGED vars
  BY <1>6, SameInv DEF vars
<1> QED
  BY <1>1, <1>2, <1>3, <1>4, <1>5, <1>6 DEF Next

(* Provided that the cool period of a restart outlasts what the deleted    *)
(* worker had under way, one thing at most carries the worker's progress   *)
(* at any time: no broadcast, refused request, lost call, restart of       *)
(* pRuntime or of the worker makes two chains of requests drive one        *)
(* pRuntime (processor.rs).                                                *)
THEOREM OneCarrier ==
    ASSUME CoolPeriodOutlasts
    PROVE  Spec => []OneThread
<1>1. ThreadInv /\ [Next]_vars => ThreadInv'
  BY ThreadStep
<1>2. ThreadInv => OneThread
  BY DEF ThreadInv, Single
<1> QED
  BY <1>1, <1>2, ThreadInit, PTL DEF Spec

-----------------------------------------------------------------------------
(* The state of the parachain that the processor copies.                   *)

(* K[i] is the block of the copy once the first i events of q are handled, *)
(* from a copy of block n: each set of changes follows the copy it finds.  *)
Follow(K, q, n) ==
    /\ K[0] = n
    /\ \A i \in DOMAIN q :
          /\ K[i] = IF IsState(q[i]) THEN q[i].to ELSE K[i - 1]
          /\ q[i].ev = "StorageChanges" => q[i].from = K[i - 1] + 1

(* The events of q lead from a copy of block n to one of block m.          *)
Leads(q, n, m) == \E K : Follow(K, q, n) /\ K[Len(q)] = m

(* Events that leave the copy alone.                                       *)
Mute(r) == IsSeq(r) /\ \A i \in DOMAIN r : ~IsState(r[i])

(* No events lead nowhere else.                                            *)
LEMMA LeadsStart ==
    ASSUME NEW r, Mute(r), NEW n
    PROVE  Leads(r, n, n)
<1> DEFINE K == [i \in Nat |-> n]
<1>1. Len(r) \in Nat /\ DOMAIN r = 1..Len(r) /\ \A i \in DOMAIN r : ~IsState(r[i])
  BY SeqFacts DEF Mute
<1>2. \A i \in Nat : K[i] = n
  OBVIOUS
<1> HIDE DEF K
<1>3. \A i \in DOMAIN r : r[i].ev # "StorageChanges" /\ i \in Nat /\ i - 1 \in Nat
  BY <1>1 DEF IsState
<1>4. Follow(K, r, n)
  BY <1>1, <1>2, <1>3 DEF Follow
<1> QED
  BY <1>1, <1>2, <1>4 DEF Leads

(* The copy after the event at the head.                                   *)
After(q, n) == IF IsState(Head(q)) THEN Head(q).to ELSE n

(* The first event is handled.                                             *)
LEMMA LeadsTail ==
    ASSUME NEW q, IsSeq(q), q # << >>, NEW n, NEW m, Leads(q, n, m)
    PROVE  /\ Leads(Tail(q), After(q, n), m)
           /\ Head(q).ev = "StorageChanges" => Head(q).from = n + 1
<1>1. PICK K : Follow(K, q, n) /\ K[Len(q)] = m
  BY DEF Leads
<1> DEFINE t == Tail(q)
           L == [i \in Nat |-> K[i + 1]]
<1>2. Shifted(q, t)
  BY TailFacts
<1>3. \A i \in Nat : L[i] = K[i + 1]
  OBVIOUS
<1> HIDE DEF t, L
<1>4. /\ Len(q) \in Nat /\ DOMAIN q = 1..Len(q) /\ Len(t) \in Nat /\ DOMAIN t = 1..Len(t)
      /\ Len(t) + 1 = Len(q) /\ Head(q) = q[1] /\ 1 \in DOMAIN q
  BY <1>2, SeqFacts DEF Shifted
<1>5. /\ K[1] = After(q, n)
      /\ Head(q).ev = "StorageChanges" => Head(q).from = n + 1
  <2>1. 1 - 1 = 0
    OBVIOUS
  <2> QED
    BY <1>1, <1>4, <2>1 DEF Follow, After
<1>6. L[0] = After(q, n) /\ L[Len(t)] = m
  <2>1. L[0] = K[0 + 1] /\ L[Len(t)] = K[Len(t) + 1]
    BY <1>3, <1>4
  <2>2. 0 + 1 = 1
    OBVIOUS
  <2>3. L[0] = K[1] /\ L[Len(t)] = K[Len(q)]
    BY <1>4, <2>1, <2>2
  <2> QED
    BY <1>1, <1>5, <2>3
<1>7. ASSUME NEW i \in DOMAIN t
      PROVE  /\ L[i] = IF IsState(t[i]) THEN t[i].to ELSE L[i - 1]
             /\ t[i].ev = "StorageChanges" => t[i].from = L[i - 1] + 1
  <2>1. i + 1 \in DOMAIN q /\ t[i] = q[i + 1]
    BY <1>2 DEF Shifted
  <2>2. i \in Nat /\ i - 1 \in Nat /\ (i - 1) + 1 = i /\ (i + 1) - 1 = i
    BY <1>4
  <2>3. L[i] = K[i + 1] /\ L[i - 1] = K[i]
    BY <1>3, <2>2
  <2> QED
    BY <1>1, <2>1, <2>2, <2>3 DEF Follow
<1>8. Leads(t, After(q, n), m)
  BY <1>6, <1>7 DEF Follow, Leads
<1> QED
  BY <1>5, <1>8 DEF t

(* Two runs of events, one after the other.                                *)
LEMMA LeadsJoin ==
    ASSUME NEW q, IsSeq(q), NEW r, IsSeq(r), NEW n, NEW m, NEW l,
           Leads(q, n, m), Leads(r, m, l)
    PROVE  Leads(q \o r, n, l)
<1>1. PICK K : Follow(K, q, n) /\ K[Len(q)] = m
  BY DEF Leads
<1>2. PICK L : Follow(L, r, m) /\ L[Len(r)] = l
  BY DEF Leads
<1> DEFINE t == q \o r
           M == [i \in Nat |-> IF i <= Len(q) THEN K[i] ELSE L[i - Len(q)]]
<1>3. Joined(q, r, t)
  BY ConcatFacts
<1>4. \A i \in Nat : M[i] = IF i <= Len(q) THEN K[i] ELSE L[i - Len(q)]
  OBVIOUS
<1> HIDE DEF t, M
<1>5. /\ Len(q) \in Nat /\ DOMAIN q = 1..Len(q) /\ Len(r) \in Nat /\ DOMAIN r = 1..Len(r)
      /\ Len(t) = Len(q) + Len(r) /\ DOMAIN t = 1..Len(t)
  BY <1>3, SeqFacts DEF Joined
<1>6. \A j \in 0..Len(r) : M[Len(q) + j] = L[j]
  <2> SUFFICES ASSUME NEW j \in 0..Len(r) PROVE M[Len(q) + j] = L[j]
    OBVIOUS
  <2>1. CASE j = 0
    BY <2>1, <1>1, <1>2, <1>4, <1>5 DEF Follow
  <2>2. CASE j # 0
    <3> DEFINE k == Len(q) + j
    <3>1. k \in Nat /\ ~(k <= Len(q)) /\ k - Len(q) = j
      BY <2>2, <1>5
    <3> HIDE DEF k
    <3> QED
      BY <1>4, <3>1 DEF k
  <2> QED
    BY <2>1, <2>2
<1>7. \A i \in 0..Len(q) : M[i] = K[i]
  BY <1>4, <1>5
<1>8. M[0] = n /\ M[Len(t)] = l
  <2>1. 0 \in 0..Len(q) /\ Len(r) \in 0..Len(r)
    BY <1>5
  <2> QED
    BY <1>1, <1>2, <1>5, <1>6, <1>7, <2>1 DEF Follow
<1>9. ASSUME NEW i \in DOMAIN t
      PROVE  /\ M[i] = IF IsState(t[i]) THEN t[i].to ELSE M[i - 1]
             /\ t[i].ev = "StorageChanges" => t[i].from = M[i - 1] + 1
  <2>1. CASE i \in DOMAIN q
    <3>1. i \in 0..Len(q) /\ i - 1 \in 0..Len(q)
      BY <1>5, <2>1
    <3>2. M[i] = K[i] /\ M[i - 1] = K[i - 1] /\ t[i] = q[i]
      BY <1>3, <1>7, <2>1, <3>1 DEF Joined
    <3> QED
      BY <1>1, <2>1, <3>2 DEF Follow
  <2>2. CASE i \notin DOMAIN q
    <3> DEFINE j == i - Len(q)
    <3>1. j \in DOMAIN r /\ t[i] = r[j]
      BY <1>3, <2>2 DEF Joined
    <3>2. j \in 0..Len(r) /\ j - 1 \in 0..Len(r) /\ Len(q) + j = i /\ Len(q) + (j - 1) = i - 1
      BY <1>5, <3>1
    <3> HIDE DEF j
    <3>3. M[i] = L[j] /\ M[i - 1] = L[j - 1]
      BY <1>6, <3>2
    <3> QED
      BY <1>2, <3>1, <3>3 DEF Follow
  <2> QED
    BY <2>1, <2>2
<1> QED
  BY <1>8, <1>9 DEF Follow, Leads, t

(* A new state of the chain is sent.                                       *)
LEMMA LeadsSend ==
    ASSUME NEW c, NEW u, IsState(c), ~IsState(u), NEW m, c.ev = "StorageChanges" => c.from = m + 1
    PROVE  Leads(<<c, u>>, m, c.to)
<1> DEFINE r == <<c, u>>
           K == [i \in Nat |-> IF i = 0 THEN m ELSE c.to]
<1>1. r \in Seq({c, u}) /\ Len(r) = 2 /\ DOMAIN r = {1, 2} /\ r[1] = c /\ r[2] = u
  OBVIOUS
<1>2. K[0] = m /\ K[1] = c.to /\ K[2] = c.to
  OBVIOUS
<1>3. u.ev # "StorageChanges"
  BY DEF IsState
<1> HIDE DEF r, K
<1>4. 1 - 1 = 0 /\ 2 - 1 = 1
  OBVIOUS
<1>5. Follow(K, r, m)
  BY <1>1, <1>2, <1>3, <1>4 DEF Follow
<1> QED
  BY <1>1, <1>2, <1>5 DEF Leads, r

(* Sending one event, or none.                                             *)
LEMMA ToldOne ==
    ASSUME IsSeq(bus)
    PROVE  /\ bus' = bus => Told
           /\ \A e : bus' = Append(bus, e) /\ ~IsState(e) => Told
           /\ \A e, f : bus' = bus \o (<<e>> \o <<f>>) /\ ~IsState(e) /\ ~IsState(f) => Told
           /\ \A e : bus' = bus \o (<< >> \o <<e>>) /\ ~IsState(e) => Told
<1>1. ASSUME bus' = bus PROVE Told
  <2>1. bus' = bus \o << >>
    BY <1>1, ConcatEmpty
  <2> QED
    BY <2>1, EmptyFacts DEF Told
<1>2. ASSUME NEW e, ~IsState(e)
      PROVE  IsSeq(<<e>>) /\ \A i \in DOMAIN <<e>> : ~IsState(<<e>>[i])
  <2>1. <<e>> \in Seq({e}) /\ DOMAIN <<e>> = {1} /\ <<e>>[1] = e
    OBVIOUS
  <2> QED
    BY <1>2, <2>1 DEF IsSeq
<1>3. ASSUME NEW e, bus' = Append(bus, e), ~IsState(e) PROVE Told
  <2> DEFINE r == <<e>>
  <2>1. bus' = bus \o r
    BY <1>3, AppendIs
  <2>2. IsSeq(r) /\ \A i \in DOMAIN r : ~IsState(r[i])
    BY <1>2, <1>3
  <2> HIDE DEF r
  <2> QED
    BY <2>1, <2>2 DEF Told
<1>4. ASSUME NEW e, NEW f, bus' = bus \o (<<e>> \o <<f>>), ~IsState(e), ~IsState(f) PROVE Told
  <2> DEFINE r == <<e>> \o <<f>>
  <2>1. r \in Seq({e, f}) /\ DOMAIN r = {1, 2} /\ r[1] = e /\ r[2] = f
    OBVIOUS
  <2> HIDE DEF r
  <2>2. IsSeq(r) /\ \A i \in DOMAIN r : ~IsState(r[i])
    BY <1>4, <2>1 DEF IsSeq
  <2> QED
    BY <1>4, <2>2 DEF Told, r
<1>5. ASSUME NEW e, bus' = bus \o (<< >> \o <<e>>), ~IsState(e) PROVE Told
  <2> DEFINE r == << >> \o <<e>>
  <2>1. r \in Seq({e}) /\ DOMAIN r = {1} /\ r[1] = e
    OBVIOUS
  <2> HIDE DEF r
  <2>2. IsSeq(r) /\ \A i \in DOMAIN r : ~IsState(r[i])
    BY <1>5, <2>1 DEF IsSeq
  <2> QED
    BY <1>5, <2>2 DEF Told, r
<1> QED
  BY <1>1, <1>3, <1>4, <1>5

(* Calls, tasks, the timer and the operator leave the copy alone, and the  *)
(* repository that keeps it up to date.                                    *)
LEMMA Bystanders ==
    ASSUME ThreadInv,
           \/ \E i \in DOMAIN calls : DispatchPRuntimeRequest(i) \/ LoseCall(i)
           \/ PRuntimeRestart
           \/ \E i \in DOMAIN tasks : EndOfTask(i) \/ FailNextSync(i)
           \/ Heartbeat \/ Operate
    PROVE  Told /\ cache' = cache /\ repo' = repo
<1>1. IsSeq(bus)
  BY DEF ThreadInv, Shape
<1>2. CASE \E i \in DOMAIN calls : DispatchPRuntimeRequest(i) \/ LoseCall(i)
  <2>1. PICK i \in DOMAIN calls : DispatchPRuntimeRequest(i) \/ LoseCall(i)
    BY <1>2
  <2>2. cache' = cache /\ repo' = repo
    BY <2>1 DEF DispatchPRuntimeRequest, LoseCall
  <2>3. \E result, data : bus' = bus \o Report(calls[i], result, data)
    BY <2>1 DEF DispatchPRuntimeRequest, LoseCall
  <2>4. PICK result, data : bus' = bus \o Report(calls[i], result, data)
    BY <2>3
  <2> DEFINE e == Response(calls[i], result, data)
             m == Ev("MarkError")
  <2>5. bus' = bus \o (<<m>> \o <<e>>) \/ bus' = bus \o (<< >> \o <<e>>)
    BY <2>4 DEF Report
  <2>6. ~IsState(e) /\ ~IsState(m)
    BY DEF Response, Ev, IsState
  <2> HIDE DEF e, m
  <2> QED
    BY <1>1, <2>2, <2>5, <2>6, ToldOne
<1>3. CASE PRuntimeRestart
  <2>1. cache' = cache /\ repo' = repo
    BY <1>3 DEF PRuntimeRestart
  <2> QED
    BY <1>3, <2>1, PRuntimeRestartInv
<1>4. CASE \E i \in DOMAIN tasks : EndOfTask(i) \/ FailNextSync(i)
  <2>1. PICK i \in DOMAIN tasks : EndOfTask(i) \/ FailNextSync(i)
    BY <1>4
  <2>2. cache' = cache /\ repo' = repo
    BY <2>1 DEF EndOfTask, DoRequestNextSync, GetLoadStateRequest, DoRegister,
       DoAddWorkerToPool, DoStartComputing, Transact, SilentTask, DoRestart, FailNextSync
  <2>3. CASE DoRequestNextSync(i)
    <3>1. PICK known \in BOOLEAN : bus' = Append(bus, Request(GenerateSyncRequest(tasks[i], known)))
      BY <2>3 DEF DoRequestNextSync
    <3> DEFINE e == Request(GenerateSyncRequest(tasks[i], known))
    <3>2. ~IsState(e)
      BY DEF Request, IsState
    <3> HIDE DEF e
    <3> QED
      BY <1>1, <2>2, <3>1, <3>2, ToldOne DEF e
  <2>4. ASSUME NEW e, e.ev \in {"MarkError", "Request", "DeleteWorker", "AddWorker"},
               bus' = Append(bus, e)
        PROVE  Told
    BY <1>1, <2>4, ToldOne DEF IsState
  <2>5. /\ Ev("MarkError").ev = "MarkError" /\ Ev("DeleteWorker").ev = "DeleteWorker"
        /\ \A r : Request(r).ev = "Request"
        /\ \A c : [ev |-> "AddWorker", config |-> c].ev = "AddWorker"
    BY DEF Ev, Request
  <2>6. CASE GetLoadStateRequest(i)
    <3>1. \/ bus' = Append(bus, Ev("MarkError"))
          \/ \E at : bus' = Append(bus, Request(LoadChainState(at)))
      BY <2>6 DEF GetLoadStateRequest
    <3> QED
      BY <2>2, <2>4, <2>5, <3>1
  <2>7. CASE DoRegister(i) \/ DoAddWorkerToPool(i) \/ DoStartComputing(i) \/ SilentTask(i)
    <3>1. \/ bus' = Append(bus, Ev("MarkError"))
          \/ bus' = bus \o <<Request(Req("RegularGetInfo"))>>
          \/ bus' = bus \o << >>
          \/ bus' = bus
      BY <2>7 DEF DoRegister, DoAddWorkerToPool, DoStartComputing, SilentTask, Transact
    <3>2. bus' \in {bus, Append(bus, Ev("MarkError")), Append(bus, Request(Req("RegularGetInfo")))}
      BY <1>1, <3>1, AppendIs, ConcatEmpty
    <3> QED
      BY <1>1, <2>2, <2>4, <2>5, <3>2, ToldOne
  <2>8. CASE DoRestart(i)
    <3>1. \/ bus' = Append(bus, Ev("DeleteWorker"))
          \/ bus' = Append(bus, [ev |-> "AddWorker", config |-> tasks[i].config])
      BY <2>8 DEF DoRestart
    <3> QED
      BY <2>2, <2>4, <2>5, <3>1
  <2>9. CASE FailNextSync(i)
    BY <2>2, <2>4, <2>5, <2>9 DEF FailNextSync
  <2> QED
    BY <2>1, <2>3, <2>6, <2>7, <2>8, <2>9 DEF EndOfTask
<1>5. CASE Heartbeat
  <2>1. ~IsState(Ev("Heartbeat"))
    BY DEF Ev, IsState
  <2> QED
    BY <1>1, <1>5, <2>1, ToldOne DEF Heartbeat
<1>6. CASE Operate
  <2>1. \A e \in OperatorEvents : ~IsState(e)
    BY DEF OperatorEvents, Ev, IsState
  <2> QED
    BY <1>1, <1>6, <2>1, ToldOne DEF Operate
<1> QED
  BY <1>2, <1>3, <1>4, <1>5, <1>6

Phases == {"idle", "broadcast", "changes"}
RepoType ==
    repo \in [stored : 0..MaxRelay, phase : Phases, from : 0..MaxRelay, full : BOOLEAN,
              skipped : BOOLEAN]

(* The headers under way begin after those that are stored.                *)
RepoOK ==
    /\ RepoType
    /\ repo.phase # "idle" => repo.from >= 1 /\ ParaAt[repo.from - 1] <= ParaAt[repo.stored]

(* The head that changes must follow once the repository has sent the      *)
(* whole state.                                                            *)
Expected == ParaAt[IF repo.phase = "idle" THEN repo.stored ELSE repo.from - 1]

(* The copy is sound, and the events that wait lead to the head that the   *)
(* repository goes on from.                                                *)
CopyOK ==
    /\ cache.sound
    /\ \E m : Leads(bus, cache.at, m) /\ (repo.full => m = Expected)

ChainInv == RepoOK /\ (repo.skipped \/ CopyOK)

(* The invariant holds at the start.                                       *)
LEMMA ChainInit ==
    Init => ChainInv
<1> SUFFICES ASSUME Init PROVE ChainInv
  OBVIOUS
<1> DEFINE a == [ev |-> "AddWorker", config |-> DefaultConfig]
           n == ParaAt[InitialRelay]
<1>1. /\ repo = [stored |-> InitialRelay, phase |-> "idle", from |-> 0, full |-> FALSE,
                 skipped |-> FALSE]
      /\ cache.at = n /\ cache.sound /\ bus = <<a>>
  BY DEF Init
<1>2. a.ev = "AddWorker"
  OBVIOUS
<1> HIDE DEF a, n
<1>3. Mute(<<a>>)
  <2>1. <<a>> \in Seq({a}) /\ DOMAIN <<a>> = {1} /\ <<a>>[1] = a
    OBVIOUS
  <2> QED
    BY <1>2, <2>1 DEF Mute, IsSeq, IsState
<1>4. Leads(bus, cache.at, n)
  BY <1>1, <1>3, LeadsStart
<1>5. RepoOK
  BY <1>1, PrbAssumption DEF RepoOK, RepoType, Phases
<1> QED
  BY <1>1, <1>4, <1>5 DEF ChainInv, CopyOK

(* Events that leave the copy alone may be added.                          *)
LEMMA CopyTold ==
    ASSUME ThreadInv, ChainInv, Told, cache' = cache, repo' = repo
    PROVE  ChainInv'
<1>1. IsSeq(bus)
  BY DEF ThreadInv, Shape
<1>2. PICK r : Mute(r) /\ bus' = bus \o r
  BY DEF Told, Mute
<1>3. ASSUME NEW m, Leads(bus, cache.at, m) PROVE Leads(bus', cache.at, m)
  <2>1. Leads(r, m, m) /\ IsSeq(r)
    BY <1>2, LeadsStart DEF Mute
  <2> QED
    BY <1>1, <1>2, <1>3, <2>1, LeadsJoin
<1>4. CopyOK => CopyOK'
  BY <1>3 DEF CopyOK, Expected
<1> QED
  BY <1>4 DEF ChainInv, RepoOK, RepoType

(* The first event is handled.                                             *)
LEMMA CopyTook ==
    ASSUME ThreadInv, ChainInv, Took, bus # << >>, repo' = repo,
           cache'.at = After(bus, cache.at),
           cache.sound /\ (Head(bus).ev = "StorageChanges" => Head(bus).from = cache.at + 1)
               => cache'.sound
    PROVE  ChainInv'
<1>1. IsSeq(bus) /\ IsSeq(Tail(bus))
  BY TailFacts DEF ThreadInv, Shape, Shifted
<1>2. PICK r : Mute(r) /\ bus' = Tail(bus) \o r
  BY DEF Took, Mute
<1>3. ASSUME NEW m, Leads(bus, cache.at, m)
      PROVE  /\ Leads(bus', cache'.at, m)
             /\ Head(bus).ev = "StorageChanges" => Head(bus).from = cache.at + 1
  <2>1. /\ Leads(Tail(bus), cache'.at, m)
        /\ Head(bus).ev = "StorageChanges" => Head(bus).from = cache.at + 1
    BY <1>1, <1>3, LeadsTail
  <2>2. Leads(r, m, m) /\ IsSeq(r)
    BY <1>2, LeadsStart DEF Mute
  <2> QED
    BY <1>1, <1>2, <2>1, <2>2, LeadsJoin
<1>4. CopyOK => CopyOK'
  BY <1>3 DEF CopyOK, Expected
<1> QED
  BY <1>4 DEF ChainInv, RepoOK, RepoType

(* Every event of the processor.                                           *)
LEMMA CopyHandled ==
    ASSUME ThreadInv, ChainInv, Handle
    PROVE  ChainInv'
<1>1. Took /\ bus # << >> /\ repo' = repo
  <2>1. Took
    BY AddWorkerInv, DeleteWorkerInv, UpdatePoolInv, UpdatePoolOperatorInv, HeartbeatInv,
       BroadcastInv, UpdateSessionInfoInv, CacheInv, RequestEventInv, ResponseEventInv,
       LoadStateInv, MarkErrorInv, UpdateWorkerInv, CommandInv
    DEF Handle
  <2>2. bus # << >> /\ repo' = repo
    BY DEF Handle, HandleAddWorker, HandleDeleteWorker, HandleUpdatePool,
       HandleUpdatePoolOperator, HandleHeartbeat, HandleBroadcastSync, HandleUpdateSessionInfo,
       HandleChainState, HandleStorageChanges, HandlePRuntimeRequestEvent,
       HandlePRuntimeResponseEvent, HandleLoadState, HandleMarkError, HandleUpdateWorker,
       HandleCommand, WorkerEvent, Next1, world
  <2> QED
    BY <2>1, <2>2
<1>2. \/ cache' = cache /\ ~IsState(Head(bus))
      \/ HandleChainState \/ HandleStorageChanges
  BY DEF Handle, HandleAddWorker, HandleDeleteWorker, HandleUpdatePool,
     HandleUpdatePoolOperator, HandleHeartbeat, HandleBroadcastSync, HandleUpdateSessionInfo,
     HandlePRuntimeRequestEvent, HandlePRuntimeResponseEvent, HandleLoadState, HandleMarkError,
     HandleUpdateWorker, HandleCommand, WorkerEvent, Next1, IsState
<1>3. CASE cache' = cache /\ ~IsState(Head(bus))
  <2>1. cache'.at = After(bus, cache.at) /\ (cache.sound => cache'.sound)
    BY <1>3 DEF After
  <2> QED
    BY <1>1, <2>1, CopyTook
<1>4. CASE HandleChainState \/ HandleStorageChanges
  <2>1. IsState(Head(bus)) /\ cache'.at = Head(bus).to
    BY <1>4 DEF HandleChainState, HandleStorageChanges, Next1, IsState
  <2>2. cache.sound /\ (Head(bus).ev = "StorageChanges" => Head(bus).from = cache.at + 1)
            => cache'.sound
    <3>1. CASE HandleChainState
      BY <3>1 DEF HandleChainState
    <3>2. CASE HandleStorageChanges
      <4> DEFINE b == cache.sound /\ Head(bus).from = cache.at + 1
      <4>1. cache' = [at |-> Head(bus).to, sound |-> b] /\ Head(bus).ev = "StorageChanges"
        BY <3>2 DEF HandleStorageChanges, Next1
      <4> HIDE DEF b
      <4>2. cache'.sound = b
        BY <4>1
      <4> QED
        BY <4>1, <4>2, Zenon DEF b
    <3> QED
      BY <1>4, <3>1, <3>2
  <2> QED
    BY <1>1, <2>1, <2>2, CopyTook DEF After
<1> QED
  BY <1>2, <1>3, <1>4

(* The repository.                                                         *)
LEMMA CopyRepository ==
    ASSUME ThreadInv, ChainInv, FillGap \/ PrepareAndBroadcast \/ SendStorageChanges
    PROVE  ChainInv'
<1>0. IsSeq(bus) /\ cache' = cache
  BY DEF ThreadInv, Shape, FillGap, PrepareAndBroadcast, SendStorageChanges
<1>1. RepoType /\ RepoOK /\ (repo.skipped \/ CopyOK)
  BY DEF ChainInv, RepoOK
<1>p. /\ MaxRelay \in Nat /\ ParaAt \in [0..MaxRelay -> Nat] /\ Changes \subseteq 1..MaxRelay
      /\ \A r \in 1..MaxRelay : ParaAt[r - 1] <= ParaAt[r]
  BY PrbAssumption
<1>2. CASE FillGap
  <2>0. repo.phase = "idle" /\ bus' = bus
    BY <1>2 DEF FillGap
  <2>1. PICK to \in (repo.stored + 1)..MaxRelay :
           /\ to <= repo.stored + 2
           /\ \/ repo' = [repo EXCEPT !.stored = to, !.phase = "broadcast",
                                      !.from = repo.stored + 1]
              \/ \E r \in Changes \cap (repo.stored + 1)..(to - 1) :
                    repo' = [repo EXCEPT !.stored = r, !.skipped = TRUE]
    BY <1>2 DEF FillGap
  <2>n. /\ repo.stored \in 0..MaxRelay /\ repo.stored \in Nat
        /\ repo = [stored |-> repo.stored, phase |-> repo.phase, from |-> repo.from,
                   full |-> repo.full, skipped |-> repo.skipped]
    BY <1>1, <1>p DEF RepoType
  <2>t. to \in 1..MaxRelay /\ repo.stored + 1 <= to /\ to <= repo.stored + 2
    <3> DEFINE n == repo.stored
    <3>1. to \in (n + 1)..MaxRelay /\ to <= n + 2
      BY <2>1
    <3>2. n \in Nat
      BY <2>n
    <3> HIDE DEF n
    <3>3. to \in 1..MaxRelay /\ n + 1 <= to /\ to <= n + 2
      BY <1>p, <3>1, <3>2
    <3> QED
      BY <3>3 DEF n
  <2>2. CASE repo' = [repo EXCEPT !.stored = to, !.phase = "broadcast", !.from = repo.stored + 1]
    <3>1. /\ repo'.stored = to /\ repo'.phase = "broadcast" /\ repo'.from = repo.stored + 1
          /\ repo'.full = repo.full /\ repo'.skipped = repo.skipped /\ RepoType'
      <4> DEFINE n == repo.stored
      <4>1. n + 1 \in 0..MaxRelay /\ to \in 0..MaxRelay
        BY <1>p, <2>t, <2>n
      <4>2. repo' = [repo EXCEPT !.stored = to, !.phase = "broadcast", !.from = n + 1]
        BY <2>2
      <4> HIDE DEF n
      <4>3. \A x, y \in 0..MaxRelay :
               repo' = [repo EXCEPT !.stored = x, !.phase = "broadcast", !.from = y] =>
                  /\ repo'.stored = x /\ repo'.phase = "broadcast" /\ repo'.from = y
                  /\ repo'.full = repo.full /\ repo'.skipped = repo.skipped /\ RepoType'
        BY <1>1 DEF RepoType, Phases
      <4> QED
        BY <4>1, <4>2, <4>3 DEF n
    <3>2. repo.stored \in 0..MaxRelay /\ to \in 1..MaxRelay
      BY <2>t, <2>n
    <3>3. ParaAt[repo.stored] <= ParaAt[to]
      <4>1. to = repo.stored + 1 \/ to = repo.stored + 2
        BY <2>t, <2>n
      <4>2. CASE to = repo.stored + 1
        <5>1. to - 1 = repo.stored
          BY <3>2, <4>2
        <5> QED
          BY <1>p, <3>2, <5>1
      <4>3. CASE to = repo.stored + 2
        <5> DEFINE k == repo.stored + 1
        <5>1. k \in 1..MaxRelay /\ k - 1 = repo.stored /\ to - 1 = k
          BY <1>p, <2>t, <2>n, <4>3
        <5>2. ParaAt[repo.stored] <= ParaAt[k] /\ ParaAt[k] <= ParaAt[to]
          BY <1>p, <3>2, <5>1
        <5>3. ParaAt[repo.stored] \in Nat /\ ParaAt[k] \in Nat /\ ParaAt[to] \in Nat
          BY <1>p, <3>2, <5>1
        <5> HIDE DEF k
        <5> QED
          BY <5>2, <5>3
      <4> QED
        BY <4>1, <4>2, <4>3
    <3>4. repo'.from - 1 = repo.stored
      BY <3>1, <3>2
    <3>5. RepoOK' /\ Expected' = Expected
      BY <2>0, <3>1, <3>2, <3>3, <3>4 DEF RepoOK, Expected
    <3>6. CopyOK => CopyOK'
      BY <1>0, <2>0, <3>1, <3>5 DEF CopyOK
    <3> QED
      BY <1>1, <3>1, <3>5, <3>6 DEF ChainInv
  <2>3. CASE \E r \in Changes \cap (repo.stored + 1)..(to - 1) :
                repo' = [repo EXCEPT !.stored = r, !.skipped = TRUE]
    <3>1. /\ repo'.phase = "idle" /\ repo'.skipped /\ RepoType'
      <4>1. PICK r \in Changes : repo' = [repo EXCEPT !.stored = r, !.skipped = TRUE]
        BY <2>3
      <4>2. r \in 0..MaxRelay
        BY <1>p
      <4> QED
        BY <1>1, <2>0, <4>1, <4>2 DEF RepoType, Phases
    <3> QED
      BY <3>1 DEF ChainInv, RepoOK
  <2> QED
    BY <2>1, <2>2, <2>3
<1>3. CASE repo' = [repo EXCEPT !.phase = "idle", !.full = FALSE] /\ bus' = bus
  <2>1. /\ repo'.phase = "idle" /\ repo'.full = FALSE /\ repo'.skipped = repo.skipped
        /\ RepoType'
    BY <1>1, <1>3 DEF RepoType, Phases
  <2>2. RepoOK' /\ (CopyOK => CopyOK')
    BY <1>0, <1>3, <2>1 DEF RepoOK, CopyOK
  <2> QED
    BY <1>1, <2>1, <2>2 DEF ChainInv
<1>4. CASE /\ repo.phase = "broadcast" /\ bus' = Append(bus, BroadcastEvent)
           /\ repo' = [repo EXCEPT !.phase = IF ParaFrom <= ParaTo THEN "changes" ELSE "idle"]
  <2>0. repo.from \in 1..MaxRelay /\ repo.stored \in 0..MaxRelay /\ repo.from - 1 \in 0..MaxRelay
    BY <1>1, <1>4, <1>p DEF RepoOK, RepoType
  <2>1. /\ ParaAt[repo.from - 1] \in Nat /\ ParaAt[repo.stored] \in Nat
        /\ ParaAt[repo.from - 1] <= ParaAt[repo.stored]
    BY <1>1, <1>4, <1>p, <2>0 DEF RepoOK
  <2>2. /\ repo'.phase = IF ParaFrom <= ParaTo THEN "changes" ELSE "idle"
        /\ repo'.stored = repo.stored /\ repo'.from = repo.from
        /\ repo'.full = repo.full /\ repo'.skipped = repo.skipped /\ RepoType'
    BY <1>1, <1>4 DEF RepoType, Phases
  <2>3. RepoOK'
    BY <1>1, <1>4, <2>2 DEF RepoOK
  <2>4. Expected' = Expected
    <3>1. CASE ParaFrom <= ParaTo
      BY <1>4, <2>2, <3>1 DEF Expected
    <3>2. CASE ~(ParaFrom <= ParaTo)
      <4>1. ParaAt[repo.from - 1] = ParaAt[repo.stored]
        BY <2>1, <3>2 DEF ParaFrom, ParaTo
      <4> QED
        BY <1>4, <2>2, <3>2, <4>1 DEF Expected
    <3> QED
      BY <3>1, <3>2
  <2>5. ASSUME NEW m, Leads(bus, cache.at, m) PROVE Leads(bus', cache.at, m)
    <3> DEFINE e == BroadcastEvent
               r == <<e>>
    <3>1. e.ev = "BroadcastSync"
      BY DEF BroadcastEvent
    <3>2. bus' = bus \o r
      BY <1>0, <1>4, AppendIs
    <3> HIDE DEF e
    <3>3. r \in Seq({e}) /\ DOMAIN r = {1} /\ r[1] = e
      OBVIOUS
    <3> HIDE DEF r
    <3>4. Mute(r) /\ IsSeq(r)
      BY <3>1, <3>3 DEF Mute, IsSeq, IsState
    <3> QED
      BY <1>0, <2>5, <3>2, <3>4, LeadsStart, LeadsJoin
  <2>6. CopyOK => CopyOK'
    BY <1>0, <2>2, <2>4, <2>5 DEF CopyOK
  <2> QED
    BY <1>1, <2>2, <2>3, <2>6 DEF ChainInv
<1> DEFINE c == IF repo.full THEN [ev |-> "StorageChanges", from |-> ParaFrom, to |-> ParaTo]
                ELSE [ev |-> "ChainState", to |-> ParaTo]
           u == Ev("UpdateSessionInfo")
<1>5. CASE /\ repo.phase = "changes" /\ bus' = bus \o <<c, u>>
           /\ repo' = [repo EXCEPT !.phase = "idle", !.full = TRUE]
  <2>1. /\ repo'.phase = "idle" /\ repo'.stored = repo.stored
        /\ repo'.skipped = repo.skipped /\ RepoType'
    BY <1>1, <1>5 DEF RepoType, Phases
  <2>2. RepoOK' /\ Expected' = ParaTo
    BY <2>1 DEF RepoOK, Expected, ParaTo
  <2>3. /\ IsState(c) /\ ~IsState(u) /\ c.to = ParaTo
        /\ c.ev = "StorageChanges" => repo.full /\ c.from = ParaFrom
    BY DEF IsState, Ev
  <2> HIDE DEF c, u
  <2>4. ASSUME NEW m, Leads(bus, cache.at, m), repo.full => m = Expected
        PROVE  Leads(bus', cache.at, ParaTo)
    <3>1. c.ev = "StorageChanges" => c.from = m + 1
      BY <1>5, <2>3, <2>4 DEF Expected, ParaFrom
    <3> DEFINE r == <<c, u>>
    <3>2. Leads(r, m, ParaTo)
      BY <2>3, <3>1, LeadsSend
    <3>3. IsSeq(r)
      <4>1. r \in Seq({c, u})
        OBVIOUS
      <4> QED
        BY <4>1 DEF IsSeq
    <3>4. bus' = bus \o r
      BY <1>5
    <3> HIDE DEF r
    <3> QED
      BY <1>0, <2>4, <3>2, <3>3, <3>4, LeadsJoin
  <2>5. CopyOK => CopyOK'
    BY <1>0, <2>2, <2>4 DEF CopyOK
  <2> QED
    BY <1>1, <2>1, <2>2, <2>5 DEF ChainInv
<1>6. CASE PrepareAndBroadcast
  BY <1>3, <1>4, <1>6 DEF PrepareAndBroadcast
<1>7. CASE SendStorageChanges
  BY <1>3, <1>5, <1>7 DEF SendStorageChanges, StateNotSent
<1> QED
  BY SMTT(30), <1>2, <1>6, <1>7

(* Whichever broadcasts, fetches and calls fail and however long events    *)
(* wait, the processor's copy of the parachain state only takes changes    *)
(* that follow the state it holds, unless fill_gap has failed between two  *)
(* of its rounds (repository.rs, full_state_dispatched).                   *)
THEOREM CopyFollows ==
    Spec => []CacheFollowsChain
<1>1. Init => ThreadInv /\ ChainInv
  BY ThreadInit, ChainInit
<1>2. ThreadInv /\ ChainInv /\ [Next]_vars => (ThreadInv /\ ChainInv)'
  <2> SUFFICES ASSUME ThreadInv, ChainInv, [Next]_vars PROVE ThreadInv' /\ ChainInv'
    OBVIOUS
  <2>1. ThreadInv'
    BY ThreadStep
  <2>2. CASE UNCHANGED vars
    <3>1. bus' = bus /\ cache' = cache /\ repo' = repo
      BY <2>2 DEF vars
    <3> QED
      BY <2>1, <3>1 DEF ChainInv, RepoOK, RepoType, CopyOK, Expected
  <2>3. CASE Next
    <3>1. CASE Handle
      BY <2>1, <3>1, CopyHandled
    <3>2. CASE FillGap \/ PrepareAndBroadcast \/ SendStorageChanges
      BY <2>1, <3>2, CopyRepository
    <3>3. CASE \/ \E i \in DOMAIN calls : DispatchPRuntimeRequest(i) \/ LoseCall(i)
               \/ PRuntimeRestart
               \/ \E i \in DOMAIN tasks : EndOfTask(i) \/ FailNextSync(i)
               \/ Heartbeat \/ Operate
      BY <2>1, <3>3, Bystanders, CopyTold
    <3> QED
      BY <2>3, <3>1, <3>2, <3>3 DEF Next
  <2> QED
    BY <2>1, <2>2, <2>3
<1>3. ThreadInv /\ ChainInv => CacheFollowsChain
  BY DEF ChainInv, CopyOK, CacheFollowsChain
<1> QED
  BY <1>1, <1>2, <1>3, PTL DEF Spec
=============================================================================
