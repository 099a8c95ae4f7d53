-------------------------- MODULE ComputationProofs --------------------------
(***************************************************************************)
(* Proofs about computing sessions and heartbeats, for any number of       *)
(* workers, pools, blocks and calls, and any delay of pRuntimes, reports   *)
(* and heartbeats.                                                         *)
(***************************************************************************)
EXTENDS Computation, WellFoundedInduction, SequenceTheorems, FiniteSetTheorems, TLAPS

-----------------------------------------------------------------------------
(* Induction and recursion on natural numbers.  The statements speak of    *)
(* sets and functions where those of the library speak of operators, so    *)
(* that the provers can instantiate them.                                  *)

(* A set of natural numbers has a least element.                          *)
LEMMA LeastNatural ==
    ASSUME NEW T \in SUBSET Nat, T # {}
    PROVE  \E x \in T : \A y \in T : x <= y
<1>1. PICK x \in T : \A y \in T : ~(<<y, x>> \in OpToRel(<, Nat))
  BY NatLessThanWellFounded, WFMin
<1>2. \A y \in T : ~(y < x)
  BY <1>1 DEF OpToRel
<1> QED
  BY <1>2

(* Induction up to N, stated with a set in place of a predicate.           *)
LEMMA IntervalInduction ==
    ASSUME NEW N \in Nat, NEW P \in SUBSET (0..N), 0 \in P,
           \A k \in 1..N : k - 1 \in P => k \in P
    PROVE  P = 0..N
<1> DEFINE T == (0..N) \ P
<1>1. ASSUME NEW k \in T, \A y \in T : k <= y PROVE FALSE
  <2>1. k \in 1..N /\ k - 1 \in 0..N /\ k - 1 \notin T
    BY <1>1
  <2> QED
    BY <2>1
<1>2. T \in SUBSET Nat
  OBVIOUS
<1> HIDE DEF T
<1>3. T = {}
  BY <1>1, <1>2, LeastNatural
<1> QED
  BY <1>3 DEF T

(* f is the sequence of values that N steps lead to from init.             *)
Iterates(f, N, X, init, step) ==
    f \in [0..N -> X] /\ f[0] = init /\ \A i \in 1..N : f[i] = step[i][f[i - 1]]

(* N steps lead somewhere: a function on 0..N can be defined by recursion.  *)
LEMMA IterationExists ==
    ASSUME NEW N \in Nat, NEW X, NEW init \in X, NEW step \in [1..N -> [X -> X]]
    PROVE  \E f : Iterates(f, N, X, init, step)
<1> DEFINE Ok(k) == \E f \in [0..k -> X] :
                       f[0] = init /\ \A i \in 1..k : f[i] = step[i][f[i - 1]]
           T == {k \in 0..N : ~Ok(k)}
<1>1. Ok(0)
  <2> DEFINE g == [i \in 0..0 |-> init]
  <2>1. g \in [0..0 -> X] /\ g[0] = init /\ 1..0 = {}
    OBVIOUS
  <2> HIDE DEF g
  <2> QED
    BY <2>1
<1>2. ASSUME NEW k \in 1..N, Ok(k - 1)
      PROVE  Ok(k)
  <2>1. PICK f \in [0..(k - 1) -> X] :
            f[0] = init /\ \A i \in 1..(k - 1) : f[i] = step[i][f[i - 1]]
    BY <1>2
  <2> DEFINE g == [i \in 0..k |-> IF i = k THEN step[k][f[k - 1]] ELSE f[i]]
  <2>2. g \in [0..k -> X]
    BY <2>1
  <2>3. g[0] = init
    BY <2>1
  <2>4. ASSUME NEW i \in 1..k PROVE g[i] = step[i][g[i - 1]]
    BY <2>1
  <2> HIDE DEF g
  <2> QED
    BY <2>2, <2>3, <2>4
<1> HIDE DEF Ok
<1>3. T = {}
  <2> SUFFICES ASSUME T # {} PROVE FALSE
    OBVIOUS
  <2>1. PICK k \in T : \A y \in T : k <= y
    <3>1. T \in SUBSET Nat
      OBVIOUS
    <3> HIDE DEF T
    <3> QED
      BY <3>1, LeastNatural
  <2>2. k \in 1..N
    BY <1>1
  <2>3. Ok(k - 1)
    BY <2>1, <2>2
  <2> QED
    BY <1>2, <2>2, <2>3
<1>4. Ok(N)
  BY <1>3
<1> QED
  BY <1>4 DEF Ok, Iterates

-----------------------------------------------------------------------------
(* The pallets.                                                            *)

SessionType(ht, id) ==
    [state : States, v_updated_at : 0..ht, challenge_time_last : 0..ht,
     cool_down_start : 0..ht, id : 0..(id - 1), stake : BOOLEAN]

PalletType ==
    /\ height \in 1..MaxBlocks
    /\ calls \in [registry : 0..MaxRegistrations, computation : 0..MaxCalls]
    /\ addedAt \in [Workers -> 0..height] /\ launchedAt \in 0..height
    /\ binding \in [Workers -> Pools \cup {NoPool}]
    /\ sessions \in [Accounts -> SessionType(height, nextId)]
    /\ nextId \in Nat \ {0}

(* The state of a session decides whether it has a stake.                  *)
StakeOK(s) == s.stake <=> Computing(s) \/ s.state = "WorkerCoolingDown"

(* The fields of a session.                                                *)
LEMMA SessionFields ==
    ASSUME NEW ht \in Nat, NEW id \in Nat \ {0}, NEW s \in SessionType(ht, id)
    PROVE  /\ s.state \in States /\ s.v_updated_at \in 0..ht
           /\ s.challenge_time_last \in 0..ht /\ s.cool_down_start \in 0..ht
           /\ s.id \in 0..(id - 1) /\ s.stake \in BOOLEAN
  BY DEF SessionType

(* A session keeps its type when time goes on.                             *)
LEMMA SessionTypeGrows ==
    ASSUME NEW ht \in Nat, NEW id \in Nat \ {0}, NEW ht2 \in Nat, NEW id2 \in Nat \ {0},
           ht <= ht2, id <= id2, NEW s \in SessionType(ht, id)
    PROVE  s \in SessionType(ht2, id2)
<1>1. 0..ht \subseteq 0..ht2 /\ 0..(id - 1) \subseteq 0..(id2 - 1)
  OBVIOUS
<1> QED
  BY <1>1 DEF SessionType

(* The account that a worker is bound to.                                  *)
LEMMA AccountFacts ==
    ASSUME PalletType
    PROVE  /\ \A w \in Workers : Bound(w) =>
                 /\ Account(w) \in Accounts /\ binding[w] \in Pools
                 /\ Account(w)[1] = binding[w] /\ Account(w)[2] = w
           /\ \A a \in Accounts : /\ a[1] \in Pools /\ a[2] \in Workers /\ a = <<a[1], a[2]>>
                                  /\ binding[a[2]] = a[1] => Bound(a[2]) /\ a = Account(a[2])
  BY ConstantsAssumption DEF PalletType, Bound, Account, Accounts

(* Accounts are finitely many, and so are those that compute.              *)
LEMMA AccountsFinite ==
    IsFiniteSet(Accounts)
  BY ConstantsAssumption, FS_Product DEF Accounts

(* The number of sessions that compute.                                    *)
Online(f) == Cardinality({b \in Accounts : Computing(f[b])})

(* How the number of sessions that compute changes with one session.       *)
LEMMA ComputingChange ==
    ASSUME NEW a \in Accounts, NEW f, NEW g,
           \A b \in Accounts : b # a => g[b] = f[b]
    PROVE  /\ Online(f) \in Nat
           /\ Computing(g[a]) /\ ~Computing(f[a]) => Online(g) = Online(f) + 1
           /\ ~Computing(g[a]) /\ Computing(f[a]) => Online(g) = Online(f) - 1
           /\ (Computing(g[a]) <=> Computing(f[a])) => Online(g) = Online(f)
<1> DEFINE A == {b \in Accounts : Computing(f[b])}
           B == {b \in Accounts : Computing(g[b])}
<1>1. IsFiniteSet(A) /\ IsFiniteSet(B) /\ Cardinality(A) \in Nat /\ Cardinality(B) \in Nat
  BY AccountsFinite, FS_Subset, FS_CardinalityType
<1>3. ASSUME Computing(g[a]), ~Computing(f[a]) PROVE Cardinality(B) = Cardinality(A) + 1
  <2>1. B = A \cup {a} /\ a \notin A
    BY <1>3
  <2> HIDE DEF A, B
  <2> QED
    BY <1>1, <2>1, FS_AddElement
<1>4. ASSUME ~Computing(g[a]), Computing(f[a]) PROVE Cardinality(B) = Cardinality(A) - 1
  <2>1. B = A \ {a} /\ a \in A
    BY <1>4
  <2> HIDE DEF A, B
  <2> QED
    BY <1>1, <2>1, FS_RemoveElement
<1>5. ASSUME Computing(g[a]) <=> Computing(f[a]) PROVE B = A
  BY <1>5
<1> QED
  BY <1>1, <1>3, <1>4, <1>5 DEF Online

(* What a step keeps of the pallets.                                       *)
PalletStep == PalletType' /\ BooksBalance'

(* The parts of the pallet that a call leaves alone or sets one by one.    *)
OtherTypes ==
    /\ height' = height /\ nextId' \in Nat \ {0} /\ nextId <= nextId'
    /\ calls' \in [registry : 0..MaxRegistrations, computation : 0..MaxCalls]
    /\ addedAt' \in [Workers -> 0..height] /\ launchedAt' \in 0..height
    /\ binding' \in [Workers -> Pools \cup {NoPool}]

(* A call counts itself.                                                   *)
LEMMA CallType ==
    ASSUME PalletType, Call \/ Count("registry", MaxRegistrations)
    PROVE  calls' \in [registry : 0..MaxRegistrations, computation : 0..MaxCalls]
<1>1. CASE Call
  <2>1. calls.computation + 1 \in 0..MaxCalls
    BY <1>1, ConstantsAssumption DEF Call, Count, PalletType
  <2> QED
    BY <1>1, <2>1 DEF Call, Count, PalletType
<1>2. CASE Count("registry", MaxRegistrations)
  <2>1. calls.registry + 1 \in 0..MaxRegistrations
    BY <1>2, ConstantsAssumption DEF Count, PalletType
  <2> QED
    BY <1>2, <2>1 DEF Count, PalletType
<1> QED
  BY <1>1, <1>2

(* A call that writes one session.                                         *)
LEMMA OneSession ==
    ASSUME PalletType, BooksBalance, OtherTypes,
           NEW a \in Accounts, NEW s \in SessionType(height, nextId'),
           sessions' = [sessions EXCEPT ![a] = s], StakeOK(s),
           \A b \in Accounts : b # a /\ Computing(sessions[b]) => binding'[b[2]] = b[1],
           Computing(s) => binding'[a[2]] = a[1],
           (Computing(s) <=> Computing(sessions[a])) => online' = online,
           Computing(s) /\ ~Computing(sessions[a]) => online' = online + 1,
           ~Computing(s) /\ Computing(sessions[a]) => online' = online - 1
    PROVE  PalletStep
<1>1. sessions \in [Accounts -> SessionType(height, nextId)] /\ height \in Nat
  BY ConstantsAssumption DEF PalletType
<1>2. \A b \in Accounts : sessions[b] \in SessionType(height, nextId')
  BY <1>1, SessionTypeGrows DEF OtherTypes, PalletType
<1>3. sessions' \in [Accounts -> SessionType(height, nextId')]
  BY <1>1, <1>2
<1>4. PalletType'
  BY <1>3 DEF PalletType, OtherTypes
<1>5. Online(sessions') = online'
  <2>1. sessions'[a] = s /\ \A b \in Accounts : b # a => sessions'[b] = sessions[b]
    BY <1>1
  <2>2. online = Online(sessions)
    BY DEF BooksBalance, Online
  <2>3. Computing(sessions'[a]) /\ ~Computing(sessions[a])
           => Online(sessions') = Online(sessions) + 1
    BY ONLY <2>1, a \in Accounts, ComputingChange
  <2>4. ~Computing(sessions'[a]) /\ Computing(sessions[a])
           => Online(sessions') = Online(sessions) - 1
    BY ONLY <2>1, a \in Accounts, ComputingChange
  <2>5. (Computing(sessions'[a]) <=> Computing(sessions[a]))
           => Online(sessions') = Online(sessions)
    BY ONLY <2>1, a \in Accounts, ComputingChange
  <2> QED
    BY <2>1, <2>2, <2>3, <2>4, <2>5
<1>6. \A b \in Accounts : /\ Computing(sessions'[b]) => binding'[b[2]] = b[1]
                           /\ StakeOK(sessions'[b])
  BY <1>1 DEF BooksBalance, StakeOK
<1>7. BooksBalance'
  BY <1>5, <1>6 DEF BooksBalance, StakeOK, Online
<1> QED
  BY <1>4, <1>7 DEF PalletStep

(* The session that a call writes is typed and has the stake it should.    *)
LEMMA WrittenSessions ==
    ASSUME PalletType, BooksBalance, NEW a \in Accounts
    PROVE  LET s == sessions[a] IN
           /\ StopSession(s) \in SessionType(height, nextId)
           /\ Computing(s) => StakeOK(StopSession(s)) /\ ~Computing(StopSession(s))
           /\ ReclaimSession(s) \in SessionType(height, nextId)
           /\ StakeOK(ReclaimSession(s)) /\ ~Computing(ReclaimSession(s))
           /\ StartSession(s) \in SessionType(height, nextId + 1)
           /\ StakeOK(StartSession(s)) /\ Computing(StartSession(s))
           /\ StartSession(ReclaimSession(StopSession(s))) \in SessionType(height, nextId + 1)
           /\ StakeOK(StartSession(ReclaimSession(StopSession(s))))
           /\ Computing(StartSession(ReclaimSession(StopSession(s))))
<1> DEFINE s == sessions[a]
<1>1. /\ height \in Nat /\ height \in 0..height /\ 0 \in 0..height
      /\ nextId \in Nat \ {0} /\ nextId \in 0..(nextId + 1 - 1)
      /\ 0..(nextId - 1) \subseteq 0..(nextId + 1 - 1)
  BY ConstantsAssumption DEF PalletType
<1>2. s \in SessionType(height, nextId)
  BY DEF PalletType
<1>3. Computing(s) => s.stake
  BY DEF BooksBalance
<1> HIDE DEF s
<1>4. \A t \in SessionType(height, nextId) :
         /\ StopSession(t) \in SessionType(height, nextId)
         /\ ReclaimSession(t) \in SessionType(height, nextId)
         /\ StartSession(t) \in SessionType(height, nextId + 1)
  <2> SUFFICES ASSUME NEW t \in SessionType(height, nextId)
               PROVE  /\ StopSession(t) \in SessionType(height, nextId)
                      /\ ReclaimSession(t) \in SessionType(height, nextId)
                      /\ StartSession(t) \in SessionType(height, nextId + 1)
    OBVIOUS
  <2>1. StopSession(t) \in SessionType(height, nextId)
    BY <1>1 DEF SessionType, StopSession, States
  <2>2. ReclaimSession(t) \in SessionType(height, nextId)
    BY <1>1 DEF SessionType, ReclaimSession, States
  <2>3. t \in SessionType(height, nextId + 1)
    BY <1>1, SessionTypeGrows
  <2>4. StartSession(t) \in SessionType(height, nextId + 1)
    <3> DEFINE n == nextId + 1
    <3>1. height \in 0..height /\ nextId \in 0..(n - 1) /\ t \in SessionType(height, n)
      BY <1>1, <2>3
    <3> HIDE DEF n
    <3>2. StartSession(t) \in SessionType(height, n)
      BY <3>1 DEF SessionType, StartSession, States
    <3> QED
      BY <3>2 DEF n
  <2> QED
    BY <2>1, <2>2, <2>4
<1>5. StartSession(ReclaimSession(StopSession(s))) \in SessionType(height, nextId + 1)
  BY <1>2, <1>4
<1>6. /\ Computing(s) => StakeOK(StopSession(s)) /\ ~Computing(StopSession(s))
      /\ StakeOK(ReclaimSession(s)) /\ ~Computing(ReclaimSession(s))
      /\ StakeOK(StartSession(s)) /\ Computing(StartSession(s))
  BY <1>2, <1>3 DEF SessionType, StopSession, ReclaimSession, StartSession, StakeOK, Computing
<1>7. /\ StakeOK(StartSession(ReclaimSession(StopSession(s))))
      /\ Computing(StartSession(ReclaimSession(StopSession(s))))
  BY <1>2 DEF SessionType, StopSession, ReclaimSession, StartSession, StakeOK, Computing
<1> QED
  BY <1>2, <1>4, <1>5, <1>6, <1>7 DEF s

(* A step that leaves the sessions alone.                                  *)
LEMMA NoSessionWritten ==
    ASSUME PalletType, BooksBalance, OtherTypes, sessions' = sessions, online' = online,
           \A b \in Accounts : Computing(sessions[b]) => binding'[b[2]] = b[1]
    PROVE  PalletStep
<1>1. sessions \in [Accounts -> SessionType(height, nextId)] /\ height \in Nat
  BY ConstantsAssumption DEF PalletType
<1>2. \A b \in Accounts : sessions[b] \in SessionType(height, nextId')
  BY <1>1, SessionTypeGrows DEF OtherTypes, PalletType
<1>3. sessions' \in [Accounts -> SessionType(height, nextId')]
  BY <1>1, <1>2
<1>4. PalletType'
  BY <1>3 DEF PalletType, OtherTypes
<1>5. BooksBalance'
  BY DEF BooksBalance
<1> QED
  BY <1>4, <1>5 DEF PalletStep

(* Registration and launch keep the books.                                 *)
LEMMA PalletRegisterWorker ==
    ASSUME PalletType, BooksBalance, NEW w \in Workers, RegisterWorker(w)
    PROVE  PalletStep
<1>1. OtherTypes
  <2>1. calls' \in [registry : 0..MaxRegistrations, computation : 0..MaxCalls]
    BY CallType DEF RegisterWorker
  <2>2. addedAt' \in [Workers -> 0..height]
    BY ConstantsAssumption DEF RegisterWorker, PalletType
  <2> QED
    BY <2>1, <2>2 DEF RegisterWorker, PalletType, OtherTypes
<1> QED
  BY <1>1, NoSessionWritten DEF RegisterWorker, BooksBalance

(* The launch of the gatekeeper writes none of the books.                  *)
LEMMA PalletLaunchGatekeeper ==
    ASSUME PalletType, BooksBalance, LaunchGatekeeper
    PROVE  PalletStep
<1>1. OtherTypes
  BY ConstantsAssumption DEF LaunchGatekeeper, PalletType, OtherTypes
<1> QED
  BY <1>1, NoSessionWritten DEF LaunchGatekeeper, BooksBalance

(* Binding a worker and removing it again keep the books.                  *)
LEMMA PalletBind ==
    ASSUME PalletType, BooksBalance, NEW w \in Workers, NEW p \in Pools, Bind(p, w)
    PROVE  PalletStep
<1> DEFINE a == <<p, w>>
           s == [NoSession EXCEPT !.state = "Ready", !.v_updated_at = height,
                                  !.stake = sessions[a].stake]
<1>1. a \in Accounts /\ a[1] = p /\ a[2] = w
  BY DEF Accounts
<1>2. sessions[a] \in SessionType(height, nextId) /\ height \in Nat /\ nextId \in Nat \ {0}
  BY <1>1, ConstantsAssumption DEF PalletType
<1>3. sessions[a].stake \in BOOLEAN
  BY <1>2, SessionFields
<1>4. sessions[a].stake = FALSE /\ ~Computing(sessions[a])
  <2>1. sessions[a].state \in {"None", "Ready"}
    BY DEF Bind
  <2> QED
    BY <2>1, <1>1, <1>3 DEF BooksBalance, Computing
<1>5. s \in SessionType(height, nextId) /\ StakeOK(s) /\ ~Computing(s)
  <2>1. height \in 0..height /\ 0 \in 0..height /\ 0 \in 0..(nextId - 1)
    BY <1>2
  <2> QED
    BY <1>3, <1>4, <2>1 DEF NoSession, SessionType, StakeOK, Computing, States
<1>6. OtherTypes
  <2>1. calls' \in [registry : 0..MaxRegistrations, computation : 0..MaxCalls]
    BY CallType DEF Bind
  <2> QED
    BY <2>1 DEF Bind, PalletType, OtherTypes
<1>7. sessions' = [sessions EXCEPT ![a] = s] /\ online' = online /\ nextId' = nextId
  BY DEF Bind
<1>8. \A b \in Accounts : b # a /\ Computing(sessions[b]) => binding'[b[2]] = b[1]
  <2> SUFFICES ASSUME NEW b \in Accounts, b # a, Computing(sessions[b])
               PROVE  binding'[b[2]] = b[1]
    OBVIOUS
  <2>1. binding[b[2]] = b[1] /\ Bound(b[2]) /\ b[2] \in Workers
    BY AccountFacts DEF BooksBalance
  <2>2. b[2] # w
    BY <2>1 DEF Bind
  <2> QED
    BY <2>1, <2>2 DEF Bind, PalletType
<1> HIDE DEF a, s
<1> QED
  BY <1>1, <1>4, <1>5, <1>6, <1>7, <1>8, OneSession

(* A worker is unbound, and its session stops when it computes.            *)
LEMMA PalletUnbind ==
    ASSUME PalletType, BooksBalance, NEW w \in Workers, Unbind(w)
    PROVE  PalletStep
<1> DEFINE a == Account(w)
<1>1. a \in Accounts /\ a[1] = binding[w] /\ a[2] = w /\ binding[w] \in Pools
  BY AccountFacts DEF Unbind
<1>2. OtherTypes /\ nextId' = nextId
  <2>1. calls' \in [registry : 0..MaxRegistrations, computation : 0..MaxCalls]
    BY CallType DEF Unbind
  <2> QED
    BY <2>1 DEF Unbind, PalletType, OtherTypes
<1>3. \A b \in Accounts : b # a /\ Computing(sessions[b]) => binding'[b[2]] = b[1]
  <2> SUFFICES ASSUME NEW b \in Accounts, b # a, Computing(sessions[b])
               PROVE  binding'[b[2]] = b[1]
    OBVIOUS
  <2>1. binding[b[2]] = b[1] /\ b = Account(b[2]) /\ b[2] \in Workers
    BY AccountFacts DEF BooksBalance
  <2>2. b[2] # w
    BY <2>1
  <2> QED
    BY <2>1, <2>2 DEF Unbind, PalletType
<1>4. CASE Computing(sessions[a])
  <2> DEFINE s == StopSession(sessions[a])
  <2>1. sessions' = [sessions EXCEPT ![a] = s] /\ online' = online - 1
    BY <1>1, <1>4 DEF Unbind, PalletType
  <2>2. s \in SessionType(height, nextId) /\ StakeOK(s) /\ ~Computing(s)
    BY <1>1, <1>4, WrittenSessions
  <2> HIDE DEF a, s
  <2> QED
    BY <1>1, <1>2, <1>3, <1>4, <2>1, <2>2, OneSession
<1>5. CASE ~Computing(sessions[a])
  <2>1. sessions' = sessions /\ online' = online
    BY <1>5 DEF Unbind
  <2>2. \A b \in Accounts : Computing(sessions[b]) => binding'[b[2]] = b[1]
    BY <1>3, <1>5
  <2> QED
    BY <1>2, <2>1, <2>2, NoSessionWritten
<1> QED
  BY <1>4, <1>5

(* Starting, stopping and restarting a session keep the books.             *)
LEMMA PalletStartComputing ==
    ASSUME PalletType, BooksBalance, NEW w \in Workers, StartComputing(w)
    PROVE  PalletStep
<1> DEFINE a == Account(w)
           s == StartSession(sessions[a])
<1>1. a \in Accounts /\ a[1] = binding[w] /\ a[2] = w
  BY AccountFacts DEF StartComputing
<1>2. OtherTypes /\ nextId' = nextId + 1
  <2>1. calls' \in [registry : 0..MaxRegistrations, computation : 0..MaxCalls]
    BY CallType DEF StartComputing
  <2> QED
    BY <2>1 DEF StartComputing, PalletType, OtherTypes
<1>3. sessions' = [sessions EXCEPT ![a] = s] /\ online' = online + 1 /\ binding' = binding
  BY <1>1 DEF StartComputing, PalletType
<1>4. s \in SessionType(height, nextId + 1) /\ StakeOK(s) /\ Computing(s)
  BY <1>1, WrittenSessions
<1>5. ~Computing(sessions[a])
  BY DEF StartComputing, Computing
<1>6. \A b \in Accounts : Computing(sessions[b]) => binding'[b[2]] = b[1]
  BY <1>3 DEF BooksBalance
<1> HIDE DEF a, s
<1> QED
  BY <1>1, <1>2, <1>3, <1>4, <1>5, <1>6, OneSession

(* A session stops.                                                        *)
LEMMA PalletStopComputing ==
    ASSUME PalletType, BooksBalance, NEW w \in Workers, StopComputing(w)
    PROVE  PalletStep
<1> DEFINE a == Account(w)
           s == StopSession(sessions[a])
<1>1. a \in Accounts /\ a[1] = binding[w] /\ a[2] = w
  BY AccountFacts DEF StopComputing
<1>2. OtherTypes /\ nextId' = nextId
  <2>1. calls' \in [registry : 0..MaxRegistrations, computation : 0..MaxCalls]
    BY CallType DEF StopComputing
  <2> QED
    BY <2>1 DEF StopComputing, PalletType, OtherTypes
<1>3. sessions' = [sessions EXCEPT ![a] = s] /\ online' = online - 1 /\ binding' = binding
  BY <1>1 DEF StopComputing, PalletType
<1>4. Computing(sessions[a])
  BY DEF StopComputing
<1>5. s \in SessionType(height, nextId) /\ StakeOK(s) /\ ~Computing(s)
  BY <1>1, <1>4, WrittenSessions
<1>6. \A b \in Accounts : Computing(sessions[b]) => binding'[b[2]] = b[1]
  BY <1>3 DEF BooksBalance
<1> HIDE DEF a, s
<1> QED
  BY <1>1, <1>2, <1>3, <1>4, <1>5, <1>6, OneSession

(* A session stops and starts again: no worker more is online.             *)
LEMMA PalletRestartComputing ==
    ASSUME PalletType, BooksBalance, NEW w \in Workers, RestartComputing(w)
    PROVE  PalletStep
<1> DEFINE a == Account(w)
           s == StartSession(ReclaimSession(StopSession(sessions[a])))
<1>1. a \in Accounts /\ a[1] = binding[w] /\ a[2] = w
  BY AccountFacts DEF RestartComputing
<1>2. OtherTypes /\ nextId' = nextId + 1
  <2>1. calls' \in [registry : 0..MaxRegistrations, computation : 0..MaxCalls]
    BY CallType DEF RestartComputing
  <2> QED
    BY <2>1 DEF RestartComputing, PalletType, OtherTypes
<1>3. sessions' = [sessions EXCEPT ![a] = s] /\ online' = online /\ binding' = binding
  BY <1>1 DEF RestartComputing, PalletType
<1>4. Computing(sessions[a])
  BY DEF RestartComputing
<1>5. s \in SessionType(height, nextId + 1) /\ StakeOK(s) /\ Computing(s)
  BY <1>1, WrittenSessions
<1>6. \A b \in Accounts : Computing(sessions[b]) => binding'[b[2]] = b[1]
  BY <1>3 DEF BooksBalance
<1> HIDE DEF a, s
<1> QED
  BY <1>1, <1>2, <1>3, <1>4, <1>5, <1>6, OneSession

(* The stake of a stopped session is reclaimed.                            *)
LEMMA PalletReclaim ==
    ASSUME PalletType, BooksBalance, NEW a \in Accounts, Reclaim(a)
    PROVE  PalletStep
<1> DEFINE s == ReclaimSession(sessions[a])
<1>1. OtherTypes /\ nextId' = nextId
  <2>1. calls' \in [registry : 0..MaxRegistrations, computation : 0..MaxCalls]
    BY CallType DEF Reclaim
  <2> QED
    BY <2>1 DEF Reclaim, PalletType, OtherTypes
<1>2. sessions' = [sessions EXCEPT ![a] = s] /\ online' = online /\ binding' = binding
  BY DEF Reclaim, PalletType
<1>3. ~Computing(sessions[a])
  BY DEF Reclaim, Computing
<1>4. s \in SessionType(height, nextId) /\ StakeOK(s) /\ ~Computing(s)
  BY WrittenSessions
<1>5. \A b \in Accounts : Computing(sessions[b]) => binding'[b[2]] = b[1]
  BY <1>2 DEF BooksBalance
<1> HIDE DEF s
<1> QED
  BY <1>1, <1>2, <1>3, <1>4, <1>5, OneSession

(* The heartbeat of a worker writes the session it is bound to.            *)
LEMMA PalletAcceptHeartbeat ==
    ASSUME PalletType, BooksBalance, NEW w \in Workers, AcceptHeartbeat(w),
           Head(worker[w].out).block \in 0..height
    PROVE  PalletStep
<1>1. OtherTypes /\ nextId' = nextId /\ binding' = binding /\ online' = online
  BY DEF AcceptHeartbeat, PalletType, OtherTypes
<1>2. \A b \in Accounts : Computing(sessions[b]) => binding'[b[2]] = b[1]
  BY <1>1 DEF BooksBalance
<1>3. CASE ~Bound(w)
  <2>1. sessions' = sessions
    BY <1>3 DEF AcceptHeartbeat
  <2> QED
    BY <2>1, <1>1, <1>2, NoSessionWritten
<1>4. CASE Bound(w)
  <2> DEFINE a == Account(w)
             t == sessions[a]
             s == [t EXCEPT !.challenge_time_last = Head(worker[w].out).block]
  <2>1. a \in Accounts
    BY <1>4, AccountFacts
  <2>2. t \in SessionType(height, nextId) /\ StakeOK(t)
    BY <2>1 DEF PalletType, BooksBalance, StakeOK
  <2>3. sessions' = [sessions EXCEPT ![a] = s]
    BY <1>4, <2>1 DEF AcceptHeartbeat, PalletType
  <2>4. (Computing(t) => binding'[a[2]] = a[1]) /\ t = sessions[a]
    BY <2>1, <1>2
  <2> HIDE DEF a, t
  <2>5. s \in SessionType(height, nextId)
    BY <2>2 DEF SessionType
  <2>6. s.state = t.state /\ s.stake = t.stake
    BY <2>2 DEF SessionType
  <2>7. StakeOK(s) /\ (Computing(s) <=> Computing(t))
    BY <2>2, <2>6 DEF StakeOK, Computing
  <2> HIDE DEF s
  <2> QED
    BY <1>1, <1>2, <2>1, <2>3, <2>4, <2>5, <2>7, OneSession
<1> QED
  BY <1>3, <1>4

(* A report writes the sessions of the workers it names.                   *)
LEMMA PalletAcceptReport ==
    ASSUME PalletType, BooksBalance, AcceptReport
    PROVE  PalletStep
<1> DEFINE r == Head(reports)
           off == NotSkipped(r.offline)
           on == NotSkipped(r.recovered)
           New(a) == [sessions[a] EXCEPT
                        !.state = IF a[2] \in on THEN "WorkerIdle"
                                  ELSE IF a[2] \in off THEN "WorkerUnresponsive"
                                  ELSE @,
                        !.v_updated_at = IF a[2] \in Settled(r) THEN height
                                         ELSE @]
<1>1. sessions' = [a \in Accounts |-> IF binding[a[2]] # a[1] THEN sessions[a] ELSE New(a)]
  BY DEF AcceptReport
<1>2. OtherTypes /\ nextId' = nextId /\ binding' = binding /\ online' = online
  <2>1. UNCHANGED <<height, addedAt, launchedAt, binding, online, nextId, calls>>
    BY DEF AcceptReport
  <2> QED
    BY <2>1 DEF PalletType, OtherTypes
<1>3. \A a \in Accounts : binding[a[2]] = a[1] /\ (a[2] \in on \/ a[2] \in off)
                             => Computing(sessions[a])
  BY AccountFacts DEF NotSkipped
<1>4. height \in Nat /\ height \in 0..height
  BY ConstantsAssumption DEF PalletType
<1> HIDE DEF off, on, r
<1>5. ASSUME NEW a \in Accounts
      PROVE  /\ sessions'[a] \in SessionType(height, nextId) /\ StakeOK(sessions'[a])
             /\ Computing(sessions'[a]) <=> Computing(sessions[a])
  <2> DEFINE t == sessions[a]
             st == IF a[2] \in on THEN "WorkerIdle"
                   ELSE IF a[2] \in off THEN "WorkerUnresponsive" ELSE t.state
             v == IF a[2] \in Settled(r) THEN height ELSE t.v_updated_at
  <2>1. t \in SessionType(height, nextId) /\ StakeOK(t)
    BY DEF PalletType, BooksBalance, StakeOK
  <2>2. CASE binding[a[2]] # a[1]
    BY <1>1, <2>1, <2>2
  <2>3. CASE binding[a[2]] = a[1]
    <3>1. sessions'[a] = [t EXCEPT !.state = st, !.v_updated_at = v]
      BY <1>1, <2>3
    <3>2. st \in States /\ v \in 0..height /\ t.state \in States
      BY <2>1, <1>4 DEF SessionType, States
    <3>3. st = t.state \/ (Computing(t) /\ st \in {"WorkerIdle", "WorkerUnresponsive"})
      BY <1>3, <2>3
    <3> HIDE DEF t, st, v
    <3>4. sessions'[a] \in SessionType(height, nextId)
      BY <2>1, <3>1, <3>2 DEF SessionType
    <3>5. sessions'[a].state = st /\ sessions'[a].stake = t.stake
      BY <2>1, <3>1 DEF SessionType
    <3>6. Computing(sessions'[a]) <=> Computing(t)
      BY <3>3, <3>5 DEF Computing
    <3>7. StakeOK(sessions'[a])
      BY <2>1, <3>3, <3>5, <3>6 DEF Computing, StakeOK
    <3> QED
      BY <3>4, <3>6, <3>7 DEF t
  <2> QED
    BY <2>2, <2>3
<1>6. PalletType'
  <2>1. sessions' = [a \in Accounts |-> sessions'[a]]
    BY <1>1
  <2>2. sessions' \in [Accounts -> SessionType(height, nextId)]
    BY <2>1, <1>5
  <2> QED
    BY <2>2, <1>2 DEF PalletType, OtherTypes
<1>7. BooksBalance'
  <2>1. {a \in Accounts : Computing(sessions'[a])} = {a \in Accounts : Computing(sessions[a])}
    BY <1>5
  <2>2. online' = Cardinality({a \in Accounts : Computing(sessions'[a])})
    BY <2>1, <1>2 DEF BooksBalance
  <2>3. \A a \in Accounts : Computing(sessions'[a]) => binding'[a[2]] = a[1]
    BY <1>2, <1>5 DEF BooksBalance
  <2> QED
    BY <2>2, <2>3, <1>5 DEF BooksBalance, StakeOK
<1> QED
  BY <1>6, <1>7 DEF PalletStep

(* The pallet keeps its books when a block ends, and when a pRuntime       *)
(* handles one.                                                            *)
LEMMA PalletOther ==
    ASSUME PalletType, BooksBalance, UNCHANGED <<pallet, calls>>,
           height' \in Nat, height <= height', height' <= MaxBlocks
    PROVE  PalletStep
<1>1. height \in Nat /\ height \in 1..MaxBlocks
  BY ConstantsAssumption DEF PalletType
<1>2. 0..height \subseteq 0..height' /\ height' \in 1..MaxBlocks
  BY <1>1, ConstantsAssumption
<1>3. \A a \in Accounts : sessions[a] \in SessionType(height', nextId)
  BY <1>1, SessionTypeGrows DEF PalletType
<1>4. sessions' \in [Accounts -> SessionType(height', nextId')]
  BY <1>3 DEF PalletType, pallet
<1>5. addedAt' \in [Workers -> 0..height'] /\ launchedAt' \in 0..height'
  BY <1>2 DEF PalletType, pallet
<1>6. PalletType'
  BY <1>2, <1>4, <1>5 DEF PalletType, pallet
<1>7. BooksBalance'
  BY DEF BooksBalance, pallet
<1> QED
  BY <1>6, <1>7 DEF PalletStep

-----------------------------------------------------------------------------
(* The history.  Pallet, workers and gatekeeper look at the same stream    *)
(* of events from different points, so what relates them is said in terms  *)
(* of the whole stream: all events ever, E, the block of each, blk, where  *)
(* the blocks end, end, and for each worker its state machine F after      *)
(* every event, its answers S to challenges, and how many of them were     *)
(* given, cnt, and accepted on chain, acc, by then.  ht is the block under *)
(* construction, la that of the launch.                                    *)

Answer == [session : Nat \ {0}, block : Nat \ {0}]

Events ==
    {Registered(w) : w \in Workers} \cup {Launched}
    \cup {Started(w, id) : w \in Workers, id \in Nat \ {0}}
    \cup {Stopped(w) : w \in Workers}
    \cup {EnterUnresponsive(w) : w \in Workers}
    \cup {ExitUnresponsive(w) : w \in Workers}
    \cup {Challenge(hits) : hits \in SUBSET Workers}
    \cup {Heartbeat(w, hb) : w \in Workers, hb \in Answer}

IsHeartbeat(e, w) == e.type = "Heartbeat" /\ e.worker = w

(* The number of events so far.                                            *)
Now(H) == Len(H.E)

ShapeOK(H) ==
    /\ H.ht \in Nat \ {0} /\ H.la \in 0..H.ht
    /\ H.E \in Seq(Events)
    /\ H.blk \in [1..Now(H) -> 1..H.ht]
    /\ H.end \in [0..H.ht -> 0..Now(H)]
    /\ H.end[0] = 0 /\ H.end[H.ht] = Now(H)
    /\ \A p \in 1..Now(H), h \in 0..H.ht : p <= H.end[h] <=> H.blk[p] <= h

(* The machine of w runs on the events.                                    *)
MachineOK(H, w) ==
    /\ H.F[w] \in [0..Now(H) -> StateMachines]
    /\ H.F[w][0] = Unregistered
    /\ \A p \in 1..Now(H) : H.F[w][p] = ProcessEvent(w, H.F[w][p - 1], H.E[p])
    /\ \A p \in 0..Now(H) : H.F[w][p].paused => H.F[w][p].session # 0

CountOK(H, w) ==
    /\ H.S[w] \in Seq(Answer)
    /\ H.cnt[w] \in [0..Now(H) -> Nat] /\ H.acc[w] \in [0..Now(H) -> Nat]
    /\ H.cnt[w][0] = 0 /\ H.acc[w][0] = 0
    /\ H.cnt[w][Now(H)] = Len(H.S[w])
    /\ \A p, q \in 0..Now(H) : p <= q => H.cnt[w][p] <= H.cnt[w][q]
    /\ \A p, q \in 0..Now(H) : p <= q => H.acc[w][p] <= H.acc[w][q]
    /\ \A p \in 0..Now(H) : H.acc[w][p] <= H.cnt[w][p]

(* Each challenge that w hits is answered once, in order, and the answers  *)
(* are accepted in that order.                                             *)
AnswersAt(H, w, p) == Answers(w, H.F[w][p - 1], H.E[p])

AnswersOK(H, w) ==
    /\ \A p \in 1..Now(H) :
          /\ AnswersAt(H, w, p) =>
                /\ H.cnt[w][p] = H.cnt[w][p - 1] + 1
                /\ H.S[w][H.cnt[w][p]] = [session |-> H.F[w][p - 1].session, block |-> H.blk[p]]
          /\ ~AnswersAt(H, w, p) => H.cnt[w][p] = H.cnt[w][p - 1]
          /\ IsHeartbeat(H.E[p], w) =>
                /\ H.acc[w][p] = H.acc[w][p - 1] + 1
                /\ H.E[p].hb = H.S[w][H.acc[w][p]]
          /\ ~IsHeartbeat(H.E[p], w) => H.acc[w][p] = H.acc[w][p - 1]
    /\ \A i \in 1..Len(H.S[w]) : H.S[w][i].block < H.ht
    /\ \A i, j \in 1..Len(H.S[w]) : i < j => H.S[w][i].block < H.S[w][j].block

(* The gatekeeper, once launched, has met a registration of w.             *)
KnownAt(H, w, p) ==
    H.la # 0 /\ \E q \in 1..p : H.blk[q] >= H.la /\ H.E[q] = Registered(w)

(* Nobody computes before the gatekeeper can know of it.                   *)
LaunchOK(H) ==
    /\ \A p \in 1..Now(H) : H.E[p] = Launched => H.la # 0 /\ H.blk[p] = H.la
    /\ H.la # 0 => \E p \in 1..Now(H) : H.E[p] = Launched
    /\ \A w \in Workers : \A p \in 0..Now(H) :
          ~KnownAt(H, w, p) => H.F[w][p].session = 0 /\ H.cnt[w][p] = 0

StopsOK(H) ==
    \A p \in 1..Now(H) : H.E[p].type = "Stopped" => H.F[H.E[p].worker][p - 1].session # 0

StreamOK(H) ==
    /\ ShapeOK(H) /\ LaunchOK(H) /\ StopsOK(H)
    /\ \A w \in Workers : MachineOK(H, w) /\ CountOK(H, w) /\ AnswersOK(H, w)

-----------------------------------------------------------------------------
(* How the stream grows.                                                   *)

(* K is H with one more event, e, and with a launch in la.  A challenge    *)
(* ends the block.                                                         *)
GrownShape(H, K, e, la) ==
    /\ K.la = la /\ K.ht = H.ht + (IF e.type = "HeartbeatChallenge" THEN 1 ELSE 0)
    /\ K.E = Append(H.E, e)
    /\ K.blk \in [1..(Now(H) + 1) -> 1..H.ht]
    /\ \A p \in 1..Now(H) : K.blk[p] = H.blk[p]
    /\ K.blk[Now(H) + 1] = H.ht
    /\ K.end \in [0..K.ht -> 0..(Now(H) + 1)]
    /\ \A h \in 0..(H.ht - 1) : K.end[h] = H.end[h]
    /\ K.end[H.ht] = Now(H) + 1 /\ K.end[K.ht] = Now(H) + 1

GrownWorker(H, K, e, w) ==
    LET n == Now(H)
        answers == Answers(w, H.F[w][n], e)
    IN  /\ K.F[w] \in [0..(n + 1) -> StateMachines]
        /\ K.cnt[w] \in [0..(n + 1) -> Nat] /\ K.acc[w] \in [0..(n + 1) -> Nat]
        /\ \A p \in 0..n : /\ K.F[w][p] = H.F[w][p]
                           /\ K.cnt[w][p] = H.cnt[w][p] /\ K.acc[w][p] = H.acc[w][p]
        /\ K.F[w][n + 1] = ProcessEvent(w, H.F[w][n], e)
        /\ answers => /\ K.cnt[w][n + 1] = H.cnt[w][n] + 1
                      /\ K.S[w] = Append(H.S[w], [session |-> H.F[w][n].session,
                                                  block |-> H.ht])
        /\ ~answers => K.cnt[w][n + 1] = H.cnt[w][n] /\ K.S[w] = H.S[w]
        /\ IsHeartbeat(e, w) => K.acc[w][n + 1] = H.acc[w][n] + 1
        /\ ~IsHeartbeat(e, w) => K.acc[w][n + 1] = H.acc[w][n]

Grown(H, K, e, la) ==
    GrownShape(H, K, e, la) /\ \A w \in Workers : GrownWorker(H, K, e, w)

(* e may come next, with a launch in la.                                   *)
MayFollow(H, e, la) ==
    /\ e \in Events
    /\ e.type = "Heartbeat" =>
          /\ H.acc[e.worker][Now(H)] + 1 <= Len(H.S[e.worker])
          /\ e.hb = H.S[e.worker][H.acc[e.worker][Now(H)] + 1]
    /\ e.type = "Stopped" => H.F[e.worker][Now(H)].session # 0
    /\ e.type = "Started" => KnownAt(H, e.worker, Now(H))
    /\ e = Launched => H.la = 0 /\ la = H.ht
    /\ e # Launched => la = H.la

(* The kinds of events and what they carry.                                *)
EventShape(e) ==
    /\ e.type \in {"Registered", "Launched", "Started", "Stopped", "EnterUnresponsive",
                   "ExitUnresponsive", "HeartbeatChallenge", "Heartbeat"}
    /\ e.type \notin {"Launched", "HeartbeatChallenge"} => e.worker \in Workers
    /\ e.type = "Started" => e.id \in Nat \ {0}
    /\ e.type = "HeartbeatChallenge" => e.hits \in SUBSET Workers
    /\ e.type = "Heartbeat" => e.hb \in Answer
    /\ e = Launched <=> e.type = "Launched"
    /\ \A v : /\ e = Registered(v) <=> e.type = "Registered" /\ e.worker = v
              /\ e = Stopped(v) <=> e.type = "Stopped" /\ e.worker = v
              /\ e = EnterUnresponsive(v) <=> e.type = "EnterUnresponsive" /\ e.worker = v
              /\ e = ExitUnresponsive(v) <=> e.type = "ExitUnresponsive" /\ e.worker = v

(* An event is of one of the kinds.                                        *)
LEMMA EventFacts ==
    ASSUME NEW e \in Events
    PROVE  EventShape(e)
<1> USE DEF Registered, Launched, Stopped, EnterUnresponsive, ExitUnresponsive
<1>1. ASSUME NEW v \in Workers, e = Registered(v) PROVE EventShape(e)
  BY <1>1 DEF EventShape
<1>2. CASE e = Launched
  BY <1>2 DEF EventShape
<1>3. ASSUME NEW v \in Workers, NEW id \in Nat \ {0}, e = Started(v, id) PROVE EventShape(e)
  BY <1>3 DEF EventShape, Started
<1>4. ASSUME NEW v \in Workers, e = Stopped(v) PROVE EventShape(e)
  BY <1>4 DEF EventShape
<1>5. ASSUME NEW v \in Workers, e = EnterUnresponsive(v) PROVE EventShape(e)
  BY <1>5 DEF EventShape
<1>6. ASSUME NEW v \in Workers, e = ExitUnresponsive(v) PROVE EventShape(e)
  BY <1>6 DEF EventShape
<1>7. ASSUME NEW hits \in SUBSET Workers, e = Challenge(hits) PROVE EventShape(e)
  BY <1>7 DEF EventShape, Challenge
<1>8. ASSUME NEW v \in Workers, NEW hb \in Answer, e = Heartbeat(v, hb) PROVE EventShape(e)
  BY <1>8 DEF EventShape, Heartbeat
<1> HIDE DEF Registered, Launched, Stopped, EnterUnresponsive, ExitUnresponsive
<1> QED
  BY <1>1, <1>2, <1>3, <1>4, <1>5, <1>6, <1>7, <1>8 DEF Events

(* The machine of w after an event.                                        *)
StepShape(w, sm, e, next) ==
    /\ next \in StateMachines
    /\ next.paused => next.session # 0
    /\ e.type = "Started" /\ e.worker = w => next.session = e.id /\ ~next.paused
    /\ e.type = "Stopped" /\ e.worker = w => next.session = 0 /\ ~next.paused
    /\ e.type = "EnterUnresponsive" /\ e.worker = w =>
          next.session = sm.session /\ next.paused = (sm.session # 0)
    /\ e.type = "ExitUnresponsive" /\ e.worker = w =>
          next.session = sm.session /\ ~next.paused
    /\ \/ e.type \notin {"Started", "Stopped", "EnterUnresponsive", "ExitUnresponsive"}
       \/ e.worker # w
       => next.session = sm.session /\ next.paused = sm.paused

(* The machine of w takes one of these steps.                              *)
LEMMA MachineStep ==
    ASSUME NEW w \in Workers, NEW sm \in StateMachines, NEW e \in Events,
           sm.paused => sm.session # 0
    PROVE  StepShape(w, sm, e, ProcessEvent(w, sm, e))
<1> DEFINE next == ProcessEvent(w, sm, e)
<1>1. sm.registered \in BOOLEAN /\ sm.session \in Nat /\ sm.paused \in BOOLEAN
  BY DEF StateMachines
<1>2. EventShape(e)
  BY EventFacts
<1>3. CASE e.type = "Registered" /\ e.worker = w
  <2>1. next = [sm EXCEPT !.registered = TRUE]
    BY <1>2, <1>3 DEF EventShape, ProcessEvent
  <2> QED
    BY <2>1, <1>1, <1>3 DEF StepShape, StateMachines
<1>4. CASE e.type = "Started" /\ e.worker = w
  <2>1. next = [sm EXCEPT !.session = e.id, !.paused = FALSE]
    BY <1>2, <1>4 DEF EventShape, ProcessEvent
  <2>2. e.id \in Nat
    BY <1>2, <1>4 DEF EventShape
  <2> QED
    BY <2>1, <2>2, <1>1, <1>4 DEF StepShape, StateMachines
<1>5. CASE e.type = "Stopped" /\ e.worker = w
  <2>1. next = [sm EXCEPT !.session = 0, !.paused = FALSE]
    BY <1>2, <1>5 DEF EventShape, ProcessEvent
  <2> HIDE DEF next
  <2>2. next \in StateMachines
    BY <2>1 DEF StateMachines
  <2>3. next.session = 0 /\ next.paused = FALSE
    BY <2>1 DEF StateMachines
  <2> QED
    BY <2>2, <2>3, <1>5 DEF StepShape, next
<1>6. CASE e.type = "EnterUnresponsive" /\ e.worker = w
  <2>1. next = [sm EXCEPT !.paused = (sm.session # 0)]
    BY <1>2, <1>6 DEF EventShape, ProcessEvent
  <2> QED
    BY <2>1, <1>1, <1>6 DEF StepShape, StateMachines
<1>7. CASE e.type = "ExitUnresponsive" /\ e.worker = w
  <2>1. next = [sm EXCEPT !.paused = FALSE]
    BY <1>2, <1>7 DEF EventShape, ProcessEvent
  <2> QED
    BY <2>1, <1>1, <1>7 DEF StepShape, StateMachines
<1>8. CASE \/ e.type \notin {"Registered", "Started", "Stopped", "EnterUnresponsive", "ExitUnresponsive"}
           \/ e.worker # w
  <2>1. next = sm
    BY <1>2, <1>8 DEF EventShape, ProcessEvent
  <2> QED
    BY <2>1, <1>1, <1>8 DEF StepShape
<1> QED
  BY <1>3, <1>4, <1>5, <1>6, <1>7, <1>8

(* An event grows the stream.                                              *)
LEMMA GrowthExists ==
    ASSUME NEW H, StreamOK(H), NEW e, NEW la, MayFollow(H, e, la)
    PROVE  \E K : Grown(H, K, e, la)
<1> DEFINE n == Now(H)
           ans(w) == Answers(w, H.F[w][n], e)
           ht == H.ht + (IF e.type = "HeartbeatChallenge" THEN 1 ELSE 0)
           blk == [p \in 1..(n + 1) |-> IF p = n + 1 THEN H.ht ELSE H.blk[p]]
           end == [h \in 0..ht |-> IF h < H.ht THEN H.end[h] ELSE n + 1]
           F == [w \in Workers |-> [p \in 0..(n + 1) |->
                   IF p = n + 1 THEN ProcessEvent(w, H.F[w][n], e) ELSE H.F[w][p]]]
           cnt == [w \in Workers |-> [p \in 0..(n + 1) |->
                   IF p = n + 1 THEN H.cnt[w][n] + (IF ans(w) THEN 1 ELSE 0) ELSE H.cnt[w][p]]]
           acc == [w \in Workers |-> [p \in 0..(n + 1) |->
                   IF p = n + 1 THEN H.acc[w][n] + (IF IsHeartbeat(e, w) THEN 1 ELSE 0)
                   ELSE H.acc[w][p]]]
           S == [w \in Workers |->
                   IF ans(w) THEN Append(H.S[w], [session |-> H.F[w][n].session, block |-> H.ht])
                   ELSE H.S[w]]
           K == [E |-> Append(H.E, e), blk |-> blk, end |-> end, F |-> F, cnt |-> cnt,
                 acc |-> acc, S |-> S, ht |-> ht, la |-> la]
<1>1. n \in Nat /\ H.ht \in Nat \ {0} /\ ht \in Nat /\ H.ht <= ht /\ H.ht \in 0..ht
      /\ n + 1 \in Nat /\ n + 1 \in 0..(n + 1) /\ n + 1 \in 1..(n + 1) /\ n \in 0..n
  BY DEF StreamOK, ShapeOK, Now
<1>2. GrownShape(H, K, e, la)
  <2>1. /\ K.E = Append(H.E, e) /\ K.blk = blk /\ K.end = end
        /\ K.ht = ht /\ K.la = la
    OBVIOUS
  <2> HIDE DEF K
  <2>2. H.blk \in [1..n -> 1..H.ht] /\ H.end \in [0..H.ht -> 0..n]
    BY DEF StreamOK, ShapeOK
  <2>3. /\ blk \in [1..(n + 1) -> 1..H.ht] /\ \A p \in 1..n : blk[p] = H.blk[p]
        /\ blk[n + 1] = H.ht
    <3> HIDE DEF n, ht
    <3> QED
      BY <1>1, <2>2
  <2>4. /\ end \in [0..ht -> 0..(n + 1)] /\ \A h \in 0..(H.ht - 1) : end[h] = H.end[h]
        /\ end[H.ht] = n + 1 /\ end[ht] = n + 1
    <3> HIDE DEF n, ht
    <3>1. \A h \in 0..ht : (IF h < H.ht THEN H.end[h] ELSE n + 1) \in 0..(n + 1)
      BY <1>1, <2>2
    <3>2. end \in [0..ht -> 0..(n + 1)]
      BY <3>1
    <3>3. \A h \in 0..(H.ht - 1) : h \in 0..ht /\ h < H.ht
      BY <1>1
    <3>4. ht \in 0..ht /\ ~(ht < H.ht) /\ ~(H.ht < H.ht)
      BY <1>1
    <3> QED
      BY <1>1, <3>2, <3>3, <3>4
  <2> HIDE DEF blk, end
  <2> QED
    BY <2>1, <2>3, <2>4 DEF GrownShape
<1>3. ASSUME NEW w \in Workers PROVE GrownWorker(H, K, e, w)
  <2> DEFINE f == [p \in 0..(n + 1) |->
                      IF p = n + 1 THEN ProcessEvent(w, H.F[w][n], e) ELSE H.F[w][p]]
             c == [p \in 0..(n + 1) |->
                      IF p = n + 1 THEN H.cnt[w][n] + (IF ans(w) THEN 1 ELSE 0) ELSE H.cnt[w][p]]
             a == [p \in 0..(n + 1) |->
                      IF p = n + 1 THEN H.acc[w][n] + (IF IsHeartbeat(e, w) THEN 1 ELSE 0)
                      ELSE H.acc[w][p]]
  <2>1. /\ K.F[w] = f /\ K.cnt[w] = c /\ K.acc[w] = a
        /\ ans(w) => K.S[w] = Append(H.S[w], [session |-> H.F[w][n].session, block |-> H.ht])
        /\ ~ans(w) => K.S[w] = H.S[w]
    OBVIOUS
  <2>2. /\ H.F[w] \in [0..n -> StateMachines] /\ H.cnt[w] \in [0..n -> Nat]
        /\ H.acc[w] \in [0..n -> Nat]
    BY DEF StreamOK, MachineOK, CountOK
  <2>3. H.F[w][n] \in StateMachines /\ (H.F[w][n].paused => H.F[w][n].session # 0)
    BY <1>1, <2>2 DEF StreamOK, MachineOK
  <2>4. ProcessEvent(w, H.F[w][n], e) \in StateMachines
    BY <2>3, MachineStep DEF MayFollow, StepShape
  <2> HIDE DEF K
  <2>5. /\ f \in [0..(n + 1) -> StateMachines] /\ \A p \in 0..n : f[p] = H.F[w][p]
        /\ f[n + 1] = ProcessEvent(w, H.F[w][n], e)
    <3> HIDE DEF n
    <3> QED
      BY SMTT(30), <1>1, <2>2, <2>4
  <2>6. /\ c \in [0..(n + 1) -> Nat] /\ \A p \in 0..n : c[p] = H.cnt[w][p]
        /\ ans(w) => c[n + 1] = H.cnt[w][n] + 1
        /\ ~ans(w) => c[n + 1] = H.cnt[w][n]
    <3> HIDE DEF n, ans
    <3> QED
      BY SMTT(30), <1>1, <2>2
  <2>7. /\ a \in [0..(n + 1) -> Nat] /\ \A p \in 0..n : a[p] = H.acc[w][p]
        /\ IsHeartbeat(e, w) => a[n + 1] = H.acc[w][n] + 1
        /\ ~IsHeartbeat(e, w) => a[n + 1] = H.acc[w][n]
    <3> HIDE DEF n
    <3> QED
      BY SMTT(30), <1>1, <2>2
  <2> HIDE DEF f, c, a
  <2> QED
    BY <2>1, <2>5, <2>6, <2>7 DEF GrownWorker
<1> HIDE DEF K
<1> QED
  BY <1>2, <1>3 DEF Grown

(* The stream stays well formed as it grows.                               *)
LEMMA GrownShapeOK ==
    ASSUME NEW H, StreamOK(H), NEW e, NEW la, MayFollow(H, e, la),
           NEW K, Grown(H, K, e, la)
    PROVE  /\ ShapeOK(K) /\ Now(K) = Now(H) + 1
           /\ \A p \in 1..Now(H) : K.E[p] = H.E[p]
           /\ K.E[Now(H) + 1] = e
<1>1. Now(H) \in Nat /\ H.ht \in Nat \ {0} /\ H.E \in Seq(Events) /\ H.la \in 0..H.ht
  BY DEF StreamOK, ShapeOK, Now
<1>2. /\ K.E \in Seq(Events) /\ Now(K) = Now(H) + 1
      /\ \A p \in 1..Now(H) : K.E[p] = H.E[p]
      /\ K.E[Now(H) + 1] = e
  BY <1>1, AppendProperties DEF Grown, GrownShape, MayFollow, Now
<1>3. K.ht \in Nat \ {0} /\ H.ht <= K.ht /\ K.ht <= H.ht + 1 /\ K.la \in 0..K.ht
  BY SMTT(30), <1>1 DEF Grown, GrownShape, MayFollow
<1>4. 0 \in 0..(H.ht - 1)
  BY <1>1
<1>5. K.end[0] = 0 /\ K.end[K.ht] = Now(K)
  BY <1>2, <1>4 DEF Grown, GrownShape, StreamOK, ShapeOK
<1>6. K.blk \in [1..Now(K) -> 1..K.ht] /\ K.end \in [0..K.ht -> 0..Now(K)]
  <2>1. 1..H.ht \subseteq 1..K.ht
    BY <1>1, <1>3
  <2> QED
    BY <1>2, <2>1 DEF Grown, GrownShape
<1>7. ASSUME NEW p \in 1..Now(K), NEW h \in 0..K.ht
      PROVE  p <= K.end[h] <=> K.blk[p] <= h
  <2>0. /\ \A q \in 1..Now(H) : K.blk[q] = H.blk[q]
        /\ K.blk[Now(H) + 1] = H.ht
        /\ \A k \in 0..(H.ht - 1) : K.end[k] = H.end[k]
        /\ K.end[H.ht] = Now(H) + 1
    BY DEF Grown, GrownShape
  <2>1. CASE h < H.ht
    <3>0. h \in 0..(H.ht - 1) /\ h \in 0..H.ht
      BY <1>1, <2>1
    <3>1. K.end[h] = H.end[h] /\ H.end[h] \in 0..Now(H)
      BY <2>0, <3>0 DEF StreamOK, ShapeOK
    <3>2. CASE p \in 1..Now(H)
      BY <2>0, <3>0, <3>1, <3>2 DEF StreamOK, ShapeOK
    <3>3. CASE p = Now(H) + 1
      BY <2>0, <3>1, <3>3, <1>1, <2>1
    <3> QED
      BY <3>2, <3>3, <1>1, <1>2
  <2>2. CASE h >= H.ht
    <3>1. K.end[h] = Now(K)
      <4>1. h = H.ht \/ h = K.ht
        BY <1>1, <1>3, <2>2
      <4> QED
        BY <4>1, <1>2, <1>5, <2>0
    <3>2. K.blk[p] \in 1..H.ht
      BY <1>2 DEF Grown, GrownShape
    <3> QED
      BY <1>1, <1>2, <2>2, <3>1, <3>2
  <2> QED
    BY <2>1, <2>2, <1>1, <1>3
<1> QED
  BY <1>2, <1>3, <1>5, <1>6, <1>7 DEF ShapeOK

(* The machines run on.                                                    *)
LEMMA GrownMachineOK ==
    ASSUME NEW H, StreamOK(H), NEW e, NEW la, MayFollow(H, e, la),
           NEW K, Grown(H, K, e, la), NEW w \in Workers
    PROVE  MachineOK(K, w)
<1> DEFINE n == Now(H)
<1>1. n \in Nat /\ Now(K) = n + 1 /\ K.E[n + 1] = e /\ \A p \in 1..n : K.E[p] = H.E[p]
  BY GrownShapeOK DEF StreamOK, ShapeOK, Now
<1>2. /\ K.F[w] \in [0..(n + 1) -> StateMachines] /\ \A p \in 0..n : K.F[w][p] = H.F[w][p]
      /\ K.F[w][n + 1] = ProcessEvent(w, H.F[w][n], e)
  BY DEF Grown, GrownWorker
<1>3. /\ H.F[w] \in [0..n -> StateMachines] /\ H.F[w][0] = Unregistered
      /\ \A p \in 1..n : H.F[w][p] = ProcessEvent(w, H.F[w][p - 1], H.E[p])
      /\ \A p \in 0..n : H.F[w][p].paused => H.F[w][p].session # 0
  BY DEF StreamOK, MachineOK
<1>4. K.F[w][n + 1].paused => K.F[w][n + 1].session # 0
  <2>1. H.F[w][n] \in StateMachines /\ (H.F[w][n].paused => H.F[w][n].session # 0)
    BY <1>1, <1>3
  <2> QED
    BY <2>1, <1>2, MachineStep DEF MayFollow, StepShape
<1> HIDE DEF n
<1>5. \A p \in 0..(n + 1) : K.F[w][p].paused => K.F[w][p].session # 0
  <2> SUFFICES ASSUME NEW p \in 0..(n + 1), p # n + 1
               PROVE  K.F[w][p].paused => K.F[w][p].session # 0
    BY <1>4
  <2>1. p \in 0..n
    BY <1>1
  <2> QED
    BY <2>1, <1>2, <1>3
<1>6. \A p \in 1..(n + 1) : K.F[w][p] = ProcessEvent(w, K.F[w][p - 1], K.E[p])
  <2> SUFFICES ASSUME NEW p \in 1..(n + 1)
               PROVE  K.F[w][p] = ProcessEvent(w, K.F[w][p - 1], K.E[p])
    OBVIOUS
  <2>1. CASE p = n + 1
    <3>1. p - 1 = n /\ n \in 0..n
      BY <2>1, <1>1
    <3> QED
      BY <3>1, <2>1, <1>1, <1>2
  <2>2. CASE p # n + 1
    <3>1. p \in 1..n /\ p \in 0..n /\ p - 1 \in 0..n
      BY <2>2, <1>1
    <3> QED
      BY <3>1, <1>1, <1>2, <1>3
  <2> QED
    BY <2>1, <2>2
<1>7. K.F[w][0] = Unregistered
  <2>1. 0 \in 0..n
    BY <1>1
  <2> QED
    BY <2>1, <1>2, <1>3
<1> QED
  BY <1>1, <1>2, <1>5, <1>6, <1>7 DEF MachineOK

(* The counts of answers stay ordered.                                     *)
LEMMA GrownCountOK ==
    ASSUME NEW H, StreamOK(H), NEW e, NEW la, MayFollow(H, e, la),
           NEW K, Grown(H, K, e, la), NEW w \in Workers
    PROVE  CountOK(K, w)
<1> DEFINE n == Now(H)
           answer == [session |-> H.F[w][n].session, block |-> H.ht]
<1>1. n \in Nat /\ Now(K) = n + 1 /\ n \in 0..n /\ 0 \in 0..n
  BY GrownShapeOK DEF StreamOK, ShapeOK, Now
<1>2. /\ K.cnt[w] \in [0..(n + 1) -> Nat] /\ K.acc[w] \in [0..(n + 1) -> Nat]
      /\ \A p \in 0..n : K.cnt[w][p] = H.cnt[w][p] /\ K.acc[w][p] = H.acc[w][p]
      /\ Answers(w, H.F[w][n], e) =>
            K.cnt[w][n + 1] = H.cnt[w][n] + 1 /\ K.S[w] = Append(H.S[w], answer)
      /\ ~Answers(w, H.F[w][n], e) => K.cnt[w][n + 1] = H.cnt[w][n] /\ K.S[w] = H.S[w]
      /\ IsHeartbeat(e, w) => K.acc[w][n + 1] = H.acc[w][n] + 1
      /\ ~IsHeartbeat(e, w) => K.acc[w][n + 1] = H.acc[w][n]
  BY DEF Grown, GrownWorker
<1>3. /\ H.S[w] \in Seq(Answer)
      /\ H.cnt[w] \in [0..n -> Nat] /\ H.acc[w] \in [0..n -> Nat]
      /\ H.cnt[w][0] = 0 /\ H.acc[w][0] = 0
      /\ H.cnt[w][n] = Len(H.S[w])
      /\ \A p, q \in 0..n : p <= q => H.cnt[w][p] <= H.cnt[w][q]
      /\ \A p, q \in 0..n : p <= q => H.acc[w][p] <= H.acc[w][q]
      /\ \A p \in 0..n : H.acc[w][p] <= H.cnt[w][p]
  BY DEF StreamOK, CountOK
<1>4. Answers(w, H.F[w][n], e) => answer \in Answer
  <2>1. H.F[w][n].session \in Nat
    BY <1>1 DEF StreamOK, MachineOK, StateMachines
  <2>2. H.ht \in Nat \ {0}
    BY DEF StreamOK, ShapeOK
  <2> QED
    BY <2>1, <2>2 DEF Answers, Answer
<1>5. IsHeartbeat(e, w) => H.acc[w][n] + 1 <= Len(H.S[w])
  BY DEF MayFollow, IsHeartbeat
<1> HIDE DEF n, answer
<1>6. K.S[w] \in Seq(Answer) /\ K.cnt[w][n + 1] = Len(K.S[w])
  <2>1. CASE Answers(w, H.F[w][n], e)
    <3>1. answer \in Answer /\ K.S[w] = Append(H.S[w], answer)
      BY <1>2, <1>4, <2>1
    <3>2. K.S[w] \in Seq(Answer) /\ Len(K.S[w]) = Len(H.S[w]) + 1
      BY <1>3, <3>1, AppendProperties
    <3> QED
      BY <1>2, <1>3, <2>1, <3>2
  <2>2. CASE ~Answers(w, H.F[w][n], e)
    BY <1>2, <1>3, <2>2
  <2> QED
    BY <2>1, <2>2
<1>7. K.cnt[w][0] = 0 /\ K.acc[w][0] = 0
  BY <1>1, <1>2, <1>3
<1>8. /\ H.cnt[w][n] \in Nat /\ H.acc[w][n] \in Nat
      /\ K.cnt[w][n + 1] \in Nat /\ K.acc[w][n + 1] \in Nat
      /\ H.cnt[w][n] <= K.cnt[w][n + 1] /\ H.acc[w][n] <= K.acc[w][n + 1]
      /\ K.acc[w][n + 1] <= K.cnt[w][n + 1]
  <2>1. /\ H.cnt[w][n] \in Nat /\ H.acc[w][n] \in Nat /\ n + 1 \in 0..(n + 1)
        /\ H.acc[w][n] <= H.cnt[w][n]
    BY <1>1, <1>3
  <2>2. K.cnt[w][n + 1] \in Nat /\ K.acc[w][n + 1] \in Nat
    BY <2>1, <1>2
  <2>3. H.cnt[w][n] <= K.cnt[w][n + 1]
    BY <2>1, <1>2
  <2>4. H.acc[w][n] <= K.acc[w][n + 1]
    BY <2>1, <1>2
  <2>5. IsHeartbeat(e, w) => H.acc[w][n] + 1 <= H.cnt[w][n]
    BY <1>3, <1>5
  <2>6. K.acc[w][n + 1] <= K.cnt[w][n + 1]
    <3>1. CASE IsHeartbeat(e, w)
      <4>1. K.acc[w][n + 1] = H.acc[w][n] + 1
        BY <3>1, <1>2
      <4> QED
        BY <4>1, <3>1, <2>1, <2>2, <2>3, <2>5
    <3>2. CASE ~IsHeartbeat(e, w)
      <4>1. K.acc[w][n + 1] = H.acc[w][n]
        BY <3>2, <1>2
      <4> QED
        BY <4>1, <2>1, <2>2, <2>3
    <3> QED
      BY <3>1, <3>2
  <2> QED
    BY <2>1, <2>2, <2>3, <2>4, <2>6
<1>9. ASSUME NEW p \in 0..(n + 1), NEW q \in 0..(n + 1), p <= q
      PROVE  K.cnt[w][p] <= K.cnt[w][q] /\ K.acc[w][p] <= K.acc[w][q]
  <2>1. CASE q \in 0..n
    <3>1. p \in 0..n
      BY <1>1, <1>9, <2>1
    <3> QED
      BY <1>2, <1>3, <1>9, <2>1, <3>1
  <2>2. CASE q = n + 1 /\ p \in 0..n
    <3>1. p <= n /\ H.cnt[w][p] \in Nat /\ H.acc[w][p] \in Nat
      BY <1>1, <1>3, <2>2
    <3>2. H.cnt[w][p] <= H.cnt[w][n] /\ H.acc[w][p] <= H.acc[w][n]
      BY <1>1, <1>3, <2>2, <3>1
    <3>3. K.cnt[w][p] = H.cnt[w][p] /\ K.acc[w][p] = H.acc[w][p]
      BY <1>2, <2>2
    <3> QED
      BY <1>8, <2>2, <3>1, <3>2, <3>3
  <2>3. CASE p = n + 1 /\ q = n + 1
    BY <1>8, <2>3
  <2> QED
    BY <2>1, <2>2, <2>3, <1>1, <1>9
<1>10. \A p \in 0..(n + 1) : K.acc[w][p] <= K.cnt[w][p]
  <2> SUFFICES ASSUME NEW p \in 0..(n + 1), p # n + 1 PROVE K.acc[w][p] <= K.cnt[w][p]
    BY <1>8
  <2>1. p \in 0..n
    BY <1>1
  <2> QED
    BY <2>1, <1>2, <1>3
<1> QED
  BY <1>1, <1>2, <1>6, <1>7, <1>9, <1>10 DEF CountOK

(* Answers are still given once each, and accepted in order.               *)
LEMMA GrownAnswersOK ==
    ASSUME NEW H, StreamOK(H), NEW e, NEW la, MayFollow(H, e, la),
           NEW K, Grown(H, K, e, la), NEW w \in Workers
    PROVE  AnswersOK(K, w)
<1> DEFINE n == Now(H)
           answer == [session |-> H.F[w][n].session, block |-> H.ht]
           ans == Answers(w, H.F[w][n], e)
<1>1. n \in Nat /\ Now(K) = n + 1 /\ n \in 0..n /\ 0 \in 0..n
      /\ K.E[n + 1] = e /\ \A p \in 1..n : K.E[p] = H.E[p]
  BY GrownShapeOK DEF StreamOK, ShapeOK, Now
<1>2. /\ \A p \in 0..n : /\ K.cnt[w][p] = H.cnt[w][p] /\ K.acc[w][p] = H.acc[w][p]
                         /\ K.F[w][p] = H.F[w][p]
      /\ ans => K.cnt[w][n + 1] = H.cnt[w][n] + 1 /\ K.S[w] = Append(H.S[w], answer)
      /\ ~ans => K.cnt[w][n + 1] = H.cnt[w][n] /\ K.S[w] = H.S[w]
      /\ IsHeartbeat(e, w) => K.acc[w][n + 1] = H.acc[w][n] + 1
      /\ ~IsHeartbeat(e, w) => K.acc[w][n + 1] = H.acc[w][n]
  BY DEF Grown, GrownWorker
<1>3. /\ \A p \in 1..n : K.blk[p] = H.blk[p]
      /\ K.blk[n + 1] = H.ht /\ H.ht \in Nat
      /\ K.ht \in Nat /\ H.ht <= K.ht /\ (ans => K.ht = H.ht + 1)
  BY SMTT(30) DEF Grown, GrownShape, StreamOK, ShapeOK, Answers
<1>4. /\ H.S[w] \in Seq(Answer)
      /\ H.cnt[w] \in [0..n -> Nat] /\ H.acc[w] \in [0..n -> Nat]
      /\ H.cnt[w][n] = Len(H.S[w])
      /\ \A p, q \in 0..n : p <= q => H.cnt[w][p] <= H.cnt[w][q]
      /\ \A p \in 0..n : H.acc[w][p] <= H.cnt[w][p]
  BY DEF StreamOK, CountOK
<1>5. IsHeartbeat(e, w) => H.acc[w][n] + 1 <= Len(H.S[w]) /\ e.hb = H.S[w][H.acc[w][n] + 1]
  BY DEF MayFollow, IsHeartbeat
<1>6. AnswersOK(H, w)
  BY DEF StreamOK
<1>7. IsHeartbeat(e, w) => ~ans
  BY DEF IsHeartbeat, Answers
<1>8. /\ Len(K.S[w]) >= Len(H.S[w]) /\ \A i \in 1..Len(H.S[w]) : K.S[w][i] = H.S[w][i]
      /\ ans => Len(K.S[w]) = Len(H.S[w]) + 1 /\ K.S[w][Len(H.S[w]) + 1] = answer
      /\ ~ans => K.S[w] = H.S[w]
      /\ Len(H.S[w]) \in Nat /\ Len(K.S[w]) \in Nat
  <2> HIDE DEF n, answer, ans
  <2> QED
    BY <1>2, <1>4
<1>9. answer.block = H.ht
  OBVIOUS
<1>10. AnswersAt(K, w, n + 1) <=> ans
  <2>1. (n + 1) - 1 = n
    BY <1>1
  <2>2. K.F[w][n] = H.F[w][n]
    BY <1>1, <1>2
  <2> HIDE DEF n
  <2> QED
    BY <1>1, <2>1, <2>2 DEF AnswersAt, ans
<1> HIDE DEF n, answer, ans
<1>11. ASSUME NEW p \in 1..n
       PROVE  /\ AnswersAt(K, w, p) =>
                /\ K.cnt[w][p] = K.cnt[w][p - 1] + 1
                /\ K.S[w][K.cnt[w][p]] = [session |-> K.F[w][p - 1].session, block |-> K.blk[p]]
              /\ ~AnswersAt(K, w, p) => K.cnt[w][p] = K.cnt[w][p - 1]
              /\ IsHeartbeat(K.E[p], w) =>
                    /\ K.acc[w][p] = K.acc[w][p - 1] + 1
                    /\ K.E[p].hb = K.S[w][K.acc[w][p]]
              /\ ~IsHeartbeat(K.E[p], w) => K.acc[w][p] = K.acc[w][p - 1]
  <2>1. p \in 0..n /\ p - 1 \in 0..n /\ p <= n
    BY <1>1
  <2>2. AnswersAt(K, w, p) <=> AnswersAt(H, w, p)
    BY <2>1, <1>1, <1>2 DEF AnswersAt
  <2>3. /\ H.cnt[w][p] \in Nat /\ H.cnt[w][p] <= Len(H.S[w])
        /\ H.acc[w][p] \in Nat /\ H.acc[w][p] <= Len(H.S[w])
        /\ H.cnt[w][p - 1] \in Nat /\ H.acc[w][p - 1] \in Nat
    <3>1. /\ H.cnt[w][p] \in Nat /\ H.acc[w][p] \in Nat
          /\ H.cnt[w][p - 1] \in Nat /\ H.acc[w][p - 1] \in Nat
      BY <2>1, <1>4
    <3>2. H.cnt[w][p] <= Len(H.S[w]) /\ H.acc[w][p] <= H.cnt[w][p]
      BY <2>1, <1>1, <1>4
    <3> QED
      BY <3>1, <3>2, <1>8
  <2>0. /\ AnswersAt(H, w, p) =>
                /\ H.cnt[w][p] = H.cnt[w][p - 1] + 1
                /\ H.S[w][H.cnt[w][p]] = [session |-> H.F[w][p - 1].session, block |-> H.blk[p]]
        /\ ~AnswersAt(H, w, p) => H.cnt[w][p] = H.cnt[w][p - 1]
        /\ IsHeartbeat(H.E[p], w) =>
                /\ H.acc[w][p] = H.acc[w][p - 1] + 1
                /\ H.E[p].hb = H.S[w][H.acc[w][p]]
        /\ ~IsHeartbeat(H.E[p], w) => H.acc[w][p] = H.acc[w][p - 1]
    BY <1>6 DEF AnswersOK, n
  <2>4. AnswersAt(H, w, p) => H.cnt[w][p] \in 1..Len(H.S[w])
    BY <2>3, <2>0, <1>8
  <2>5. IsHeartbeat(H.E[p], w) => H.acc[w][p] \in 1..Len(H.S[w])
    BY <2>3, <2>0, <1>8
  <2>6. K.blk[p] = H.blk[p] /\ K.E[p] = H.E[p] /\ K.F[w][p - 1] = H.F[w][p - 1]
        /\ K.cnt[w][p] = H.cnt[w][p] /\ K.cnt[w][p - 1] = H.cnt[w][p - 1]
        /\ K.acc[w][p] = H.acc[w][p] /\ K.acc[w][p - 1] = H.acc[w][p - 1]
    BY <2>1, <1>1, <1>2, <1>3
  <2> QED
    BY <2>0, <2>2, <2>4, <2>5, <2>6, <1>8
<1>12. /\ AnswersAt(K, w, n + 1) =>
                /\ K.cnt[w][n + 1] = K.cnt[w][n] + 1
                /\ K.S[w][K.cnt[w][n + 1]] = [session |-> K.F[w][n].session, block |-> K.blk[n + 1]]
       /\ ~AnswersAt(K, w, n + 1) => K.cnt[w][n + 1] = K.cnt[w][n]
       /\ IsHeartbeat(K.E[n + 1], w) =>
             /\ K.acc[w][n + 1] = K.acc[w][n] + 1
             /\ K.E[n + 1].hb = K.S[w][K.acc[w][n + 1]]
       /\ ~IsHeartbeat(K.E[n + 1], w) => K.acc[w][n + 1] = K.acc[w][n]
  <2>1. K.F[w][n] = H.F[w][n] /\ K.cnt[w][n] = H.cnt[w][n] /\ K.acc[w][n] = H.acc[w][n]
    BY <1>1, <1>2
  <2>2. answer = [session |-> K.F[w][n].session, block |-> K.blk[n + 1]]
    BY <2>1, <1>3 DEF answer
  <2> QED
    BY <2>1, <2>2, <1>1, <1>2, <1>4, <1>5, <1>7, <1>8, <1>10
<1>13. \A i \in 1..Len(K.S[w]) : K.S[w][i].block < K.ht
  <2> SUFFICES ASSUME NEW i \in 1..Len(K.S[w]) PROVE K.S[w][i].block < K.ht
    OBVIOUS
  <2>1. CASE i \in 1..Len(H.S[w])
    <3>0. H.S[w][i] \in Answer
      BY <2>1, <1>4, ElementOfSeq
    <3>1. H.S[w][i].block < H.ht /\ H.S[w][i].block \in Nat
      BY <2>1, <3>0, <1>6 DEF AnswersOK, Answer
    <3>2. K.S[w][i] = H.S[w][i]
      BY <2>1, <1>8
    <3> QED
      BY <3>1, <3>2, <1>3
  <2>2. CASE i \notin 1..Len(H.S[w])
    <3>1. ans /\ i = Len(H.S[w]) + 1
      BY <2>2, <1>8
    <3> QED
      BY <3>1, <1>3, <1>8, <1>9
  <2> QED
    BY <2>1, <2>2
<1>14. \A i, j \in 1..Len(K.S[w]) : i < j => K.S[w][i].block < K.S[w][j].block
  <2> SUFFICES ASSUME NEW i \in 1..Len(K.S[w]), NEW j \in 1..Len(K.S[w]), i < j
               PROVE  K.S[w][i].block < K.S[w][j].block
    OBVIOUS
  <2>1. CASE j \in 1..Len(H.S[w])
    <3>1. i \in 1..Len(H.S[w])
      BY <2>1
    <3> QED
      BY <2>1, <3>1, <1>6, <1>8 DEF AnswersOK
  <2>2. CASE j \notin 1..Len(H.S[w])
    <3>1. ans /\ j = Len(H.S[w]) + 1 /\ i \in 1..Len(H.S[w])
      BY <2>2, <1>8
    <3>2. H.S[w][i].block < H.ht
      BY <3>1, <1>6 DEF AnswersOK
    <3> QED
      BY <3>1, <3>2, <1>8, <1>9
  <2> QED
    BY <2>1, <2>2
<1>15. \A p \in 1..(n + 1) : p \in 1..n \/ (p = n + 1 /\ p - 1 = n)
  BY <1>1
<1> QED
  BY <1>1, <1>11, <1>12, <1>13, <1>14, <1>15 DEF AnswersOK

(* There is still nobody who computes unknown to the gatekeeper.           *)
LEMMA GrownLaunchOK ==
    ASSUME NEW H, StreamOK(H), NEW e, NEW la, MayFollow(H, e, la),
           NEW K, Grown(H, K, e, la)
    PROVE  LaunchOK(K) /\ StopsOK(K)
<1> DEFINE n == Now(H)
<1>1. n \in Nat /\ Now(K) = n + 1 /\ n \in 0..n /\ 0 \in 0..n /\ e \in Events
      /\ K.E[n + 1] = e /\ \A p \in 1..n : K.E[p] = H.E[p]
  <2>1. e \in Events
    BY DEF MayFollow
  <2> QED
    BY <2>1, GrownShapeOK DEF StreamOK, ShapeOK, Now
<1>2. /\ \A p \in 1..n : K.blk[p] = H.blk[p]
      /\ K.blk[n + 1] = H.ht /\ H.ht \in Nat \ {0} /\ K.la = la
  BY DEF Grown, GrownShape, StreamOK, ShapeOK
<1>3. /\ e = Launched => H.la = 0 /\ la = H.ht
      /\ e # Launched => la = H.la
  BY DEF MayFollow
<1>4. LaunchOK(H) /\ StopsOK(H)
  BY DEF StreamOK
<1>5. /\ \A p \in 1..n : H.E[p] = Launched => H.la # 0 /\ H.blk[p] = H.la
      /\ H.la # 0 => \E p \in 1..n : H.E[p] = Launched
  BY <1>4 DEF LaunchOK
<1>6. \A w \in Workers : \A p \in 0..n : KnownAt(H, w, p) => KnownAt(K, w, p)
  <2> SUFFICES ASSUME NEW w \in Workers, NEW p \in 0..n, KnownAt(H, w, p)
               PROVE  KnownAt(K, w, p)
    OBVIOUS
  <2>1. H.la # 0 /\ K.la = H.la
    BY <1>2, <1>3 DEF KnownAt
  <2>2. PICK q \in 1..p : H.blk[q] >= H.la /\ H.E[q] = Registered(w)
    BY DEF KnownAt
  <2>3. q \in 1..n
    BY <1>1
  <2> QED
    BY <2>1, <2>2, <2>3, <1>1, <1>2 DEF KnownAt
<1>7. \A w \in Workers : KnownAt(H, w, n) => KnownAt(K, w, n + 1)
  <2> SUFFICES ASSUME NEW w \in Workers, KnownAt(H, w, n) PROVE KnownAt(K, w, n + 1)
    OBVIOUS
  <2>1. KnownAt(K, w, n)
    BY <1>1, <1>6
  <2>2. 1..n \subseteq 1..(n + 1)
    BY <1>1
  <2> QED
    BY <2>1, <2>2 DEF KnownAt
<1> HIDE DEF n
<1>8. \A p \in 1..(n + 1) : K.E[p] = Launched => K.la # 0 /\ K.blk[p] = K.la
  <2> SUFFICES ASSUME NEW p \in 1..(n + 1), K.E[p] = Launched
               PROVE  K.la # 0 /\ K.blk[p] = K.la
    OBVIOUS
  <2>1. CASE p \in 1..n
    <3>1. H.la # 0 /\ H.blk[p] = H.la
      BY <2>1, <1>1, <1>5
    <3> QED
      BY <2>1, <3>1, <1>2, <1>3
  <2>2. CASE p = n + 1
    BY <2>2, <1>1, <1>2, <1>3
  <2> QED
    BY <2>1, <2>2, <1>1
<1>9. K.la # 0 => \E p \in 1..(n + 1) : K.E[p] = Launched
  <2>1. CASE e = Launched
    <3>1. n + 1 \in 1..(n + 1)
      BY <1>1
    <3> QED
      BY <2>1, <3>1, <1>1
  <2>2. CASE e # Launched
    <3> SUFFICES ASSUME K.la # 0 PROVE \E p \in 1..(n + 1) : K.E[p] = Launched
      OBVIOUS
    <3>1. PICK p \in 1..n : H.E[p] = Launched
      BY <2>2, <1>2, <1>3, <1>5
    <3>2. p \in 1..(n + 1) /\ K.E[p] = Launched
      BY <3>1, <1>1
    <3> QED
      BY <3>2
  <2> QED
    BY <2>1, <2>2
<1>10. ASSUME NEW w \in Workers
       PROVE  /\ \A p \in 0..n : K.F[w][p] = H.F[w][p] /\ K.cnt[w][p] = H.cnt[w][p]
              /\ K.F[w][n + 1] = ProcessEvent(w, H.F[w][n], e)
              /\ ~Answers(w, H.F[w][n], e) => K.cnt[w][n + 1] = H.cnt[w][n]
  BY DEF Grown, GrownWorker, n
<1>11. ASSUME NEW w \in Workers, NEW p \in 0..n, ~KnownAt(H, w, p)
       PROVE  H.F[w][p].session = 0 /\ H.cnt[w][p] = 0
  BY <1>4, <1>11 DEF LaunchOK, n
<1>12. ASSUME NEW w \in Workers, NEW p \in 0..(n + 1), ~KnownAt(K, w, p)
       PROVE  K.F[w][p].session = 0 /\ K.cnt[w][p] = 0
  <2>1. CASE p \in 0..n
    BY <2>1, <1>6, <1>10, <1>11, <1>12
  <2>2. CASE p = n + 1
    <3>1. ~KnownAt(H, w, n)
      BY <1>7, <1>12, <2>2
    <3>2. H.F[w][n].session = 0 /\ H.cnt[w][n] = 0
      BY <1>1, <1>11, <3>1
    <3>3. ~(e.type = "Started" /\ e.worker = w)
      BY <3>1 DEF MayFollow, n
    <3>4. H.F[w][n] \in StateMachines /\ (H.F[w][n].paused => H.F[w][n].session # 0)
      BY <1>1 DEF StreamOK, MachineOK, n
    <3>5. K.F[w][n + 1].session = 0
      <4> DEFINE next == ProcessEvent(w, H.F[w][n], e)
      <4>1. StepShape(w, H.F[w][n], e, next)
        BY <1>1, <3>4, MachineStep
      <4>2. EventShape(e)
        BY <1>1, EventFacts
      <4> HIDE DEF next
      <4>3. next.session = 0
        BY <4>1, <4>2, <3>2, <3>3 DEF StepShape, EventShape
      <4> QED
        BY <4>3, <1>10 DEF next
    <3>6. ~Answers(w, H.F[w][n], e)
      BY <3>2 DEF Answers
    <3> QED
      BY <2>2, <3>2, <3>5, <3>6, <1>10
  <2> QED
    BY <2>1, <2>2, <1>1
<1>13. ASSUME NEW p \in 1..(n + 1), K.E[p].type = "Stopped"
       PROVE  K.F[K.E[p].worker][p - 1].session # 0
  <2>1. CASE p \in 1..n
    <3>1. K.E[p] = H.E[p] /\ H.E[p] \in Events /\ p - 1 \in 0..n
      BY <2>1, <1>1 DEF StreamOK, ShapeOK, n, Now
    <3>2. H.E[p].worker \in Workers
      BY <3>1, <1>13, EventFacts DEF EventShape
    <3>3. H.F[H.E[p].worker][p - 1].session # 0
      BY <2>1, <3>1, <1>4, <1>13 DEF StopsOK, n
    <3> QED
      BY <3>1, <3>2, <3>3, <1>10
  <2>2. CASE p = n + 1
    <3>1. e.worker \in Workers /\ e.type = "Stopped"
      BY <2>2, <1>1, <1>13, EventFacts DEF EventShape
    <3>2. H.F[e.worker][n].session # 0
      BY <3>1 DEF MayFollow, n
    <3>3. K.F[e.worker][n] = H.F[e.worker][n] /\ p - 1 = n
      BY <2>2, <3>1, <1>1, <1>10
    <3> QED
      BY <2>2, <3>2, <3>3, <1>1
  <2> QED
    BY <2>1, <2>2, <1>1
<1>14. LaunchOK(K)
  BY <1>1, <1>8, <1>9, <1>12 DEF LaunchOK
<1>15. StopsOK(K)
  BY <1>1, <1>13 DEF StopsOK
<1> QED
  BY <1>14, <1>15

(* An event that may come next makes a longer stream.                      *)
LEMMA StreamGrows ==
    ASSUME NEW H, StreamOK(H), NEW e, NEW la, MayFollow(H, e, la)
    PROVE  \E K : Grown(H, K, e, la) /\ StreamOK(K)
<1>1. PICK K : Grown(H, K, e, la)
  BY GrowthExists
<1>2. ShapeOK(K) /\ LaunchOK(K) /\ StopsOK(K)
  BY <1>1, GrownShapeOK, GrownLaunchOK
<1>3. \A w \in Workers : MachineOK(K, w) /\ CountOK(K, w) /\ AnswersOK(K, w)
  BY <1>1, GrownMachineOK, GrownCountOK, GrownAnswersOK
<1> QED
  BY <1>1, <1>2, <1>3 DEF StreamOK

-----------------------------------------------------------------------------
(* The observers of the stream: what the blocks in an inbox are, where a   *)
(* pRuntime stands, and what it knows there.                               *)

Blocks == [height : Nat, events : Seq(Events)]
WorkerStates == [inbox : Seq(Blocks), sm : StateMachines, out : Seq(Answer)]
Infos == [known : BOOLEAN, sm : StateMachines, waiting : Seq(Nat), unresponsive : BOOLEAN]
Gatekeepers == [inbox : Seq(Blocks), launched : BOOLEAN, poisoned : BOOLEAN,
                info : [Workers -> Infos]]
Settlements == [worker : Workers, session : Nat \ {0}]
Reports == [ts : Nat, offline : SUBSET Workers, recovered : SUBSET Workers,
            settle : Seq(Settlements)]

(* events is block h, as far as it is built.                               *)
IsBlock(H, events, h) ==
    /\ events \in Seq(Events)
    /\ Len(events) = H.end[h] - H.end[h - 1]
    /\ \A i \in 1..Len(events) : events[i] = H.E[H.end[h - 1] + i]

(* The last block handled, before those in the inbox.                      *)
Done(H, inbox) == H.ht - 1 - Len(inbox)

InboxOK(H, inbox) ==
    /\ inbox \in Seq(Blocks)
    /\ Len(inbox) < H.ht
    /\ \A i \in 1..Len(inbox) :
          /\ inbox[i].height = Done(H, inbox) + i
          /\ IsBlock(H, inbox[i].events, Done(H, inbox) + i)

(* The answers that w still has to deliver after p events.                 *)
OutOK(H, w, out, p) ==
    /\ Len(out) = H.cnt[w][p] - H.acc[w][Now(H)]
    /\ \A i \in 1..Len(out) : out[i] = H.S[w][H.acc[w][Now(H)] + i]

WorkerOK(H, w, st) ==
    /\ st \in WorkerStates
    /\ InboxOK(H, st.inbox)
    /\ st.sm = H.F[w][H.end[Done(H, st.inbox)]]
    /\ OutOK(H, w, st.out, H.end[Done(H, st.inbox)])

(* What the gatekeeper knows of w after p events.                          *)
InfoOK(H, w, info, p) ==
    /\ info.known <=> KnownAt(H, w, p)
    /\ info.known => info.sm = H.F[w][p]
    /\ ~info.known => info.sm = Unregistered
    /\ Len(info.waiting) = H.cnt[w][p] - H.acc[w][p]
    /\ \A i \in 1..Len(info.waiting) : info.waiting[i] = H.S[w][H.acc[w][p] + i].block

GatekeeperOK(H, g) ==
    /\ g \in Gatekeepers /\ ~g.poisoned
    /\ InboxOK(H, g.inbox)
    /\ g.launched <=> H.la # 0 /\ H.la <= Done(H, g.inbox)
    /\ \A w \in Workers : InfoOK(H, w, g.info[w], H.end[Done(H, g.inbox)])

(* A settlement is about a session that w was in during block h.           *)
SettlementOK(H, s, h) ==
    \E p \in H.end[h - 1]..H.end[h] : H.F[s.worker][p].session = s.session

ReportOK(H, r) ==
    /\ r \in Reports
    /\ r.ts \in 1..(H.ht - 1)
    /\ r.offline \cap r.recovered = {}
    /\ \A j \in 1..Len(r.settle) : SettlementOK(H, r.settle[j], r.ts)

ReportsOK(H, rs) ==
    rs \in Seq(Reports) /\ \A i \in 1..Len(rs) : ReportOK(H, rs[i])

-----------------------------------------------------------------------------
(* K is a later stream than H.                                             *)
Extends(H, K) ==
    /\ H.ht <= K.ht /\ Now(H) <= Now(K)
    /\ K.la = H.la \/ (H.la = 0 /\ K.la = H.ht)
    /\ \A p \in 1..Now(H) : K.E[p] = H.E[p] /\ K.blk[p] = H.blk[p]
    /\ \A h \in 0..(H.ht - 1) : K.end[h] = H.end[h]
    /\ \A w \in Workers : \A p \in 0..Now(H) :
          K.F[w][p] = H.F[w][p] /\ K.cnt[w][p] = H.cnt[w][p] /\ K.acc[w][p] = H.acc[w][p]
    /\ \A w \in Workers : /\ Len(H.S[w]) <= Len(K.S[w])
                          /\ \A i \in 1..Len(H.S[w]) : K.S[w][i] = H.S[w][i]

(* Facts about the bounds of a stream.                                     *)
LEMMA Bounds ==
    ASSUME NEW H, ShapeOK(H)
    PROVE  /\ Now(H) \in Nat /\ H.ht \in Nat \ {0} /\ H.la \in Nat
           /\ \A i \in 0..H.ht : H.end[i] \in Nat /\ H.end[i] <= Now(H)
           /\ \A i, j \in 0..H.ht : i <= j => H.end[i] <= H.end[j]
<1>1. Now(H) \in Nat /\ H.ht \in Nat \ {0} /\ H.la \in Nat
  BY DEF ShapeOK, Now
<1>2. \A i \in 0..H.ht : H.end[i] \in Nat /\ H.end[i] <= Now(H)
  BY <1>1 DEF ShapeOK
<1>3. ASSUME NEW i \in 0..H.ht, NEW j \in 0..H.ht, i <= j PROVE H.end[i] <= H.end[j]
  <2>1. CASE H.end[i] = 0
    BY <1>2, <2>1
  <2>2. CASE H.end[i] # 0
    <3>1. H.end[i] \in 1..Now(H)
      BY <1>1, <1>2, <2>2
    <3>2. H.blk[H.end[i]] <= i /\ H.blk[H.end[i]] \in 1..H.ht
      BY SMTT(30), <1>2, <3>1 DEF ShapeOK
    <3>3. H.blk[H.end[i]] <= j
      BY <1>1, <1>3, <3>2
    <3> QED
      BY <3>1, <3>3 DEF ShapeOK
  <2> QED
    BY <2>1, <2>2
<1> QED
  BY <1>1, <1>2, <1>3

(* Facts about the counts of a stream.                                     *)
LEMMA CountFacts ==
    ASSUME NEW H, StreamOK(H), NEW w \in Workers
    PROVE  /\ Now(H) \in Nat /\ H.S[w] \in Seq(Answer) /\ Len(H.S[w]) \in Nat
           /\ \A p \in 0..Now(H) :
                 /\ H.cnt[w][p] \in Nat /\ H.acc[w][p] \in Nat
                 /\ H.cnt[w][p] <= Len(H.S[w]) /\ H.acc[w][p] <= H.cnt[w][p]
                 /\ H.acc[w][p] <= H.acc[w][Now(H)]
           /\ H.acc[w][Now(H)] \in Nat /\ H.acc[w][Now(H)] <= Len(H.S[w])
           /\ H.cnt[w][Now(H)] = Len(H.S[w])
<1>1. Now(H) \in Nat /\ Now(H) \in 0..Now(H) /\ \A p \in 0..Now(H) : p <= Now(H)
  BY Bounds DEF StreamOK
<1>2. CountOK(H, w)
  BY DEF StreamOK
<1>3. H.S[w] \in Seq(Answer) /\ Len(H.S[w]) \in Nat
  BY <1>2 DEF CountOK
<1>4. ASSUME NEW p \in 0..Now(H)
      PROVE  H.cnt[w][p] \in Nat /\ H.acc[w][p] \in Nat
  BY <1>2 DEF CountOK
<1>5. ASSUME NEW p \in 0..Now(H)
      PROVE  /\ H.cnt[w][p] <= Len(H.S[w]) /\ H.acc[w][p] <= H.cnt[w][p]
             /\ H.acc[w][p] <= H.acc[w][Now(H)]
  BY <1>1, <1>2 DEF CountOK
<1>6. H.cnt[w][Now(H)] = Len(H.S[w])
  BY <1>2 DEF CountOK
<1>7. H.acc[w][Now(H)] \in Nat /\ H.acc[w][Now(H)] <= Len(H.S[w])
  BY <1>1, <1>4, <1>5, <1>6
<1> QED
  BY <1>1, <1>3, <1>4, <1>5, <1>6, <1>7

(* A stream that has grown is a later one.                                 *)
LEMMA GrownExtends ==
    ASSUME NEW H, StreamOK(H), NEW e, NEW la, MayFollow(H, e, la),
           NEW K, Grown(H, K, e, la)
    PROVE  Extends(H, K)
<1>1. Now(H) \in Nat /\ H.ht \in Nat /\ Now(K) = Now(H) + 1
  BY GrownShapeOK, Bounds DEF StreamOK
<1>2. H.ht <= K.ht /\ Now(H) <= Now(K)
  BY <1>1 DEF Grown, GrownShape
<1>3. K.la = H.la \/ (H.la = 0 /\ K.la = H.ht)
  BY DEF Grown, GrownShape, MayFollow
<1>4. /\ \A p \in 1..Now(H) : K.E[p] = H.E[p] /\ K.blk[p] = H.blk[p]
      /\ \A h \in 0..(H.ht - 1) : K.end[h] = H.end[h]
  <2>1. \A p \in 1..Now(H) : K.E[p] = H.E[p]
    BY GrownShapeOK
  <2> QED
    BY <2>1 DEF Grown, GrownShape
<1>5. \A w \in Workers : \A p \in 0..Now(H) :
         K.F[w][p] = H.F[w][p] /\ K.cnt[w][p] = H.cnt[w][p] /\ K.acc[w][p] = H.acc[w][p]
  BY DEF Grown, GrownWorker
<1>6. ASSUME NEW w \in Workers
      PROVE  /\ Len(H.S[w]) <= Len(K.S[w])
             /\ \A i \in 1..Len(H.S[w]) : K.S[w][i] = H.S[w][i]
  <2>1. H.S[w] \in Seq(Answer)
    BY DEF StreamOK, CountOK
  <2>2. K.S[w] = H.S[w] \/ \E x : K.S[w] = Append(H.S[w], x)
    BY DEF Grown, GrownWorker
  <2>3. CASE K.S[w] = H.S[w]
    BY <2>1, <2>3
  <2>4. CASE K.S[w] # H.S[w]
    <3>1. PICK x : K.S[w] = Append(H.S[w], x)
      BY <2>2, <2>4
    <3> QED
      BY <2>1, <3>1
  <2> QED
    BY <2>3, <2>4
<1> QED
  BY <1>2, <1>3, <1>4, <1>5, <1>6 DEF Extends

(* Later than later is later.                                              *)
LEMMA ExtendsTransitive ==
    ASSUME NEW H, NEW K, NEW L, StreamOK(H), StreamOK(K), StreamOK(L),
           Extends(H, K), Extends(K, L), K.ht = H.ht
    PROVE  Extends(H, L)
<1>1. /\ Now(H) \in Nat /\ Now(K) \in Nat /\ Now(L) \in Nat
      /\ H.ht \in Nat /\ L.ht \in Nat
  BY Bounds DEF StreamOK
<1>2. Now(H) <= Now(K) /\ Now(K) <= Now(L) /\ H.ht <= L.ht
  BY DEF Extends
<1>3. 1..Now(H) \subseteq 1..Now(K) /\ 0..Now(H) \subseteq 0..Now(K) /\ Now(H) <= Now(L)
  BY <1>1, <1>2
<1>4. L.la = H.la \/ (H.la = 0 /\ L.la = H.ht)
  BY DEF Extends
<1>5. /\ \A p \in 1..Now(H) : L.E[p] = H.E[p] /\ L.blk[p] = H.blk[p]
      /\ \A h \in 0..(H.ht - 1) : L.end[h] = H.end[h]
      /\ \A w \in Workers : \A p \in 0..Now(H) :
            L.F[w][p] = H.F[w][p] /\ L.cnt[w][p] = H.cnt[w][p] /\ L.acc[w][p] = H.acc[w][p]
  BY <1>3 DEF Extends
<1>6. ASSUME NEW w \in Workers
      PROVE  /\ Len(H.S[w]) <= Len(L.S[w])
             /\ \A i \in 1..Len(H.S[w]) : L.S[w][i] = H.S[w][i]
  <2>1. Len(H.S[w]) \in Nat /\ Len(K.S[w]) \in Nat /\ Len(L.S[w]) \in Nat
    BY DEF StreamOK, CountOK
  <2>2. Len(H.S[w]) <= Len(K.S[w]) /\ Len(K.S[w]) <= Len(L.S[w])
    BY DEF Extends
  <2>3. 1..Len(H.S[w]) \subseteq 1..Len(K.S[w])
    BY <2>1, <2>2
  <2> QED
    BY SMTT(30), <2>1, <2>2, <2>3 DEF Extends
<1> QED
  BY <1>2, <1>3, <1>4, <1>5, <1>6 DEF Extends

(* What an observer of earlier blocks relies on does not change.           *)
LEMMA CarryBlock ==
    ASSUME NEW H, NEW K, StreamOK(H), StreamOK(K), Extends(H, K),
           NEW h \in 1..(H.ht - 1), NEW events, IsBlock(H, events, h)
    PROVE  IsBlock(K, events, h)
<1>1. H.ht \in Nat \ {0} /\ Now(H) \in Nat
  BY Bounds DEF StreamOK
<1>2. h \in 0..(H.ht - 1) /\ h - 1 \in 0..(H.ht - 1) /\ h \in 0..H.ht /\ h - 1 \in 0..H.ht
  BY <1>1
<1>3. K.end[h] = H.end[h] /\ K.end[h - 1] = H.end[h - 1]
  BY <1>2 DEF Extends
<1>4. H.end[h] \in Nat /\ H.end[h - 1] \in Nat /\ H.end[h] <= Now(H)
  BY <1>2, Bounds DEF StreamOK
<1>5. events \in Seq(Events) /\ Len(events) = H.end[h] - H.end[h - 1]
  BY DEF IsBlock
<1>6. \A i \in 1..Len(events) : H.end[h - 1] + i \in 1..Now(H)
  <2> DEFINE x == H.end[h]
             y == H.end[h - 1]
             z == Len(events)
  <2>1. x \in Nat /\ y \in Nat /\ x <= Now(H) /\ z = x - y
    BY <1>4, <1>5
  <2> HIDE DEF x, y, z
  <2>2. \A i \in 1..z : y + i \in 1..Now(H)
    BY <2>1, <1>1
  <2> QED
    BY <2>2 DEF x, y, z
<1> QED
  BY <1>3, <1>5, <1>6 DEF IsBlock, Extends

(* The blocks of an inbox stay what they are.                              *)
LEMMA CarryInbox ==
    ASSUME NEW H, NEW K, StreamOK(H), StreamOK(K), Extends(H, K), K.ht = H.ht,
           NEW inbox, InboxOK(H, inbox)
    PROVE  InboxOK(K, inbox) /\ Done(K, inbox) = Done(H, inbox)
<1>1. H.ht \in Nat \ {0} /\ Len(inbox) \in Nat /\ Len(inbox) < H.ht
  BY Bounds DEF StreamOK, InboxOK
<1>2. \A i \in 1..Len(inbox) : Done(H, inbox) + i \in 1..(H.ht - 1)
  BY <1>1 DEF Done
<1>3. Done(K, inbox) = Done(H, inbox)
  BY DEF Done
<1> HIDE DEF Done
<1>4. \A i \in 1..Len(inbox) : IsBlock(K, inbox[i].events, Done(H, inbox) + i)
  BY <1>2, CarryBlock DEF InboxOK
<1> QED
  BY <1>1, <1>3, <1>4 DEF InboxOK

(* The block that ends is appended to every inbox.                         *)
LEMMA CarryInboxEnd ==
    ASSUME NEW H, NEW K, StreamOK(H), StreamOK(K), Extends(H, K), K.ht = H.ht + 1,
           NEW inbox, InboxOK(H, inbox), NEW events, IsBlock(K, events, H.ht)
    PROVE  LET in == Append(inbox, [height |-> H.ht, events |-> events])
           IN  InboxOK(K, in) /\ Done(K, in) = Done(H, inbox)
<1> DEFINE b == [height |-> H.ht, events |-> events]
           in == Append(inbox, b)
           n == Len(inbox)
<1>1. H.ht \in Nat \ {0} /\ n \in Nat /\ n < H.ht /\ inbox \in Seq(Blocks)
  BY Bounds DEF StreamOK, InboxOK
<1>2. \A i \in 1..n : Done(H, inbox) + i \in 1..(H.ht - 1)
  BY <1>1 DEF Done
<1>3. b \in Blocks /\ b.height = H.ht /\ b.events = events
  BY <1>1 DEF Blocks, IsBlock
<1> HIDE DEF b
<1>4. in \in Seq(Blocks) /\ Len(in) = n + 1 /\ in[n + 1] = b /\ \A i \in 1..n : in[i] = inbox[i]
  BY <1>1, <1>3, AppendProperties
<1>5. Done(K, in) = Done(H, inbox) /\ Done(H, inbox) + (n + 1) = H.ht
  BY <1>1, <1>4 DEF Done
<1>6. \A i \in 1..n : /\ inbox[i].height = Done(H, inbox) + i
                      /\ IsBlock(H, inbox[i].events, Done(H, inbox) + i)
  BY DEF InboxOK
<1> HIDE DEF in, n
<1>7. \A i \in 1..n : IsBlock(K, inbox[i].events, Done(H, inbox) + i)
  BY <1>2, <1>6, CarryBlock
<1>8. \A i \in 1..(n + 1) : /\ in[i].height = Done(K, in) + i
                            /\ IsBlock(K, in[i].events, Done(K, in) + i)
  <2> SUFFICES ASSUME NEW i \in 1..(n + 1)
               PROVE  /\ in[i].height = Done(K, in) + i
                      /\ IsBlock(K, in[i].events, Done(K, in) + i)
    OBVIOUS
  <2>1. CASE i \in 1..n
    BY <2>1, <1>4, <1>5, <1>6, <1>7
  <2>2. CASE i = n + 1
    BY <2>2, <1>3, <1>4, <1>5
  <2> QED
    BY <2>1, <2>2, <1>1
<1>9. InboxOK(K, in)
  <2>1. n + 1 < H.ht + 1
    BY <1>1
  <2> QED
    BY <1>4, <1>8, <2>1 DEF InboxOK
<1> QED
  BY <1>5, <1>9 DEF in, b

(* The last block handled is one of the stream.                            *)
LEMMA DoneBounds ==
    ASSUME NEW H, StreamOK(H), NEW inbox, InboxOK(H, inbox)
    PROVE  /\ Done(H, inbox) \in 0..(H.ht - 1) /\ Done(H, inbox) \in 0..H.ht
           /\ H.end[Done(H, inbox)] \in 0..Now(H)
<1>1. H.ht \in Nat \ {0} /\ Now(H) \in Nat
  BY Bounds DEF StreamOK
<1>2. Len(inbox) \in Nat /\ Len(inbox) < H.ht
  BY DEF InboxOK
<1>3. Done(H, inbox) \in 0..(H.ht - 1) /\ Done(H, inbox) \in 0..H.ht
  BY <1>1, <1>2 DEF Done
<1>4. H.end[Done(H, inbox)] \in Nat /\ H.end[Done(H, inbox)] <= Now(H)
  BY <1>3, Bounds DEF StreamOK
<1> QED
  BY <1>1, <1>3, <1>4

(* A launch that comes later changes nobody's past.                        *)
LEMMA CarryKnown ==
    ASSUME NEW H, NEW K, StreamOK(H), StreamOK(K), Extends(H, K),
           NEW d \in 0..(H.ht - 1), NEW w \in Workers
    PROVE  KnownAt(K, w, K.end[d]) <=> KnownAt(H, w, H.end[d])
<1>1. H.ht \in Nat \ {0} /\ Now(H) \in Nat
  BY Bounds DEF StreamOK
<1>2. d \in 0..H.ht
  BY <1>1
<1>3. K.end[d] = H.end[d] /\ H.end[d] \in 0..Now(H)
  BY <1>1, <1>2, Bounds DEF Extends, StreamOK
<1>4. \A q \in 1..H.end[d] : q \in 1..Now(H) /\ K.E[q] = H.E[q] /\ K.blk[q] = H.blk[q]
  BY <1>1, <1>3 DEF Extends
<1>5. CASE K.la = H.la
  BY <1>3, <1>4, <1>5 DEF KnownAt
<1>6. CASE H.la = 0 /\ K.la = H.ht
  <2>1. \A q \in 1..H.end[d] : H.blk[q] <= d /\ H.blk[q] \in Nat
    <3> SUFFICES ASSUME NEW q \in 1..H.end[d] PROVE H.blk[q] <= d /\ H.blk[q] \in Nat
      OBVIOUS
    <3>1. q \in 1..Now(H) /\ q <= H.end[d]
      BY <1>3, <1>4
    <3>2. H.blk[q] \in 1..H.ht
      BY <3>1 DEF StreamOK, ShapeOK
    <3>3. H.blk[q] <= d
      BY <1>2, <3>1 DEF StreamOK, ShapeOK
    <3> QED
      BY <1>1, <3>2, <3>3
  <2>2. \A q \in 1..H.end[d] : ~(K.blk[q] >= K.la)
    BY <1>1, <1>4, <1>6, <2>1
  <2> QED
    BY <1>3, <1>6, <2>2 DEF KnownAt
<1> QED
  BY <1>5, <1>6 DEF Extends

(* What the gatekeeper knows stays right.                                  *)
LEMMA CarryInfo ==
    ASSUME NEW H, NEW K, StreamOK(H), StreamOK(K), Extends(H, K),
           NEW d \in 0..(H.ht - 1), NEW w \in Workers,
           NEW info, InfoOK(H, w, info, H.end[d])
    PROVE  InfoOK(K, w, info, K.end[d])
<1> DEFINE p == H.end[d]
<1>1. H.ht \in Nat \ {0} /\ Now(H) \in Nat /\ d \in 0..H.ht
  BY Bounds DEF StreamOK
<1>2. K.end[d] = p /\ p \in 0..Now(H)
  BY <1>1, Bounds DEF Extends, StreamOK
<1>3. KnownAt(K, w, p) <=> KnownAt(H, w, p)
  BY <1>2, CarryKnown
<1> HIDE DEF p
<1>4. K.F[w][p] = H.F[w][p] /\ K.cnt[w][p] = H.cnt[w][p] /\ K.acc[w][p] = H.acc[w][p]
  BY <1>2 DEF Extends
<1>5. /\ H.cnt[w][p] \in Nat /\ H.acc[w][p] \in Nat /\ Len(H.S[w]) \in Nat
      /\ H.cnt[w][p] <= Len(H.S[w])
  BY SMTT(30), <1>2, CountFacts
<1>6. /\ info.known <=> KnownAt(H, w, p)
      /\ info.known => info.sm = H.F[w][p]
      /\ ~info.known => info.sm = Unregistered
      /\ Len(info.waiting) = H.cnt[w][p] - H.acc[w][p]
      /\ \A i \in 1..Len(info.waiting) : info.waiting[i] = H.S[w][H.acc[w][p] + i].block
  BY DEF InfoOK, p
<1>7. \A i \in 1..Len(info.waiting) : H.acc[w][p] + i \in 1..Len(H.S[w])
  BY SMTT(30), <1>5, <1>6
<1>8. \A i \in 1..Len(info.waiting) : info.waiting[i] = K.S[w][K.acc[w][p] + i].block
  <2>1. \A i \in 1..Len(H.S[w]) : K.S[w][i] = H.S[w][i]
    BY DEF Extends
  <2> QED
    BY <2>1, <1>4, <1>6, <1>7
<1> QED
  BY <1>2, <1>3, <1>4, <1>6, <1>8 DEF InfoOK

(* The gatekeeper stays where it is in the stream.                         *)
LEMMA CarryGatekeeper ==
    ASSUME NEW H, NEW K, StreamOK(H), StreamOK(K), Extends(H, K),
           NEW g, GatekeeperOK(H, g), NEW g2 \in Gatekeepers,
           g2.launched = g.launched, g2.poisoned = g.poisoned, g2.info = g.info,
           InboxOK(K, g2.inbox), Done(K, g2.inbox) = Done(H, g.inbox)
    PROVE  GatekeeperOK(K, g2)
<1> DEFINE d == Done(H, g.inbox)
<1>1. H.ht \in Nat \ {0} /\ d \in 0..(H.ht - 1)
  BY Bounds, DoneBounds DEF StreamOK, GatekeeperOK
<1>2. \A w \in Workers : InfoOK(K, w, g2.info[w], K.end[d])
  BY <1>1, CarryInfo DEF GatekeeperOK
<1>3. (K.la # 0 /\ K.la <= d) <=> (H.la # 0 /\ H.la <= d)
  <2>1. H.la \in Nat /\ K.la \in Nat
    BY Bounds DEF StreamOK
  <2> HIDE DEF d
  <2> QED
    BY <1>1, <2>1 DEF Extends
<1> HIDE DEF d
<1>4. g2.launched <=> K.la # 0 /\ K.la <= d
  BY <1>3 DEF GatekeeperOK, d
<1> QED
  BY <1>2, <1>4 DEF GatekeeperOK, d

(* A settlement stays about a session of its block.                        *)
LEMMA CarrySettlement ==
    ASSUME NEW H, NEW K, StreamOK(H), StreamOK(K), Extends(H, K),
           NEW h \in 1..(H.ht - 1), NEW s \in Settlements, SettlementOK(H, s, h)
    PROVE  SettlementOK(K, s, h)
<1>1. H.ht \in Nat \ {0} /\ Now(H) \in Nat
  BY Bounds DEF StreamOK
<1>2. h \in 0..(H.ht - 1) /\ h - 1 \in 0..(H.ht - 1) /\ h \in 0..H.ht /\ h - 1 \in 0..H.ht
  BY <1>1
<1>3. K.end[h] = H.end[h] /\ K.end[h - 1] = H.end[h - 1]
  BY <1>2 DEF Extends
<1>4. H.end[h] \in Nat /\ H.end[h - 1] \in Nat /\ H.end[h] <= Now(H)
  BY <1>2, Bounds DEF StreamOK
<1>5. PICK p \in H.end[h - 1]..H.end[h] : H.F[s.worker][p].session = s.session
  BY DEF SettlementOK
<1>6. p \in 0..Now(H) /\ s.worker \in Workers
  BY <1>1, <1>4 DEF Settlements
<1> QED
  BY <1>3, <1>5, <1>6 DEF SettlementOK, Extends

(* The reports in transit stay right.                                      *)
LEMMA CarryReports ==
    ASSUME NEW H, NEW K, StreamOK(H), StreamOK(K), Extends(H, K),
           NEW rs, ReportsOK(H, rs)
    PROVE  ReportsOK(K, rs)
<1>1. H.ht \in Nat \ {0} /\ K.ht \in Nat \ {0} /\ H.ht <= K.ht
  BY Bounds DEF StreamOK, Extends
<1>2. ASSUME NEW i \in 1..Len(rs) PROVE ReportOK(K, rs[i])
  <2>1. ReportOK(H, rs[i])
    BY DEF ReportsOK
  <2>2. rs[i].ts \in 1..(H.ht - 1) /\ rs[i].ts \in 1..(K.ht - 1)
    BY <1>1, <2>1 DEF ReportOK
  <2>3. \A j \in 1..Len(rs[i].settle) : rs[i].settle[j] \in Settlements
    BY <2>1, ElementOfSeq DEF ReportOK, Reports
  <2>4. \A j \in 1..Len(rs[i].settle) : SettlementOK(K, rs[i].settle[j], rs[i].ts)
    BY <2>1, <2>2, <2>3, CarrySettlement DEF ReportOK
  <2> QED
    BY <2>1, <2>2, <2>4 DEF ReportOK
<1> QED
  BY <1>2 DEF ReportsOK

(* A worker stays where it is in the stream.                               *)
LEMMA CarryWorker ==
    ASSUME NEW H, NEW K, StreamOK(H), StreamOK(K), Extends(H, K), NEW w \in Workers,
           K.acc[w][Now(K)] = H.acc[w][Now(H)],
           NEW st, WorkerOK(H, w, st), NEW st2 \in WorkerStates,
           st2.sm = st.sm, st2.out = st.out,
           InboxOK(K, st2.inbox), Done(K, st2.inbox) = Done(H, st.inbox)
    PROVE  WorkerOK(K, w, st2)
<1> DEFINE d == Done(H, st.inbox)
           p == H.end[d]
           a == H.acc[w][Now(H)]
<1>1. /\ H.ht \in Nat \ {0} /\ Now(H) \in Nat /\ Now(H) \in 0..Now(H)
      /\ d \in 0..(H.ht - 1) /\ p \in 0..Now(H)
  BY Bounds, DoneBounds DEF StreamOK, WorkerOK
<1>2. K.end[d] = p
  BY <1>1 DEF Extends
<1>3. st.sm = H.F[w][p] /\ OutOK(H, w, st.out, p)
  BY DEF WorkerOK
<1>4. K.F[w][p] = H.F[w][p] /\ K.cnt[w][p] = H.cnt[w][p]
  BY <1>1 DEF Extends
<1>5. H.cnt[w][p] \in Nat /\ a \in Nat /\ Len(H.S[w]) \in Nat /\ H.cnt[w][p] <= Len(H.S[w])
  BY <1>1, CountFacts
<1>6. Len(st.out) = H.cnt[w][p] - a /\ \A i \in 1..Len(st.out) : st.out[i] = H.S[w][a + i]
  BY <1>3 DEF OutOK
<1> HIDE DEF p, a
<1>7. \A i \in 1..Len(st.out) : a + i \in 1..Len(H.S[w])
  BY <1>5, <1>6
<1>8. \A i \in 1..Len(st.out) : st.out[i] = K.S[w][a + i]
  BY <1>6, <1>7 DEF Extends
<1>9. OutOK(K, w, st2.out, p)
  BY <1>4, <1>6, <1>8 DEF OutOK, a
<1> HIDE DEF d
<1> QED
  BY <1>2, <1>3, <1>4, <1>9 DEF WorkerOK, d

-----------------------------------------------------------------------------
(* The pallet and the stream.                                              *)

(* Who is bound was registered after the launch, and the stream shows it.  *)
AddedOK(H) ==
    \A w \in Workers :
       /\ addedAt[w] # 0 =>
             \E q \in 1..Now(H) : H.blk[q] >= addedAt[w] /\ H.E[q] = Registered(w)
       /\ Bound(w) => launchedAt # 0 /\ addedAt[w] > launchedAt

Computes(w) == Bound(w) /\ Computing(sessions[Account(w)])

(* After all events, the machine of w is where the pallet has w.           *)
SessionOK(H, w) ==
    /\ Computes(w) => H.F[w][Now(H)].session = sessions[Account(w)].id
    /\ ~Computes(w) => H.F[w][Now(H)].session = 0
    /\ H.F[w][Now(H)].paused
          <=> Computes(w) /\ sessions[Account(w)].state = "WorkerUnresponsive"

(* Session s is the only one that w was in since s was updated.            *)
EpochOK(H, w, s) ==
    \A h \in 1..H.ht : \A p \in H.end[h - 1]..H.end[h] :
       H.F[w][p].session # 0 /\ s.v_updated_at < h => s.id = H.F[w][p].session

(* The last heartbeat accepted for session s precedes those to come.       *)
ClockOK(H, w, s) ==
    /\ s.challenge_time_last < H.ht
    /\ Computing(s) => s.id # 0
    /\ \A j \in (H.acc[w][Now(H)] + 1)..Len(H.S[w]) :
          s.challenge_time_last < H.S[w][j].block

TrackOK(H, w) ==
    /\ SessionOK(H, w)
    /\ Bound(w) => EpochOK(H, w, sessions[Account(w)])
    /\ \A a \in Accounts : a[2] = w => ClockOK(H, w, sessions[a])

ObserversOK(H) ==
    /\ worker \in [Workers -> WorkerStates]
    /\ \A w \in Workers : WorkerOK(H, w, worker[w])
    /\ GatekeeperOK(H, gk)
    /\ ReportsOK(H, reports)

(* H is the history of the state.                                          *)
HistoryOK(H) ==
    /\ StreamOK(H) /\ H.ht = height /\ H.la = launchedAt
    /\ IsBlock(H, current, height)
    /\ AddedOK(H)
    /\ \A w \in Workers : TrackOK(H, w)
    /\ ObserversOK(H)

(* The inductive invariant: the books of the pallet are in order, and the  *)
(* state has a history.                                                    *)
IInv == PalletType /\ BooksBalance /\ \E H : HistoryOK(H)

(* The block under construction grows with the stream.                     *)
LEMMA GrownBlock ==
    ASSUME NEW H, StreamOK(H), NEW e, NEW la, MayFollow(H, e, la),
           NEW K, Grown(H, K, e, la), NEW events, IsBlock(H, events, H.ht)
    PROVE  IsBlock(K, Append(events, e), H.ht)
<1> DEFINE n == Now(H)
           z == H.end[H.ht - 1]
           l == Len(events)
<1>1. n \in Nat /\ H.ht \in Nat \ {0} /\ H.ht - 1 \in 0..H.ht /\ H.ht - 1 \in 0..(H.ht - 1)
  BY Bounds DEF StreamOK
<1>2. z \in Nat /\ H.end[H.ht] = n /\ z <= n
  BY <1>1, Bounds DEF StreamOK, ShapeOK
<1>3. K.end[H.ht] = n + 1 /\ K.end[H.ht - 1] = z
  BY <1>1 DEF Grown, GrownShape
<1>4. events \in Seq(Events) /\ l = n - z /\ \A i \in 1..l : events[i] = H.E[z + i]
  BY <1>2 DEF IsBlock
<1>5. e \in Events
  BY DEF MayFollow
<1>6. K.E[n + 1] = e /\ \A p \in 1..n : K.E[p] = H.E[p]
  BY GrownShapeOK
<1>7. l \in Nat
  BY <1>4
<1> HIDE DEF n, z, l
<1>8. /\ Append(events, e) \in Seq(Events) /\ Len(Append(events, e)) = l + 1
      /\ Append(events, e)[l + 1] = e /\ \A i \in 1..l : Append(events, e)[i] = events[i]
  BY <1>4, <1>5, AppendProperties DEF l
<1>9. ASSUME NEW i \in 1..(l + 1) PROVE Append(events, e)[i] = K.E[z + i]
  <2>1. CASE i = l + 1
    <3>1. z + i = n + 1
      BY <2>1, <1>1, <1>2, <1>4
    <3> QED
      BY <2>1, <3>1, <1>6, <1>8
  <2>2. CASE i \in 1..l
    <3>1. z + i \in 1..n
      BY <2>2, <1>1, <1>2, <1>4
    <3> QED
      BY <2>2, <3>1, <1>4, <1>6, <1>8
  <2>3. i = l + 1 \/ i \in 1..l
    BY <1>7
  <2> QED
    BY <2>1, <2>2, <2>3
<1>10. l + 1 = (n + 1) - z
  BY <1>1, <1>2, <1>4
<1> HIDE DEF Grown, GrownShape
<1> QED
  BY <1>3, <1>8, <1>9, <1>10 DEF IsBlock

(* Observers are not disturbed by events other than heartbeats.            *)
LEMMA ObserversKept ==
    ASSUME NEW H, NEW K, StreamOK(H), StreamOK(K), Extends(H, K), K.ht = H.ht,
           \A w \in Workers : K.acc[w][Now(K)] = H.acc[w][Now(H)],
           ObserversOK(H)
    PROVE  ObserversOK(K)
<1>1. ASSUME NEW w \in Workers PROVE WorkerOK(K, w, worker[w])
  <2>1. worker[w] \in WorkerStates /\ WorkerOK(H, w, worker[w])
    BY DEF ObserversOK
  <2>2. InboxOK(K, worker[w].inbox) /\ Done(K, worker[w].inbox) = Done(H, worker[w].inbox)
    BY <2>1, CarryInbox DEF WorkerOK
  <2> QED
    BY <2>1, <2>2, CarryWorker
<1>2. GatekeeperOK(K, gk)
  <2>1. GatekeeperOK(H, gk) /\ gk \in Gatekeepers
    BY DEF ObserversOK, GatekeeperOK
  <2>2. InboxOK(K, gk.inbox) /\ Done(K, gk.inbox) = Done(H, gk.inbox)
    BY <2>1, CarryInbox DEF GatekeeperOK
  <2> QED
    BY <2>1, <2>2, CarryGatekeeper
<1>3. ReportsOK(K, reports)
  BY CarryReports DEF ObserversOK
<1> QED
  BY <1>1, <1>2, <1>3 DEF ObserversOK

(* A session that is not updated keeps its epoch while the machine stays   *)
(* in its session, or leaves it.                                           *)
LEMMA EpochKept ==
    ASSUME NEW H, NEW K, StreamOK(H), StreamOK(K), Extends(H, K), K.ht = H.ht,
           NEW w \in Workers, NEW s, NEW t, EpochOK(H, w, s),
           t.id = s.id, t.v_updated_at = s.v_updated_at,
           \A p \in Now(H)..Now(K) : \/ K.F[w][p].session = H.F[w][Now(H)].session
                                     \/ K.F[w][p].session = 0
    PROVE  EpochOK(K, w, t)
<1> SUFFICES ASSUME NEW h \in 1..K.ht, NEW p \in K.end[h - 1]..K.end[h],
                    K.F[w][p].session # 0, s.v_updated_at < h
             PROVE  s.id = K.F[w][p].session
  BY DEF EpochOK
<1>1. H.ht \in Nat \ {0} /\ Now(H) \in Nat /\ Now(K) \in Nat /\ Now(H) <= Now(K)
      /\ h - 1 \in 0..(H.ht - 1) /\ h \in 0..H.ht /\ h - 1 \in 0..H.ht
  BY Bounds DEF StreamOK, Extends
<1>2. /\ K.end[h - 1] = H.end[h - 1] /\ H.end[h - 1] \in Nat /\ H.end[h - 1] <= Now(H)
      /\ H.end[h] \in Nat /\ H.end[h] <= Now(H)
      /\ K.end[h] \in Nat /\ K.end[h] <= Now(K)
  BY <1>1, Bounds DEF StreamOK, Extends
<1>3. CASE p <= Now(H)
  <2>1. K.F[w][p] = H.F[w][p]
    BY <1>1, <1>2, <1>3 DEF Extends
  <2>2. p \in H.end[h - 1]..H.end[h]
    <3>1. CASE h < H.ht
      <4>1. h \in 0..(H.ht - 1)
        BY <3>1, <1>1
      <4> QED
        BY <4>1, <1>2 DEF Extends
    <3>2. CASE h = H.ht
      <4>1. H.end[h] = Now(H)
        BY <3>2 DEF StreamOK, ShapeOK
      <4> QED
        BY <4>1, <1>1, <1>2, <1>3
    <3> QED
      BY <3>1, <3>2, <1>1
  <2> QED
    BY <2>1, <2>2, <1>1 DEF EpochOK
<1>4. CASE p > Now(H)
  <2>1. p \in Now(H)..Now(K)
    BY <1>1, <1>2, <1>4
  <2>2. K.F[w][p].session = H.F[w][Now(H)].session
    BY <2>1
  <2>3. h = H.ht
    <3> SUFFICES ASSUME h < H.ht PROVE FALSE
      BY <1>1
    <3>1. h \in 0..(H.ht - 1)
      BY <1>1
    <3>2. K.end[h] = H.end[h]
      BY <3>1 DEF Extends
    <3> QED
      BY <3>2, <1>1, <1>2, <1>4
  <2>4. H.end[h] = Now(H) /\ Now(H) \in H.end[h - 1]..H.end[h]
    BY <2>3, <1>1, <1>2 DEF StreamOK, ShapeOK
  <2> QED
    BY <2>2, <2>4, <1>1 DEF EpochOK
<1> QED
  BY <1>1, <1>2, <1>3, <1>4

(* A session that has just been updated has no epoch yet.                  *)
LEMMA EpochFresh ==
    ASSUME NEW K, StreamOK(K), NEW w, NEW s, s.v_updated_at = K.ht
    PROVE  EpochOK(K, w, s)
<1>1. K.ht \in Nat
  BY Bounds DEF StreamOK
<1> QED
  BY <1>1 DEF EpochOK

(* Events other than answers leave the clock of a session right.           *)
LEMMA ClockKept ==
    ASSUME NEW H, NEW K, StreamOK(H), StreamOK(K), Extends(H, K), NEW w \in Workers,
           K.S[w] = H.S[w], NEW s, NEW t, ClockOK(H, w, s), K.ht = H.ht,
           t.challenge_time_last = s.challenge_time_last,
           Computing(t) => t.id # 0
    PROVE  ClockOK(K, w, t)
<1>1. /\ Now(H) \in Nat /\ Now(K) \in Nat /\ Now(H) <= Now(K) /\ Now(H) \in 0..Now(K)
      /\ Now(H) \in 0..Now(H)
  BY Bounds DEF StreamOK, Extends
<1>2. K.acc[w][Now(H)] = H.acc[w][Now(H)]
  BY <1>1 DEF Extends
<1>3. /\ K.acc[w][Now(H)] <= K.acc[w][Now(K)] /\ K.acc[w][Now(K)] \in Nat
      /\ H.acc[w][Now(H)] \in Nat /\ Len(H.S[w]) \in Nat
  BY <1>1, CountFacts
<1>4. (K.acc[w][Now(K)] + 1)..Len(K.S[w]) \subseteq (H.acc[w][Now(H)] + 1)..Len(H.S[w])
  BY <1>2, <1>3
<1> QED
  BY <1>4 DEF ClockOK

(* A worker that a step is not about.                                      *)
LEMMA TrackKept ==
    ASSUME PalletType, NEW H, NEW K, StreamOK(H), StreamOK(K), Extends(H, K), K.ht = H.ht,
           NEW w \in Workers, TrackOK(H, w), K.S[w] = H.S[w],
           \A p \in Now(H)..Now(K) : K.F[w][p].session = H.F[w][Now(H)].session,
           K.F[w][Now(K)].paused = H.F[w][Now(H)].paused,
           binding'[w] = binding[w],
           \A a \in Accounts : a[2] = w => sessions'[a] = sessions[a]
    PROVE  TrackOK(K, w)'
<1>1. Bound(w)' <=> Bound(w)
  BY DEF Bound
<1>2. Bound(w) => Account(w)' = Account(w) /\ sessions'[Account(w)] = sessions[Account(w)]
  BY AccountFacts DEF Account
<1>3. K.F[w][Now(K)].session = H.F[w][Now(H)].session
  <2>1. Now(K) \in Now(H)..Now(K)
    BY Bounds DEF StreamOK, Extends
  <2> QED
    BY <2>1
<1>4. SessionOK(K, w)'
  BY <1>1, <1>2, <1>3 DEF TrackOK, SessionOK, Computes
<1>5. Bound(w) => EpochOK(K, w, sessions[Account(w)])
  BY EpochKept DEF TrackOK
<1>6. \A a \in Accounts : a[2] = w => ClockOK(K, w, sessions[a])
  BY ClockKept DEF TrackOK, ClockOK
<1>7. \A a \in Accounts : a[2] = w => ClockOK(K, w, sessions'[a])
  BY <1>6
<1> QED
  BY <1>1, <1>2, <1>4, <1>5, <1>7 DEF TrackOK

-----------------------------------------------------------------------------
(* Steps that emit events: each has a longer history.                      *)

(* K is the history H with event e, and everybody but the pallet is where  *)
(* it was.                                                                 *)
Emitted(H, K, e) ==
    /\ StreamOK(K) /\ Extends(H, K) /\ K.ht = H.ht /\ Now(K) = Now(H) + 1
    /\ K.E[Now(K)] = e /\ K.blk[Now(K)] = H.ht
    /\ \A w \in Workers : /\ K.S[w] = H.S[w] /\ K.acc[w][Now(K)] = H.acc[w][Now(H)]
                          /\ StepShape(w, H.F[w][Now(H)], e, K.F[w][Now(K)])

(* An event that an action emits grows the stream and the block.           *)
LEMMA Emission ==
    ASSUME NEW H, StreamOK(H), NEW e, NEW la, MayFollow(H, e, la),
           e.type \notin {"HeartbeatChallenge", "Heartbeat"},
           NEW events, IsBlock(H, events, H.ht)
    PROVE  \E K : Emitted(H, K, e) /\ K.la = la /\ IsBlock(K, Append(events, e), H.ht)
<1>1. PICK K : Grown(H, K, e, la) /\ StreamOK(K)
  BY StreamGrows
<1>2. Extends(H, K) /\ IsBlock(K, Append(events, e), H.ht) /\ Now(K) = Now(H) + 1
  BY <1>1, GrownExtends, GrownBlock, GrownShapeOK
<1>3. Now(H) \in Nat /\ H.ht \in Nat /\ Now(H) \in 0..Now(H)
  BY Bounds DEF StreamOK
<1>4. K.ht = H.ht /\ K.la = la /\ K.blk[Now(K)] = H.ht
  BY <1>1, <1>2, <1>3 DEF Grown, GrownShape
<1>5. K.E[Now(K)] = e
  BY <1>1, <1>2, GrownShapeOK
<1>6. ASSUME NEW w \in Workers
      PROVE  /\ K.S[w] = H.S[w] /\ K.acc[w][Now(K)] = H.acc[w][Now(H)]
             /\ StepShape(w, H.F[w][Now(H)], e, K.F[w][Now(K)])
  <2>1. ~Answers(w, H.F[w][Now(H)], e) /\ ~IsHeartbeat(e, w)
    BY DEF Answers, IsHeartbeat
  <2>2. /\ K.S[w] = H.S[w] /\ K.acc[w][Now(K)] = H.acc[w][Now(H)]
        /\ K.F[w][Now(K)] = ProcessEvent(w, H.F[w][Now(H)], e)
    BY <2>1, <1>1, <1>2 DEF Grown, GrownWorker
  <2>3. /\ H.F[w][Now(H)] \in StateMachines /\ e \in Events
        /\ H.F[w][Now(H)].paused => H.F[w][Now(H)].session # 0
    BY <1>3 DEF StreamOK, MachineOK, MayFollow
  <2> QED
    BY <2>2, <2>3, MachineStep
<1>7. Emitted(H, K, e)
  BY <1>1, <1>2, <1>4, <1>5, <1>6 DEF Emitted
<1> QED
  BY <1>2, <1>4, <1>7

(* Workers that the event is not about stay where they are.                *)
LEMMA OthersKept ==
    ASSUME PalletType, NEW H, StreamOK(H), NEW e, NEW K, Emitted(H, K, e),
           NEW w \in Workers, TrackOK(H, w),
           \/ e.type \notin {"Started", "Stopped", "EnterUnresponsive", "ExitUnresponsive"}
           \/ e.worker # w,
           binding'[w] = binding[w],
           \A a \in Accounts : a[2] = w => sessions'[a] = sessions[a]
    PROVE  TrackOK(K, w)'
<1>1. /\ K.F[w][Now(K)].session = H.F[w][Now(H)].session
      /\ K.F[w][Now(K)].paused = H.F[w][Now(H)].paused
  BY DEF Emitted, StepShape
<1>2. Now(H) \in Nat /\ Now(K) = Now(H) + 1 /\ Now(H) \in 0..Now(H)
  BY Bounds DEF StreamOK, Emitted
<1>3. K.F[w][Now(H)] = H.F[w][Now(H)]
  BY <1>2 DEF Emitted, Extends
<1>4. \A p \in Now(H)..Now(K) : p = Now(H) \/ p = Now(K)
  BY <1>2
<1>5. \A p \in Now(H)..Now(K) : K.F[w][p].session = H.F[w][Now(H)].session
  BY <1>1, <1>3, <1>4
<1> QED
  BY <1>1, <1>5, TrackKept DEF Emitted

(* Registrations and launch are still in the stream.                       *)
LEMMA AddedKept ==
    ASSUME NEW H, NEW K, StreamOK(H), StreamOK(K), Extends(H, K), AddedOK(H),
           addedAt' = addedAt, launchedAt' = launchedAt,
           \A w \in Workers : Bound(w)' => Bound(w)
    PROVE  AddedOK(K)'
<1>1. 1..Now(H) \subseteq 1..Now(K)
  BY Bounds DEF StreamOK, Extends
<1> SUFFICES ASSUME NEW w \in Workers
             PROVE  /\ addedAt[w] # 0 =>
                          \E q \in 1..Now(K) : K.blk[q] >= addedAt[w] /\ K.E[q] = Registered(w)
                    /\ Bound(w)' => launchedAt # 0 /\ addedAt[w] > launchedAt
  BY DEF AddedOK
<1>2. Bound(w)' => launchedAt # 0 /\ addedAt[w] > launchedAt
  BY DEF AddedOK
<1>3. ASSUME addedAt[w] # 0
      PROVE  \E q \in 1..Now(K) : K.blk[q] >= addedAt[w] /\ K.E[q] = Registered(w)
  <2>1. PICK q \in 1..Now(H) : H.blk[q] >= addedAt[w] /\ H.E[q] = Registered(w)
    BY <1>3 DEF AddedOK
  <2>2. q \in 1..Now(K) /\ K.blk[q] = H.blk[q] /\ K.E[q] = H.E[q]
    BY <1>1 DEF Extends
  <2> QED
    BY <2>1, <2>2
<1> QED
  BY <1>2, <1>3

(* K is a later history than H, in the same block, and no heartbeat was    *)
(* accepted in between.                                                    *)
Carried(H, K) ==
    /\ StreamOK(K) /\ Extends(H, K) /\ K.ht = H.ht
    /\ \A w \in Workers : K.S[w] = H.S[w] /\ K.acc[w][Now(K)] = H.acc[w][Now(H)]

(* What a carried history keeps of the one before.                         *)
LEMMA CarriedFacts ==
    ASSUME NEW H, StreamOK(H)
    PROVE  /\ Carried(H, H)
           /\ \A K, e : Emitted(H, K, e) => Carried(H, K)
           /\ \A K, L : Carried(H, K) /\ Carried(K, L) => Carried(H, L)
<1>1. Now(H) \in Nat /\ H.ht \in Nat /\ \A w \in Workers : Len(H.S[w]) \in Nat
  BY Bounds, CountFacts DEF StreamOK
<1>2. Extends(H, H)
  BY <1>1 DEF Extends
<1>3. Carried(H, H)
  BY <1>2 DEF Carried
<1>4. \A K, e : Emitted(H, K, e) => Carried(H, K)
  BY DEF Emitted, Carried
<1>5. ASSUME NEW K, NEW L, Carried(H, K), Carried(K, L) PROVE Carried(H, L)
  <2>1. Extends(H, L)
    BY <1>5, ExtendsTransitive DEF Carried
  <2> QED
    BY <1>5, <2>1 DEF Carried
<1> QED
  BY <1>3, <1>4, <1>5

(* What the parts of the next state's history amount to.                   *)
LEMMA NextHistory ==
    ASSUME NEW H, HistoryOK(H), NEW K, Carried(H, K), K.la = launchedAt',
           IsBlock(K, current', H.ht), height' = height,
           UNCHANGED <<worker, gk, reports>>,
           AddedOK(K)', \A w \in Workers : TrackOK(K, w)'
    PROVE  HistoryOK(K)'
<1>1. StreamOK(H) /\ ObserversOK(H) /\ H.ht = height
  BY DEF HistoryOK
<1>2. StreamOK(K) /\ Extends(H, K) /\ K.ht = H.ht
      /\ \A w \in Workers : K.acc[w][Now(K)] = H.acc[w][Now(H)]
  BY DEF Carried
<1>3. ObserversOK(K)'
  <2>1. ObserversOK(K)
    BY <1>1, <1>2, ObserversKept
  <2> QED
    BY <2>1 DEF ObserversOK
<1> QED
  BY <1>1, <1>2, <1>3 DEF HistoryOK

(* The same for a step that emits nothing.                                 *)
LEMMA QuietHistory ==
    ASSUME NEW H, HistoryOK(H), current' = current, height' = height,
           launchedAt' = launchedAt, UNCHANGED <<worker, gk, reports>>,
           AddedOK(H)', \A w \in Workers : TrackOK(H, w)'
    PROVE  HistoryOK(H)'
<1>1. StreamOK(H) /\ H.ht = height /\ H.la = launchedAt /\ IsBlock(H, current, H.ht)
  BY DEF HistoryOK
<1>2. Carried(H, H)
  BY <1>1, CarriedFacts
<1> QED
  BY <1>1, <1>2, NextHistory

(* A session that an event does not touch keeps its track.                 *)
LEMMA QuietKept ==
    ASSUME PalletType, NEW H, HistoryOK(H), NEW w \in Workers,
           binding'[w] = binding[w],
           \A a \in Accounts : a[2] = w => sessions'[a] = sessions[a]
    PROVE  TrackOK(H, w)'
<1>1. StreamOK(H) /\ TrackOK(H, w)
  BY DEF HistoryOK
<1>2. Extends(H, H)
  BY <1>1, CarriedFacts DEF Carried
<1>3. \A p \in Now(H)..Now(H) : H.F[w][p].session = H.F[w][Now(H)].session
  <2>1. Now(H) \in Nat
    BY <1>1, Bounds DEF StreamOK
  <2>2. \A p \in Now(H)..Now(H) : p = Now(H)
    BY <2>1
  <2> QED
    BY <2>2
<1> QED
  BY <1>1, <1>2, <1>3, TrackKept

(* The clocks of w when one of its sessions is written.                    *)
LEMMA ClocksWritten ==
    ASSUME PalletType, NEW H, NEW K, StreamOK(H), Carried(H, K),
           NEW w \in Workers, TrackOK(H, w),
           NEW a0 \in Accounts, NEW t, sessions' = [sessions EXCEPT ![a0] = t],
           t.challenge_time_last = sessions[a0].challenge_time_last,
           Computing(t) => t.id # 0
    PROVE  \A a \in Accounts : a[2] = w => ClockOK(K, w, sessions'[a])
<1> SUFFICES ASSUME NEW a \in Accounts, a[2] = w PROVE ClockOK(K, w, sessions'[a])
  OBVIOUS
<1>1. sessions \in [Accounts -> SessionType(height, nextId)]
  BY DEF PalletType
<1>2. /\ sessions'[a].challenge_time_last = sessions[a].challenge_time_last
      /\ Computing(sessions'[a]) => sessions'[a].id # 0
  <2>1. CASE a = a0
    BY <1>1, <2>1
  <2>2. CASE a # a0
    BY <1>1, <2>2 DEF TrackOK, ClockOK
  <2> QED
    BY <2>1, <2>2
<1>3. ClockOK(H, w, sessions[a])
  BY DEF TrackOK
<1> QED
  BY <1>2, <1>3, ClockKept DEF Carried

(* One event appended to the block.                                        *)
LEMMA EmitOne ==
    ASSUME NEW H, HistoryOK(H), NEW e \in Events, Emit(<<e>>)
    PROVE  current' = Append(current, e)
  BY DEF HistoryOK, IsBlock, Emit

(* A worker registers.                                                     *)
LEMMA HistoryRegisterWorker ==
    ASSUME PalletType, NEW H, HistoryOK(H), NEW w \in Workers, RegisterWorker(w)
    PROVE  \E K : HistoryOK(K)'
<1> DEFINE e == Registered(w)
<1>1. /\ StreamOK(H) /\ H.ht = height /\ H.la = launchedAt /\ AddedOK(H)
      /\ IsBlock(H, current, H.ht)
  BY DEF HistoryOK
<1>2. /\ addedAt' = [addedAt EXCEPT ![w] = IF @ = 0 THEN height ELSE @]
      /\ UNCHANGED <<height, launchedAt, binding, sessions, worker, gk, reports>>
      /\ Emit(<<e>>)
  BY DEF RegisterWorker
<1>3. e \in Events /\ e.type = "Registered" /\ e.worker = w
  BY DEF Events, Registered
<1>4. MayFollow(H, e, launchedAt)
  BY <1>1, <1>3 DEF MayFollow, Launched
<1>5. current' = Append(current, e)
  BY <1>2, <1>3, EmitOne
<1> HIDE DEF e
<1>6. PICK K : Emitted(H, K, e) /\ K.la = launchedAt /\ IsBlock(K, Append(current, e), H.ht)
  BY <1>1, <1>3, <1>4, Emission
<1>7. \A v \in Workers : TrackOK(K, v)'
  BY <1>1, <1>2, <1>3, <1>6, OthersKept DEF HistoryOK
<1>8. AddedOK(K)'
  <2>1. \A v \in Workers : Bound(v)' <=> Bound(v)
    BY <1>2 DEF Bound
  <2>2. addedAt \in [Workers -> Nat] /\ height \in Nat
    BY ConstantsAssumption DEF PalletType
  <2>3. StreamOK(K) /\ Extends(H, K) /\ Now(K) = Now(H) + 1 /\ Now(H) \in Nat
        /\ K.E[Now(K)] = e /\ K.blk[Now(K)] = height
    BY <1>1, <1>6, Bounds DEF Emitted, StreamOK
  <2> SUFFICES ASSUME NEW v \in Workers
               PROVE  /\ addedAt'[v] # 0 =>
                            \E q \in 1..Now(K) : K.blk[q] >= addedAt'[v] /\ K.E[q] = Registered(v)
                      /\ Bound(v) => launchedAt # 0 /\ addedAt'[v] > launchedAt
    BY <1>2, <2>1 DEF AddedOK
  <2>4. Bound(v) => addedAt'[v] = addedAt[v]
    <3>1. Bound(v) => addedAt[v] # 0 /\ launchedAt \in Nat
      BY <1>1, <2>2 DEF AddedOK, PalletType
    <3> QED
      BY <3>1, <1>2, <2>2
  <2>5. Bound(v) => launchedAt # 0 /\ addedAt'[v] > launchedAt
    BY <1>1, <2>4 DEF AddedOK
  <2>6. CASE addedAt'[v] = addedAt[v]
    <3> SUFFICES ASSUME addedAt[v] # 0
                 PROVE  \E q \in 1..Now(K) : K.blk[q] >= addedAt[v] /\ K.E[q] = Registered(v)
      BY <2>5, <2>6
    <3>1. PICK q \in 1..Now(H) : H.blk[q] >= addedAt[v] /\ H.E[q] = Registered(v)
      BY <1>1 DEF AddedOK
    <3>2. q \in 1..Now(K) /\ K.blk[q] = H.blk[q] /\ K.E[q] = H.E[q]
      BY <2>3 DEF Extends
    <3> QED
      BY <3>1, <3>2
  <2>7. CASE addedAt'[v] # addedAt[v]
    <3>1. v = w /\ addedAt'[v] = height
      BY <1>2, <2>2, <2>7
    <3>2. Now(K) \in 1..Now(K) /\ K.blk[Now(K)] >= height /\ K.E[Now(K)] = Registered(v)
      BY <2>2, <2>3, <3>1 DEF e
    <3> QED
      BY <3>1, <3>2, <2>5
  <2> QED
    BY <2>6, <2>7
<1>9. Carried(H, K)
  BY <1>1, <1>6, CarriedFacts
<1> QED
  BY <1>1, <1>2, <1>5, <1>6, <1>7, <1>8, <1>9, NextHistory

(* The gatekeeper is launched.                                             *)
LEMMA HistoryLaunchGatekeeper ==
    ASSUME PalletType, NEW H, HistoryOK(H), LaunchGatekeeper
    PROVE  \E K : HistoryOK(K)'
<1> DEFINE e == Launched
<1>1. /\ StreamOK(H) /\ H.ht = height /\ H.la = launchedAt /\ AddedOK(H)
      /\ IsBlock(H, current, H.ht)
  BY DEF HistoryOK
<1>2. /\ launchedAt = 0 /\ launchedAt' = height /\ Emit(<<e>>)
      /\ UNCHANGED <<height, addedAt, binding, sessions, worker, gk, reports>>
  BY DEF LaunchGatekeeper
<1>3. e \in Events /\ e.type = "Launched"
  BY DEF Events, Launched
<1>4. MayFollow(H, e, height)
  BY <1>1, <1>2, <1>3 DEF MayFollow
<1>5. current' = Append(current, e)
  BY <1>2, <1>3, EmitOne
<1> HIDE DEF e
<1>6. PICK K : Emitted(H, K, e) /\ K.la = height /\ IsBlock(K, Append(current, e), H.ht)
  BY <1>1, <1>3, <1>4, Emission
<1>7. \A v \in Workers : TrackOK(K, v)'
  BY <1>1, <1>2, <1>3, <1>6, OthersKept DEF HistoryOK
<1>8. AddedOK(K)'
  <2>1. \A v \in Workers : ~Bound(v)' /\ ~Bound(v)
    BY <1>1, <1>2 DEF Bound, AddedOK
  <2>2. StreamOK(K) /\ Extends(H, K) /\ 1..Now(H) \subseteq 1..Now(K)
    BY <1>1, <1>6, Bounds DEF Emitted, StreamOK
  <2> SUFFICES ASSUME NEW v \in Workers, addedAt[v] # 0
               PROVE  \E q \in 1..Now(K) : K.blk[q] >= addedAt[v] /\ K.E[q] = Registered(v)
    BY <1>2, <2>1 DEF AddedOK
  <2>3. PICK q \in 1..Now(H) : H.blk[q] >= addedAt[v] /\ H.E[q] = Registered(v)
    BY <1>1 DEF AddedOK
  <2>4. q \in 1..Now(K) /\ K.blk[q] = H.blk[q] /\ K.E[q] = H.E[q]
    BY <2>2 DEF Extends
  <2> QED
    BY <2>3, <2>4
<1>9. Carried(H, K)
  BY <1>1, <1>6, CarriedFacts
<1> QED
  BY <1>1, <1>2, <1>5, <1>6, <1>7, <1>8, <1>9, NextHistory

(* A worker is bound: a session that starts anew is updated now.           *)
LEMMA HistoryBind ==
    ASSUME PalletType, NEW H, HistoryOK(H), NEW w \in Workers, NEW p \in Pools, Bind(p, w)
    PROVE  \E K : HistoryOK(K)'
<1> DEFINE a == <<p, w>>
           t == [NoSession EXCEPT !.state = "Ready", !.v_updated_at = height,
                                  !.stake = sessions[a].stake]
<1>1. StreamOK(H) /\ H.ht = height /\ H.la = launchedAt /\ AddedOK(H) /\ TrackOK(H, w)
  BY DEF HistoryOK
<1>2. /\ binding' = [binding EXCEPT ![w] = p] /\ sessions' = [sessions EXCEPT ![a] = t]
      /\ UNCHANGED <<height, current, addedAt, launchedAt, worker, gk, reports>>
      /\ ~Bound(w) /\ IsWorkerRegisteredAfterGkLaunched(w)
  BY DEF Bind
<1>3. t.state = "Ready" /\ t.v_updated_at = height /\ t.challenge_time_last = 0
  BY DEF NoSession
<1>4. a \in Accounts /\ a[1] = p /\ a[2] = w /\ p # NoPool
  BY ConstantsAssumption DEF Accounts
<1>5. binding \in [Workers -> Pools \cup {NoPool}] /\ sessions \in [Accounts -> SessionType(height, nextId)]
  BY DEF PalletType
<1> HIDE DEF t
<1>6. ASSUME NEW v \in Workers, v # w PROVE TrackOK(H, v)'
  <2>1. \A b \in Accounts : b[2] = v => sessions'[b] = sessions[b]
    BY <1>2, <1>4, <1>5, <1>6
  <2>2. binding'[v] = binding[v]
    BY <1>2, <1>5, <1>6
  <2> QED
    BY <2>1, <2>2, QuietKept
<1>7. TrackOK(H, w)'
  <2>1. Bound(w)' /\ Account(w)' = a /\ sessions'[a] = t
    BY <1>2, <1>4, <1>5 DEF Bound, Account
  <2>2. ~Computing(t)
    BY <1>3 DEF Computing
  <2>3. H.F[w][Now(H)].session = 0 /\ ~H.F[w][Now(H)].paused
    BY <1>1, <1>2 DEF TrackOK, SessionOK, Computes
  <2>4. SessionOK(H, w)'
    BY <2>1, <2>2, <2>3 DEF SessionOK, Computes
  <2>5. EpochOK(H, w, t)
    BY <1>1, <1>3, EpochFresh
  <2>6. ClockOK(H, w, t)
    <3>1. H.S[w] \in Seq(Answer) /\ H.acc[w][Now(H)] \in Nat /\ H.ht \in Nat \ {0}
      BY <1>1, CountFacts, Bounds DEF StreamOK
    <3>2. \A j \in 1..Len(H.S[w]) : H.S[w][j].block \in Nat \ {0}
      <4>1. \A j \in 1..Len(H.S[w]) : H.S[w][j] \in Answer
        BY <3>1, ElementOfSeq
      <4> QED
        BY <4>1 DEF Answer
    <3>3. (H.acc[w][Now(H)] + 1)..Len(H.S[w]) \subseteq 1..Len(H.S[w])
      BY <3>1
    <3>4. \A j \in (H.acc[w][Now(H)] + 1)..Len(H.S[w]) : 0 < H.S[w][j].block
      BY <3>2, <3>3
    <3> QED
      BY <1>3, <2>2, <3>1, <3>4 DEF ClockOK
  <2>7. \A b \in Accounts : b[2] = w => ClockOK(H, w, sessions'[b])
    <3> SUFFICES ASSUME NEW b \in Accounts, b[2] = w, b # a PROVE ClockOK(H, w, sessions'[b])
      BY <2>1, <2>6
    <3>1. sessions'[b] = sessions[b]
      BY <1>2, <1>5
    <3> QED
      BY <3>1, <1>1 DEF TrackOK
  <2> QED
    BY <2>1, <2>4, <2>5, <2>7 DEF TrackOK
<1>8. AddedOK(H)'
  <2>1. \A v \in Workers : v # w => (Bound(v)' <=> Bound(v))
    BY <1>2, <1>5 DEF Bound
  <2>2. launchedAt # 0 /\ addedAt[w] > launchedAt
    BY <1>2 DEF IsWorkerRegisteredAfterGkLaunched
  <2> QED
    BY <1>1, <1>2, <2>1, <2>2 DEF AddedOK
<1>9. HistoryOK(H)'
  BY <1>2, <1>6, <1>7, <1>8, QuietHistory
<1> QED
  BY <1>9

(* A stopped session is reclaimed.                                         *)
LEMMA HistoryReclaim ==
    ASSUME PalletType, NEW H, HistoryOK(H), NEW a \in Accounts, Reclaim(a)
    PROVE  \E K : HistoryOK(K)'
<1> DEFINE s == sessions[a]
           t == ReclaimSession(s)
<1>1. StreamOK(H) /\ H.ht = height /\ H.la = launchedAt /\ AddedOK(H)
      /\ \A w \in Workers : TrackOK(H, w)
  BY DEF HistoryOK
<1>2. /\ sessions' = [sessions EXCEPT ![a] = t]
      /\ UNCHANGED <<height, current, addedAt, launchedAt, binding, worker, gk, reports>>
      /\ s.state = "WorkerCoolingDown"
  BY DEF Reclaim, PalletType
<1>3. sessions \in [Accounts -> SessionType(height, nextId)] /\ s \in SessionType(height, nextId)
  BY DEF PalletType
<1>4. /\ t.state = "Ready" /\ t.id = s.id /\ t.v_updated_at = s.v_updated_at
      /\ t.challenge_time_last = s.challenge_time_last
  BY <1>3 DEF ReclaimSession, SessionType
<1>5. ~Computing(s) /\ ~Computing(t)
  BY <1>2, <1>4 DEF Computing
<1> HIDE DEF t
<1>6. Carried(H, H)
  BY <1>1, CarriedFacts
<1>7. ASSUME NEW w \in Workers PROVE TrackOK(H, w)'
  <2>1. Bound(w)' <=> Bound(w)
    BY <1>2 DEF Bound
  <2>2. Account(w)' = Account(w)
    BY <1>2 DEF Account
  <2>3. Bound(w) => Account(w) \in Accounts
    BY AccountFacts
  <2>4. \A b \in Accounts : /\ Computing(sessions'[b]) <=> Computing(sessions[b])
                            /\ sessions'[b].id = sessions[b].id
                            /\ sessions'[b].v_updated_at = sessions[b].v_updated_at
                            /\ Computing(sessions[b]) => sessions'[b] = sessions[b]
    BY <1>2, <1>3, <1>4, <1>5
  <2>5. Computes(w)' <=> Computes(w)
    BY <2>1, <2>2, <2>3, <2>4 DEF Computes
  <2>6. Computes(w) => sessions'[Account(w)] = sessions[Account(w)]
    BY <2>3, <2>4 DEF Computes
  <2>7. SessionOK(H, w)'
    BY <1>1, <2>2, <2>5, <2>6 DEF TrackOK, SessionOK
  <2>8. Bound(w) => EpochOK(H, w, sessions'[Account(w)])
    BY <1>1, <2>3, <2>4 DEF TrackOK, EpochOK
  <2>9. \A b \in Accounts : b[2] = w => ClockOK(H, w, sessions'[b])
    BY <1>1, <1>2, <1>4, <1>5, <1>6, ClocksWritten
  <2> QED
    BY <2>1, <2>2, <2>7, <2>8, <2>9 DEF TrackOK
<1>8. AddedOK(H)'
  BY <1>1, <1>2 DEF AddedOK, Bound
<1>9. HistoryOK(H)'
  BY <1>2, <1>7, <1>8, QuietHistory
<1> QED
  BY <1>9

(* Stopping the session of w, whether w stays bound or not.                *)
LEMMA HistoryStop ==
    ASSUME PalletType, NEW H, HistoryOK(H), NEW w \in Workers,
           Bound(w), Computing(sessions[Account(w)]), Emit(<<Stopped(w)>>),
           sessions' = [sessions EXCEPT ![Account(w)] = StopSession(@)],
           binding' = binding \/ binding' = [binding EXCEPT ![w] = NoPool],
           UNCHANGED <<height, addedAt, launchedAt, worker, gk, reports>>
    PROVE  \E K : HistoryOK(K)'
<1> DEFINE e == Stopped(w)
           a == Account(w)
           s == sessions[a]
           t == StopSession(s)
<1>1. /\ StreamOK(H) /\ H.ht = height /\ H.la = launchedAt /\ AddedOK(H)
      /\ IsBlock(H, current, H.ht) /\ \A v \in Workers : TrackOK(H, v)
  BY DEF HistoryOK
<1>2. a \in Accounts /\ a[2] = w
  BY AccountFacts
<1>3. /\ sessions \in [Accounts -> SessionType(height, nextId)] /\ s \in SessionType(height, nextId)
      /\ binding \in [Workers -> Pools \cup {NoPool}]
  BY <1>2 DEF PalletType
<1>4. sessions' = [sessions EXCEPT ![a] = t] /\ sessions'[a] = t
  BY <1>2, <1>3
<1>5. /\ t.state = "WorkerCoolingDown" /\ t.id = s.id /\ t.v_updated_at = s.v_updated_at
      /\ t.challenge_time_last = s.challenge_time_last
  BY <1>3 DEF StopSession, SessionType
<1>6. ~Computing(t)
  BY <1>5 DEF Computing
<1>7. e \in Events /\ e.type = "Stopped" /\ e.worker = w
  BY DEF Events, Stopped
<1>8. H.F[w][Now(H)].session # 0
  BY <1>1, <1>2 DEF TrackOK, SessionOK, Computes, ClockOK
<1>9. current' = Append(current, e)
  BY <1>7, EmitOne
<1>10. MayFollow(H, e, launchedAt)
  BY <1>1, <1>7, <1>8 DEF MayFollow, Launched
<1> HIDE DEF e, t
<1>11. PICK K : Emitted(H, K, e) /\ K.la = launchedAt /\ IsBlock(K, Append(current, e), H.ht)
  BY <1>1, <1>7, <1>10, Emission
<1>12. Carried(H, K)
  BY <1>1, <1>11, CarriedFacts
<1>13. ASSUME NEW v \in Workers, v # w PROVE TrackOK(K, v)'
  <2>1. \A b \in Accounts : b[2] = v => sessions'[b] = sessions[b]
    BY <1>2, <1>3, <1>4, <1>13
  <2>2. binding'[v] = binding[v]
    BY <1>3, <1>13
  <2> QED
    BY <2>1, <2>2, <1>1, <1>7, <1>11, <1>13, OthersKept
<1>14. TrackOK(K, w)'
  <2>1. Bound(w)' => Account(w)' = a
    BY <1>3 DEF Bound, Account
  <2>2. ~Computes(w)'
    BY <2>1, <1>4, <1>6 DEF Computes
  <2>3. K.F[w][Now(K)].session = 0 /\ ~K.F[w][Now(K)].paused
    BY <1>7, <1>11 DEF Emitted, StepShape
  <2>4. SessionOK(K, w)'
    BY <2>2, <2>3 DEF SessionOK
  <2>5. EpochOK(K, w, t)
    <3>1. /\ Now(H) \in Nat /\ Now(K) = Now(H) + 1 /\ Now(H) \in 0..Now(H)
          /\ StreamOK(K) /\ Extends(H, K) /\ K.ht = H.ht
      BY <1>1, <1>11, Bounds DEF StreamOK, Emitted
    <3>2. \A p \in Now(H)..Now(K) : p = Now(H) \/ p = Now(K)
      BY <3>1
    <3>3. K.F[w][Now(H)] = H.F[w][Now(H)]
      BY <3>1 DEF Extends
    <3>4. EpochOK(H, w, s)
      BY <1>1 DEF TrackOK
    <3> HIDE DEF s
    <3> QED
      BY <1>1, <1>5, <2>3, <3>1, <3>2, <3>3, <3>4, EpochKept
  <2>6. \A b \in Accounts : b[2] = w => ClockOK(K, w, sessions'[b])
    BY <1>1, <1>2, <1>4, <1>5, <1>6, <1>12, ClocksWritten
  <2> QED
    BY <2>1, <2>4, <2>5, <2>6, <1>4 DEF TrackOK
<1>15. AddedOK(K)'
  <2>1. \A v \in Workers : Bound(v)' => Bound(v)
    BY <1>3 DEF Bound
  <2> QED
    BY <1>1, <1>12, <2>1, AddedKept DEF Carried
<1> QED
  BY <1>1, <1>9, <1>11, <1>12, <1>13, <1>14, <1>15, NextHistory

(* A pool owner stops a worker.                                            *)
LEMMA HistoryStopComputing ==
    ASSUME PalletType, NEW H, HistoryOK(H), NEW w \in Workers, StopComputing(w)
    PROVE  \E K : HistoryOK(K)'
  BY HistoryStop DEF StopComputing

(* A worker is unbound.                                                    *)
LEMMA HistoryUnbind ==
    ASSUME PalletType, NEW H, HistoryOK(H), NEW w \in Workers, Unbind(w)
    PROVE  \E K : HistoryOK(K)'
<1>1. /\ Bound(w) /\ binding' = [binding EXCEPT ![w] = NoPool]
      /\ UNCHANGED <<height, addedAt, launchedAt, worker, gk, reports>>
  BY DEF Unbind
<1>2. CASE Computing(sessions[Account(w)])
  <2>1. sessions' = [sessions EXCEPT ![Account(w)] = StopSession(@)] /\ Emit(<<Stopped(w)>>)
    BY <1>2 DEF Unbind
  <2> QED
    BY <1>1, <1>2, <2>1, HistoryStop
<1>3. CASE ~Computing(sessions[Account(w)])
  <2>1. sessions' = sessions /\ current' = current
    BY <1>3 DEF Unbind
  <2>2. binding \in [Workers -> Pools \cup {NoPool}]
    BY DEF PalletType
  <2>3. \A v \in Workers : Bound(v)' => Bound(v)
    BY <1>1, <2>2 DEF Bound
  <2>4. AddedOK(H)'
    BY <1>1, <2>3 DEF HistoryOK, AddedOK
  <2>5. ASSUME NEW v \in Workers, v # w PROVE TrackOK(H, v)'
    BY <1>1, <2>1, <2>2, <2>5, QuietKept
  <2>6. TrackOK(H, w)'
    <3>1. ~Bound(w)'
      BY <1>1, <2>2 DEF Bound
    <3>2. TrackOK(H, w)
      BY DEF HistoryOK
    <3> QED
      BY <1>3, <2>1, <3>1, <3>2 DEF TrackOK, SessionOK, Computes
  <2>7. HistoryOK(H)'
    BY <1>1, <2>1, <2>4, <2>5, <2>6, QuietHistory
  <2> QED
    BY <2>7
<1> QED
  BY <1>2, <1>3

(* The gatekeeper knows of a worker that is bound.                         *)
LEMMA BoundIsKnown ==
    ASSUME PalletType, NEW H, HistoryOK(H), NEW w \in Workers, Bound(w)
    PROVE  KnownAt(H, w, Now(H))
<1>1. H.la = launchedAt /\ launchedAt # 0 /\ addedAt[w] > launchedAt
  BY DEF HistoryOK, AddedOK
<1>2. addedAt[w] \in Nat /\ launchedAt \in Nat /\ addedAt[w] # 0
  BY <1>1, ConstantsAssumption DEF PalletType
<1>3. PICK q \in 1..Now(H) : H.blk[q] >= addedAt[w] /\ H.E[q] = Registered(w)
  BY <1>2 DEF HistoryOK, AddedOK
<1>4. H.blk[q] \in 1..H.ht /\ H.ht \in Nat
  BY DEF HistoryOK, StreamOK, ShapeOK
<1>5. H.blk[q] >= H.la
  BY <1>1, <1>2, <1>3, <1>4
<1> QED
  BY <1>1, <1>3, <1>5 DEF KnownAt

(* Starting a session of w, at the end of a later stream K1.               *)
LEMMA HistoryStart ==
    ASSUME PalletType, NEW H, HistoryOK(H), NEW w \in Workers, Bound(w),
           NEW K1, Carried(H, K1), K1.la = launchedAt, KnownAt(K1, w, Now(K1)),
           NEW events, IsBlock(K1, events, H.ht),
           current' = Append(events, Started(w, nextId)),
           \A v \in Workers : v # w =>
              /\ \A p \in Now(H)..Now(K1) : K1.F[v][p].session = H.F[v][Now(H)].session
              /\ K1.F[v][Now(K1)].paused = H.F[v][Now(H)].paused,
           NEW t, sessions' = [sessions EXCEPT ![Account(w)] = t],
           t.state = "WorkerIdle", t.v_updated_at = height, t.id = nextId,
           t.challenge_time_last = sessions[Account(w)].challenge_time_last,
           UNCHANGED <<height, addedAt, launchedAt, binding, worker, gk, reports>>
    PROVE  \E K : HistoryOK(K)'
<1> DEFINE e == Started(w, nextId)
           a == Account(w)
<1>1. /\ StreamOK(H) /\ H.ht = height /\ H.la = launchedAt /\ AddedOK(H)
      /\ \A v \in Workers : TrackOK(H, v)
  BY DEF HistoryOK
<1>2. a \in Accounts /\ a[2] = w
  BY AccountFacts
<1>3. /\ sessions \in [Accounts -> SessionType(height, nextId)] /\ nextId \in Nat \ {0}
      /\ sessions'[a] = t
  BY <1>2 DEF PalletType
<1>4. e \in Events /\ e.type = "Started" /\ e.worker = w /\ e.id = nextId
  BY <1>3 DEF Events, Started
<1>5. StreamOK(K1) /\ K1.ht = H.ht
  BY DEF Carried
<1>6. MayFollow(K1, e, launchedAt)
  BY <1>4 DEF MayFollow, Launched
<1> HIDE DEF e
<1>7. PICK K : Emitted(K1, K, e) /\ K.la = launchedAt /\ IsBlock(K, Append(events, e), H.ht)
  BY <1>4, <1>5, <1>6, Emission
<1>8. Carried(K1, K) /\ Carried(H, K)
  BY <1>1, <1>5, <1>7, CarriedFacts
<1>9. ASSUME NEW v \in Workers, v # w PROVE TrackOK(K, v)'
  <2>1. \A b \in Accounts : b[2] = v => sessions'[b] = sessions[b]
    BY <1>2, <1>3, <1>9
  <2>2. /\ K.F[v][Now(K)].session = K1.F[v][Now(K1)].session
        /\ K.F[v][Now(K)].paused = K1.F[v][Now(K1)].paused
    BY <1>4, <1>7, <1>9 DEF Emitted, StepShape
  <2>3. /\ Now(H) \in Nat /\ Now(K1) \in Nat /\ Now(K) = Now(K1) + 1 /\ Now(H) <= Now(K1)
    BY <1>1, <1>5, <1>7, Bounds DEF StreamOK, Emitted, Carried, Extends
  <2>4. ASSUME NEW p \in Now(H)..Now(K)
        PROVE  K.F[v][p].session = H.F[v][Now(H)].session
    <3>1. CASE p = Now(K)
      <4>1. Now(K1) \in Now(H)..Now(K1)
        BY <2>3
      <4> QED
        BY <3>1, <4>1, <2>2, <1>9
    <3>2. CASE p # Now(K)
      <4>1. p \in Now(H)..Now(K1) /\ p \in 0..Now(K1)
        BY <3>2, <2>3
      <4>2. K.F[v][p] = K1.F[v][p]
        BY <4>1, <1>8 DEF Carried, Extends
      <4> QED
        BY <4>1, <4>2, <1>9
    <3> QED
      BY <3>1, <3>2
  <2>5. K.F[v][Now(K)].paused = H.F[v][Now(H)].paused
    BY <2>2, <1>9
  <2> QED
    BY <2>1, <2>4, <2>5, <1>1, <1>8, TrackKept DEF Carried
<1>10. TrackOK(K, w)'
  <2>1. Bound(w)' /\ Account(w)' = a
    BY DEF Bound, Account
  <2>2. Computing(t)
    BY DEF Computing
  <2>3. Computes(w)'
    BY <2>1, <2>2, <1>3 DEF Computes
  <2>4. K.F[w][Now(K)].session = nextId /\ ~K.F[w][Now(K)].paused
    BY <1>4, <1>7 DEF Emitted, StepShape
  <2>5. SessionOK(K, w)'
    BY <2>1, <2>3, <2>4, <1>3 DEF SessionOK
  <2>6. EpochOK(K, w, t)
    BY <1>1, <1>8, EpochFresh DEF Carried
  <2>7. \A b \in Accounts : b[2] = w => ClockOK(K, w, sessions'[b])
    BY <1>1, <1>2, <1>3, <1>8, ClocksWritten
  <2> QED
    BY <2>1, <2>5, <2>6, <2>7, <1>3 DEF TrackOK
<1>11. AddedOK(K)'
  <2>1. \A v \in Workers : Bound(v)' => Bound(v)
    BY DEF Bound
  <2> QED
    BY <1>1, <1>8, <2>1, AddedKept DEF Carried
<1>12. IsBlock(K, current', H.ht)
  BY <1>7 DEF e
<1> QED
  BY <1>1, <1>7, <1>8, <1>9, <1>10, <1>11, <1>12, NextHistory

(* A session starts.                                                       *)
LEMMA HistoryStartComputing ==
    ASSUME PalletType, NEW H, HistoryOK(H), NEW w \in Workers, StartComputing(w)
    PROVE  \E K : HistoryOK(K)'
<1> DEFINE s == sessions[Account(w)]
           t == StartSession(s)
<1>1. /\ Bound(w) /\ sessions' = [sessions EXCEPT ![Account(w)] = StartSession(@)]
      /\ Emit(<<Started(w, nextId)>>)
      /\ UNCHANGED <<height, addedAt, launchedAt, binding, worker, gk, reports>>
  BY DEF StartComputing
<1>2. /\ StreamOK(H) /\ H.ht = height /\ H.la = launchedAt
      /\ IsBlock(H, current, H.ht) /\ Now(H) \in Nat
  BY Bounds DEF HistoryOK, StreamOK
<1>3. Account(w) \in Accounts
  BY <1>1, AccountFacts
<1>4. /\ s \in SessionType(height, nextId) /\ nextId \in Nat \ {0}
      /\ sessions \in [Accounts -> SessionType(height, nextId)]
  BY <1>3 DEF PalletType
<1>5. /\ t.state = "WorkerIdle" /\ t.v_updated_at = height /\ t.id = nextId
      /\ t.challenge_time_last = s.challenge_time_last
  BY <1>4 DEF StartSession, SessionType
<1>6. Started(w, nextId) \in Events
  BY <1>4 DEF Events
<1>7. current' = Append(current, Started(w, nextId))
  BY <1>1, <1>6, EmitOne
<1>8. \A v \in Workers : v # w =>
         /\ \A p \in Now(H)..Now(H) : H.F[v][p].session = H.F[v][Now(H)].session
         /\ H.F[v][Now(H)].paused = H.F[v][Now(H)].paused
  <2>1. \A p \in Now(H)..Now(H) : p = Now(H)
    BY <1>2
  <2> QED
    BY <2>1
<1>9. sessions' = [sessions EXCEPT ![Account(w)] = t]
  BY <1>1, <1>3, <1>4
<1>10. Carried(H, H) /\ KnownAt(H, w, Now(H))
  BY <1>1, <1>2, CarriedFacts, BoundIsKnown
<1> HIDE DEF t
<1> QED
  BY <1>1, <1>2, <1>5, <1>7, <1>8, <1>9, <1>10, HistoryStart

(* A session stops and starts in one call: two events.                     *)
LEMMA HistoryRestartComputing ==
    ASSUME PalletType, NEW H, HistoryOK(H), NEW w \in Workers, RestartComputing(w)
    PROVE  \E K : HistoryOK(K)'
<1> DEFINE s == sessions[Account(w)]
           t == StartSession(ReclaimSession(StopSession(s)))
           e == Stopped(w)
           f == Started(w, nextId)
<1>1. /\ Bound(w) /\ Computing(s)
      /\ sessions' = [sessions EXCEPT ![Account(w)] =
                         StartSession(ReclaimSession(StopSession(@)))]
      /\ current' = current \o <<e, f>>
      /\ UNCHANGED <<height, addedAt, launchedAt, binding, worker, gk, reports>>
  BY DEF RestartComputing, Emit
<1>2. /\ StreamOK(H) /\ H.ht = height /\ H.la = launchedAt
      /\ IsBlock(H, current, H.ht) /\ Now(H) \in Nat /\ Now(H) \in 0..Now(H)
      /\ TrackOK(H, w)
  BY Bounds DEF HistoryOK, StreamOK
<1>3. Account(w) \in Accounts /\ Account(w)[2] = w
  BY <1>1, AccountFacts
<1>4. /\ s \in SessionType(height, nextId) /\ nextId \in Nat \ {0}
      /\ sessions \in [Accounts -> SessionType(height, nextId)]
  BY <1>3 DEF PalletType
<1>5. /\ t.state = "WorkerIdle" /\ t.v_updated_at = height /\ t.id = nextId
      /\ t.challenge_time_last = s.challenge_time_last
  BY <1>4 DEF StartSession, ReclaimSession, StopSession, SessionType
<1>6. e \in Events /\ f \in Events /\ e.type = "Stopped" /\ e.worker = w
  BY <1>4 DEF Events, Stopped
<1>7. H.F[w][Now(H)].session # 0
  BY <1>1, <1>2, <1>3 DEF TrackOK, SessionOK, Computes, ClockOK
<1>8. MayFollow(H, e, launchedAt)
  BY <1>2, <1>6, <1>7 DEF MayFollow, Launched
<1>9. sessions' = [sessions EXCEPT ![Account(w)] = t]
  BY <1>1, <1>3, <1>4
<1> HIDE DEF t, e, f
<1>10. current' = Append(Append(current, e), f)
  <2>1. current \in Seq(Events)
    BY <1>2 DEF IsBlock
  <2> QED
    BY <1>1, <1>6, <2>1
<1>11. PICK K1 : Emitted(H, K1, e) /\ K1.la = launchedAt /\ IsBlock(K1, Append(current, e), H.ht)
  BY <1>2, <1>6, <1>8, Emission
<1>12. Carried(H, K1)
  BY <1>2, <1>11, CarriedFacts
<1>13. Now(K1) = Now(H) + 1 /\ \A p \in Now(H)..Now(K1) : p = Now(H) \/ p = Now(K1)
  BY <1>2, <1>11 DEF Emitted
<1>14. \A v \in Workers : v # w =>
         /\ \A p \in Now(H)..Now(K1) : K1.F[v][p].session = H.F[v][Now(H)].session
         /\ K1.F[v][Now(K1)].paused = H.F[v][Now(H)].paused
  <2> SUFFICES ASSUME NEW v \in Workers, v # w
               PROVE  /\ \A p \in Now(H)..Now(K1) : K1.F[v][p].session = H.F[v][Now(H)].session
                      /\ K1.F[v][Now(K1)].paused = H.F[v][Now(H)].paused
    OBVIOUS
  <2>1. /\ K1.F[v][Now(K1)].session = H.F[v][Now(H)].session
        /\ K1.F[v][Now(K1)].paused = H.F[v][Now(H)].paused
    BY <1>6, <1>11 DEF Emitted, StepShape
  <2>2. K1.F[v][Now(H)] = H.F[v][Now(H)]
    BY <1>2, <1>11 DEF Emitted, Extends
  <2> QED
    BY <2>1, <2>2, <1>13
<1>15. KnownAt(K1, w, Now(K1))
  <2>1. KnownAt(H, w, Now(H))
    BY <1>1, BoundIsKnown
  <2>2. PICK q \in 1..Now(H) : H.blk[q] >= H.la /\ H.E[q] = Registered(w)
    BY <2>1 DEF KnownAt
  <2>3. q \in 1..Now(K1) /\ K1.blk[q] = H.blk[q] /\ K1.E[q] = H.E[q]
    BY <1>2, <1>11, <1>13 DEF Emitted, Extends
  <2> QED
    BY <1>2, <1>11, <2>1, <2>2, <2>3 DEF KnownAt
<1> DEFINE events == Append(current, e)
<1>16. current' = Append(events, Started(w, nextId)) /\ IsBlock(K1, events, H.ht)
  BY <1>10, <1>11 DEF f
<1> HIDE DEF events
<1>17. Bound(w) /\ UNCHANGED <<height, addedAt, launchedAt, binding, worker, gk, reports>>
  BY <1>1
<1>18. K1.la = launchedAt
  BY <1>11
<1> QED
  BY ZenonT(60), <1>5, <1>9, <1>12, <1>14, <1>15, <1>16, <1>17, <1>18, HistoryStart

(* The heartbeat that comes next from w.                                   *)
NextHeartbeat(H, w, hb) ==
    /\ hb \in Answer /\ hb = H.S[w][H.acc[w][Now(H)] + 1]
    /\ H.acc[w][Now(H)] + 1 \in 1..Len(H.S[w])
    /\ hb.block \in 1..(H.ht - 1)

(* The first heartbeat that a worker has not delivered is the next one.    *)
LEMMA HeartbeatFacts ==
    ASSUME NEW H, StreamOK(H), NEW w \in Workers, NEW st, WorkerOK(H, w, st), st.out # << >>
    PROVE  NextHeartbeat(H, w, Head(st.out))
<1> DEFINE a == H.acc[w][Now(H)]
           p == H.end[Done(H, st.inbox)]
<1>1. p \in 0..Now(H) /\ st.out \in Seq(Answer) /\ H.ht \in Nat \ {0}
  BY DoneBounds, Bounds DEF WorkerOK, WorkerStates, StreamOK
<1>2. OutOK(H, w, st.out, p)
  BY DEF WorkerOK
<1>3. Len(st.out) = H.cnt[w][p] - a /\ \A i \in 1..Len(st.out) : st.out[i] = H.S[w][a + i]
  BY <1>2 DEF OutOK
<1>4. a \in Nat /\ H.cnt[w][p] \in Nat /\ Len(H.S[w]) \in Nat /\ H.cnt[w][p] <= Len(H.S[w])
      /\ H.S[w] \in Seq(Answer)
  BY <1>1, CountFacts
<1>5. Len(st.out) \in Nat \ {0} /\ Head(st.out) = st.out[1] /\ 1 \in 1..Len(st.out)
  BY <1>1
<1> HIDE DEF a, p
<1>6. a + 1 \in 1..Len(H.S[w]) /\ Head(st.out) = H.S[w][a + 1]
  BY <1>3, <1>4, <1>5
<1>7. H.S[w][a + 1] \in Answer
  BY <1>4, <1>6, ElementOfSeq
<1>8. H.S[w][a + 1].block < H.ht
  BY <1>6 DEF StreamOK, AnswersOK
<1>9. Head(st.out).block \in 1..(H.ht - 1)
  <2>1. H.S[w][a + 1].block \in Nat \ {0}
    BY <1>7 DEF Answer
  <2> QED
    BY SMTT(30), <1>1, <1>6, <1>8, <2>1
<1> QED
  BY <1>6, <1>7, <1>9 DEF NextHeartbeat, a

(* A heartbeat reaches the chain.                                          *)
LEMMA HistoryAcceptHeartbeat ==
    ASSUME PalletType, NEW H, HistoryOK(H), NEW w \in Workers, AcceptHeartbeat(w)
    PROVE  \E K : HistoryOK(K)'
<1> DEFINE st == worker[w]
           hb == Head(st.out)
           e == Heartbeat(w, hb)
           n == Now(H)
           a == H.acc[w][n]
           st2 == [st EXCEPT !.out = Tail(@)]
<1>1. /\ StreamOK(H) /\ H.ht = height /\ H.la = launchedAt /\ AddedOK(H)
      /\ IsBlock(H, current, H.ht) /\ ObserversOK(H) /\ \A v \in Workers : TrackOK(H, v)
  BY DEF HistoryOK
<1>2. /\ st.out # << >> /\ Emit(<<e>>)
      /\ worker' = [worker EXCEPT ![w] = st2]
      /\ sessions' = IF Bound(w)
                     THEN [sessions EXCEPT ![Account(w)].challenge_time_last = hb.block]
                     ELSE sessions
      /\ UNCHANGED <<height, addedAt, launchedAt, binding, gk, reports>>
  BY <1>1 DEF AcceptHeartbeat, ObserversOK
<1>3. WorkerOK(H, w, st) /\ st \in WorkerStates /\ worker \in [Workers -> WorkerStates]
  BY <1>1 DEF ObserversOK
<1>4. NextHeartbeat(H, w, hb)
  BY <1>1, <1>2, <1>3, HeartbeatFacts
<1>5. e \in Events /\ e.type = "Heartbeat" /\ e.worker = w /\ e.hb = hb
  BY <1>4 DEF Events, Heartbeat, NextHeartbeat
<1>6. MayFollow(H, e, launchedAt)
  <2>1. a + 1 <= Len(H.S[w]) /\ hb = H.S[w][a + 1]
    BY <1>4 DEF NextHeartbeat
  <2>2. e # Launched
    BY <1>5 DEF Launched
  <2> QED
    BY <1>1, <1>5, <2>1, <2>2 DEF MayFollow
<1>7. current' = Append(current, e)
  BY <1>2, <1>5, EmitOne
<1>8. /\ st2 \in WorkerStates /\ st2.sm = st.sm /\ st2.inbox = st.inbox /\ st2.out = Tail(st.out)
  <2>1. Tail(st.out) \in Seq(Answer)
    BY <1>2, <1>3 DEF WorkerStates
  <2> QED
    BY <1>3, <2>1 DEF WorkerStates
<1>9. /\ n \in Nat /\ n \in 0..n /\ a \in Nat /\ Len(H.S[w]) \in Nat
      /\ H.ht \in Nat /\ a + 1 \in 1..Len(H.S[w])
  BY <1>1, <1>4, Bounds, CountFacts DEF StreamOK, NextHeartbeat
<1> HIDE DEF e, hb, st2
<1>10. PICK K : Grown(H, K, e, launchedAt) /\ StreamOK(K)
  BY <1>1, <1>6, StreamGrows
<1>11. /\ Extends(H, K) /\ IsBlock(K, Append(current, e), H.ht) /\ Now(K) = n + 1
       /\ \A p \in n..Now(K) : p = n \/ p = Now(K)
  BY <1>1, <1>6, <1>9, <1>10, GrownExtends, GrownBlock, GrownShapeOK
<1>12. K.ht = H.ht /\ K.la = launchedAt
  BY <1>5, <1>9, <1>10 DEF Grown, GrownShape
<1>13. ASSUME NEW v \in Workers
       PROVE  /\ K.S[v] = H.S[v]
              /\ v = w => K.acc[v][Now(K)] = a + 1
              /\ v # w => K.acc[v][Now(K)] = H.acc[v][n]
              /\ K.F[v][Now(K)].session = H.F[v][n].session
              /\ K.F[v][Now(K)].paused = H.F[v][n].paused
  <2>1. ~Answers(v, H.F[v][n], e) /\ (IsHeartbeat(e, v) <=> v = w)
    BY <1>5 DEF Answers, IsHeartbeat
  <2>2. /\ K.S[v] = H.S[v]
        /\ v = w => K.acc[v][Now(K)] = a + 1
        /\ v # w => K.acc[v][Now(K)] = H.acc[v][n]
        /\ K.F[v][Now(K)] = ProcessEvent(v, H.F[v][n], e)
    BY <2>1, <1>10, <1>11 DEF Grown, GrownWorker
  <2>3. /\ H.F[v][n] \in StateMachines
        /\ H.F[v][n].paused => H.F[v][n].session # 0
    BY <1>1, <1>9 DEF StreamOK, MachineOK
  <2>4. StepShape(v, H.F[v][n], e, K.F[v][Now(K)])
    BY <2>2, <2>3, <1>5, MachineStep
  <2> QED
    BY <2>2, <2>4, <1>5 DEF StepShape
<1>14. ASSUME NEW v \in Workers
       PROVE  \A p \in n..Now(K) : K.F[v][p].session = H.F[v][n].session
  <2>1. K.F[v][n] = H.F[v][n]
    BY <1>9, <1>11 DEF Extends
  <2> QED
    BY <2>1, <1>11, <1>13
<1>15. ASSUME NEW v \in Workers PROVE WorkerOK(K, v, worker'[v])
  <2>1. InboxOK(K, worker[v].inbox) /\ Done(K, worker[v].inbox) = Done(H, worker[v].inbox)
    BY <1>1, <1>10, <1>11, <1>12, CarryInbox DEF ObserversOK, WorkerOK
  <2>2. CASE v # w
    <3>1. worker'[v] = worker[v] /\ worker[v] \in WorkerStates /\ WorkerOK(H, v, worker[v])
      BY <1>1, <1>2, <1>3, <2>2 DEF ObserversOK
    <3>2. K.acc[v][Now(K)] = H.acc[v][Now(H)]
      BY <1>13, <2>2
    <3> QED
      BY <3>1, <3>2, <2>1, <1>1, <1>10, <1>11, CarryWorker
  <2>3. CASE v = w
    <3> DEFINE d == Done(H, st.inbox)
               p == H.end[d]
    <3>1. worker'[w] = st2
      BY <1>2, <1>3
    <3>2. d \in 0..(H.ht - 1) /\ p \in 0..n
      BY <1>1, <1>3, DoneBounds DEF WorkerOK
    <3>3. K.end[d] = p /\ K.F[w][p] = H.F[w][p] /\ K.cnt[w][p] = H.cnt[w][p]
      BY SMTT(30), <3>2, <1>11 DEF Extends
    <3>4. /\ Len(st.out) = H.cnt[w][p] - a /\ \A i \in 1..Len(st.out) : st.out[i] = H.S[w][a + i]
          /\ st.sm = H.F[w][p] /\ H.cnt[w][p] \in Nat
      BY <1>1, <1>3, <3>2, CountFacts DEF WorkerOK, OutOK
    <3>5. st.out \in Seq(Answer) /\ Len(st.out) \in Nat \ {0}
      BY <1>2, <1>3 DEF WorkerStates
    <3>6. /\ Len(Tail(st.out)) = Len(st.out) - 1
          /\ \A i \in 1..(Len(st.out) - 1) : Tail(st.out)[i] = st.out[i + 1]
      BY <1>2, <3>5
    <3>7. K.acc[w][Now(K)] = a + 1 /\ K.S[w] = H.S[w]
      BY <1>13
    <3> HIDE DEF p, d, a, st, n
    <3>8. Len(Tail(st.out)) = K.cnt[w][p] - (a + 1)
      <4>1. a \in Nat
        BY <1>9
      <4>2. Len(Tail(st.out)) = Len(st.out) - 1 /\ Len(st.out) = H.cnt[w][p] - a
            /\ H.cnt[w][p] \in Nat /\ K.cnt[w][p] = H.cnt[w][p]
        BY <3>3, <3>4, <3>6
      <4> QED
        BY <4>1, <4>2
    <3>9. ASSUME NEW i \in 1..Len(Tail(st.out)) PROVE Tail(st.out)[i] = H.S[w][(a + 1) + i]
      <4>1. i \in 1..(Len(st.out) - 1) /\ i + 1 \in 1..Len(st.out) /\ a + (i + 1) = (a + 1) + i
        <5>1. a \in Nat /\ Len(st.out) \in Nat /\ Len(Tail(st.out)) = Len(st.out) - 1
          BY <1>9, <3>5, <3>6
        <5> QED
          BY <5>1
      <4> QED
        BY <4>1, <3>4, <3>6
    <3>10. OutOK(K, w, st2.out, p)
      BY <3>7, <3>8, <3>9, <1>8 DEF OutOK
    <3>11. WorkerOK(K, w, st2)
      <4>1. InboxOK(K, st2.inbox) /\ Done(K, st2.inbox) = d
        BY <1>8, <2>1, <2>3 DEF st, d
      <4> QED
        BY <4>1, <1>8, <3>3, <3>4, <3>10 DEF WorkerOK
    <3> QED
      BY <3>1, <3>11, <2>3
  <2> QED
    BY <2>2, <2>3
<1>16. ObserversOK(K)'
  <2>1. worker' \in [Workers -> WorkerStates]
    BY <1>2, <1>3, <1>8
  <2>2. GatekeeperOK(K, gk)
    <3>1. GatekeeperOK(H, gk) /\ gk \in Gatekeepers
      BY <1>1 DEF ObserversOK, GatekeeperOK
    <3>2. InboxOK(K, gk.inbox) /\ Done(K, gk.inbox) = Done(H, gk.inbox)
      BY <3>1, <1>1, <1>10, <1>11, <1>12, CarryInbox DEF GatekeeperOK
    <3> QED
      BY <3>1, <3>2, <1>1, <1>10, <1>11, CarryGatekeeper
  <2>3. ReportsOK(K, reports)
    BY <1>1, <1>10, <1>11, CarryReports DEF ObserversOK
  <2> QED
    BY <1>2, <1>15, <2>1, <2>2, <2>3 DEF ObserversOK
<1>17. ASSUME NEW v \in Workers PROVE TrackOK(K, v)'
  <2>0. sessions \in [Accounts -> SessionType(height, nextId)]
    BY DEF PalletType
  <2>1. CASE v # w \/ ~Bound(w)
    <3>1. binding'[v] = binding[v]
      BY <1>2
    <3>2. \A b \in Accounts : b[2] = v => sessions'[b] = sessions[b]
      <4>1. CASE ~Bound(w)
        BY <1>2, <4>1
      <4>2. CASE Bound(w) /\ v # w
        <5>1. Account(w) \in Accounts /\ Account(w)[2] = w
          BY <4>2, AccountFacts
        <5> QED
          BY <1>2, <2>0, <4>2, <5>1
      <4> QED
        BY <2>1, <4>1, <4>2
    <3> QED
      BY <3>1, <3>2, <1>1, <1>10, <1>11, <1>12, <1>13, <1>14, TrackKept
  <2>2. CASE v = w /\ Bound(w)
    <3> DEFINE c == Account(w)
               s == sessions[c]
               t == [s EXCEPT !.challenge_time_last = hb.block]
    <3>1. c \in Accounts /\ c[2] = w /\ Bound(w)' /\ Account(w)' = c
      BY <1>2, <2>2, AccountFacts DEF Bound, Account
    <3>2. s \in SessionType(height, nextId)
      BY <2>0, <3>1
    <3>3. sessions' = [sessions EXCEPT ![c] = t] /\ sessions'[c] = t
      BY <1>2, <2>0, <2>2, <3>1
    <3>4. /\ t.state = s.state /\ t.id = s.id /\ t.v_updated_at = s.v_updated_at
          /\ t.challenge_time_last = hb.block
      BY <3>2 DEF SessionType
    <3>5. Computing(t) <=> Computing(s)
      BY <3>4 DEF Computing
    <3>6. TrackOK(H, w)
      BY <1>1
    <3> HIDE DEF t
    <3>7. SessionOK(K, w)'
      <4>1. Computes(w)' <=> Computes(w)
        BY <3>1, <3>3, <3>5, <2>2 DEF Computes
      <4> QED
        BY <4>1, <1>13, <3>1, <3>3, <3>4, <3>6 DEF TrackOK, SessionOK
    <3>8. EpochOK(K, w, t)
      <4>1. EpochOK(H, w, s)
        BY <2>2, <3>6 DEF TrackOK
      <4> HIDE DEF s
      <4> QED
        BY <4>1, <3>4, <1>1, <1>10, <1>11, <1>12, <1>14, EpochKept
    <3>9. ClockOK(K, w, t)
      <4>1. Computing(t) => t.id # 0
        BY <3>1, <3>4, <3>5, <3>6 DEF TrackOK, ClockOK
      <4>2. t.challenge_time_last < K.ht
        <5>1. hb.block \in 1..(H.ht - 1)
          BY <1>4 DEF NextHeartbeat
        <5>2. hb.block < H.ht
          BY <5>1, <1>9
        <5> QED
          BY <5>2, <1>12, <3>4
      <4>3. \A j \in (a + 1 + 1)..Len(H.S[w]) : t.challenge_time_last < H.S[w][j].block
        <5> SUFFICES ASSUME NEW j \in (a + 1 + 1)..Len(H.S[w])
                     PROVE  hb.block < H.S[w][j].block
          BY <3>4
        <5>1. j \in 1..Len(H.S[w]) /\ a + 1 < j
          BY <1>9
        <5>2. hb = H.S[w][a + 1]
          BY <1>4 DEF NextHeartbeat
        <5> QED
          BY <5>1, <5>2, <1>1, <1>9 DEF StreamOK, AnswersOK
      <4>4. K.acc[w][Now(K)] = a + 1 /\ K.S[w] = H.S[w]
        BY <1>13
      <4> QED
        BY <4>1, <4>2, <4>3, <4>4 DEF ClockOK
    <3>10. \A b \in Accounts : b[2] = w => ClockOK(K, w, sessions'[b])
      <4> SUFFICES ASSUME NEW b \in Accounts, b[2] = w, b # c
                   PROVE  ClockOK(K, w, sessions'[b])
        BY <3>3, <3>9
      <4>1. sessions'[b] = sessions[b]
        BY <3>3, <2>0
      <4>2. ClockOK(H, w, sessions[b])
        BY <3>6 DEF TrackOK
      <4>3. Computing(sessions[b]) => sessions[b].id # 0
        BY <4>2 DEF ClockOK
      <4>4. K.S[w] = H.S[w]
        BY <1>13
      <4>5. ClockOK(K, w, sessions[b])
        BY <4>2, <4>3, <4>4, <1>1, <1>10, <1>11, <1>12, ClockKept
      <4> QED
        BY <4>1, <4>5
    <3> QED
      BY <2>2, <3>1, <3>3, <3>7, <3>8, <3>10 DEF TrackOK
  <2> QED
    BY <2>1, <2>2
<1>18. AddedOK(K)'
  <2>1. \A v \in Workers : Bound(v)' => Bound(v)
    BY <1>2 DEF Bound
  <2> QED
    BY <1>1, <1>2, <1>10, <1>11, <2>1, AddedKept
<1>19. HistoryOK(K)'
  BY <1>1, <1>2, <1>7, <1>10, <1>11, <1>12, <1>16, <1>17, <1>18 DEF HistoryOK
<1> QED
  BY <1>19

(* The elements of f are those of S.                                       *)
Lists(f, S) == f \in Seq(S) /\ \A x \in S : \E j \in 1..Len(f) : f[j] = x

(* A finite set as a sequence: every element is there.                     *)
LEMMA SetToSeqFacts ==
    ASSUME NEW S, IsFiniteSet(S)
    PROVE  Lists(SetToSeq(S), S)
<1> DEFINE n == Cardinality(S)
           f == SetToSeq(S)
<1>1. n \in Nat /\ ExistsBijection(1..n, S)
  BY FS_CardinalityType
<1>2. \E g \in [1..n -> S] : IsInjective(g)
  BY <1>1 DEF ExistsBijection, Bijection, Injection
<1>3. f \in [1..n -> S] /\ IsInjective(f)
  BY <1>2 DEF SetToSeq
<1> HIDE DEF f
<1>4. f \in Seq(S) /\ Len(f) = n
  BY <1>1, <1>3
<1>5. f \in Injection(1..n, S)
  BY <1>3 DEF Injection
<1>6. Cardinality(1..n) = n
  BY <1>1, FS_Interval
<1>7. f \in Surjection(1..n, S)
  <2> HIDE DEF n
  <2>1. Cardinality(1..n) = Cardinality(S)
    BY <1>6 DEF n
  <2> QED
    BY <1>5, <2>1, FS_Injection
<1>8. \A x \in S : \E j \in 1..n : f[j] = x
  BY <1>7 DEF Surjection
<1> QED
  BY <1>4, <1>8 DEF f, Lists

(* The events by which a report pauses and resumes workers.                *)
PauseEvents == {EnterUnresponsive(w) : w \in Workers} \cup {ExitUnresponsive(w) : w \in Workers}

(* K is H with the first i of es: the workers they name are paused or not, *)
(* and every session goes on.                                              *)
Pauses(H, K, es, i) ==
    /\ Carried(H, K) /\ K.la = H.la /\ Now(K) = Now(H) + i
    /\ \E events : IsBlock(K, events, H.ht)
    /\ \A j \in 1..i : K.E[Now(H) + j] = es[j]
    /\ \A w \in Workers :
          /\ \A p \in Now(H)..Now(K) : K.F[w][p].session = H.F[w][Now(H)].session
          /\ (\E j \in 1..i : es[j] = EnterUnresponsive(w)) =>
                K.F[w][Now(K)].paused = (H.F[w][Now(H)].session # 0)
          /\ (\E j \in 1..i : es[j] = ExitUnresponsive(w)) => ~K.F[w][Now(K)].paused
          /\ (\A j \in 1..i : es[j] \notin {EnterUnresponsive(w), ExitUnresponsive(w)}) =>
                K.F[w][Now(K)].paused = H.F[w][Now(H)].paused

(* No worker is both paused and resumed.                                   *)
NoConflict(es) ==
    \A w \in Workers : \A j, k \in 1..Len(es) :
       ~(es[j] = EnterUnresponsive(w) /\ es[k] = ExitUnresponsive(w))

(* One event of a report more.                                             *)
LEMMA PauseOne ==
    ASSUME NEW H, StreamOK(H), NEW es \in Seq(PauseEvents), NoConflict(es),
           NEW i \in 1..Len(es), NEW K, Pauses(H, K, es, i - 1)
    PROVE  \E L : Pauses(H, L, es, i)
<1> DEFINE e == es[i]
<1>1. e \in PauseEvents
  BY ElementOfSeq
<1>2. PICK v \in Workers : e = EnterUnresponsive(v) \/ e = ExitUnresponsive(v)
  BY <1>1 DEF PauseEvents
<1>3. /\ e \in Events /\ e.worker = v /\ e.type \in {"EnterUnresponsive", "ExitUnresponsive"}
      /\ e.type = "EnterUnresponsive" <=> e = EnterUnresponsive(v)
      /\ e.type = "ExitUnresponsive" <=> e = ExitUnresponsive(v)
  BY <1>2 DEF Events, EnterUnresponsive, ExitUnresponsive
<1>4. MayFollow(K, e, K.la)
  <2>1. e # Launched
    BY <1>3 DEF Launched
  <2> QED
    BY <1>3, <2>1 DEF MayFollow
<1>5. StreamOK(K) /\ K.ht = H.ht /\ K.la = H.la /\ Now(K) = Now(H) + (i - 1) /\ Carried(H, K)
  BY DEF Pauses, Carried
<1>6. PICK events : IsBlock(K, events, H.ht)
  BY DEF Pauses
<1> HIDE DEF e
<1>7. PICK L : Emitted(K, L, e) /\ L.la = K.la /\ IsBlock(L, Append(events, e), K.ht)
  BY <1>3, <1>4, <1>5, <1>6, Emission
<1>8. Carried(H, L)
  BY <1>5, <1>7, CarriedFacts
<1>9. /\ Now(H) \in Nat /\ Now(K) \in Nat /\ Len(es) \in Nat /\ i \in Nat \ {0}
      /\ Now(L) = Now(H) + i /\ Now(L) = Now(K) + 1 /\ L.E[Now(L)] = e
  BY <1>5, <1>7, Bounds DEF Emitted, StreamOK
<1>10. Extends(K, L)
  BY <1>7 DEF Emitted
<1>11. \A j \in 1..i : L.E[Now(H) + j] = es[j]
  <2> SUFFICES ASSUME NEW j \in 1..i PROVE L.E[Now(H) + j] = es[j]
    OBVIOUS
  <2>1. CASE j = i
    BY <2>1, <1>9 DEF e
  <2>2. CASE j # i
    <3>1. j \in 1..(i - 1) /\ Now(H) + j \in 1..Now(K)
      BY <2>2, <1>5, <1>9
    <3> QED
      BY <3>1, <1>10 DEF Extends, Pauses
  <2> QED
    BY <2>1, <2>2
<1>12. \A j \in 1..i : j \in 1..(i - 1) \/ j = i
  BY <1>9
<1>13. i \in 1..i /\ 1..(i - 1) \subseteq 1..i /\ 1..i \subseteq 1..Len(es)
  BY <1>9
<1>14. ASSUME NEW w \in Workers
       PROVE  /\ \A p \in Now(H)..Now(L) : L.F[w][p].session = H.F[w][Now(H)].session
              /\ (\E j \in 1..i : es[j] = EnterUnresponsive(w)) =>
                    L.F[w][Now(L)].paused = (H.F[w][Now(H)].session # 0)
              /\ (\E j \in 1..i : es[j] = ExitUnresponsive(w)) => ~L.F[w][Now(L)].paused
              /\ (\A j \in 1..i : es[j] \notin {EnterUnresponsive(w), ExitUnresponsive(w)}) =>
                    L.F[w][Now(L)].paused = H.F[w][Now(H)].paused
  <2> DEFINE old == K.F[w][Now(K)]
             new == L.F[w][Now(L)]
             s == H.F[w][Now(H)].session
  <2>1. StepShape(w, old, e, new)
    BY <1>7 DEF Emitted
  <2>2. /\ \A p \in Now(H)..Now(K) : K.F[w][p].session = s
        /\ (\E j \in 1..(i - 1) : es[j] = EnterUnresponsive(w)) => old.paused = (s # 0)
        /\ (\E j \in 1..(i - 1) : es[j] = ExitUnresponsive(w)) => ~old.paused
        /\ (\A j \in 1..(i - 1) : es[j] \notin {EnterUnresponsive(w), ExitUnresponsive(w)}) =>
              old.paused = H.F[w][Now(H)].paused
    BY DEF Pauses
  <2>3. old.session = s
    <3>1. Now(K) \in Now(H)..Now(K)
      BY <1>5, <1>9
    <3> QED
      BY <2>2, <3>1
  <2>4. new.session = s
    BY <2>1, <2>3, <1>3 DEF StepShape
  <2>5. \A p \in Now(H)..Now(K) : L.F[w][p] = K.F[w][p]
    <3>1. \A p \in Now(H)..Now(K) : p \in 0..Now(K)
      BY <1>9
    <3> QED
      BY <3>1, <1>10 DEF Extends
  <2>6. \A p \in Now(H)..Now(L) : p \in Now(H)..Now(K) \/ p = Now(L)
    BY <1>9
  <2>7. \A p \in Now(H)..Now(L) : L.F[w][p].session = s
    BY <2>2, <2>4, <2>5, <2>6
  <2>8. /\ e = EnterUnresponsive(w) => new.paused = (s # 0)
        /\ e = ExitUnresponsive(w) => ~new.paused
        /\ e \notin {EnterUnresponsive(w), ExitUnresponsive(w)} => new.paused = old.paused
    <3>1. EventShape(e)
      BY <1>3, EventFacts
    <3>2. /\ e = EnterUnresponsive(w) <=> e.type = "EnterUnresponsive" /\ e.worker = w
          /\ e = ExitUnresponsive(w) <=> e.type = "ExitUnresponsive" /\ e.worker = w
      BY <3>1 DEF EventShape
    <3> HIDE DEF new, old
    <3>3. e = EnterUnresponsive(w) => new.paused = (s # 0)
      BY <2>1, <2>3, <3>2 DEF StepShape
    <3>4. e = ExitUnresponsive(w) => ~new.paused
      BY <2>1, <3>2 DEF StepShape
    <3>5. e \notin {EnterUnresponsive(w), ExitUnresponsive(w)} => new.paused = old.paused
      <4>1. e \notin {EnterUnresponsive(w), ExitUnresponsive(w)} => e.worker # w
        BY <3>2, <1>3
      <4> QED
        BY <4>1, <2>1 DEF StepShape
    <3> QED
      BY <3>3, <3>4, <3>5
  <2> HIDE DEF new, old, s
  <2>9. ASSUME NEW j \in 1..i, es[j] = EnterUnresponsive(w) PROVE new.paused = (s # 0)
    <3>1. CASE j = i
      BY <3>1, <2>8, <2>9 DEF e
    <3>2. CASE j \in 1..(i - 1)
      <4>1. e # ExitUnresponsive(w)
        BY <2>9, <1>13 DEF NoConflict, e
      <4>2. old.paused = (s # 0)
        BY <2>2, <2>9, <3>2
      <4> QED
        BY <4>1, <4>2, <2>8
    <3> QED
      BY <3>1, <3>2, <1>12
  <2>10. ASSUME NEW j \in 1..i, es[j] = ExitUnresponsive(w) PROVE ~new.paused
    <3>1. CASE j = i
      BY <3>1, <2>8, <2>10 DEF e
    <3>2. CASE j \in 1..(i - 1)
      <4>1. e # EnterUnresponsive(w)
        BY <2>10, <1>13 DEF NoConflict, e
      <4>2. ~old.paused
        BY <2>2, <2>10, <3>2
      <4> QED
        BY <4>1, <4>2, <2>8
    <3> QED
      BY <3>1, <3>2, <1>12
  <2>11. ASSUME \A j \in 1..i : es[j] \notin {EnterUnresponsive(w), ExitUnresponsive(w)}
         PROVE  new.paused = H.F[w][Now(H)].paused
    <3>1. e \notin {EnterUnresponsive(w), ExitUnresponsive(w)}
      BY <2>11, <1>13 DEF e
    <3>2. \A j \in 1..(i - 1) : es[j] \notin {EnterUnresponsive(w), ExitUnresponsive(w)}
      BY <2>11, <1>13
    <3> QED
      BY <3>1, <3>2, <2>2, <2>8
  <2> QED
    BY <2>7, <2>9, <2>10, <2>11 DEF s, new
<1>15. \E ev : IsBlock(L, ev, H.ht)
  BY <1>5, <1>7
<1>16. L.la = H.la
  BY <1>5, <1>7
<1> QED
  BY <1>8, <1>9, <1>11, <1>14, <1>15, <1>16 DEF Pauses

(* All events of a report.                                                 *)
LEMMA PauseAll ==
    ASSUME NEW H, StreamOK(H), NEW es \in Seq(PauseEvents), NoConflict(es),
           NEW events, IsBlock(H, events, H.ht)
    PROVE  \E K : Pauses(H, K, es, Len(es))
<1> DEFINE N == Len(es)
           P == {i \in 0..N : \E K : Pauses(H, K, es, i)}
<1>1. N \in Nat /\ Now(H) \in Nat
  BY Bounds DEF StreamOK
<1>2. Pauses(H, H, es, 0)
  <2>1. Carried(H, H)
    BY CarriedFacts
  <2>2. \A p \in Now(H)..Now(H) : p = Now(H)
    BY <1>1
  <2>3. 1..0 = {} /\ Now(H) = Now(H) + 0
    BY <1>1
  <2> QED
    BY <2>1, <2>2, <2>3 DEF Pauses
<1>3. \A k \in 1..N : k - 1 \in P => k \in P
  <2> SUFFICES ASSUME NEW k \in 1..N, k - 1 \in P PROVE \E K : Pauses(H, K, es, k)
    BY <1>1
  <2>1. PICK K : Pauses(H, K, es, k - 1)
    OBVIOUS
  <2> QED
    BY <2>1, PauseOne
<1>4. 0 \in P
  BY <1>1, <1>2
<1>5. P \in SUBSET (0..N)
  OBVIOUS
<1> HIDE DEF P, N
<1>6. P = 0..N
  BY <1>1, <1>3, <1>4, <1>5, IntervalInduction
<1>7. N \in P
  BY <1>1, <1>6
<1> QED
  BY <1>7 DEF P, N

(* The block under construction has all of them.                           *)
LEMMA PausesBlock ==
    ASSUME NEW H, StreamOK(H), NEW es \in Seq(PauseEvents), NEW K, Pauses(H, K, es, Len(es)),
           NEW events, IsBlock(H, events, H.ht)
    PROVE  IsBlock(K, events \o es, H.ht)
<1> DEFINE n == Now(H)
           z == H.end[H.ht - 1]
           l == Len(events)
           N == Len(es)
<1>1. n \in Nat /\ H.ht \in Nat \ {0} /\ H.ht - 1 \in 0..H.ht /\ H.ht - 1 \in 0..(H.ht - 1)
  BY Bounds DEF StreamOK
<1>2. z \in Nat /\ H.end[H.ht] = n /\ z <= n
  BY <1>1, Bounds DEF StreamOK, ShapeOK
<1>3. events \in Seq(Events) /\ l = n - z /\ \A i \in 1..l : events[i] = H.E[z + i]
  BY <1>2 DEF IsBlock
<1>4. Extends(H, K) /\ StreamOK(K) /\ K.ht = H.ht /\ Now(K) = n + N
  BY DEF Pauses, Carried
<1>5. K.end[H.ht] = n + N /\ K.end[H.ht - 1] = z
  BY <1>1, <1>4 DEF Extends, StreamOK, ShapeOK
<1>6. /\ \A p \in 1..n : K.E[p] = H.E[p]
      /\ \A j \in 1..N : K.E[n + j] = es[j]
  BY <1>4 DEF Extends, Pauses
<1>7. es \in Seq(Events) /\ N \in Nat /\ l \in Nat
  <2>1. PauseEvents \subseteq Events
    BY DEF PauseEvents, Events
  <2>2. N \in Nat /\ l \in Nat
    BY <1>3
  <2>3. \A j \in 1..N : es[j] \in Events
    BY <2>1, ElementOfSeq
  <2> QED
    BY <2>2, <2>3, IsASeq
<1>8. /\ events \o es \in Seq(Events) /\ Len(events \o es) = l + N
      /\ \A i \in 1..(l + N) : (events \o es)[i] = IF i <= l THEN events[i] ELSE es[i - l]
  BY <1>3, <1>7, ConcatProperties
<1> HIDE DEF n, z, l, N
<1>9. ASSUME NEW i \in 1..(l + N) PROVE (events \o es)[i] = K.E[z + i]
  <2>1. CASE i <= l
    <3>1. i \in 1..l /\ z + i \in 1..n
      BY <2>1, <1>1, <1>2, <1>3, <1>7
    <3> QED
      BY <2>1, <3>1, <1>3, <1>6, <1>8
  <2>2. CASE ~(i <= l)
    <3>1. i - l \in 1..N /\ z + i = n + (i - l)
      BY <2>2, <1>1, <1>2, <1>3, <1>7
    <3>2. (events \o es)[i] = es[i - l]
      BY <2>2, <1>8
    <3>3. K.E[n + (i - l)] = es[i - l]
      BY <3>1, <1>6
    <3> QED
      BY <3>1, <3>2, <3>3
  <2> QED
    BY <2>1, <2>2
<1>10. l + N = (n + N) - z
  BY <1>1, <1>2, <1>3, <1>7
<1> QED
  BY <1>5, <1>8, <1>9, <1>10 DEF IsBlock

(* What a report emits: all that it pauses, then all that it resumes.      *)
Pausing(es, off, on) ==
    /\ es \in Seq(PauseEvents) /\ NoConflict(es)
    /\ \A w \in Workers :
          /\ w \in off <=> \E j \in 1..Len(es) : es[j] = EnterUnresponsive(w)
          /\ w \in on <=> \E j \in 1..Len(es) : es[j] = ExitUnresponsive(w)

(* Two sequences joined.                                                   *)
LEMMA Joined ==
    ASSUME NEW A, NEW B, NEW a, NEW b, Lists(a, A), Lists(b, B)
    PROVE  Lists(a \o b, A \cup B)
<1> DEFINE es == a \o b
           S == A \cup B
           la == Len(a)
           lb == Len(b)
<1>1. a \in Seq(S) /\ b \in Seq(S)
  BY SeqMonotonic DEF Lists
<1>2. /\ es \in Seq(S) /\ la \in Nat /\ lb \in Nat /\ Len(es) = la + lb
      /\ \A i \in 1..(la + lb) : es[i] = IF i <= la THEN a[i] ELSE b[i - la]
  BY <1>1, ConcatProperties
<1>3. /\ \A j \in 1..la : a[j] \in A
      /\ \A j \in 1..lb : b[j] \in B
  BY ElementOfSeq DEF Lists
<1> HIDE DEF es, la, lb
<1>5. ASSUME NEW x \in A PROVE \E j \in 1..Len(es) : es[j] = x
  <2>1. PICK j \in 1..la : a[j] = x
    BY DEF la, Lists
  <2>2. j \in 1..(la + lb) /\ j <= la
    BY <1>2
  <2>3. j \in 1..Len(es) /\ es[j] = a[j]
    BY <2>2, <1>2
  <2> QED
    BY <2>1, <2>3
<1>6. ASSUME NEW x \in B PROVE \E j \in 1..Len(es) : es[j] = x
  <2>1. PICK j \in 1..lb : b[j] = x
    BY DEF lb, Lists
  <2>2. j + la \in 1..(la + lb) /\ ~(j + la <= la) /\ (j + la) - la = j
    BY <1>2
  <2>3. j + la \in 1..Len(es) /\ es[j + la] = b[j]
    BY <2>2, <1>2
  <2> QED
    BY <2>1, <2>3
<1> QED
  BY <1>2, <1>5, <1>6 DEF es, Lists

(* The events that a report leads to.                                      *)
LEMMA ReportedEvents ==
    ASSUME NEW off \in SUBSET Workers, NEW on \in SUBSET Workers, off \cap on = {}
    PROVE  Pausing(SetToSeq({EnterUnresponsive(w) : w \in off})
                      \o SetToSeq({ExitUnresponsive(w) : w \in on}), off, on)
<1> DEFINE A == {EnterUnresponsive(w) : w \in off}
           B == {ExitUnresponsive(w) : w \in on}
           a == SetToSeq(A)
           b == SetToSeq(B)
           es == a \o b
<1>1. IsFiniteSet(off) /\ IsFiniteSet(on)
  BY ConstantsAssumption, FS_Subset
<1>2. IsFiniteSet(A)
  <2> DEFINE f == [w \in off |-> EnterUnresponsive(w)]
  <2>1. f \in Surjection(off, A)
    BY DEF Surjection
  <2> HIDE DEF f
  <2> QED
    BY <1>1, <2>1, FS_Surjection
<1>3. IsFiniteSet(B)
  <2> DEFINE f == [w \in on |-> ExitUnresponsive(w)]
  <2>1. f \in Surjection(on, B)
    BY DEF Surjection
  <2> HIDE DEF f
  <2> QED
    BY <1>1, <2>1, FS_Surjection
<1>4. A \in SUBSET PauseEvents /\ B \in SUBSET PauseEvents
  BY DEF A, B, PauseEvents
<1>5. ASSUME NEW w \in Workers
      PROVE  /\ EnterUnresponsive(w) \in A <=> w \in off
             /\ ExitUnresponsive(w) \in B <=> w \in on
             /\ EnterUnresponsive(w) \notin B /\ ExitUnresponsive(w) \notin A
  BY DEF A, B, EnterUnresponsive, ExitUnresponsive
<1> HIDE DEF A, B
<1>6. Lists(a, A) /\ Lists(b, B)
  BY <1>2, <1>3, SetToSeqFacts
<1> HIDE DEF a, b
<1>7. Lists(es, A \cup B)
  BY <1>6, Joined
<1>11. es \in Seq(PauseEvents)
  BY <1>4, <1>7, SeqMonotonic DEF Lists
<1> HIDE DEF es
<1>8. ASSUME NEW w \in Workers
      PROVE  /\ w \in off <=> \E j \in 1..Len(es) : es[j] = EnterUnresponsive(w)
             /\ w \in on <=> \E j \in 1..Len(es) : es[j] = ExitUnresponsive(w)
  <2>1. \A j \in 1..Len(es) : es[j] \in A \cup B
    BY <1>7, ElementOfSeq DEF Lists
  <2> QED
    BY <2>1, <1>5, <1>7 DEF Lists
<1>9. NoConflict(es)
  <2> SUFFICES ASSUME NEW w \in Workers, NEW j \in 1..Len(es), NEW k \in 1..Len(es),
                      es[j] = EnterUnresponsive(w), es[k] = ExitUnresponsive(w)
               PROVE  FALSE
    BY DEF NoConflict
  <2>1. w \in off /\ w \in on
    BY <1>8
  <2> QED
    BY <2>1
<1>10. Pausing(es, off, on)
  BY <1>8, <1>9, <1>11 DEF Pausing
<1> QED
  BY <1>10 DEF es, a, b, A, B

(* A report pauses and resumes workers, and counts as an update of the     *)
(* sessions it settles.                                                    *)
LEMMA HistoryAcceptReport ==
    ASSUME PalletType, NEW H, HistoryOK(H), AcceptReport
    PROVE  \E K : HistoryOK(K)'
<1> DEFINE r == Head(reports)
           off == NotSkipped(r.offline)
           on == NotSkipped(r.recovered)
           es == SetToSeq({EnterUnresponsive(w) : w \in off})
                    \o SetToSeq({ExitUnresponsive(w) : w \in on})
           n == Now(H)
<1>1. /\ StreamOK(H) /\ H.ht = height /\ H.la = launchedAt /\ AddedOK(H)
      /\ IsBlock(H, current, H.ht) /\ ObserversOK(H) /\ \A v \in Workers : TrackOK(H, v)
  BY DEF HistoryOK
<1>2. /\ reports # << >> /\ reports' = Tail(reports) /\ current' = current \o es
      /\ sessions' = [a \in Accounts |->
                 IF binding[a[2]] # a[1] THEN sessions[a]
                 ELSE [sessions[a] EXCEPT
                         !.state = IF a[2] \in on THEN "WorkerIdle"
                                   ELSE IF a[2] \in off THEN "WorkerUnresponsive"
                                   ELSE @,
                         !.v_updated_at = IF a[2] \in Settled(r) THEN height
                                          ELSE @]]
      /\ UNCHANGED <<height, addedAt, launchedAt, binding, worker, gk>>
  BY DEF AcceptReport, Emit
<1>3. ReportsOK(H, reports)
  BY <1>1 DEF ObserversOK
<1>4. /\ reports \in Seq(Reports) /\ reports # << >> /\ Len(reports) \in Nat \ {0}
      /\ r = reports[1] /\ 1 \in 1..Len(reports)
  <2>1. reports \in Seq(Reports) /\ reports # << >>
    BY <1>2, <1>3 DEF ReportsOK
  <2> QED
    BY <2>1
<1>5. r \in Reports /\ r.offline \cap r.recovered = {}
  BY <1>3, <1>4 DEF ReportsOK, ReportOK
<1>6. off \in SUBSET Workers /\ on \in SUBSET Workers /\ off \cap on = {}
  BY <1>5 DEF NotSkipped, Reports
<1>7. Pausing(es, off, on)
  BY <1>6, ReportedEvents
<1>8. \A v \in Workers : v \in off \/ v \in on => Bound(v) /\ Computing(sessions[Account(v)])
  BY DEF NotSkipped
<1> HIDE DEF r, off, on, es
<1>9. PICK K : Pauses(H, K, es, Len(es))
  BY <1>1, <1>7, PauseAll DEF Pausing
<1>10. IsBlock(K, current', H.ht)
  BY <1>1, <1>2, <1>7, <1>9, PausesBlock DEF Pausing
<1>11. Carried(H, K) /\ StreamOK(K) /\ Extends(H, K) /\ K.ht = H.ht /\ K.la = H.la
       /\ n \in Nat /\ Now(K) \in n..Now(K)
  BY <1>1, <1>9, Bounds DEF Pauses, Carried, StreamOK, Extends
<1>12. ASSUME NEW v \in Workers
       PROVE  /\ \A p \in n..Now(K) : K.F[v][p].session = H.F[v][n].session
              /\ K.F[v][Now(K)].session = H.F[v][n].session
              /\ v \in off => K.F[v][Now(K)].paused = (H.F[v][n].session # 0)
              /\ v \in on => ~K.F[v][Now(K)].paused
              /\ v \notin off /\ v \notin on => K.F[v][Now(K)].paused = H.F[v][n].paused
  <2>1. /\ v \in off <=> \E j \in 1..Len(es) : es[j] = EnterUnresponsive(v)
        /\ v \in on <=> \E j \in 1..Len(es) : es[j] = ExitUnresponsive(v)
    BY <1>7 DEF Pausing
  <2>2. /\ \A p \in n..Now(K) : K.F[v][p].session = H.F[v][n].session
        /\ (\E j \in 1..Len(es) : es[j] = EnterUnresponsive(v)) =>
              K.F[v][Now(K)].paused = (H.F[v][n].session # 0)
        /\ (\E j \in 1..Len(es) : es[j] = ExitUnresponsive(v)) => ~K.F[v][Now(K)].paused
        /\ (\A j \in 1..Len(es) : es[j] \notin {EnterUnresponsive(v), ExitUnresponsive(v)}) =>
              K.F[v][Now(K)].paused = H.F[v][n].paused
    BY <1>9 DEF Pauses
  <2> HIDE DEF n
  <2>3. K.F[v][Now(K)].session = H.F[v][n].session
    BY <2>2, <1>11
  <2> QED
    BY <2>1, <2>2, <2>3
<1>13. ObserversOK(K)'
  <2>1. ObserversOK(K)
    BY <1>1, <1>11, ObserversKept DEF Carried
  <2>2. ReportsOK(K, Tail(reports))
    <3>1. ReportsOK(K, reports)
      BY <2>1 DEF ObserversOK
    <3>2. /\ Tail(reports) \in Seq(Reports) /\ Len(Tail(reports)) = Len(reports) - 1
          /\ \A i \in 1..(Len(reports) - 1) : Tail(reports)[i] = reports[i + 1]
      BY <1>4
    <3>3. \A i \in 1..(Len(reports) - 1) : i + 1 \in 1..Len(reports)
      BY <1>4
    <3> QED
      BY <3>1, <3>2, <3>3 DEF ReportsOK
  <2> QED
    BY <1>2, <2>1, <2>2 DEF ObserversOK
<1>14. AddedOK(K)'
  <2>1. \A v \in Workers : Bound(v)' => Bound(v)
    BY <1>2 DEF Bound
  <2> QED
    BY <1>1, <1>2, <1>11, <2>1, AddedKept
<1>15. ASSUME NEW v \in Workers PROVE TrackOK(K, v)'
  <2>0. sessions \in [Accounts -> SessionType(height, nextId)]
    BY DEF PalletType
  <2>1. TrackOK(H, v) /\ K.S[v] = H.S[v]
    BY <1>1, <1>11 DEF Carried
  <2>2. CASE ~Bound(v)
    <3>1. \A a \in Accounts : a[2] = v => sessions'[a] = sessions[a]
      BY <1>2, <2>2, AccountFacts
    <3>2. v \notin off /\ v \notin on
      BY <1>8, <2>2
    <3>3. K.F[v][Now(K)].paused = H.F[v][Now(H)].paused
      BY <1>12, <3>2
    <3>4. \A p \in Now(H)..Now(K) : K.F[v][p].session = H.F[v][Now(H)].session
      BY <1>12
    <3>5. binding'[v] = binding[v]
      BY <1>2
    <3> QED
      BY <1>1, <1>11, <2>1, <3>1, <3>3, <3>4, <3>5, TrackKept
  <2>3. CASE Bound(v)
    <3> DEFINE c == Account(v)
               s == sessions[c]
               t == sessions'[c]
    <3>1. c \in Accounts /\ c[2] = v /\ c[1] = binding[v] /\ Bound(v)' /\ Account(v)' = c
      BY <1>2, <2>3, AccountFacts DEF Bound, Account
    <3>2. s \in SessionType(height, nextId)
      BY <2>0, <3>1
    <3>3. t = [s EXCEPT !.state = IF v \in on THEN "WorkerIdle"
                                   ELSE IF v \in off THEN "WorkerUnresponsive" ELSE @,
                        !.v_updated_at = IF v \in Settled(r) THEN height ELSE @]
      BY <1>2, <3>1
    <3> HIDE DEF s, t, c
    <3>4. /\ t.id = s.id /\ t.challenge_time_last = s.challenge_time_last
          /\ v \in on => t.state = "WorkerIdle"
          /\ v \notin on /\ v \in off => t.state = "WorkerUnresponsive"
          /\ v \notin on /\ v \notin off => t.state = s.state
          /\ v \in Settled(r) => t.v_updated_at = height
          /\ v \notin Settled(r) => t.v_updated_at = s.v_updated_at
      BY <3>2, <3>3 DEF SessionType
    <3>5. /\ v \in off \/ v \in on => Computing(s)
          /\ Computing(t) <=> Computing(s)
      <4>1. v \in off \/ v \in on => Computing(s)
        BY <1>8 DEF s, c
      <4> QED
        BY <4>1, <3>4 DEF Computing
    <3>6. /\ Computes(v) <=> Computing(s)
          /\ Computes(v)' <=> Computing(t)
      BY <2>3, <3>1 DEF Computes, s, t, c
    <3>7. /\ Computing(s) => H.F[v][n].session = s.id
          /\ ~Computing(s) => H.F[v][n].session = 0
          /\ H.F[v][n].paused <=> Computing(s) /\ s.state = "WorkerUnresponsive"
      BY <2>1, <3>6 DEF TrackOK, SessionOK, s, c
    <3>8. ClockOK(H, v, s)
      BY <2>1, <3>1 DEF TrackOK, s
    <3>9. Computing(s) => s.id # 0
      BY <3>8 DEF ClockOK
    <3>10. /\ Computing(t) => K.F[v][Now(K)].session = t.id
           /\ ~Computing(t) => K.F[v][Now(K)].session = 0
           /\ K.F[v][Now(K)].paused <=> Computing(t) /\ t.state = "WorkerUnresponsive"
      <4>1. K.F[v][Now(K)].session = H.F[v][n].session
        BY <1>12
      <4>2. CASE v \in on
        <5>1. ~K.F[v][Now(K)].paused /\ t.state = "WorkerIdle"
          BY <4>2, <1>12, <3>4
        <5> QED
          BY <5>1, <4>1, <3>4, <3>5, <3>7
      <4>3. CASE v \notin on /\ v \in off
        <5>1. /\ K.F[v][Now(K)].paused = (H.F[v][n].session # 0)
              /\ t.state = "WorkerUnresponsive" /\ Computing(s)
          BY <4>3, <1>12, <3>4, <3>5
        <5> QED
          BY <5>1, <4>1, <3>4, <3>5, <3>7, <3>9
      <4>4. CASE v \notin on /\ v \notin off
        <5>1. K.F[v][Now(K)].paused = H.F[v][n].paused /\ t.state = s.state
          BY <4>4, <1>12, <3>4
        <5> QED
          BY <5>1, <4>1, <3>4, <3>5, <3>7
      <4> QED
        BY <4>2, <4>3, <4>4
    <3>11. SessionOK(K, v)'
      BY <3>1, <3>6, <3>10 DEF SessionOK, t
    <3>12. EpochOK(K, v, t)
      <4>1. CASE v \in Settled(r)
        <5>1. t.v_updated_at = K.ht
          BY <4>1, <3>4, <1>1, <1>11
        <5> QED
          BY <5>1, <1>11, EpochFresh
      <4>2. CASE v \notin Settled(r)
        <5>1. EpochOK(H, v, s)
          BY <2>1, <2>3 DEF TrackOK, s, c
        <5>2. t.id = s.id /\ t.v_updated_at = s.v_updated_at
          BY <4>2, <3>4
        <5>3. \A p \in Now(H)..Now(K) : K.F[v][p].session = H.F[v][Now(H)].session
          BY <1>12
        <5> QED
          BY <5>1, <5>2, <5>3, <1>1, <1>11, EpochKept
      <4> QED
        BY <4>1, <4>2
    <3>13. ClockOK(K, v, t)
      <4>1. Computing(t) => t.id # 0
        BY <3>4, <3>5, <3>9
      <4>2. t.challenge_time_last = s.challenge_time_last
        BY <3>4
      <4> QED
        BY <4>1, <4>2, <3>8, <2>1, <1>1, <1>11, ClockKept
    <3>14. \A a \in Accounts : a[2] = v => ClockOK(K, v, sessions'[a])
      <4> SUFFICES ASSUME NEW a \in Accounts, a[2] = v, a # c
                   PROVE  ClockOK(K, v, sessions'[a])
        BY <3>13 DEF t
      <4>1. binding[a[2]] # a[1]
        BY AccountFacts DEF c
      <4>2. sessions'[a] = sessions[a]
        BY <4>1, <1>2
      <4>3. ClockOK(H, v, sessions[a])
        BY <2>1 DEF TrackOK
      <4>4. Computing(sessions[a]) => sessions[a].id # 0
        BY <4>3 DEF ClockOK
      <4>5. ClockOK(K, v, sessions[a])
        BY <4>3, <4>4, <2>1, <1>1, <1>11, ClockKept
      <4> QED
        BY <4>2, <4>5
    <3> QED
      BY <3>1, <3>11, <3>12, <3>14 DEF TrackOK, t
  <2> QED
    BY <2>2, <2>3
<1>16. HistoryOK(K)'
  BY <1>1, <1>2, <1>10, <1>11, <1>13, <1>14, <1>15 DEF HistoryOK
<1> QED
  BY <1>16

(* The end of a block leaves the machines in their sessions: the epoch of  *)
(* the session that w is in goes on.                                       *)
LEMMA EpochEnd ==
    ASSUME NEW H, NEW K, StreamOK(H), StreamOK(K), Extends(H, K), K.ht = H.ht + 1,
           Now(K) = Now(H) + 1, K.end[H.ht] = Now(K),
           NEW w \in Workers, NEW s, EpochOK(H, w, s),
           K.F[w][Now(K)].session = H.F[w][Now(H)].session,
           H.F[w][Now(H)].session # 0 => s.id = H.F[w][Now(H)].session
    PROVE  EpochOK(K, w, s)
<1> SUFFICES ASSUME NEW h \in 1..K.ht, NEW p \in K.end[h - 1]..K.end[h],
                    K.F[w][p].session # 0, s.v_updated_at < h
             PROVE  s.id = K.F[w][p].session
  BY DEF EpochOK
<1> DEFINE n == Now(H)
<1>1. /\ H.ht \in Nat \ {0} /\ n \in Nat /\ n \in 0..n /\ Now(K) = n + 1
      /\ h \in 0..K.ht /\ h - 1 \in 0..K.ht /\ H.ht \in 0..H.ht /\ H.ht - 1 \in 0..H.ht
      /\ H.ht - 1 \in 0..(H.ht - 1)
  BY Bounds DEF StreamOK
<1>2. K.end[h] \in Nat /\ K.end[h] <= n + 1 /\ K.end[h - 1] \in Nat /\ H.end[H.ht] = n
  BY ZenonT(60), <1>1, Bounds DEF StreamOK, ShapeOK
<1>3. p \in 0..(n + 1)
  BY <1>1, <1>2
<1>4. CASE p = n + 1
  BY <1>1, <1>4
<1>5. CASE p # n + 1
  <2>1. p \in 0..n
    BY <1>1, <1>3, <1>5
  <2>2. K.F[w][p] = H.F[w][p]
    BY <2>1 DEF Extends
  <2>3. h # H.ht + 1
    <3> SUFFICES ASSUME h = H.ht + 1 PROVE FALSE
      OBVIOUS
    <3>1. h - 1 = H.ht
      BY <1>1
    <3>2. p >= n + 1
      BY <3>1, <1>1, <1>2
    <3> QED
      BY <3>2, <2>1, <1>1
  <2>4. h \in 1..H.ht /\ h - 1 \in 0..(H.ht - 1)
    BY <1>1, <2>3
  <2>5. K.end[h - 1] = H.end[h - 1]
    BY <2>4 DEF Extends
  <2>6. p \in H.end[h - 1]..H.end[h]
    <3>1. CASE h = H.ht
      BY <3>1, <2>1, <2>5, <1>1, <1>2
    <3>2. CASE h # H.ht
      <4>1. h \in 0..(H.ht - 1)
        BY <2>4, <3>2, <1>1
      <4>2. K.end[h] = H.end[h]
        BY <4>1 DEF Extends
      <4> QED
        BY <4>2, <2>5
    <3> QED
      BY <3>1, <3>2
  <2> QED
    BY <2>2, <2>4, <2>6 DEF EpochOK
<1> QED
  BY <1>4, <1>5

(* The challenge that ends the block is younger than any that was answered.*)
LEMMA ClockEnd ==
    ASSUME NEW H, NEW K, StreamOK(H), StreamOK(K), Extends(H, K), K.ht = H.ht + 1,
           NEW w \in Workers, K.acc[w][Now(K)] = H.acc[w][Now(H)],
           \A i \in 1..Len(K.S[w]) : i \notin 1..Len(H.S[w]) => K.S[w][i].block = H.ht,
           NEW s, s.challenge_time_last \in Nat, ClockOK(H, w, s)
    PROVE  ClockOK(K, w, s)
<1> DEFINE a == H.acc[w][Now(H)]
<1>1. H.ht \in Nat /\ a \in Nat /\ Len(H.S[w]) \in Nat /\ Len(K.S[w]) \in Nat
  BY Bounds, CountFacts DEF StreamOK
<1>2. /\ s.challenge_time_last < H.ht
      /\ Computing(s) => s.id # 0
      /\ \A j \in (a + 1)..Len(H.S[w]) : s.challenge_time_last < H.S[w][j].block
  BY DEF ClockOK
<1>3. s.challenge_time_last < K.ht
  BY <1>1, <1>2
<1> HIDE DEF a
<1>4. ASSUME NEW j \in (a + 1)..Len(K.S[w]) PROVE s.challenge_time_last < K.S[w][j].block
  <2>1. j \in 1..Len(K.S[w])
    BY <1>1
  <2>2. CASE j \in 1..Len(H.S[w])
    <3>1. j \in (a + 1)..Len(H.S[w])
      BY <1>1, <2>2
    <3>2. K.S[w][j] = H.S[w][j]
      BY <2>2 DEF Extends
    <3> QED
      BY <3>1, <3>2, <1>2
  <2>3. CASE j \notin 1..Len(H.S[w])
    <3>1. K.S[w][j].block = H.ht
      BY <2>1, <2>3
    <3> QED
      BY <3>1, <1>2
  <2> QED
    BY <2>2, <2>3
<1> QED
  BY <1>2, <1>3, <1>4 DEF ClockOK, a

(* The block ends: its challenge is the last event, and everybody has one  *)
(* block more to handle.                                                   *)
LEMMA HistoryEndBlock ==
    ASSUME PalletType, NEW H, HistoryOK(H), EndBlock
    PROVE  \E K : HistoryOK(K)'
<1> DEFINE n == Now(H)
<1>1. /\ StreamOK(H) /\ H.ht = height /\ H.la = launchedAt /\ AddedOK(H)
      /\ IsBlock(H, current, H.ht) /\ ObserversOK(H) /\ \A v \in Workers : TrackOK(H, v)
  BY DEF HistoryOK
<1>2. /\ height' = height + 1 /\ current' = << >>
      /\ UNCHANGED <<addedAt, launchedAt, binding, sessions, reports>>
  BY DEF EndBlock, pallet
<1>3. PICK hits \in Hits :
         LET b == [height |-> height, events |-> Append(current, Challenge(hits))]
         IN  /\ worker' = [w \in Workers |-> [worker[w] EXCEPT !.inbox = Append(@, b)]]
             /\ gk' = [gk EXCEPT !.inbox = Append(@, b)]
  BY DEF EndBlock
<1> DEFINE e == Challenge(hits)
           evs == Append(current, e)
           b == [height |-> H.ht, events |-> evs]
<1>4. hits \in SUBSET Workers
  BY DEF Hits
<1>5. e \in Events /\ e.type = "HeartbeatChallenge"
  BY <1>4 DEF Events, Challenge
<1>6. MayFollow(H, e, launchedAt)
  <2>1. e # Launched
    BY <1>5 DEF Launched
  <2> QED
    BY <1>1, <1>5, <2>1 DEF MayFollow
<1>7. /\ \A w \in Workers : worker'[w] = [worker[w] EXCEPT !.inbox = Append(worker[w].inbox, b)]
      /\ worker' = [w \in Workers |-> worker'[w]]
      /\ gk' = [gk EXCEPT !.inbox = Append(gk.inbox, b)]
  BY <1>1, <1>3
<1> HIDE DEF e
<1>8. PICK K : Grown(H, K, e, launchedAt) /\ StreamOK(K)
  BY <1>1, <1>6, StreamGrows
<1>9. /\ Extends(H, K) /\ IsBlock(K, evs, H.ht) /\ Now(K) = n + 1
  BY <1>1, <1>6, <1>8, GrownExtends, GrownBlock, GrownShapeOK
<1>10. n \in Nat /\ n \in 0..n /\ H.ht \in Nat \ {0}
  BY <1>1, Bounds DEF StreamOK
<1>11. K.ht = H.ht + 1 /\ K.la = launchedAt /\ K.end[H.ht] = n + 1 /\ K.end[K.ht] = n + 1
  BY <1>5, <1>8 DEF Grown, GrownShape
<1> HIDE DEF evs
<1>12. ASSUME NEW v \in Workers
       PROVE  /\ K.acc[v][Now(K)] = H.acc[v][n]
              /\ K.F[v][Now(K)].session = H.F[v][n].session
              /\ K.F[v][Now(K)].paused = H.F[v][n].paused
              /\ \A i \in 1..Len(K.S[v]) : i \notin 1..Len(H.S[v]) => K.S[v][i].block = H.ht
  <2> DEFINE answer == [session |-> H.F[v][n].session, block |-> H.ht]
  <2>1. ~IsHeartbeat(e, v)
    BY <1>5 DEF IsHeartbeat
  <2>2. /\ K.acc[v][Now(K)] = H.acc[v][n]
        /\ K.F[v][Now(K)] = ProcessEvent(v, H.F[v][n], e)
        /\ K.S[v] = H.S[v] \/ K.S[v] = Append(H.S[v], answer)
    BY <2>1, <1>8, <1>9 DEF Grown, GrownWorker
  <2>3. /\ H.F[v][n] \in StateMachines
        /\ H.F[v][n].paused => H.F[v][n].session # 0
    BY <1>1, <1>10 DEF StreamOK, MachineOK
  <2>4. StepShape(v, H.F[v][n], e, K.F[v][Now(K)])
    BY <2>2, <2>3, <1>5, MachineStep
  <2>5. /\ K.F[v][Now(K)].session = H.F[v][n].session
        /\ K.F[v][Now(K)].paused = H.F[v][n].paused
    BY <2>4, <1>5 DEF StepShape
  <2>6. \A i \in 1..Len(K.S[v]) : i \notin 1..Len(H.S[v]) => K.S[v][i].block = H.ht
    <3>1. H.S[v] \in Seq(Answer) /\ answer.block = H.ht
      BY <1>1, CountFacts
    <3> HIDE DEF answer
    <3>2. CASE K.S[v] = H.S[v]
      BY <3>2
    <3>3. CASE K.S[v] = Append(H.S[v], answer)
      <4>1. Len(H.S[v]) \in Nat /\ Len(K.S[v]) = Len(H.S[v]) + 1
            /\ K.S[v][Len(H.S[v]) + 1] = answer
        BY <3>1, <3>3
      <4>2. \A i \in 1..(Len(H.S[v]) + 1) : i \notin 1..Len(H.S[v]) => i = Len(H.S[v]) + 1
        BY <4>1
      <4> QED
        BY <4>1, <4>2, <3>1
    <3> QED
      BY <2>2, <3>2, <3>3
  <2> QED
    BY <2>2, <2>5, <2>6
<1>13. ASSUME NEW inbox, InboxOK(H, inbox)
       PROVE  /\ InboxOK(K, Append(inbox, b)) /\ Done(K, Append(inbox, b)) = Done(H, inbox)
              /\ Append(inbox, b) \in Seq(Blocks)
  <2>1. InboxOK(K, Append(inbox, b)) /\ Done(K, Append(inbox, b)) = Done(H, inbox)
    BY <1>1, <1>8, <1>9, <1>11, <1>13, CarryInboxEnd
  <2> QED
    BY <2>1 DEF InboxOK
<1> HIDE DEF b
<1>14. ASSUME NEW v \in Workers
       PROVE  worker'[v] \in WorkerStates /\ WorkerOK(K, v, worker'[v])
  <2> DEFINE st == worker[v]
             in == Append(st.inbox, b)
             st2 == worker'[v]
  <2>1. st \in WorkerStates /\ WorkerOK(H, v, st) /\ InboxOK(H, st.inbox)
    BY <1>1 DEF ObserversOK, WorkerOK
  <2>2. InboxOK(K, in) /\ Done(K, in) = Done(H, st.inbox) /\ in \in Seq(Blocks)
    BY <2>1, <1>13
  <2>3. st2 = [st EXCEPT !.inbox = in]
    BY <1>7
  <2> HIDE DEF in, st, st2
  <2>4. st2 \in WorkerStates /\ st2.sm = st.sm /\ st2.out = st.out /\ st2.inbox = in
    BY <2>1, <2>2, <2>3 DEF WorkerStates
  <2>5. K.acc[v][Now(K)] = H.acc[v][Now(H)]
    BY <1>12
  <2>6. WorkerOK(K, v, st2)
    BY <2>1, <2>2, <2>4, <2>5, <1>1, <1>8, <1>9, CarryWorker
  <2> QED
    BY <2>4, <2>6 DEF st2
<1>15. GatekeeperOK(K, gk')
  <2> DEFINE in == Append(gk.inbox, b)
  <2>1. gk \in Gatekeepers /\ GatekeeperOK(H, gk) /\ InboxOK(H, gk.inbox)
    BY <1>1 DEF ObserversOK, GatekeeperOK
  <2>2. InboxOK(K, in) /\ Done(K, in) = Done(H, gk.inbox) /\ in \in Seq(Blocks)
    BY <2>1, <1>13
  <2>3. gk' = [gk EXCEPT !.inbox = in]
    BY <1>7
  <2> HIDE DEF in
  <2>4. /\ gk' \in Gatekeepers /\ gk'.launched = gk.launched /\ gk'.poisoned = gk.poisoned
        /\ gk'.info = gk.info /\ gk'.inbox = in
    BY <2>1, <2>2, <2>3 DEF Gatekeepers
  <2> QED
    BY <2>1, <2>2, <2>4, <1>1, <1>8, <1>9, CarryGatekeeper
<1>16. ObserversOK(K)'
  <2>1. ReportsOK(K, reports)
    BY <1>1, <1>8, <1>9, CarryReports DEF ObserversOK
  <2>2. worker' \in [Workers -> WorkerStates]
    <3>1. worker' = [w \in Workers |-> worker'[w]]
      BY <1>7
    <3> QED
      BY <3>1, <1>14
  <2>3. reports' = reports
    BY <1>2
  <2> QED
    BY <2>1, <2>2, <2>3, <1>14, <1>15 DEF ObserversOK
<1>17. AddedOK(K)'
  <2>1. \A v \in Workers : Bound(v)' => Bound(v)
    BY <1>2 DEF Bound
  <2> QED
    BY <1>1, <1>2, <1>8, <1>9, <2>1, AddedKept
<1>18. ASSUME NEW v \in Workers PROVE TrackOK(K, v)'
  <2>1. TrackOK(H, v)
    BY <1>1
  <2>2. Bound(v)' = Bound(v) /\ Account(v)' = Account(v) /\ sessions' = sessions
    BY <1>2 DEF Bound, Account
  <2>3. SessionOK(K, v)'
    BY <2>1, <2>2, <1>12 DEF TrackOK, SessionOK, Computes
  <2>4. ASSUME Bound(v) PROVE EpochOK(K, v, sessions[Account(v)])
    <3> DEFINE s == sessions[Account(v)]
    <3>1. EpochOK(H, v, s)
      BY <2>1, <2>4 DEF TrackOK
    <3>2. H.F[v][Now(H)].session # 0 => s.id = H.F[v][Now(H)].session
      BY <2>1 DEF TrackOK, SessionOK
    <3> HIDE DEF s
    <3>3. K.F[v][Now(K)].session = H.F[v][Now(H)].session
      BY <1>12
    <3>4. Now(K) = Now(H) + 1 /\ K.end[H.ht] = Now(K) /\ K.ht = H.ht + 1
      BY <1>9, <1>11
    <3>5. EpochOK(K, v, s)
      BY <3>1, <3>2, <3>3, <3>4, <1>1, <1>8, <1>9, EpochEnd
    <3> QED
      BY <3>5 DEF s
  <2>5. ASSUME NEW a \in Accounts, a[2] = v PROVE ClockOK(K, v, sessions[a])
    <3>1. ClockOK(H, v, sessions[a])
      BY <2>1, <2>5 DEF TrackOK
    <3>2. sessions[a].challenge_time_last \in Nat
      BY DEF PalletType, SessionType
    <3>3. /\ K.acc[v][Now(K)] = H.acc[v][Now(H)] /\ K.ht = H.ht + 1
          /\ \A i \in 1..Len(K.S[v]) : i \notin 1..Len(H.S[v]) => K.S[v][i].block = H.ht
      BY <1>11, <1>12
    <3> QED
      BY <3>1, <3>2, <3>3, <1>1, <1>8, <1>9, ClockEnd
  <2> QED
    BY <2>2, <2>3, <2>4, <2>5 DEF TrackOK
<1>19. IsBlock(K, << >>, K.ht)
  <2>1. K.ht - 1 = H.ht /\ K.end[K.ht] - K.end[H.ht] = 0
    BY <1>10, <1>11
  <2>2. << >> \in Seq(Events) /\ Len(<< >>) = 0 /\ 1..0 = {}
    OBVIOUS
  <2> QED
    BY <2>1, <2>2 DEF IsBlock
<1>20. HistoryOK(K)'
  BY <1>1, <1>2, <1>8, <1>11, <1>16, <1>17, <1>18, <1>19 DEF HistoryOK
<1> QED
  BY <1>20

-----------------------------------------------------------------------------
(* Steps that handle a block: the history stays, an observer moves on.     *)

(* b is the block that an observer with this inbox handles next, d the     *)
(* last one handled, and p the events handled.                             *)
NextBlock(H, inbox, b, d, p) ==
    /\ b \in Blocks /\ b.height = d + 1 /\ d \in Nat /\ d + 1 \in 1..(H.ht - 1)
    /\ p \in Nat /\ p = H.end[d] /\ Len(b.events) \in Nat /\ H.end[d + 1] = p + Len(b.events)
    /\ \A i \in 0..Len(b.events) : p + i \in 0..Now(H)
    /\ \A i \in 1..Len(b.events) :
          /\ p + i \in 1..Now(H) /\ (p + i) - 1 = p + (i - 1)
          /\ b.events[i] \in Events /\ b.events[i] = H.E[p + i] /\ H.blk[p + i] = d + 1
    /\ InboxOK(H, Tail(inbox)) /\ Done(H, Tail(inbox)) = d + 1

(* The head of an inbox is the block after the last one handled.           *)
LEMMA NextBlockFacts ==
    ASSUME NEW H, StreamOK(H), NEW inbox, InboxOK(H, inbox), inbox # << >>
    PROVE  NextBlock(H, inbox, Head(inbox), Done(H, inbox), H.end[Done(H, inbox)])
<1> DEFINE b == Head(inbox)
           d == Done(H, inbox)
           p == H.end[d]
           N == Len(b.events)
<1>1. H.ht \in Nat \ {0} /\ Now(H) \in Nat
  BY Bounds DEF StreamOK
<1>2. inbox \in Seq(Blocks) /\ Len(inbox) \in Nat \ {0} /\ Len(inbox) < H.ht
  BY DEF InboxOK
<1>3. b = inbox[1] /\ 1 \in 1..Len(inbox)
  BY <1>2
<1>4. b \in Blocks
  BY <1>2, <1>3, ElementOfSeq
<1>5. b.height = d + 1 /\ IsBlock(H, b.events, d + 1)
  BY <1>3 DEF InboxOK
<1>6. d \in Nat /\ d + 1 \in 1..(H.ht - 1) /\ d \in 0..H.ht /\ d + 1 \in 0..H.ht /\ (d + 1) - 1 = d
  BY <1>1, <1>2 DEF Done
<1> HIDE DEF b, d
<1>7. /\ p \in Nat /\ H.end[d + 1] \in Nat /\ H.end[d + 1] <= Now(H)
  BY <1>6, Bounds DEF StreamOK
<1>8. /\ b.events \in Seq(Events) /\ N = H.end[d + 1] - p
      /\ \A i \in 1..N : b.events[i] = H.E[p + i]
  BY <1>5, <1>6 DEF IsBlock
<1>9. N \in Nat
  BY <1>8
<1> HIDE DEF p, N
<1>10. H.end[d + 1] = p + N
  BY <1>7, <1>8, <1>9
<1>11. \A i \in 0..N : p + i \in 0..Now(H)
  BY <1>1, <1>7, <1>9, <1>10
<1>12. ASSUME NEW i \in 1..N
       PROVE  /\ p + i \in 1..Now(H) /\ (p + i) - 1 = p + (i - 1)
              /\ b.events[i] \in Events /\ b.events[i] = H.E[p + i] /\ H.blk[p + i] = d + 1
  <2>1. p + i \in 1..Now(H) /\ (p + i) - 1 = p + (i - 1) /\ p + i <= p + N /\ ~(p + i <= p)
    BY <1>1, <1>7, <1>9, <1>10
  <2>2. b.events[i] \in Events
    BY <1>8, ElementOfSeq DEF N
  <2>3. \A q \in 1..Now(H), h \in 0..H.ht : q <= H.end[h] <=> H.blk[q] <= h
    BY DEF StreamOK, ShapeOK
  <2>4. H.blk[p + i] <= d + 1 /\ ~(H.blk[p + i] <= d)
    BY <2>1, <2>3, <1>6, <1>10 DEF p
  <2>5. H.blk[p + i] \in Nat
    BY SMTT(30), <2>1 DEF StreamOK, ShapeOK
  <2>6. H.blk[p + i] = d + 1
    BY <2>4, <2>5, <1>6
  <2> QED
    BY <2>1, <2>2, <2>6, <1>8
<1>13. InboxOK(H, Tail(inbox)) /\ Done(H, Tail(inbox)) = d + 1
  <2> DEFINE t == Tail(inbox)
             l == Len(inbox)
  <2>1. /\ t \in Seq(Blocks) /\ Len(t) = l - 1 /\ l \in Nat
        /\ \A i \in 1..(l - 1) : t[i] = inbox[i + 1]
    BY <1>2
  <2>2. Done(H, t) = d + 1
    BY <1>1, <1>2, <2>1 DEF Done, d
  <2>3. \A i \in 1..l : /\ inbox[i].height = d + i
                        /\ IsBlock(H, inbox[i].events, d + i)
    BY DEF InboxOK, d
  <2> HIDE DEF t, l
  <2>4. ASSUME NEW i \in 1..Len(t)
        PROVE  t[i].height = (d + 1) + i /\ IsBlock(H, t[i].events, (d + 1) + i)
    <3>1. i \in 1..(l - 1) /\ i + 1 \in 1..l /\ d + (i + 1) = (d + 1) + i
      BY <2>1, <1>6
    <3>2. inbox[i + 1].height = d + (i + 1) /\ IsBlock(H, inbox[i + 1].events, d + (i + 1))
      BY <3>1, <2>3
    <3>3. t[i] = inbox[i + 1]
      BY <3>1, <2>1
    <3> QED
      BY <3>1, <3>2, <3>3
  <2>5. Len(t) < H.ht
    BY <1>1, <1>2, <2>1 DEF l
  <2>6. InboxOK(H, t)
    BY <2>1, <2>2, <2>4, <2>5 DEF InboxOK
  <2> QED
    BY <2>2, <2>6 DEF t
<1> QED
  BY <1>4, <1>5, <1>6, <1>7, <1>9, <1>10, <1>11, <1>12, <1>13 DEF NextBlock, b, d, p, N

(* States of a worker whose machine is paused in a session only.           *)
SoundWorkers == {s \in WorkerStates : s.sm.paused => s.sm.session # 0}

(* What an event does to a worker.                                         *)
LEMMA WorkerStepFacts ==
    ASSUME NEW w \in Workers, NEW s \in SoundWorkers, NEW e \in Events, NEW h \in Nat \ {0}
    PROVE  /\ WorkerStep(w, s, e, h) \in SoundWorkers
           /\ WorkerStep(w, s, e, h).inbox = s.inbox
           /\ WorkerStep(w, s, e, h).sm = ProcessEvent(w, s.sm, e)
           /\ Answers(w, s.sm, e) =>
                 WorkerStep(w, s, e, h).out
                    = Append(s.out, [session |-> s.sm.session, block |-> h])
           /\ ~Answers(w, s.sm, e) => WorkerStep(w, s, e, h).out = s.out
<1> DEFINE a == [session |-> s.sm.session, block |-> h]
           out == IF Answers(w, s.sm, e) THEN Append(s.out, a) ELSE s.out
           sm == ProcessEvent(w, s.sm, e)
           t == WorkerStep(w, s, e, h)
<1>1. s \in WorkerStates /\ s.sm \in StateMachines /\ (s.sm.paused => s.sm.session # 0)
      /\ s.out \in Seq(Answer)
  BY DEF SoundWorkers, WorkerStates
<1>2. StepShape(w, s.sm, e, sm)
  BY <1>1, MachineStep
<1>3. sm \in StateMachines /\ (sm.paused => sm.session # 0)
  BY <1>2 DEF StepShape
<1>4. out \in Seq(Answer)
  <2>1. CASE Answers(w, s.sm, e)
    <3>1. s.sm.session \in Nat \ {0}
      BY <2>1, <1>1 DEF Answers, StateMachines
    <3>2. a \in Answer
      BY <3>1 DEF Answer
    <3> HIDE DEF a
    <3>3. Append(s.out, a) \in Seq(Answer)
      BY <3>2, <1>1
    <3> QED
      BY <3>3, <2>1
  <2>2. CASE ~Answers(w, s.sm, e)
    BY <2>2, <1>1
  <2> QED
    BY <2>1, <2>2
<1>5. t = [s EXCEPT !.sm = sm, !.out = out]
  BY <1>1 DEF WorkerStep, WorkerStates
<1> HIDE DEF t, sm, out
<1>6. t \in WorkerStates /\ t.inbox = s.inbox /\ t.sm = sm /\ t.out = out
  BY <1>1, <1>3, <1>4, <1>5 DEF WorkerStates
<1>7. t \in SoundWorkers
  BY <1>3, <1>6 DEF SoundWorkers
<1> QED
  BY <1>6, <1>7 DEF t, sm, out

(* What handling a block does to a worker, event by event.                 *)
WorkerRuns(f, w, st, b) ==
    /\ f \in [0..Len(b.events) -> SoundWorkers]
    /\ f[0] = [st EXCEPT !.inbox = Tail(@)]
    /\ \A i \in 1..Len(b.events) : f[i] = WorkerStep(w, f[i - 1], b.events[i], b.height)

(* The recursion of WorkerBlock has a solution.                            *)
LEMMA WorkerRun ==
    ASSUME NEW w \in Workers, WorkerBlock(w), NEW b, b = Head(worker[w].inbox),
           b \in Blocks, b.height # 0,
           NEW start, start = [worker[w] EXCEPT !.inbox = Tail(@)], start \in SoundWorkers
    PROVE  \E f : /\ WorkerRuns(f, w, worker[w], b)
                  /\ worker' = [worker EXCEPT ![w] = f[Len(b.events)]]
<1> DEFINE N == Len(b.events)
           X == SoundWorkers
           Step(i, s) == WorkerStep(w, s, b.events[i], b.height)
           step == [i \in 1..N |-> [s \in X |-> Step(i, s)]]
           Rec(f) == [i \in 0..N |-> IF i = 0 THEN start ELSE Step(i, f[i - 1])]
           after == CHOOSE f : f = Rec(f)
<1>1. N \in Nat /\ b.events \in Seq(Events) /\ b.height \in Nat \ {0}
  BY DEF Blocks
<1>2. \A i \in 1..N : b.events[i] \in Events
  BY <1>1, ElementOfSeq
<1>3. \A i \in 1..N, s \in X : Step(i, s) \in X
  BY <1>1, <1>2, WorkerStepFacts
<1>4. worker' = [worker EXCEPT ![w] = after[N]]
  BY DEF WorkerBlock
<1> HIDE DEF N, X, Step
<1>5. step \in [1..N -> [X -> X]]
  BY <1>3
<1>6. PICK g \in [0..N -> X] : g[0] = start /\ \A i \in 1..N : g[i] = step[i][g[i - 1]]
  <2> HIDE DEF step
  <2>1. start \in X
    BY DEF X
  <2>2. \E g : Iterates(g, N, X, start, step)
    BY <1>1, <1>5, <2>1, IterationExists
  <2> QED
    BY <2>2 DEF Iterates
<1>7. g = Rec(g)
  <2>1. ASSUME NEW i \in 0..N PROVE g[i] = Rec(g)[i]
    <3>1. CASE i = 0
      BY <3>1, <1>1, <1>6
    <3>2. CASE i # 0
      <4>1. i \in 1..N /\ g[i - 1] \in X
        BY <1>1, <1>6, <3>2
      <4> QED
        BY <4>1, <1>6, <3>2
    <3> QED
      BY <3>1, <3>2
  <2> QED
    BY <2>1
<1>8. after = Rec(after)
  <2> HIDE DEF Rec
  <2> QED
    BY <1>7
<1> HIDE DEF after
<1>9. after[0] = start
  BY <1>1, <1>8
<1>10. \A i \in 1..N : after[i] = Step(i, after[i - 1])
  <2> SUFFICES ASSUME NEW i \in 1..N PROVE after[i] = Step(i, after[i - 1])
    OBVIOUS
  <2>1. i \in 0..N /\ i # 0
    BY <1>1
  <2>2. Rec(after)[i] = Step(i, after[i - 1])
    BY <2>1
  <2> QED
    BY <1>8, <2>2
<1>11. \A i \in 0..N : after[i] \in X
  <2> DEFINE P == {i \in 0..N : after[i] \in X}
  <2>1. \A k \in 1..N : k - 1 \in P => k \in P
    BY <1>1, <1>3, <1>10
  <2>2. 0 \in P
    BY <1>1, <1>9 DEF X
  <2>3. P \in SUBSET (0..N)
    OBVIOUS
  <2> HIDE DEF P
  <2>4. P = 0..N
    BY <1>1, <2>1, <2>2, <2>3, IntervalInduction
  <2> QED
    BY <2>4 DEF P
<1>12. after \in [0..N -> X]
  BY <1>8, <1>11
<1>13. WorkerRuns(after, w, worker[w], b)
  BY <1>9, <1>10, <1>12 DEF WorkerRuns, N, X, Step
<1> QED
  BY <1>4, <1>13 DEF N

(* The same history fits when only an observer moves.                      *)
LEMMA ObserverHistory ==
    ASSUME NEW H, HistoryOK(H), UNCHANGED <<height, current, pallet>>, ObserversOK(H)'
    PROVE  HistoryOK(H)'
<1>1. UNCHANGED <<height, current, addedAt, launchedAt, binding, sessions>>
  BY DEF pallet
<1>2. AddedOK(H)'
  BY <1>1 DEF HistoryOK, AddedOK, Bound
<1>3. \A w \in Workers : TrackOK(H, w)'
  <2> SUFFICES ASSUME NEW w \in Workers PROVE TrackOK(H, w)'
    OBVIOUS
  <2>1. TrackOK(H, w)
    BY DEF HistoryOK
  <2>2. Bound(w)' = Bound(w) /\ Account(w)' = Account(w) /\ sessions' = sessions
    BY <1>1 DEF Bound, Account
  <2> QED
    BY <2>1, <2>2 DEF TrackOK, SessionOK, Computes
<1> QED
  BY <1>1, <1>2, <1>3 DEF HistoryOK

(* One event more.                                                         *)
LEMMA WorkerMoves ==
    ASSUME NEW H, StreamOK(H), NEW w \in Workers, NEW q \in 1..Now(H),
           NEW s \in SoundWorkers, NEW t, t = WorkerStep(w, s, H.E[q], H.blk[q]),
           s.sm = H.F[w][q - 1], OutOK(H, w, s.out, q - 1)
    PROVE  t.inbox = s.inbox /\ t.sm = H.F[w][q] /\ OutOK(H, w, t.out, q)
<1> DEFINE e == H.E[q]
           h == H.blk[q]
           x == [session |-> s.sm.session, block |-> h]
           a == H.acc[w][Now(H)]
<1>1. e \in Events /\ h \in Nat \ {0} /\ q \in 0..Now(H) /\ q - 1 \in 0..Now(H)
  <2>1. Now(H) \in Nat
    BY Bounds DEF StreamOK
  <2>2. e \in Events
    BY ElementOfSeq DEF StreamOK, ShapeOK, Now
  <2>3. h \in Nat \ {0}
    BY SMTT(30) DEF StreamOK, ShapeOK
  <2> QED
    BY <2>1, <2>2, <2>3
<1>2. /\ t.inbox = s.inbox /\ t.sm = ProcessEvent(w, s.sm, e)
      /\ Answers(w, s.sm, e) => t.out = Append(s.out, x)
      /\ ~Answers(w, s.sm, e) => t.out = s.out
  BY <1>1, WorkerStepFacts
<1>3. t.sm = H.F[w][q]
  BY <1>2 DEF StreamOK, MachineOK
<1>4. Answers(w, s.sm, e) <=> AnswersAt(H, w, q)
  BY DEF AnswersAt
<1>5. /\ AnswersAt(H, w, q) => H.cnt[w][q] = H.cnt[w][q - 1] + 1 /\ H.S[w][H.cnt[w][q]] = x
      /\ ~AnswersAt(H, w, q) => H.cnt[w][q] = H.cnt[w][q - 1]
  BY DEF StreamOK, AnswersOK
<1>6. a \in Nat /\ H.cnt[w][q - 1] \in Nat /\ s.out \in Seq(Answer)
  BY <1>1, CountFacts DEF SoundWorkers, WorkerStates
<1>7. /\ Len(s.out) = H.cnt[w][q - 1] - a
      /\ \A i \in 1..Len(s.out) : s.out[i] = H.S[w][a + i]
  BY DEF OutOK
<1> HIDE DEF e, h, x, a
<1>8. CASE ~AnswersAt(H, w, q)
  BY <1>2, <1>3, <1>4, <1>5, <1>7, <1>8 DEF OutOK, a
<1>9. CASE AnswersAt(H, w, q)
  <2> DEFINE l == Len(s.out)
  <2>1. /\ t.out = Append(s.out, x) /\ l \in Nat
        /\ H.cnt[w][q] = H.cnt[w][q - 1] + 1 /\ H.S[w][H.cnt[w][q]] = x
    BY <1>2, <1>4, <1>5, <1>6, <1>9
  <2>2. /\ Len(t.out) = l + 1 /\ t.out[l + 1] = x /\ \A i \in 1..l : t.out[i] = s.out[i]
    BY <2>1, <1>6
  <2> HIDE DEF l
  <2>3. l + 1 = H.cnt[w][q] - a /\ H.cnt[w][q] = a + (l + 1)
    BY SMTT(30), <2>1, <1>6, <1>7 DEF l
  <2>4. \A i \in 1..(l + 1) : i \in 1..l \/ i = l + 1
    BY <2>1
  <2>5. \A i \in 1..(l + 1) : t.out[i] = H.S[w][a + i]
    BY <2>1, <2>2, <2>3, <2>4, <1>7 DEF l
  <2>6. OutOK(H, w, t.out, q)
    BY <2>2, <2>3, <2>5 DEF OutOK, a
  <2> QED
    BY <2>6, <1>2, <1>3
<1> QED
  BY <1>8, <1>9

(* A worker that has handled a block is where the stream has it after the  *)
(* block.                                                                  *)
LEMMA WorkerReaches ==
    ASSUME NEW H, StreamOK(H), NEW w \in Workers, NEW st, WorkerOK(H, w, st),
           NEW b, NEW d, NEW p, NextBlock(H, st.inbox, b, d, p), d = Done(H, st.inbox),
           NEW f, WorkerRuns(f, w, st, b)
    PROVE  WorkerOK(H, w, f[Len(b.events)])
<1> DEFINE N == Len(b.events)
           Ok(i) == /\ f[i].inbox = Tail(st.inbox) /\ f[i].sm = H.F[w][p + i]
                    /\ OutOK(H, w, f[i].out, p + i)
           P == {i \in 0..N : Ok(i)}
<1>1. /\ N \in Nat /\ p \in Nat /\ p = H.end[d] /\ H.end[d + 1] = p + N /\ b.height = d + 1
      /\ \A i \in 1..N : /\ p + i \in 1..Now(H) /\ (p + i) - 1 = p + (i - 1)
                         /\ b.events[i] = H.E[p + i] /\ H.blk[p + i] = d + 1
      /\ InboxOK(H, Tail(st.inbox)) /\ Done(H, Tail(st.inbox)) = d + 1
  BY DEF NextBlock
<1>2. /\ f \in [0..N -> SoundWorkers] /\ f[0] = [st EXCEPT !.inbox = Tail(@)]
      /\ \A i \in 1..N : f[i] = WorkerStep(w, f[i - 1], b.events[i], b.height)
  BY DEF WorkerRuns
<1>3. st \in WorkerStates /\ st.sm = H.F[w][p] /\ OutOK(H, w, st.out, p)
  BY <1>1 DEF WorkerOK
<1>4. Ok(0)
  <2>1. p + 0 = p
    BY <1>1
  <2>2. f[0].inbox = Tail(st.inbox) /\ f[0].sm = st.sm /\ f[0].out = st.out
    BY <1>2, <1>3 DEF WorkerStates
  <2> QED
    BY <2>1, <2>2, <1>3
<1> HIDE DEF N
<1>5. ASSUME NEW k \in 1..N, Ok(k - 1) PROVE Ok(k)
  <2>1. /\ p + k \in 1..Now(H) /\ f[k - 1] \in SoundWorkers
        /\ f[k] = WorkerStep(w, f[k - 1], H.E[p + k], H.blk[p + k])
        /\ f[k - 1].sm = H.F[w][(p + k) - 1] /\ OutOK(H, w, f[k - 1].out, (p + k) - 1)
        /\ f[k - 1].inbox = Tail(st.inbox)
    <3>1. k - 1 \in 0..N
      BY <1>1
    <3>2. f[k - 1] \in SoundWorkers
      BY <3>1, <1>2
    <3>3. /\ p + k \in 1..Now(H) /\ (p + k) - 1 = p + (k - 1)
          /\ b.events[k] = H.E[p + k] /\ H.blk[p + k] = b.height
      BY <1>1
    <3>4. f[k] = WorkerStep(w, f[k - 1], b.events[k], b.height)
      BY <1>2
    <3> QED
      BY <3>2, <3>3, <3>4, <1>5
  <2>2. f[k].inbox = f[k - 1].inbox /\ f[k].sm = H.F[w][p + k] /\ OutOK(H, w, f[k].out, p + k)
    <3> HIDE DEF Ok
    <3> QED
      BY <2>1, WorkerMoves
  <2> QED
    BY <2>1, <2>2
<1> HIDE DEF Ok
<1>6. /\ 0 \in P /\ P \in SUBSET (0..N)
      /\ \A k \in 1..N : k - 1 \in P => k \in P
  BY <1>1, <1>4, <1>5
<1> HIDE DEF P
<1>7. P = 0..N
  BY <1>1, <1>6, IntervalInduction
<1>8. Ok(N)
  <2>1. N \in P
    BY <1>1, <1>7
  <2> QED
    BY <2>1 DEF P
<1>9. f[N] \in WorkerStates
  <2>1. N \in 0..N
    BY <1>1
  <2> QED
    BY <2>1, <1>2 DEF SoundWorkers
<1>10. /\ f[N].inbox = Tail(st.inbox) /\ f[N].sm = H.F[w][H.end[d + 1]]
       /\ OutOK(H, w, f[N].out, H.end[d + 1])
  BY <1>1, <1>8 DEF Ok
<1>11. WorkerOK(H, w, f[N])
  BY <1>1, <1>9, <1>10 DEF WorkerOK
<1> QED
  BY <1>11 DEF N

(* A worker handles a block.                                               *)
LEMMA HistoryWorkerBlock ==
    ASSUME NEW H, HistoryOK(H), NEW w \in Workers, WorkerBlock(w)
    PROVE  \E K : HistoryOK(K)'
<1> DEFINE st == worker[w]
           b == Head(st.inbox)
           d == Done(H, st.inbox)
           p == H.end[d]
           start == [st EXCEPT !.inbox = Tail(@)]
<1>1. StreamOK(H) /\ ObserversOK(H)
  BY DEF HistoryOK
<1>2. WorkerOK(H, w, st) /\ st \in WorkerStates /\ worker \in [Workers -> WorkerStates]
  BY <1>1 DEF ObserversOK
<1>3. st.inbox # << >> /\ UNCHANGED <<height, current, pallet, gk, reports>>
  BY DEF WorkerBlock
<1>4. NextBlock(H, st.inbox, b, d, p)
  BY <1>1, <1>2, <1>3, NextBlockFacts DEF WorkerOK
<1>5. start \in SoundWorkers
  <2>1. Tail(st.inbox) \in Seq(Blocks)
    BY <1>2, <1>3 DEF WorkerStates
  <2>2. start \in WorkerStates /\ start.sm = st.sm
    BY <1>2, <2>1 DEF WorkerStates
  <2>3. p \in 0..Now(H) /\ st.sm = H.F[w][p]
    BY <1>1, <1>2, DoneBounds DEF WorkerOK
  <2>4. st.sm.paused => st.sm.session # 0
    BY <2>3, <1>1 DEF StreamOK, MachineOK
  <2> QED
    BY <2>2, <2>4 DEF SoundWorkers
<1>6. b \in Blocks /\ b.height # 0
  BY <1>4 DEF NextBlock
<1> HIDE DEF b, start
<1>7. PICK f : /\ WorkerRuns(f, w, worker[w], b)
               /\ worker' = [worker EXCEPT ![w] = f[Len(b.events)]]
  BY <1>5, <1>6, WorkerRun DEF b, start
<1> DEFINE t == f[Len(b.events)]
<1>8. WorkerOK(H, w, t)
  BY <1>1, <1>2, <1>4, <1>7, WorkerReaches
<1>9. t \in WorkerStates
  BY <1>8 DEF WorkerOK
<1> HIDE DEF t
<1>10. worker' = [worker EXCEPT ![w] = t]
  BY <1>7 DEF t
<1>11. ObserversOK(H)'
  <2>1. worker' \in [Workers -> WorkerStates]
    BY <1>2, <1>9, <1>10
  <2>2. ASSUME NEW v \in Workers PROVE WorkerOK(H, v, worker'[v])
    BY <1>1, <1>2, <1>8, <1>10 DEF ObserversOK
  <2>3. gk' = gk /\ reports' = reports
    BY <1>3
  <2> QED
    BY <2>1, <2>2, <2>3, <1>1 DEF ObserversOK
<1>12. HistoryOK(H)'
  BY <1>3, <1>11, ObserverHistory
<1> QED
  BY <1>12

(* The state of ComputingEconomics while the gatekeeper handles a block.   *)
SoundInfos == {i \in Infos : i.sm.paused => i.sm.session # 0}
Settles == [worker : Workers, session : Nat]
Ecos == [info : [Workers -> SoundInfos], flags : SUBSET Workers, settle : Seq(Settles),
         poisoned : BOOLEAN]

(* What replaying an event does to what is known of a worker.              *)
Replayed(w, i, e, h, j) ==
    /\ j \in SoundInfos
    /\ j.known <=> i.known \/ e = Registered(w)
    /\ ~j.known => j = i
    /\ j.known => j.sm = ProcessEvent(w, i.sm, e)
    /\ j.known /\ Answers(w, i.sm, e) => j.waiting = Append(i.waiting, h)
    /\ ~Answers(w, i.sm, e) => j.waiting = i.waiting

(* What Replay does.                                                       *)
LEMMA ReplayFacts ==
    ASSUME NEW w \in Workers, NEW i \in SoundInfos, NEW e \in Events, NEW h \in Nat
    PROVE  Replayed(w, i, e, h, Replay(w, i, e, h))
<1> DEFINE j == Replay(w, i, e, h)
           started == e.type = "Started" /\ e.worker = w
           sm == ProcessEvent(w, i.sm, e)
           waiting == IF Answers(w, i.sm, e) THEN Append(i.waiting, h) ELSE i.waiting
           silent == ~started /\ i.unresponsive
<1>1. /\ i \in Infos /\ i.sm \in StateMachines /\ (i.sm.paused => i.sm.session # 0)
      /\ i.waiting \in Seq(Nat) /\ i.known \in BOOLEAN /\ i.unresponsive \in BOOLEAN
  BY DEF SoundInfos, Infos
<1>2. sm \in StateMachines /\ (sm.paused => sm.session # 0)
  <2>1. StepShape(w, i.sm, e, sm)
    BY <1>1, MachineStep
  <2> QED
    BY <2>1 DEF StepShape
<1>3. waiting \in Seq(Nat)
  BY <1>1
<1>4. silent \in BOOLEAN
  BY <1>1
<1>5. CASE ~(i.known \/ e = Registered(w))
  <2>1. j = i
    BY <1>5 DEF Replay
  <2> HIDE DEF j
  <2>2. ~Answers(w, i.sm, e) => j.waiting = i.waiting
    BY <2>1
  <2> QED
    BY <2>1, <2>2, <1>1, <1>5 DEF Replayed, j
<1>6. CASE i.known \/ e = Registered(w)
  <2>1. j = [known |-> TRUE, sm |-> sm, waiting |-> waiting, unresponsive |-> silent]
    BY <1>6 DEF Replay
  <2> HIDE DEF sm, waiting, silent, j
  <2>2. j.known = TRUE /\ j.sm = sm /\ j.waiting = waiting /\ j \in Infos
    BY <2>1, <1>2, <1>3, <1>4 DEF Infos
  <2>3. j \in SoundInfos
    BY <2>2, <1>2 DEF SoundInfos
  <2> QED
    BY <2>2, <2>3, <1>6 DEF sm, waiting, Replayed, j
<1> QED
  BY <1>5, <1>6

(* What an event of the pallet does to the economics.                      *)
LEMMA SystemStep ==
    ASSUME NEW eco \in Ecos, NEW e \in Events, NEW h \in Nat,
           NEW t, t = ProcessSystemEvent(eco, e, h)
    PROVE  /\ t \in Ecos /\ t.poisoned = eco.poisoned
           /\ \A v \in Workers : t.info[v] = Replay(v, eco.info[v], e, h)
           /\ \/ t.settle = eco.settle
              \/ /\ e.type = "Stopped" /\ e.worker \in Workers
                 /\ eco.info[e.worker].known
                 /\ t.settle = Append(eco.settle, [worker |-> e.worker,
                                                   session |-> eco.info[e.worker].sm.session])
<1> DEFINE info == [w \in Workers |-> Replay(w, eco.info[w], e, h)]
           x == Settlement(e.worker, eco.info[e.worker])
           stops == e.type = "Stopped" /\ eco.info[e.worker].known
           settle == IF stops THEN Append(eco.settle, x) ELSE eco.settle
<1>1. eco.info \in [Workers -> SoundInfos] /\ eco.settle \in Seq(Settles)
  BY DEF Ecos
<1>2. info \in [Workers -> SoundInfos]
  <2>1. \A w \in Workers : Replay(w, eco.info[w], e, h) \in SoundInfos
    BY <1>1, ReplayFacts DEF Replayed
  <2> QED
    BY <2>1
<1>3. e.type = "Stopped" => e.worker \in Workers
  BY EventFacts DEF EventShape
<1>4. stops => x \in Settles
  <2> SUFFICES ASSUME stops PROVE x \in Settles
    OBVIOUS
  <2>1. eco.info[e.worker] \in SoundInfos
    BY <1>1, <1>3
  <2>2. eco.info[e.worker].sm.session \in Nat
    BY <2>1 DEF SoundInfos, Infos, StateMachines
  <2> QED
    BY <2>2, <1>3 DEF Settlement, Settles
<1>5. t = [eco EXCEPT !.info = info, !.settle = settle]
  BY DEF ProcessSystemEvent
<1>6. \A v \in Workers : info[v] = Replay(v, eco.info[v], e, h)
  OBVIOUS
<1> HIDE DEF info, x, stops
<1>7. settle \in Seq(Settles)
  BY <1>1, <1>4
<1> HIDE DEF settle
<1>8. t \in Ecos /\ t.info = info /\ t.settle = settle /\ t.poisoned = eco.poisoned
  BY <1>2, <1>5, <1>7 DEF Ecos
<1>9. \/ t.settle = eco.settle
      \/ stops /\ t.settle = Append(eco.settle, x)
  BY <1>8 DEF settle
<1> QED
  BY <1>3, <1>6, <1>8, <1>9 DEF stops, x, Settlement

(* Heartbeat hb of w was expected and is taken off the list.               *)
Popped(eco, w, hb, t) ==
    /\ t.poisoned = eco.poisoned
    /\ \A v \in Workers : v # w => t.info[v] = eco.info[v]
    /\ t.info[w].known = eco.info[w].known /\ t.info[w].sm = eco.info[w].sm
    /\ t.info[w].waiting = Tail(eco.info[w].waiting)
    /\ \/ t.settle = eco.settle
       \/ /\ eco.info[w].sm.session = hb.session
          /\ t.settle = Append(eco.settle, [worker |-> w, session |-> eco.info[w].sm.session])

(* What a heartbeat does to the economics.                                 *)
LEMMA HeartbeatStep ==
    ASSUME NEW eco \in Ecos, NEW w \in Workers, NEW hb \in Answer,
           NEW t, t = ProcessHeartbeat(eco, w, hb)
    PROVE  /\ t \in Ecos
           /\ /\ eco.info[w].known /\ eco.info[w].waiting # << >>
              /\ Head(eco.info[w].waiting) = hb.block
              => Popped(eco, w, hb, t)
<1> DEFINE i == eco.info[w]
           popped == [eco EXCEPT !.info[w].waiting = Tail(@)]
           j == [i EXCEPT !.waiting = Tail(@)]
           x == Settlement(w, i)
<1>1. eco.info \in [Workers -> SoundInfos] /\ eco.settle \in Seq(Settles)
      /\ eco.flags \in SUBSET Workers /\ eco.poisoned \in BOOLEAN
  BY DEF Ecos
<1>2. i \in SoundInfos
  BY <1>1
<1>3. i \in Infos /\ i.waiting \in Seq(Nat) /\ i.sm \in StateMachines
  BY <1>2 DEF SoundInfos, Infos
<1>4. x \in Settles /\ x = [worker |-> w, session |-> i.sm.session]
  <2>1. i.sm.session \in Nat
    BY <1>3 DEF StateMachines
  <2> QED
    BY <2>1 DEF Settlement, Settles
<1>5. CASE ~i.known
  <2>1. t = eco
    BY <1>5 DEF ProcessHeartbeat
  <2> QED
    BY <2>1, <1>5
<1>6. CASE i.known /\ (i.waiting = << >> \/ Head(i.waiting) # hb.block)
  <2>1. t = [eco EXCEPT !.poisoned = TRUE]
    BY <1>6 DEF ProcessHeartbeat
  <2>2. t \in Ecos
    BY <2>1 DEF Ecos
  <2> QED
    BY <2>2, <1>6
<1>7. CASE i.known /\ i.waiting # << >> /\ Head(i.waiting) = hb.block
  <2>1. Tail(i.waiting) \in Seq(Nat)
    BY <1>3, <1>7
  <2>2. j \in Infos /\ j.known = i.known /\ j.sm = i.sm /\ j.waiting = Tail(i.waiting)
    BY <1>3, <2>1 DEF Infos
  <2>3. j \in SoundInfos
    BY <2>2, <1>2 DEF SoundInfos
  <2>4. popped = [eco EXCEPT !.info = [eco.info EXCEPT ![w] = j]]
    BY <1>1 DEF Ecos
  <2>5. t = IF hb.session # i.sm.session THEN popped
            ELSE [popped EXCEPT !.flags = @ \cup {w},
                                !.settle = IF i.unresponsive THEN @ ELSE Append(@, x)]
    BY <1>7 DEF ProcessHeartbeat
  <2> HIDE DEF j, popped, x
  <2> DEFINE info == [eco.info EXCEPT ![w] = j]
  <2>6. info \in [Workers -> SoundInfos] /\ info[w] = j
        /\ \A v \in Workers : v # w => info[v] = eco.info[v]
    BY <1>1, <2>3
  <2> HIDE DEF info
  <2>7. /\ popped \in Ecos /\ popped.info = info /\ popped.settle = eco.settle
        /\ popped.poisoned = eco.poisoned /\ popped.flags = eco.flags
    BY <1>1, <2>4, <2>6 DEF Ecos, info
  <2>8. t \in Ecos /\ t.info = info /\ t.poisoned = eco.poisoned
        /\ \/ t.settle = eco.settle
           \/ i.sm.session = hb.session /\ t.settle = Append(eco.settle, x)
    <3>1. CASE hb.session # i.sm.session
      BY <3>1, <2>5, <2>7
    <3>2. CASE hb.session = i.sm.session
      <4> DEFINE flags == popped.flags \cup {w}
                 settle == IF i.unresponsive THEN popped.settle ELSE Append(popped.settle, x)
      <4>1. t = [popped EXCEPT !.flags = flags, !.settle = settle]
        BY <3>2, <2>5
      <4>2. flags \in SUBSET Workers /\ settle \in Seq(Settles)
        BY <1>1, <1>4, <2>7
      <4>3. settle = eco.settle \/ settle = Append(eco.settle, x)
        BY <2>7
      <4> HIDE DEF flags, settle
      <4>4. t \in Ecos /\ t.info = popped.info /\ t.poisoned = popped.poisoned /\ t.settle = settle
        BY <2>7, <4>1, <4>2 DEF Ecos
      <4> QED
        BY <4>3, <4>4, <2>7, <3>2
    <3> QED
      BY <3>1, <3>2
  <2> QED
    BY <2>2, <2>6, <2>8, <1>4 DEF Popped
<1> QED
  BY <1>5, <1>6, <1>7

(* A message of either kind.                                               *)
LEMMA MessageStep ==
    ASSUME NEW eco \in Ecos, NEW e \in Events, NEW h \in Nat
    PROVE  /\ ProcessMessage(eco, e, h) \in Ecos
           /\ ~eco.poisoned /\ e.type = "Heartbeat" =>
                 ProcessMessage(eco, e, h) = ProcessHeartbeat(eco, e.worker, e.hb)
           /\ ~eco.poisoned /\ e.type # "Heartbeat" =>
                 ProcessMessage(eco, e, h) = ProcessSystemEvent(eco, e, h)
<1>1. e.type = "Heartbeat" => e.worker \in Workers /\ e.hb \in Answer
  BY EventFacts DEF EventShape
<1>2. CASE eco.poisoned
  BY <1>2 DEF ProcessMessage
<1>3. CASE ~eco.poisoned /\ e.type = "Heartbeat"
  <2>1. ProcessMessage(eco, e, h) = ProcessHeartbeat(eco, e.worker, e.hb)
    BY <1>3 DEF ProcessMessage
  <2>2. ProcessHeartbeat(eco, e.worker, e.hb) \in Ecos
    BY <1>1, <1>3, HeartbeatStep
  <2> QED
    BY <2>1, <2>2, <1>3
<1>4. CASE ~eco.poisoned /\ e.type # "Heartbeat"
  <2>1. ProcessMessage(eco, e, h) = ProcessSystemEvent(eco, e, h)
    BY <1>4 DEF ProcessMessage
  <2>2. ProcessSystemEvent(eco, e, h) \in Ecos
    BY SystemStep
  <2> QED
    BY <2>1, <2>2, <1>4
<1> QED
  BY <1>2, <1>3, <1>4

(* A worker becomes known when it registers after the launch.              *)
LEMMA KnownStep ==
    ASSUME NEW H, StreamOK(H), NEW w \in Workers, NEW q \in 1..Now(H),
           H.la # 0, H.blk[q] >= H.la
    PROVE  KnownAt(H, w, q) <=> KnownAt(H, w, q - 1) \/ H.E[q] = Registered(w)
<1>1. Now(H) \in Nat
  BY Bounds DEF StreamOK
<1>2. 1..(q - 1) \subseteq 1..q /\ q \in 1..q /\ \A r \in 1..q : r \in 1..(q - 1) \/ r = q
  BY <1>1
<1> QED
  BY <1>2 DEF KnownAt

(* What the gatekeeper has made of the first q events, the last of them    *)
(* in block h.                                                             *)
EcoOK(H, eco, q, h) ==
    /\ eco \in Ecos /\ ~eco.poisoned
    /\ \A w \in Workers : InfoOK(H, w, eco.info[w], q)
    /\ \A j \in 1..Len(eco.settle) :
          eco.settle[j] \in Settlements /\ SettlementOK(H, eco.settle[j], h)

(* A settlement is added.                                                  *)
LEMMA SettleMore ==
    ASSUME NEW H, NEW h, NEW settle \in Seq(Settles),
           \A j \in 1..Len(settle) : settle[j] \in Settlements /\ SettlementOK(H, settle[j], h),
           NEW x \in Settlements, SettlementOK(H, x, h), NEW more, more = Append(settle, x)
    PROVE  \A j \in 1..Len(more) : more[j] \in Settlements /\ SettlementOK(H, more[j], h)
<1> DEFINE l == Len(settle)
<1>1. /\ l \in Nat /\ Len(more) = l + 1 /\ more[l + 1] = x
      /\ \A j \in 1..l : more[j] = settle[j]
  OBVIOUS
<1> HIDE DEF l
<1>2. \A j \in 1..(l + 1) : j \in 1..l \/ j = l + 1
  BY <1>1
<1>3. \A j \in 1..l : settle[j] \in Settlements /\ SettlementOK(H, settle[j], h)
  BY DEF l
<1> QED
  BY <1>1, <1>2, <1>3

(* Machines that agree on every field are equal.                           *)
LEMMA SameMachine ==
    ASSUME NEW x \in StateMachines, NEW y \in StateMachines,
           x.registered = y.registered, x.session = y.session, x.paused = y.paused
    PROVE  x = y
  BY DEF StateMachines

(* What an event other than a heartbeat of w does to what is known of w.   *)
LEMMA InfoReplayed ==
    ASSUME NEW H, StreamOK(H), NEW w \in Workers, NEW q \in 1..Now(H),
           H.la # 0, H.blk[q] >= H.la, ~IsHeartbeat(H.E[q], w),
           NEW i \in SoundInfos, InfoOK(H, w, i, q - 1),
           NEW j, j = Replay(w, i, H.E[q], H.blk[q])
    PROVE  j \in SoundInfos /\ InfoOK(H, w, j, q)
<1> DEFINE e == H.E[q]
           h == H.blk[q]
           p == q - 1
<1>1. e \in Events /\ h \in Nat /\ q \in 0..Now(H) /\ p \in 0..Now(H)
  <2>1. Now(H) \in Nat
    BY Bounds DEF StreamOK
  <2>2. e \in Events
    BY ElementOfSeq DEF StreamOK, ShapeOK, Now
  <2>3. h \in Nat
    BY SMTT(30) DEF StreamOK, ShapeOK
  <2> QED
    BY <2>1, <2>2, <2>3
<1>2. /\ i.known <=> KnownAt(H, w, p)
      /\ i.known => i.sm = H.F[w][p]
      /\ ~i.known => i.sm = Unregistered
      /\ Len(i.waiting) = H.cnt[w][p] - H.acc[w][p]
      /\ \A k \in 1..Len(i.waiting) : i.waiting[k] = H.S[w][H.acc[w][p] + k].block
  BY DEF InfoOK
<1>3. /\ j \in SoundInfos
      /\ j.known <=> i.known \/ e = Registered(w)
      /\ ~j.known => j = i
      /\ j.known => j.sm = ProcessEvent(w, i.sm, e)
      /\ j.known /\ Answers(w, i.sm, e) => j.waiting = Append(i.waiting, h)
      /\ ~Answers(w, i.sm, e) => j.waiting = i.waiting
  <2>1. j = Replay(w, i, e, h)
    OBVIOUS
  <2> HIDE DEF e, h
  <2>2. Replayed(w, i, e, h, j)
    BY <1>1, <2>1, ReplayFacts
  <2> QED
    BY <2>2 DEF Replayed
<1>4. KnownAt(H, w, q) <=> KnownAt(H, w, p) \/ e = Registered(w)
  BY KnownStep
<1>5. /\ AnswersAt(H, w, q) => /\ H.cnt[w][q] = H.cnt[w][p] + 1
                               /\ H.S[w][H.cnt[w][q]].block = h
      /\ ~AnswersAt(H, w, q) => H.cnt[w][q] = H.cnt[w][p]
      /\ H.acc[w][q] = H.acc[w][p]
      /\ H.F[w][q] = ProcessEvent(w, H.F[w][p], e)
      /\ AnswersAt(H, w, q) <=> Answers(w, H.F[w][p], e)
  <2>1. AnswersOK(H, w) /\ MachineOK(H, w)
    BY DEF StreamOK
  <2>2. /\ AnswersAt(H, w, q) =>
             /\ H.cnt[w][q] = H.cnt[w][p] + 1
             /\ H.S[w][H.cnt[w][q]] = [session |-> H.F[w][p].session, block |-> h]
        /\ ~AnswersAt(H, w, q) => H.cnt[w][q] = H.cnt[w][p]
        /\ H.acc[w][q] = H.acc[w][p]
    BY <2>1 DEF AnswersOK
  <2>3. H.F[w][q] = ProcessEvent(w, H.F[w][p], e)
    BY <2>1 DEF MachineOK
  <2>4. AnswersAt(H, w, q) <=> Answers(w, H.F[w][p], e)
    BY DEF AnswersAt
  <2> HIDE DEF e, h, p
  <2> QED
    BY <2>2, <2>3, <2>4
<1>6. H.cnt[w][p] \in Nat /\ H.acc[w][p] \in Nat /\ i.waiting \in Seq(Nat)
      /\ H.acc[w][p] <= H.cnt[w][p]
  BY <1>1, CountFacts DEF SoundInfos, Infos
<1>7. /\ H.F[w][p] \in StateMachines /\ (H.F[w][p].paused => H.F[w][p].session # 0)
      /\ ~KnownAt(H, w, p) => H.F[w][p].session = 0
  BY <1>1 DEF StreamOK, MachineOK, LaunchOK
<1> HIDE DEF e, h, p
<1>8. j.known <=> KnownAt(H, w, q)
  BY <1>2, <1>3, <1>4
<1>9. j.known => j.sm = H.F[w][q]
  <2>1. CASE i.known
    BY <2>1, <1>2, <1>3, <1>5
  <2>2. CASE ~i.known /\ e = Registered(w)
    <3>1. H.F[w][p].session = 0 /\ ~H.F[w][p].paused /\ i.sm = Unregistered
      BY <2>2, <1>2, <1>7
    <3>2. ProcessEvent(w, i.sm, e) = [i.sm EXCEPT !.registered = TRUE]
          /\ ProcessEvent(w, H.F[w][p], e) = [H.F[w][p] EXCEPT !.registered = TRUE]
      <4>1. EventShape(e)
        BY <1>1, EventFacts
      <4>2. e.type = "Registered"
        BY <2>2 DEF Registered
      <4> QED
        BY <2>2, <4>1, <4>2 DEF ProcessEvent, EventShape
    <3>3. [i.sm EXCEPT !.registered = TRUE] = [H.F[w][p] EXCEPT !.registered = TRUE]
      <4> DEFINE m == H.F[w][p]
                 u == [i.sm EXCEPT !.registered = TRUE]
                 v == [m EXCEPT !.registered = TRUE]
      <4>1. i.sm \in StateMachines
        BY DEF SoundInfos, Infos
      <4>2. u \in StateMachines /\ u.registered = TRUE /\ u.session = 0 /\ u.paused = FALSE
        <5> DEFINE x == i.sm
        <5>1. x \in StateMachines /\ x.session = 0 /\ x.paused = FALSE
          BY <3>1, <4>1 DEF Unregistered
        <5> HIDE DEF x
        <5>2. /\ [x EXCEPT !.registered = TRUE] \in StateMachines
              /\ [x EXCEPT !.registered = TRUE].registered = TRUE
              /\ [x EXCEPT !.registered = TRUE].session = x.session
              /\ [x EXCEPT !.registered = TRUE].paused = x.paused
          BY <5>1 DEF StateMachines
        <5> QED
          BY <5>1, <5>2 DEF x
      <4>3. v \in StateMachines /\ v.registered = TRUE /\ v.session = 0 /\ v.paused = FALSE
        <5>1. m \in StateMachines /\ m.session = 0 /\ ~m.paused
          BY <1>7, <3>1
        <5> HIDE DEF m
        <5>2. v \in StateMachines /\ v.registered = TRUE /\ v.session = m.session /\ v.paused = m.paused
          BY <5>1 DEF StateMachines
        <5>3. m.paused \in BOOLEAN
          BY <5>1 DEF StateMachines
        <5> QED
          BY <5>1, <5>2, <5>3
      <4> HIDE DEF u, v
      <4>4. u = v
        BY <4>2, <4>3, SameMachine
      <4> QED
        BY <4>4 DEF u, v
    <3> QED
      BY <3>2, <3>3, <1>3, <1>5
  <2> QED
    BY <2>1, <2>2, <1>3
<1>10. ~j.known => j.sm = Unregistered
  BY <1>2, <1>3
<1>11. Answers(w, i.sm, e) => i.known /\ j.known /\ AnswersAt(H, w, q)
  <2>1. ~i.known => ~Answers(w, i.sm, e)
    BY <1>2 DEF Answers, Unregistered
  <2> QED
    BY <2>1, <1>2, <1>3, <1>5
<1>12. AnswersAt(H, w, q) => Answers(w, i.sm, e)
  <2>1. AnswersAt(H, w, q) => H.F[w][p].session # 0
    BY <1>5 DEF Answers
  <2> QED
    BY <2>1, <1>2, <1>5, <1>7
<1>13. /\ Len(j.waiting) = H.cnt[w][q] - H.acc[w][q]
       /\ \A k \in 1..Len(j.waiting) : j.waiting[k] = H.S[w][H.acc[w][q] + k].block
  <2>1. CASE ~AnswersAt(H, w, q)
    <3>1. j.waiting = i.waiting /\ H.cnt[w][q] = H.cnt[w][p] /\ H.acc[w][q] = H.acc[w][p]
      BY <2>1, <1>3, <1>5, <1>11
    <3> QED
      BY <3>1, <1>2
  <2>2. CASE AnswersAt(H, w, q)
    <3> DEFINE l == Len(i.waiting)
               a == H.acc[w][p]
               c == H.cnt[w][p]
    <3>1. /\ j.waiting = Append(i.waiting, h) /\ H.acc[w][q] = a
          /\ H.cnt[w][q] = c + 1 /\ H.S[w][H.cnt[w][q]].block = h
      BY <2>2, <1>3, <1>5, <1>11, <1>12
    <3>2. /\ l \in Nat /\ Len(j.waiting) = l + 1 /\ j.waiting[l + 1] = h
          /\ \A k \in 1..l : j.waiting[k] = i.waiting[k]
      BY <3>1, <1>6
    <3>3. l = c - a /\ a \in Nat /\ c \in Nat
      BY <1>2, <1>6
    <3>4. \A k \in 1..l : i.waiting[k] = H.S[w][a + k].block
      BY <1>2
    <3> HIDE DEF l, a, c
    <3>5. l + 1 = (c + 1) - a /\ c + 1 = a + (l + 1)
      BY <3>2, <3>3
    <3>6. \A k \in 1..(l + 1) : k \in 1..l \/ k = l + 1
      BY <3>2
    <3>7. \A k \in 1..(l + 1) : j.waiting[k] = H.S[w][a + k].block
      BY <3>1, <3>2, <3>4, <3>5, <3>6
    <3> QED
      BY <3>1, <3>2, <3>5, <3>7
  <2> QED
    BY <2>1, <2>2
<1> QED
  BY <1>3, <1>8, <1>9, <1>10, <1>13 DEF InfoOK

(* A heartbeat: the machines stay, one answer of its worker is accepted.   *)
LEMMA HeartbeatAt ==
    ASSUME NEW H, StreamOK(H), NEW w \in Workers, NEW q \in 1..Now(H),
           H.E[q].type = "Heartbeat", H.la # 0, H.blk[q] >= H.la
    PROVE  /\ H.F[w][q] = H.F[w][q - 1] /\ H.cnt[w][q] = H.cnt[w][q - 1]
           /\ KnownAt(H, w, q) <=> KnownAt(H, w, q - 1)
           /\ H.E[q].worker # w => H.acc[w][q] = H.acc[w][q - 1]
           /\ H.E[q].worker = w => /\ H.acc[w][q] = H.acc[w][q - 1] + 1
                                   /\ H.E[q].hb = H.S[w][H.acc[w][q]]
<1> DEFINE e == H.E[q]
           p == q - 1
<1>1. e \in Events
  BY ElementOfSeq DEF StreamOK, ShapeOK, Now
<1>2. EventShape(e)
  BY <1>1, EventFacts
<1>3. ProcessEvent(w, H.F[w][p], e) = H.F[w][p]
  BY <1>2 DEF EventShape, ProcessEvent
<1>4. ~AnswersAt(H, w, q) /\ (IsHeartbeat(e, w) <=> e.worker = w)
  BY DEF AnswersAt, Answers, IsHeartbeat
<1>5. e # Registered(w)
  BY DEF Registered
<1>6. KnownAt(H, w, q) <=> KnownAt(H, w, p)
  BY <1>5, KnownStep
<1>7. AnswersOK(H, w) /\ MachineOK(H, w)
  BY DEF StreamOK
<1>8. H.F[w][q] = ProcessEvent(w, H.F[w][p], e)
  BY <1>7 DEF MachineOK
<1>9. /\ H.cnt[w][q] = H.cnt[w][p]
      /\ IsHeartbeat(e, w) => H.acc[w][q] = H.acc[w][p] + 1 /\ e.hb = H.S[w][H.acc[w][q]]
      /\ ~IsHeartbeat(e, w) => H.acc[w][q] = H.acc[w][p]
  BY <1>4, <1>7 DEF AnswersOK
<1> QED
  BY <1>3, <1>4, <1>6, <1>8, <1>9

(* It is the one that the gatekeeper expects next.                         *)
LEMMA HeartbeatExpected ==
    ASSUME NEW H, StreamOK(H), NEW w \in Workers, NEW q \in 1..Now(H),
           H.E[q].type = "Heartbeat", H.E[q].worker = w, H.la # 0, H.blk[q] >= H.la,
           NEW i \in SoundInfos, InfoOK(H, w, i, q - 1)
    PROVE  /\ i.known /\ i.waiting # << >> /\ Head(i.waiting) = H.E[q].hb.block
           /\ \A j : /\ j.known = i.known /\ j.sm = i.sm /\ j.waiting = Tail(i.waiting)
                     => InfoOK(H, w, j, q)
<1> DEFINE p == q - 1
           a == H.acc[w][p]
           c == H.cnt[w][p]
           l == Len(i.waiting)
<1>1. q \in 0..Now(H) /\ p \in 0..Now(H)
  BY Bounds DEF StreamOK
<1>2. /\ H.F[w][q] = H.F[w][p] /\ H.cnt[w][q] = c
      /\ KnownAt(H, w, q) <=> KnownAt(H, w, p)
      /\ H.acc[w][q] = a + 1 /\ H.E[q].hb = H.S[w][H.acc[w][q]]
  BY HeartbeatAt
<1>3. /\ i.known <=> KnownAt(H, w, p)
      /\ i.known => i.sm = H.F[w][p]
      /\ ~i.known => i.sm = Unregistered
      /\ l = c - a
      /\ \A k \in 1..l : i.waiting[k] = H.S[w][a + k].block
  BY DEF InfoOK
<1>4. a \in Nat /\ c \in Nat /\ i.waiting \in Seq(Nat) /\ l \in Nat
  BY <1>1, CountFacts DEF SoundInfos, Infos
<1>5. H.acc[w][q] <= H.cnt[w][q]
  BY <1>1, CountFacts
<1>6. ~KnownAt(H, w, p) => c = 0
  BY <1>1 DEF StreamOK, LaunchOK
<1> HIDE DEF a, c, l, p
<1>7. a + 1 <= c /\ l >= 1
  BY <1>2, <1>3, <1>4, <1>5
<1>8. i.known
  BY <1>3, <1>4, <1>6, <1>7
<1>9. i.waiting # << >> /\ Head(i.waiting) = i.waiting[1] /\ 1 \in 1..l
      /\ Len(Tail(i.waiting)) = l - 1
      /\ \A k \in 1..(l - 1) : Tail(i.waiting)[k] = i.waiting[k + 1]
  BY <1>4, <1>7 DEF l
<1>10. Head(i.waiting) = H.E[q].hb.block
  BY <1>2, <1>3, <1>9
<1>11. ASSUME NEW j, j.known = i.known, j.sm = i.sm, j.waiting = Tail(i.waiting)
       PROVE  InfoOK(H, w, j, q)
  <2>1. l - 1 = c - (a + 1)
    BY <1>3, <1>4
  <2>2. \A k \in 1..(l - 1) : k + 1 \in 1..l /\ a + (k + 1) = (a + 1) + k
    BY <1>4
  <2>3. \A k \in 1..(l - 1) : Tail(i.waiting)[k] = H.S[w][(a + 1) + k].block
    <3> SUFFICES ASSUME NEW k \in 1..(l - 1)
                 PROVE  Tail(i.waiting)[k] = H.S[w][(a + 1) + k].block
      OBVIOUS
    <3>1. k + 1 \in 1..l /\ a + (k + 1) = (a + 1) + k
      BY <2>2
    <3>2. i.waiting[k + 1] = H.S[w][a + (k + 1)].block
      BY <3>1, <1>3
    <3>3. Tail(i.waiting)[k] = i.waiting[k + 1]
      BY <1>9
    <3> QED
      BY <3>1, <3>2, <3>3
  <2>4. (j.known <=> KnownAt(H, w, q)) /\ j.known
    BY <1>2, <1>3, <1>8, <1>11
  <2>5. j.sm = H.F[w][q]
    BY <1>2, <1>3, <1>8, <1>11
  <2>6. Len(j.waiting) = l - 1 /\ l - 1 = H.cnt[w][q] - H.acc[w][q]
    BY <2>1, <1>2, <1>9, <1>11
  <2>7. \A k \in 1..(l - 1) : j.waiting[k] = H.S[w][H.acc[w][q] + k].block
    BY <2>3, <1>2, <1>11
  <2> QED
    BY <2>4, <2>5, <2>6, <2>7 DEF InfoOK
<1> QED
  BY <1>8, <1>9, <1>10, <1>11

(* The gatekeeper handles one event more.                                  *)
LEMMA EcoMoves ==
    ASSUME NEW H, StreamOK(H), NEW q \in 1..Now(H), NEW h \in Nat, h = H.blk[q],
           H.la # 0, h >= H.la, q - 1 \in H.end[h - 1]..H.end[h],
           NEW eco, EcoOK(H, eco, q - 1, h),
           NEW t, t = ProcessMessage(eco, H.E[q], h)
    PROVE  EcoOK(H, t, q, h)
<1> DEFINE e == H.E[q]
           p == q - 1
<1>1. e \in Events
  BY ElementOfSeq DEF StreamOK, ShapeOK, Now
<1>2. /\ eco \in Ecos /\ ~eco.poisoned
      /\ \A w \in Workers : InfoOK(H, w, eco.info[w], p)
      /\ \A j \in 1..Len(eco.settle) :
            eco.settle[j] \in Settlements /\ SettlementOK(H, eco.settle[j], h)
  BY DEF EcoOK
<1>3. /\ t \in Ecos
      /\ e.type = "Heartbeat" => t = ProcessHeartbeat(eco, e.worker, e.hb)
      /\ e.type # "Heartbeat" => t = ProcessSystemEvent(eco, e, h)
  BY <1>1, <1>2, MessageStep
<1>4. \A w \in Workers : eco.info[w] \in SoundInfos
  BY <1>2 DEF Ecos
<1>5. p \in 0..Now(H) /\ eco.settle \in Seq(Settles)
  BY <1>2, Bounds DEF StreamOK, Ecos
<1>6. ASSUME NEW w \in Workers, H.F[w][p].session # 0,
             NEW x, x = [worker |-> w, session |-> H.F[w][p].session]
      PROVE  x \in Settlements /\ SettlementOK(H, x, h)
  <2>1. H.F[w][p] \in StateMachines
    BY <1>5 DEF StreamOK, MachineOK
  <2>2. H.F[w][p].session \in Nat \ {0}
    BY <2>1, <1>6 DEF StateMachines
  <2>3. x \in Settlements /\ x.worker = w /\ x.session = H.F[w][p].session
    BY <2>2, <1>6 DEF Settlements
  <2> QED
    BY <2>3 DEF SettlementOK
<1>7. CASE e.type = "Heartbeat"
  <2> DEFINE w == e.worker
             i == eco.info[w]
             x == [worker |-> w, session |-> i.sm.session]
  <2>1. w \in Workers /\ e.hb \in Answer
    BY SMTT(30), <1>1, <1>7, EventFacts DEF EventShape
  <2>2. /\ i.known /\ i.waiting # << >> /\ Head(i.waiting) = e.hb.block
        /\ \A j : /\ j.known = i.known /\ j.sm = i.sm /\ j.waiting = Tail(i.waiting)
                  => InfoOK(H, w, j, q)
    <3>1. i \in SoundInfos /\ InfoOK(H, w, i, q - 1)
      BY <2>1, <1>2, <1>4
    <3> QED
      BY <3>1, <2>1, <1>7, HeartbeatExpected
  <2>3. i.sm = H.F[w][p]
    BY <2>1, <2>2, <1>2 DEF InfoOK
  <2>4. t = ProcessHeartbeat(eco, w, e.hb)
    BY <1>3, <1>7
  <2> HIDE DEF e, w
  <2>10. Popped(eco, w, e.hb, t)
    BY SMTT(30), <2>1, <2>2, <2>4, <1>2, HeartbeatStep
  <2>5. /\ t.poisoned = eco.poisoned
        /\ \A v \in Workers : v # w => t.info[v] = eco.info[v]
        /\ t.info[w].known = i.known /\ t.info[w].sm = i.sm
        /\ t.info[w].waiting = Tail(i.waiting)
        /\ \/ t.settle = eco.settle
           \/ i.sm.session = e.hb.session /\ t.settle = Append(eco.settle, x)
    BY <2>10 DEF Popped
  <2>6. ASSUME NEW v \in Workers PROVE InfoOK(H, v, t.info[v], q)
    <3>1. CASE v = w
      BY <3>1, <2>2, <2>5
    <3>2. CASE v # w
      <4>1. /\ H.F[v][q] = H.F[v][p] /\ H.cnt[v][q] = H.cnt[v][p]
            /\ KnownAt(H, v, q) <=> KnownAt(H, v, p)
            /\ H.acc[v][q] = H.acc[v][p]
        BY <3>2, <1>7, HeartbeatAt DEF e, w
      <4>2. InfoOK(H, v, eco.info[v], p) /\ t.info[v] = eco.info[v]
        BY SMTT(30), <3>2, <2>5, <1>2
      <4> HIDE DEF p
      <4> QED
        BY <4>1, <4>2 DEF InfoOK
    <3> QED
      BY <3>1, <3>2
  <2>7. \A j \in 1..Len(t.settle) :
           t.settle[j] \in Settlements /\ SettlementOK(H, t.settle[j], h)
    <3>1. CASE t.settle = eco.settle
      BY <3>1, <1>2
    <3>2. CASE i.sm.session = e.hb.session /\ t.settle = Append(eco.settle, x)
      <4>1. H.F[w][p].session # 0 /\ x = [worker |-> w, session |-> H.F[w][p].session]
        BY <3>2, <2>1, <2>3 DEF Answer
      <4>2. x \in Settlements /\ SettlementOK(H, x, h)
        BY <4>1, <2>1, <1>6
      <4> HIDE DEF x
      <4> QED
        BY <3>2, <4>2, <1>2, <1>5, SettleMore
    <3> QED
      BY <3>1, <3>2, <2>5
  <2> QED
    BY <2>5, <2>6, <2>7, <1>2, <1>3 DEF EcoOK
<1>8. CASE e.type # "Heartbeat"
  <2>1. /\ t.poisoned = eco.poisoned
        /\ \A v \in Workers : t.info[v] = Replay(v, eco.info[v], e, h)
        /\ \/ t.settle = eco.settle
           \/ /\ e.type = "Stopped" /\ e.worker \in Workers
              /\ eco.info[e.worker].known
              /\ t.settle = Append(eco.settle, [worker |-> e.worker,
                                                session |-> eco.info[e.worker].sm.session])
    <3>1. t = ProcessSystemEvent(eco, e, h)
      BY <1>3, <1>8
    <3> HIDE DEF e
    <3> QED
      BY SMTT(30), <3>1, <1>1, <1>2, SystemStep
  <2>2. ASSUME NEW v \in Workers PROVE InfoOK(H, v, t.info[v], q)
    <3>1. t.info[v] = Replay(v, eco.info[v], H.E[q], H.blk[q]) /\ ~IsHeartbeat(H.E[q], v)
      BY <2>1, <1>8 DEF IsHeartbeat
    <3>2. InfoOK(H, v, eco.info[v], q - 1) /\ eco.info[v] \in SoundInfos
      BY <1>2, <1>4
    <3> QED
      BY <3>1, <3>2, InfoReplayed
  <2>3. \A j \in 1..Len(t.settle) :
           t.settle[j] \in Settlements /\ SettlementOK(H, t.settle[j], h)
    <3>1. CASE t.settle = eco.settle
      BY <3>1, <1>2
    <3>2. CASE t.settle # eco.settle
      <4> DEFINE w == e.worker
                 x == [worker |-> w, session |-> eco.info[w].sm.session]
      <4>1. e.type = "Stopped" /\ w \in Workers /\ eco.info[w].known /\ t.settle = Append(eco.settle, x)
        BY SMTT(30), <3>2, <2>1
      <4>2. eco.info[w].sm = H.F[w][p]
        BY SMTT(30), <4>1, <1>2 DEF InfoOK
      <4>3. H.F[w][p].session # 0
        BY SMTT(30), <4>1 DEF StreamOK, StopsOK
      <4>4. x \in Settlements /\ SettlementOK(H, x, h)
        BY <4>1, <4>2, <4>3, <1>6
      <4> HIDE DEF x
      <4> QED
        BY SMTT(30), <4>1, <4>4, <1>2, <1>5, SettleMore
    <3> QED
      BY <3>1, <3>2
  <2> QED
    BY <2>1, <2>2, <2>3, <1>2, <1>3 DEF EcoOK
<1> QED
  BY <1>7, <1>8

(* What handling a block does to the economics, event by event.            *)
EcoRuns(f, start, b) ==
    /\ f \in [0..Len(b.events) -> Ecos] /\ f[0] = start
    /\ \A i \in 1..Len(b.events) : f[i] = ProcessMessage(f[i - 1], b.events[i], b.height)

(* The economics as a block begins, and the launch when it is handled.     *)
EcoStart == [info |-> gk.info, flags |-> {}, settle |-> << >>, poisoned |-> FALSE]
Launches(b) == gk.launched \/ Launched \in Range(b.events)

(* The gatekeeper ends block b with eco.                                   *)
Handled(eco, b) ==
    /\ gk' = [inbox |-> Tail(gk.inbox), launched |-> Launches(b),
              poisoned |-> eco.poisoned, info |-> Silent(eco, b.height)]
    /\ reports' = IF eco.poisoned \/ IsEmpty(Report(eco, b.height)) THEN reports
                  ELSE Append(reports, Report(eco, b.height))

(* The recursion of ProcessMessages has a solution.                        *)
LEMMA EcoRun ==
    ASSUME NEW b \in Blocks, NEW start \in Ecos
    PROVE  \E f : EcoRuns(f, start, b) /\ ProcessMessages(start, b) = f[Len(b.events)]
<1> DEFINE N == Len(b.events)
           X == Ecos
           Step(i, s) == ProcessMessage(s, b.events[i], b.height)
           step == [i \in 1..N |-> [s \in X |-> Step(i, s)]]
           Rec(f) == [i \in 0..N |-> IF i = 0 THEN start ELSE Step(i, f[i - 1])]
           after == CHOOSE f : f = Rec(f)
<1>1. N \in Nat /\ b.events \in Seq(Events) /\ b.height \in Nat
  BY DEF Blocks
<1>2. \A i \in 1..N : b.events[i] \in Events
  BY <1>1, ElementOfSeq
<1>3. \A i \in 1..N, s \in X : Step(i, s) \in X
  <2> SUFFICES ASSUME NEW i \in 1..N, NEW s \in Ecos
               PROVE  ProcessMessage(s, b.events[i], b.height) \in Ecos
    OBVIOUS
  <2>1. b.events[i] \in Events /\ b.height \in Nat
    BY <1>1, <1>2
  <2> QED
    BY <2>1, MessageStep
<1>4. ProcessMessages(start, b) = after[N]
  BY DEF ProcessMessages
<1> HIDE DEF N, X, Step
<1>5. step \in [1..N -> [X -> X]]
  BY <1>3
<1>6. PICK g \in [0..N -> X] : g[0] = start /\ \A i \in 1..N : g[i] = step[i][g[i - 1]]
  <2> HIDE DEF step
  <2>1. start \in X
    BY DEF X
  <2>2. \E g : Iterates(g, N, X, start, step)
    BY <1>1, <1>5, <2>1, IterationExists
  <2> QED
    BY <2>2 DEF Iterates
<1>7. g = Rec(g)
  <2>1. ASSUME NEW i \in 0..N PROVE g[i] = Rec(g)[i]
    <3>1. CASE i = 0
      BY <3>1, <1>1, <1>6
    <3>2. CASE i # 0
      <4>1. i \in 1..N /\ g[i - 1] \in X
        BY <1>1, <1>6, <3>2
      <4> QED
        BY <4>1, <1>6, <3>2
    <3> QED
      BY <3>1, <3>2
  <2> QED
    BY <2>1
<1>8. after = Rec(after)
  <2> HIDE DEF Rec
  <2> QED
    BY <1>7
<1> HIDE DEF after
<1>9. after[0] = start
  BY <1>1, <1>8
<1>10. \A i \in 1..N : after[i] = Step(i, after[i - 1])
  <2> SUFFICES ASSUME NEW i \in 1..N PROVE after[i] = Step(i, after[i - 1])
    OBVIOUS
  <2>1. i \in 0..N /\ i # 0
    BY <1>1
  <2>2. Rec(after)[i] = Step(i, after[i - 1])
    BY <2>1
  <2> QED
    BY <1>8, <2>2
<1>11. \A i \in 0..N : after[i] \in X
  <2> DEFINE P == {i \in 0..N : after[i] \in X}
  <2>1. \A k \in 1..N : k - 1 \in P => k \in P
    BY <1>1, <1>3, <1>10
  <2>2. 0 \in P
    BY <1>1, <1>9 DEF X
  <2>3. P \in SUBSET (0..N)
    OBVIOUS
  <2> HIDE DEF P
  <2>4. P = 0..N
    BY <1>1, <2>1, <2>2, <2>3, IntervalInduction
  <2> QED
    BY <2>4 DEF P
<1>12. after \in [0..N -> X]
  BY <1>8, <1>11
<1>13. EcoRuns(after, start, b)
  BY <1>9, <1>10, <1>12 DEF EcoRuns, N, X, Step
<1> QED
  BY <1>4, <1>13 DEF N

(* While the block is handled, the gatekeeper is where the stream has it.  *)
LEMMA EcoReaches ==
    ASSUME NEW H, StreamOK(H), NEW inbox, NEW b, NEW d, NEW p, NextBlock(H, inbox, b, d, p),
           H.la # 0, H.la <= d + 1, NEW f, NEW start, EcoRuns(f, start, b),
           EcoOK(H, start, p, d + 1)
    PROVE  EcoOK(H, f[Len(b.events)], p + Len(b.events), d + 1)
<1> DEFINE N == Len(b.events)
           P == {i \in 0..N : EcoOK(H, f[i], p + i, d + 1)}
<1>1. /\ N \in Nat /\ p \in Nat /\ p = H.end[d] /\ H.end[d + 1] = p + N /\ b.height = d + 1
      /\ d \in Nat /\ d + 1 \in Nat /\ (d + 1) - 1 = d
      /\ \A i \in 1..N : /\ p + i \in 1..Now(H) /\ (p + i) - 1 = p + (i - 1)
                         /\ b.events[i] = H.E[p + i] /\ H.blk[p + i] = d + 1
  BY DEF NextBlock
<1>2. /\ f \in [0..N -> Ecos] /\ f[0] = start
      /\ \A i \in 1..N : f[i] = ProcessMessage(f[i - 1], b.events[i], b.height)
  BY DEF EcoRuns
<1> HIDE DEF N
<1>3. ASSUME NEW k \in 1..N, EcoOK(H, f[k - 1], p + (k - 1), d + 1)
      PROVE  EcoOK(H, f[k], p + k, d + 1)
  <2>1. /\ p + k \in 1..Now(H) /\ (p + k) - 1 = p + (k - 1) /\ d + 1 = H.blk[p + k]
        /\ d + 1 >= H.la
    BY <1>1 DEF StreamOK, ShapeOK
  <2>2. f[k] = ProcessMessage(f[k - 1], H.E[p + k], d + 1)
    BY <1>1, <1>2
  <2>3. p + (k - 1) \in p..(p + N)
    BY <1>1
  <2>4. (p + k) - 1 \in H.end[(d + 1) - 1]..H.end[d + 1]
    BY <1>1, <2>1, <2>3
  <2>5. EcoOK(H, f[k - 1], (p + k) - 1, d + 1) /\ d + 1 \in Nat
    BY <1>1, <1>3, <2>1
  <2> QED
    BY <2>1, <2>2, <2>4, <2>5, EcoMoves
<1>4. /\ 0 \in P /\ P \in SUBSET (0..N)
      /\ \A k \in 1..N : k - 1 \in P => k \in P
  <2>1. p + 0 = p /\ 0 \in 0..N
    BY <1>1
  <2>2. EcoOK(H, f[0], p + 0, d + 1)
    BY <1>2, <2>1
  <2>3. \A k \in 1..N : k \in 0..N /\ k - 1 \in 0..N
    BY <1>1
  <2> QED
    BY <1>3, <2>1, <2>2, <2>3
<1> HIDE DEF P
<1>5. P = 0..N
  BY <1>1, <1>4, IntervalInduction
<1>6. N \in P
  BY <1>1, <1>5
<1> QED
  BY <1>6 DEF P, N

(* A block begins with what the gatekeeper knows from the ones before.     *)
LEMMA EcoStarts ==
    ASSUME NEW H, StreamOK(H), GatekeeperOK(H, gk), NEW h,
           NEW p, p = H.end[Done(H, gk.inbox)]
    PROVE  EcoOK(H, EcoStart, p, h)
<1>1. p \in 0..Now(H)
  BY DoneBounds DEF GatekeeperOK
<1>2. gk.info \in [Workers -> Infos] /\ \A w \in Workers : InfoOK(H, w, gk.info[w], p)
  BY DEF GatekeeperOK, Gatekeepers
<1>3. ASSUME NEW w \in Workers PROVE gk.info[w] \in SoundInfos
  <2> DEFINE i == gk.info[w]
  <2>1. i \in Infos /\ (i.known => i.sm = H.F[w][p]) /\ (~i.known => i.sm = Unregistered)
    BY <1>2 DEF InfoOK
  <2>2. H.F[w][p].paused => H.F[w][p].session # 0
    BY <1>1 DEF StreamOK, MachineOK
  <2>3. Unregistered.paused = FALSE
    BY DEF Unregistered
  <2>4. i.sm.paused => i.sm.session # 0
    BY <2>1, <2>2, <2>3
  <2> QED
    BY SMTT(30), <2>1, <2>4 DEF SoundInfos
<1>4. gk.info \in [Workers -> SoundInfos]
  BY <1>2, <1>3
<1>5. EcoStart \in Ecos
  BY <1>4 DEF EcoStart, Ecos
<1>6. EcoStart.info = gk.info /\ EcoStart.poisoned = FALSE /\ Len(EcoStart.settle) = 0
  BY DEF EcoStart
<1>7. 1..0 = {}
  OBVIOUS
<1> QED
  BY <1>2, <1>5, <1>6, <1>7 DEF EcoOK

(* Before the launch nobody is known and nothing is due.                   *)
LEMMA EcoSkips ==
    ASSUME NEW H, StreamOK(H), NEW d \in Nat, d + 1 \in 1..(H.ht - 1), NEW h, NEW eco,
           ~(H.la # 0 /\ H.la <= d + 1), EcoOK(H, eco, H.end[d], h)
    PROVE  EcoOK(H, eco, H.end[d + 1], h)
<1> DEFINE p == H.end[d]
           q == H.end[d + 1]
<1>1. H.ht \in Nat /\ H.la \in Nat /\ d \in 0..H.ht /\ d + 1 \in 0..H.ht /\ d <= d + 1
  BY Bounds DEF StreamOK
<1>2. p \in 0..Now(H) /\ q \in 0..Now(H) /\ p <= q
  <2>1. p \in Nat /\ p <= Now(H) /\ q \in Nat /\ q <= Now(H) /\ p <= q /\ Now(H) \in Nat
    BY <1>1, Bounds DEF StreamOK
  <2> QED
    BY <2>1
<1>3. ASSUME NEW w \in Workers, NEW r \in 0..Now(H), r <= q PROVE ~KnownAt(H, w, r)
  <2>1. ASSUME H.la # 0, NEW s \in 1..r, H.blk[s] >= H.la PROVE FALSE
    <3>1. Now(H) \in Nat
      BY Bounds DEF StreamOK
    <3>2. s \in 1..Now(H) /\ s <= q
      <4> HIDE DEF p, q
      <4> QED
        BY <3>1, <1>2, <1>3
    <3>3. H.blk \in [1..Now(H) -> 1..H.ht]
          /\ \A m \in 1..Now(H), j \in 0..H.ht : m <= H.end[j] <=> H.blk[m] <= j
      BY DEF StreamOK, ShapeOK
    <3>4. H.blk[s] <= d + 1 /\ H.blk[s] \in 1..H.ht
      BY <3>2, <3>3, <1>1
    <3> QED
      BY <2>1, <3>4, <1>1
  <2> QED
    BY <2>1 DEF KnownAt
<1>4. ASSUME NEW w \in Workers PROVE InfoOK(H, w, eco.info[w], q)
  <2> DEFINE i == eco.info[w]
  <2>1. InfoOK(H, w, i, p)
    BY DEF EcoOK
  <2>2. ~KnownAt(H, w, p) /\ ~KnownAt(H, w, q)
    BY <1>2, <1>3
  <2>3. H.cnt[w][p] = 0 /\ H.cnt[w][q] = 0
    BY <2>2, <1>2 DEF StreamOK, LaunchOK
  <2>4. H.acc[w][p] = 0 /\ H.acc[w][q] = 0
    <3>1. /\ H.acc[w][p] \in Nat /\ H.acc[w][p] <= H.cnt[w][p]
          /\ H.acc[w][q] \in Nat /\ H.acc[w][q] <= H.cnt[w][q]
      BY <1>2, CountFacts
    <3> QED
      BY <3>1, <2>3
  <2> HIDE DEF i, p, q
  <2>5. /\ ~i.known /\ i.sm = Unregistered /\ Len(i.waiting) = H.cnt[w][p] - H.acc[w][p]
    BY <2>1, <2>2 DEF InfoOK
  <2>6. Len(i.waiting) = 0 /\ 0 = H.cnt[w][q] - H.acc[w][q] /\ 1..0 = {}
    BY <2>3, <2>4, <2>5
  <2>7. InfoOK(H, w, i, q)
    BY <2>2, <2>5, <2>6 DEF InfoOK
  <2> QED
    BY <2>7 DEF i
<1> QED
  BY <1>4 DEF EcoOK

(* The gatekeeper has been launched when it has handled the launch.        *)
LEMMA LaunchHandled ==
    ASSUME NEW H, StreamOK(H), NEW b, NEW d, NEW p, NextBlock(H, gk.inbox, b, d, p),
           gk.launched <=> H.la # 0 /\ H.la <= d
    PROVE  Launches(b) <=> H.la # 0 /\ H.la <= d + 1
<1> DEFINE N == Len(b.events)
<1>1. /\ N \in Nat /\ p \in Nat /\ p = H.end[d] /\ H.end[d + 1] = p + N
      /\ d \in Nat /\ d + 1 \in Nat /\ d + 1 \in 1..(H.ht - 1) /\ b \in Blocks
      /\ \A i \in 1..N : /\ p + i \in 1..Now(H) /\ b.events[i] = H.E[p + i]
                         /\ H.blk[p + i] = d + 1
  BY DEF NextBlock
<1>2. H.la \in Nat /\ H.ht \in Nat /\ Now(H) \in Nat /\ d \in 0..H.ht /\ d + 1 \in 0..H.ht
  BY <1>1, Bounds DEF StreamOK
<1>3. Launched \in Range(b.events) <=> \E i \in 1..N : b.events[i] = Launched
  <2>1. DOMAIN b.events = 1..N
    BY <1>1 DEF Blocks
  <2> QED
    BY <2>1 DEF Range
<1> HIDE DEF N
<1>4. ASSUME NEW i \in 1..N, b.events[i] = Launched PROVE H.la # 0 /\ H.la = d + 1
  <2>1. p + i \in 1..Now(H) /\ H.E[p + i] = Launched /\ H.blk[p + i] = d + 1
    BY <1>1, <1>4
  <2> QED
    BY <2>1 DEF StreamOK, LaunchOK
<1>5. ASSUME H.la = d + 1 PROVE \E i \in 1..N : b.events[i] = Launched
  <2>1. PICK q \in 1..Now(H) : H.E[q] = Launched
    BY <1>1, <1>5 DEF StreamOK, LaunchOK
  <2>2. H.blk[q] = d + 1
    BY <2>1, <1>5 DEF StreamOK, LaunchOK
  <2>3. \A h \in 0..H.ht : q <= H.end[h] <=> H.blk[q] <= h
    BY DEF StreamOK, ShapeOK
  <2>4. q <= p + N /\ ~(q <= p)
    BY <2>2, <2>3, <1>1, <1>2
  <2>5. q - p \in 1..N /\ p + (q - p) = q
    BY <2>4, <1>1, <1>2
  <2> QED
    BY <2>1, <2>5, <1>1
<1>6. H.la <= d + 1 <=> H.la <= d \/ H.la = d + 1
  BY <1>1, <1>2
<1> QED
  BY <1>1, <1>3, <1>4, <1>5, <1>6 DEF Launches

(* Marking workers silent changes nothing else that is known of them.      *)
LEMMA SilentFacts ==
    ASSUME NEW H, NEW eco, NEW q, NEW h, EcoOK(H, eco, q, h), NEW k
    PROVE  /\ Silent(eco, k) \in [Workers -> Infos]
           /\ \A w \in Workers : InfoOK(H, w, Silent(eco, k)[w], q)
<1> DEFINE un(w) == w \in Late(eco, k) \/ (eco.info[w].unresponsive /\ w \notin Recovered(eco))
           j(w) == [eco.info[w] EXCEPT !.unresponsive = un(w)]
<1>1. \A w \in Workers : eco.info[w] \in Infos /\ InfoOK(H, w, eco.info[w], q)
  BY DEF EcoOK, Ecos, SoundInfos
<1>2. ASSUME NEW w \in Workers PROVE un(w) \in BOOLEAN
  OBVIOUS
<1>3. Silent(eco, k) = [w \in Workers |-> j(w)]
  BY DEF Silent
<1> HIDE DEF un
<1>4. ASSUME NEW w \in Workers
      PROVE  j(w) \in Infos /\ InfoOK(H, w, j(w), q)
  <2> DEFINE i == eco.info[w]
             x == j(w)
  <2>1. i \in Infos /\ InfoOK(H, w, i, q)
    BY <1>1
  <2>2. x = [i EXCEPT !.unresponsive = un(w)]
    OBVIOUS
  <2> HIDE DEF i, x
  <2>3. x \in Infos /\ x.known = i.known /\ x.sm = i.sm /\ x.waiting = i.waiting
    BY <2>1, <2>2, <1>2 DEF Infos
  <2>4. InfoOK(H, w, x, q)
    BY <2>1, <2>3 DEF InfoOK
  <2> QED
    BY <2>3, <2>4 DEF x
<1> HIDE DEF j
<1> QED
  BY <1>3, <1>4

(* The report of a block.                                                  *)
LEMMA ReportMade ==
    ASSUME NEW H, NEW eco, NEW q, NEW h, h \in 1..(H.ht - 1), EcoOK(H, eco, q, h)
    PROVE  ReportOK(H, Report(eco, h))
<1> DEFINE r == Report(eco, h)
<1>1. eco.settle \in Seq(Settles)
  BY DEF EcoOK, Ecos
<1>2. \A j \in 1..Len(eco.settle) :
         eco.settle[j] \in Settlements /\ SettlementOK(H, eco.settle[j], h)
  BY DEF EcoOK
<1>3. eco.settle \in Seq(Settlements)
  BY <1>1, <1>2
<1>4. /\ r.ts = h /\ r.offline = Late(eco, h) /\ r.recovered = Recovered(eco)
      /\ r.settle = eco.settle
  BY DEF Report
<1>5. Late(eco, h) \in SUBSET Workers /\ Recovered(eco) \in SUBSET Workers
  BY DEF Late, Recovered, Working
<1>6. Late(eco, h) \cap Recovered(eco) = {}
  BY DEF Late, Recovered
<1>7. r \in Reports
  BY <1>3, <1>5 DEF Report, Reports
<1> QED
  BY <1>2, <1>4, <1>6, <1>7 DEF ReportOK

(* The gatekeeper handles a block.                                         *)
LEMMA HistoryGatekeeperBlock ==
    ASSUME NEW H, HistoryOK(H), GatekeeperBlock
    PROVE  \E K : HistoryOK(K)'
<1> DEFINE b == Head(gk.inbox)
           d == Done(H, gk.inbox)
           p == H.end[d]
<1>1. StreamOK(H) /\ ObserversOK(H)
  BY DEF HistoryOK
<1>2. GatekeeperOK(H, gk) /\ gk \in Gatekeepers /\ InboxOK(H, gk.inbox)
      /\ (gk.launched <=> H.la # 0 /\ H.la <= d)
  BY <1>1 DEF ObserversOK, GatekeeperOK
<1>3. gk.inbox # << >> /\ UNCHANGED <<height, current, pallet, worker>>
  BY DEF GatekeeperBlock
<1>4. NextBlock(H, gk.inbox, b, d, p)
  BY <1>1, <1>2, <1>3, NextBlockFacts
<1>5. Handled(IF Launches(b) THEN ProcessMessages(EcoStart, b) ELSE EcoStart, b)
  BY DEF GatekeeperBlock, Handled, Launches, EcoStart
<1> HIDE DEF b, d, p
<1>6. /\ b \in Blocks /\ b.height = d + 1 /\ d \in Nat /\ d + 1 \in 1..(H.ht - 1) /\ p = H.end[d]
      /\ H.end[d + 1] = p + Len(b.events)
      /\ InboxOK(H, Tail(gk.inbox)) /\ Done(H, Tail(gk.inbox)) = d + 1
  BY <1>4 DEF NextBlock
<1>7. EcoOK(H, EcoStart, p, d + 1)
  BY <1>1, <1>2, EcoStarts DEF p, d
<1>8. EcoStart \in Ecos
  BY <1>7 DEF EcoOK
<1>9. Launches(b) <=> H.la # 0 /\ H.la <= d + 1
  BY <1>1, <1>2, <1>4, LaunchHandled
<1> DEFINE eco == IF Launches(b) THEN ProcessMessages(EcoStart, b) ELSE EcoStart
<1>10. EcoOK(H, eco, H.end[d + 1], d + 1)
  <2>1. CASE Launches(b)
    <3>1. PICK f : EcoRuns(f, EcoStart, b) /\ ProcessMessages(EcoStart, b) = f[Len(b.events)]
      BY <1>6, <1>8, EcoRun
    <3>2. EcoOK(H, f[Len(b.events)], p + Len(b.events), d + 1)
      BY <2>1, <3>1, <1>1, <1>4, <1>7, <1>9, EcoReaches
    <3> QED
      BY <2>1, <3>1, <3>2, <1>6
  <2>2. CASE ~Launches(b)
    <3>1. EcoOK(H, EcoStart, H.end[d + 1], d + 1)
      BY <2>2, <1>1, <1>6, <1>7, <1>9, EcoSkips
    <3> QED
      BY <2>2, <3>1
  <2> QED
    BY <2>1, <2>2
<1>11. Handled(eco, b)
  BY <1>5
<1> HIDE DEF eco
<1> DEFINE s == Silent(eco, d + 1)
           r == Report(eco, d + 1)
<1>12. /\ gk' = [inbox |-> Tail(gk.inbox), launched |-> Launches(b), poisoned |-> eco.poisoned,
                 info |-> s]
       /\ reports' = reports \/ reports' = Append(reports, r)
  BY <1>6, <1>11 DEF Handled
<1>13. s \in [Workers -> Infos] /\ \A w \in Workers : InfoOK(H, w, s[w], H.end[d + 1])
  BY <1>10, SilentFacts
<1>14. ReportOK(H, r)
  BY <1>6, <1>10, ReportMade
<1> HIDE DEF s, r
<1>15. GatekeeperOK(H, gk')
  <2>1. eco.poisoned = FALSE
    BY <1>10 DEF EcoOK, Ecos
  <2>2. Tail(gk.inbox) \in Seq(Blocks) /\ Launches(b) \in BOOLEAN
    BY <1>2, <1>6 DEF InboxOK, Launches, Gatekeepers
  <2>3. /\ gk'.inbox = Tail(gk.inbox) /\ gk'.launched = Launches(b) /\ gk'.poisoned = FALSE
        /\ gk'.info = s
    BY <2>1, <1>12
  <2>4. gk' \in Gatekeepers
    BY <2>1, <2>2, <1>12, <1>13 DEF Gatekeepers
  <2> QED
    BY <2>3, <2>4, <1>6, <1>9, <1>13 DEF GatekeeperOK
<1>16. ReportsOK(H, reports')
  <2>1. ReportsOK(H, reports)
    BY <1>1 DEF ObserversOK
  <2>2. CASE reports' = Append(reports, r)
    <3> DEFINE l == Len(reports)
    <3>1. reports \in Seq(Reports) /\ l \in Nat /\ r \in Reports
      BY <2>1, <1>14 DEF ReportsOK, ReportOK
    <3>2. /\ reports' \in Seq(Reports) /\ Len(reports') = l + 1 /\ reports'[l + 1] = r
          /\ \A i \in 1..l : reports'[i] = reports[i]
      BY <2>2, <3>1
    <3>3. \A i \in 1..(l + 1) : i \in 1..l \/ i = l + 1
      BY <3>1
    <3>4. \A i \in 1..l : ReportOK(H, reports[i])
      BY <2>1 DEF ReportsOK
    <3> HIDE DEF l
    <3>5. \A i \in 1..Len(reports') : ReportOK(H, reports'[i])
      BY <3>2, <3>3, <3>4, <1>14
    <3> QED
      BY <3>2, <3>5 DEF ReportsOK
  <2> QED
    BY <2>1, <2>2, <1>12
<1>17. ObserversOK(H)'
  BY <1>1, <1>3, <1>15, <1>16 DEF ObserversOK
<1>18. HistoryOK(H)'
  BY <1>3, <1>17, ObserverHistory
<1> QED
  BY <1>18

-----------------------------------------------------------------------------
(* The invariant.                                                          *)

(* The pallets start with empty books.                                     *)
LEMMA PalletInit ==
    ASSUME Init
    PROVE  PalletType /\ BooksBalance
<1>1. NoSession \in SessionType(height, nextId)
  BY DEF Init, NoSession, SessionType, States
<1>2. sessions \in [Accounts -> SessionType(height, nextId)]
  BY <1>1 DEF Init
<1>3. PalletType
  BY <1>2, ConstantsAssumption DEF Init, PalletType
<1>4. \A a \in Accounts : /\ ~Computing(sessions[a]) /\ sessions[a].stake = FALSE
                          /\ sessions[a].state # "WorkerCoolingDown"
  BY DEF Init, NoSession, Computing
<1>5. {a \in Accounts : Computing(sessions[a])} = {}
  BY <1>4
<1>6. online = Cardinality({a \in Accounts : Computing(sessions[a])})
  BY <1>5, FS_EmptySet DEF Init
<1> QED
  BY <1>3, <1>4, <1>6 DEF BooksBalance

(* The history begins without events.                                      *)
LEMMA HistoryInit ==
    ASSUME Init
    PROVE  \E H : HistoryOK(H)
<1> DEFINE none == [p \in 0..0 |-> 0]
           H == [E |-> << >>, blk |-> [p \in 1..0 |-> 1], end |-> [h \in 0..1 |-> 0],
                 F |-> [w \in Workers |-> [p \in 0..0 |-> Unregistered]],
                 cnt |-> [w \in Workers |-> none], acc |-> [w \in Workers |-> none],
                 S |-> [w \in Workers |-> << >>], ht |-> 1, la |-> 0]
<1>1. /\ H.E = << >> /\ H.blk = [p \in 1..0 |-> 1] /\ H.end = [h \in 0..1 |-> 0]
      /\ H.ht = 1 /\ H.la = 0
      /\ \A w \in Workers : /\ H.F[w] = [p \in 0..0 |-> Unregistered]
                            /\ H.cnt[w] = none /\ H.acc[w] = none /\ H.S[w] = << >>
  OBVIOUS
<1> HIDE DEF H
<1>2. Now(H) = 0 /\ 1..0 = {} /\ 0..0 = {0} /\ 0..1 = {0, 1} /\ 1..1 = {1}
  BY <1>1 DEF Now
<1>3. none \in [0..0 -> Nat] /\ none[0] = 0
  BY <1>2
<1> HIDE DEF none
<1>4. Unregistered \in StateMachines /\ Unregistered.session = 0 /\ Unregistered.paused = FALSE
  BY DEF Unregistered, StateMachines
<1>5. H.end[0] = 0 /\ H.end[1] = 0
  BY <1>1, <1>2
<1>6. ShapeOK(H)
  <2>1. H.end \in [0..1 -> 0..0] /\ H.blk \in [1..0 -> 1..1] /\ H.E \in Seq(Events)
    BY <1>1, <1>2
  <2> QED
    BY <2>1, <1>1, <1>2, <1>5 DEF ShapeOK
<1>7. ASSUME NEW w \in Workers PROVE MachineOK(H, w) /\ CountOK(H, w) /\ AnswersOK(H, w)
  <2>1. H.F[w] \in [0..0 -> StateMachines] /\ H.F[w][0] = Unregistered
    BY <1>1, <1>2, <1>4
  <2>2. MachineOK(H, w)
    BY <2>1, <1>2, <1>4 DEF MachineOK
  <2>3. H.S[w] \in Seq(Answer) /\ Len(H.S[w]) = 0
    BY SMTT(30), <1>1
  <2>4. CountOK(H, w)
    <3>1. \A p, q \in {0} : p <= q => H.cnt[w][p] <= H.cnt[w][q]
      BY <1>1, <1>3
    <3>2. \A p, q \in {0} : p <= q => H.acc[w][p] <= H.acc[w][q]
      BY <1>1, <1>3
    <3>3. \A p \in {0} : H.acc[w][p] <= H.cnt[w][p]
      BY <1>1, <1>3
    <3>4. /\ H.cnt[w] \in [0..0 -> Nat] /\ H.acc[w] \in [0..0 -> Nat]
          /\ H.cnt[w][0] = 0 /\ H.acc[w][0] = 0
      BY <1>1, <1>3
    <3> QED
      BY <3>1, <3>2, <3>3, <3>4, <2>3, <1>2 DEF CountOK
  <2>5. AnswersOK(H, w)
    BY <2>3, <1>2 DEF AnswersOK
  <2> QED
    BY <2>2, <2>4, <2>5
<1>8. LaunchOK(H) /\ StopsOK(H)
  <2>1. \A w \in Workers : H.F[w][0].session = 0 /\ H.cnt[w][0] = 0
    BY <1>1, <1>2, <1>3, <1>4
  <2> QED
    BY <2>1, <1>1, <1>2 DEF LaunchOK, StopsOK
<1>9. StreamOK(H)
  BY <1>6, <1>7, <1>8 DEF StreamOK
<1>10. IsBlock(H, current, height)
  BY <1>2, <1>5 DEF Init, IsBlock
<1>11. \A w \in Workers : addedAt[w] = 0 /\ ~Bound(w)
  BY DEF Init, Bound
<1>12. AddedOK(H)
  BY <1>11 DEF AddedOK
<1>13. ASSUME NEW w \in Workers PROVE TrackOK(H, w)
  <2>1. H.F[w][Now(H)].session = 0 /\ H.F[w][Now(H)].paused = FALSE
    BY <1>1, <1>2, <1>4
  <2>2. SessionOK(H, w)
    BY <2>1, <1>11 DEF SessionOK, Computes
  <2>3. ASSUME NEW a \in Accounts PROVE ClockOK(H, w, sessions[a])
    <3>1. sessions[a].challenge_time_last = 0 /\ ~Computing(sessions[a])
      BY DEF Init, NoSession, Computing
    <3>2. H.acc[w][Now(H)] = 0 /\ Len(H.S[w]) = 0 /\ (0 + 1)..0 = {}
      BY <1>1, <1>2, <1>3
    <3> QED
      BY <3>1, <3>2, <1>1 DEF ClockOK
  <2> QED
    BY <2>2, <2>3, <1>11 DEF TrackOK
<1>14. InboxOK(H, << >>) /\ Done(H, << >>) = 0
  <2>1. << >> \in Seq(Blocks) /\ Len(<< >>) = 0
    OBVIOUS
  <2> QED
    BY SMTT(30), <2>1, <1>1, <1>2 DEF InboxOK, Done
<1>15. ObserversOK(H)
  <2>1. ASSUME NEW w \in Workers
        PROVE  worker[w] \in WorkerStates /\ WorkerOK(H, w, worker[w])
    <3> DEFINE st == worker[w]
    <3>1. st = [inbox |-> << >>, sm |-> Unregistered, out |-> << >>]
      BY DEF Init
    <3>2. st.inbox = << >> /\ st.sm = Unregistered /\ st.out = << >>
      BY <3>1
    <3>3. st \in WorkerStates
      BY <3>1, <1>4 DEF WorkerStates
    <3> HIDE DEF st
    <3>4. OutOK(H, w, st.out, 0)
      <4>1. H.cnt[w][0] = 0 /\ H.acc[w][Now(H)] = 0
        BY <1>1, <1>2, <1>3
      <4>2. Len(st.out) = 0
        BY <3>2
      <4> QED
        BY <4>1, <4>2, <1>2 DEF OutOK
    <3>5. H.F[w][0] = Unregistered
      BY <1>1, <1>2
    <3>6. WorkerOK(H, w, st)
      BY <3>2, <3>3, <3>4, <3>5, <1>5, <1>14 DEF WorkerOK
    <3> QED
      BY <3>3, <3>6 DEF st
  <2>2. worker \in [Workers -> WorkerStates]
    <3>1. worker = [w \in Workers |-> worker[w]]
      BY DEF Init
    <3> QED
      BY <3>1, <2>1
  <2>3. GatekeeperOK(H, gk)
    <3>1. /\ gk.inbox = << >> /\ gk.launched = FALSE /\ gk.poisoned = FALSE
          /\ gk.info = [w \in Workers |-> Unknown]
      BY DEF Init
    <3>2. Unknown \in Infos /\ Unknown.known = FALSE /\ Unknown.sm = Unregistered
          /\ Len(Unknown.waiting) = 0
      BY <1>4 DEF Unknown, Infos
    <3>3. gk \in Gatekeepers
      BY <3>2 DEF Init, Gatekeepers
    <3>4. ASSUME NEW w \in Workers PROVE InfoOK(H, w, gk.info[w], 0)
      <4>1. ~KnownAt(H, w, 0)
        BY <1>1 DEF KnownAt
      <4>2. H.cnt[w][0] = 0 /\ H.acc[w][0] = 0
        BY <1>1, <1>3
      <4>3. gk.info[w] = Unknown
        BY <3>1
      <4> QED
        BY <4>1, <4>2, <4>3, <3>2, <1>2 DEF InfoOK
    <3> QED
      BY <3>1, <3>3, <3>4, <1>1, <1>5, <1>14 DEF GatekeeperOK
  <2>4. ReportsOK(H, reports)
    <3>1. reports = << >> /\ Len(reports) = 0
      BY DEF Init
    <3> QED
      BY <3>1, <1>2 DEF ReportsOK
  <2> QED
    BY <2>1, <2>2, <2>3, <2>4 DEF ObserversOK
<1>16. H.ht = height /\ H.la = launchedAt
  BY <1>1 DEF Init
<1> QED
  BY <1>9, <1>10, <1>12, <1>13, <1>15, <1>16 DEF HistoryOK

(* Every step keeps the books in order.                                    *)
LEMMA PalletNext ==
    ASSUME PalletType, BooksBalance, NEW H, HistoryOK(H), Next
    PROVE  PalletStep
<1>1. CASE LaunchGatekeeper
  BY <1>1, PalletLaunchGatekeeper
<1>2. ASSUME NEW w \in Workers, RegisterWorker(w) PROVE PalletStep
  BY <1>2, PalletRegisterWorker
<1>3. ASSUME NEW w \in Workers, Unbind(w) PROVE PalletStep
  BY <1>3, PalletUnbind
<1>4. ASSUME NEW w \in Workers, StartComputing(w) PROVE PalletStep
  BY <1>4, PalletStartComputing
<1>5. ASSUME NEW w \in Workers, StopComputing(w) PROVE PalletStep
  BY <1>5, PalletStopComputing
<1>6. ASSUME NEW w \in Workers, RestartComputing(w) PROVE PalletStep
  BY <1>6, PalletRestartComputing
<1>7. ASSUME NEW w \in Workers, AcceptHeartbeat(w) PROVE PalletStep
  <2>1. worker[w].out # << >> /\ StreamOK(H) /\ WorkerOK(H, w, worker[w]) /\ H.ht = height
    BY <1>7 DEF AcceptHeartbeat, HistoryOK, ObserversOK
  <2>2. Head(worker[w].out).block \in 1..(height - 1)
    BY <2>1, HeartbeatFacts DEF NextHeartbeat
  <2>3. height \in Nat
    BY ConstantsAssumption DEF PalletType
  <2>4. Head(worker[w].out).block \in 0..height
    BY <2>2, <2>3
  <2> QED
    BY <2>4, <1>7, PalletAcceptHeartbeat
<1>8. ASSUME NEW w \in Workers, WorkerBlock(w) PROVE PalletStep
  <2>1. UNCHANGED <<pallet, calls>> /\ height' = height
    BY <1>8 DEF WorkerBlock
  <2>2. height \in Nat /\ height <= MaxBlocks
    BY ConstantsAssumption DEF PalletType
  <2> QED
    BY SMTT(30), <2>1, <2>2, PalletOther
<1>9. ASSUME NEW w \in Workers, NEW p \in Pools, Bind(p, w) PROVE PalletStep
  BY <1>9, PalletBind
<1>10. ASSUME NEW a \in Accounts, Reclaim(a) PROVE PalletStep
  BY <1>10, PalletReclaim
<1>11. CASE AcceptReport
  BY <1>11, PalletAcceptReport
<1>12. CASE EndBlock
  <2>1. UNCHANGED <<pallet, calls>> /\ height' = height + 1 /\ height < MaxBlocks
    BY <1>12 DEF EndBlock
  <2>2. height \in Nat /\ MaxBlocks \in Nat
    BY ConstantsAssumption DEF PalletType
  <2>3. height' \in Nat /\ height <= height' /\ height' <= MaxBlocks
    BY <2>1, <2>2
  <2> QED
    BY <2>1, <2>3, PalletOther
<1>13. CASE GatekeeperBlock
  <2>1. UNCHANGED <<pallet, calls>> /\ height' = height
    BY <1>13 DEF GatekeeperBlock
  <2>2. height \in Nat /\ height <= MaxBlocks
    BY ConstantsAssumption DEF PalletType
  <2> QED
    BY <2>1, <2>2, PalletOther
<1> QED
  BY <1>1, <1>2, <1>3, <1>4, <1>5, <1>6, <1>7, <1>8, <1>9, <1>10, <1>11, <1>12, <1>13 DEF Next

(* Every step leaves a state with a history.                               *)
LEMMA HistoryNext ==
    ASSUME PalletType, NEW H, HistoryOK(H), Next
    PROVE  \E K : HistoryOK(K)'
<1> DEFINE Goal == \E K : HistoryOK(K)'
<1>1. LaunchGatekeeper => Goal
  BY HistoryLaunchGatekeeper
<1>2. ASSUME NEW w \in Workers PROVE RegisterWorker(w) => Goal
  BY HistoryRegisterWorker
<1>3. ASSUME NEW w \in Workers PROVE Unbind(w) => Goal
  BY HistoryUnbind
<1>4. ASSUME NEW w \in Workers PROVE StartComputing(w) => Goal
  BY HistoryStartComputing
<1>5. ASSUME NEW w \in Workers PROVE StopComputing(w) => Goal
  BY HistoryStopComputing
<1>6. ASSUME NEW w \in Workers PROVE RestartComputing(w) => Goal
  BY HistoryRestartComputing
<1>7. ASSUME NEW w \in Workers PROVE AcceptHeartbeat(w) => Goal
  BY HistoryAcceptHeartbeat
<1>8. ASSUME NEW w \in Workers PROVE WorkerBlock(w) => Goal
  BY HistoryWorkerBlock
<1>9. ASSUME NEW w \in Workers, NEW p \in Pools PROVE Bind(p, w) => Goal
  BY HistoryBind
<1>10. ASSUME NEW a \in Accounts PROVE Reclaim(a) => Goal
  BY HistoryReclaim
<1>11. AcceptReport => Goal
  BY HistoryAcceptReport
<1>12. EndBlock => Goal
  BY HistoryEndBlock
<1>13. GatekeeperBlock => Goal
  BY HistoryGatekeeperBlock
<1> HIDE DEF Goal
<1>14. Goal
  BY <1>1, <1>2, <1>3, <1>4, <1>5, <1>6, <1>7, <1>8, <1>9, <1>10, <1>11, <1>12, <1>13 DEF Next
<1> QED
  BY <1>14 DEF Goal

(* The same history fits a state that is the same.                         *)
LEMMA HistoryStutters ==
    ASSUME NEW H, HistoryOK(H), UNCHANGED vars
    PROVE  HistoryOK(H)'
<1>1. UNCHANGED <<height, current, pallet>> /\ UNCHANGED <<worker, gk, reports>>
  BY DEF vars
<1>2. ObserversOK(H)'
  BY <1>1 DEF HistoryOK, ObserversOK
<1> QED
  BY <1>1, <1>2, ObserverHistory

(* The books are in order and the state has a history, always: the calls   *)
(* of the pallets, the three observers and the blocks between them keep it *)
(* in whatever order they come.                                            *)
THEOREM Inductive == Spec => []IInv
<1>1. Init => IInv
  BY PalletInit, HistoryInit DEF IInv
<1>2. IInv /\ [Next]_vars => IInv'
  <2> SUFFICES ASSUME IInv, [Next]_vars PROVE IInv'
    OBVIOUS
  <2>1. PICK H : HistoryOK(H)
    BY DEF IInv
  <2>2. PalletType /\ BooksBalance
    BY DEF IInv
  <2>3. CASE Next
    <3>1. PalletType' /\ BooksBalance'
      BY <2>1, <2>2, <2>3, PalletNext DEF PalletStep
    <3>2. \E K : HistoryOK(K)'
      BY <2>1, <2>2, <2>3, HistoryNext
    <3> QED
      BY <3>1, <3>2 DEF IInv
  <2>4. CASE UNCHANGED vars
    <3>1. PalletType' /\ BooksBalance'
      <4>1. UNCHANGED <<pallet, calls>> /\ height' = height
        BY <2>4 DEF vars
      <4>2. height \in Nat /\ height <= MaxBlocks
        BY <2>2, ConstantsAssumption DEF PalletType
      <4> QED
        BY <2>2, <4>1, <4>2, PalletOther DEF PalletStep
    <3>2. HistoryOK(H)'
      BY <2>1, <2>4, HistoryStutters
    <3> QED
      BY <3>1, <3>2 DEF IInv
  <2> QED
    BY <2>3, <2>4
<1> QED
  BY <1>1, <1>2, PTL DEF Spec

(* The state keeps its shape: storage of the pallets, machines of the      *)
(* workers and of the gatekeeper, and heartbeats under way.                *)
THEOREM TypeCorrect == Spec => []TypeOK
<1>1. IInv => TypeOK
  <2> SUFFICES ASSUME PalletType, BooksBalance, NEW H, HistoryOK(H) PROVE TypeOK
    BY DEF IInv
  <2>1. StreamOK(H) /\ H.ht = height /\ GatekeeperOK(H, gk)
        /\ \A w \in Workers : WorkerOK(H, w, worker[w])
    BY DEF HistoryOK, ObserversOK
  <2>2. height \in Nat \ {0}
    BY ConstantsAssumption DEF PalletType
  <2>3. online \in 0..Cardinality(Accounts)
    <3> DEFINE on == {a \in Accounts : Computing(sessions[a])}
    <3>1. on \subseteq Accounts
      OBVIOUS
    <3> HIDE DEF on
    <3>2. Cardinality(on) <= Cardinality(Accounts) /\ Cardinality(on) \in Nat
          /\ Cardinality(Accounts) \in Nat
      BY <3>1, AccountsFinite, FS_Subset, FS_CardinalityType
    <3>3. online = Cardinality(on)
      BY SMTT(30) DEF BooksBalance, on
    <3> QED
      BY <3>2, <3>3
  <2>4. ASSUME NEW w \in Workers
        PROVE  /\ worker[w].sm \in StateMachines
               /\ worker[w].out \in Seq([session : Nat, block : 1..height])
               /\ gk.info[w].sm \in StateMachines
               /\ worker[w].sm.paused => worker[w].sm.session # 0
               /\ gk.info[w].sm.paused => gk.info[w].sm.session # 0
    <3> DEFINE st == worker[w]
               p == H.end[Done(H, st.inbox)]
               X == [session : Nat, block : 1..height]
    <3>1. /\ WorkerOK(H, w, st) /\ st.sm \in StateMachines /\ st.out \in Seq(Answer)
          /\ st.sm = H.F[w][p] /\ p \in 0..Now(H) /\ OutOK(H, w, st.out, p)
      BY SMTT(30), <2>1, DoneBounds DEF WorkerOK, WorkerStates
    <3>2. st.sm.paused => st.sm.session # 0
      BY <3>1, <2>1 DEF StreamOK, MachineOK
    <3>3. ASSUME NEW i \in 1..Len(st.out) PROVE st.out[i] \in X
      <4> DEFINE a == H.acc[w][Now(H)]
      <4>1. /\ a \in Nat /\ H.cnt[w][p] \in Nat /\ Len(H.S[w]) \in Nat
            /\ H.cnt[w][p] <= Len(H.S[w])
        BY SMTT(30), <3>1, <2>1, CountFacts
      <4>2. Len(st.out) = H.cnt[w][p] - a /\ st.out[i] = H.S[w][a + i]
        BY <3>1 DEF OutOK
      <4> HIDE DEF a, p
      <4>3. a + i \in 1..Len(H.S[w])
        <5> DEFINE l == Len(st.out)
                   n == Len(H.S[w])
                   c == H.cnt[w][p]
        <5>1. i \in 1..l /\ l = c - a /\ c <= n /\ c \in Nat /\ n \in Nat /\ a \in Nat
          BY <4>1, <4>2
        <5> HIDE DEF l, n, c
        <5>2. a + i \in 1..n
          BY <5>1
        <5> QED
          BY <5>2 DEF n
      <4>4. st.out[i] \in Answer
        BY <3>1, ElementOfSeq
      <4>5. st.out[i].block < height
        BY <4>2, <4>3, <2>1 DEF StreamOK, AnswersOK
      <4>6. /\ st.out[i].session \in Nat /\ st.out[i].block \in Nat \ {0}
            /\ st.out[i] = [session |-> st.out[i].session, block |-> st.out[i].block]
        BY <4>4 DEF Answer
      <4>7. st.out[i].block \in 1..height
        BY <4>5, <4>6, <2>2
      <4> QED
        BY <4>6, <4>7
    <3>4. st.out \in Seq(X)
      <4> HIDE DEF X
      <4> QED
        BY <3>1, <3>3
    <3>5. EcoOK(H, EcoStart, H.end[Done(H, gk.inbox)], 0)
      BY <2>1, EcoStarts
    <3>6. gk.info[w] \in SoundInfos
      BY <3>5 DEF EcoOK, Ecos, EcoStart
    <3>7. gk.info[w].sm \in StateMachines /\ (gk.info[w].sm.paused => gk.info[w].sm.session # 0)
      BY <3>6 DEF SoundInfos, Infos
    <3> QED
      BY <3>1, <3>2, <3>4, <3>7
  <2> QED
    BY <2>3, <2>4 DEF TypeOK, PalletType, SessionType
<1> QED
  BY <1>1, Inductive, PTL

(* OnlineWorkers, the bindings and Stakes agree with the sessions whatever *)
(* pool owners do and whatever the gatekeeper reports: the numbers that    *)
(* computation.rs keeps beside the sessions never drift from them.         *)
THEOREM BooksAreBalanced == Spec => []BooksBalance
<1>1. IInv => BooksBalance
  BY DEF IInv
<1> QED
  BY <1>1, Inductive, PTL

-----------------------------------------------------------------------------
(* What the invariant says of settlements, heartbeats and copies.          *)

(* A settlement that reaches a session is about that session: every        *)
(* session that its worker was in since the session was last updated is    *)
(* this one, so the check of v_updated_at in try_handle_settle suffices    *)
(* however long the report takes and however often the worker restarts or  *)
(* moves to another pool meanwhile.                                        *)
THEOREM SettlementsReachTheirSession == Spec => []SettlesOwnSession
<1>1. IInv => SettlesOwnSession
  <2> SUFFICES ASSUME PalletType, NEW H, HistoryOK(H), NEW i \in 1..Len(reports),
                      NEW s \in Range(reports[i].settle), Bound(s.worker),
                      ~LateSettlement(s.worker, reports[i].ts)
               PROVE  sessions[Account(s.worker)].id = s.session
    BY DEF IInv, SettlesOwnSession
  <2> DEFINE r == reports[i]
             w == s.worker
             t == sessions[Account(w)]
  <2>1. StreamOK(H) /\ ReportOK(H, r) /\ H.ht = height
    BY DEF HistoryOK, ObserversOK, ReportsOK
  <2>2. r \in Reports /\ r.ts \in 1..(H.ht - 1)
        /\ \A j \in 1..Len(r.settle) : SettlementOK(H, r.settle[j], r.ts)
    BY <2>1 DEF ReportOK
  <2> HIDE DEF r
  <2>3. r.settle \in Seq(Settlements)
    BY <2>2 DEF Reports
  <2>4. PICK j \in 1..Len(r.settle) : s = r.settle[j]
    <3>1. DOMAIN r.settle = 1..Len(r.settle)
      BY <2>3
    <3> QED
      BY <3>1 DEF Range, r
  <2>5. s \in Settlements
    BY <2>3, <2>4, ElementOfSeq
  <2>6. w \in Workers /\ s.session # 0
    BY <2>5 DEF Settlements
  <2>7. PICK p \in H.end[r.ts - 1]..H.end[r.ts] : H.F[w][p].session = s.session
    BY <2>2, <2>4 DEF SettlementOK
  <2>8. t.v_updated_at \in Nat /\ height \in Nat
    <3>1. Account(w) \in Accounts
      BY <2>6, AccountFacts
    <3>2. t \in SessionType(height, nextId) /\ height \in Nat /\ nextId \in Nat \ {0}
      BY <3>1, ConstantsAssumption DEF PalletType
    <3>3. t.v_updated_at \in 0..height
      BY <3>2, SessionFields
    <3> QED
      BY <3>2, <3>3
  <2>9. t.v_updated_at < r.ts /\ r.ts \in 1..H.ht
    <3>1. ~(t.v_updated_at >= r.ts)
      BY DEF LateSettlement, r
    <3> HIDE DEF t
    <3> QED
      BY <3>1, <2>1, <2>2, <2>8
  <2>10. EpochOK(H, w, t)
    BY <2>6 DEF HistoryOK, TrackOK
  <2> HIDE DEF t, w
  <2>11. t.id = s.session
    BY <2>6, <2>7, <2>9, <2>10 DEF EpochOK
  <2> QED
    BY <2>11 DEF t, w
<1> QED
  BY <1>1, Inductive, PTL

(* No heartbeat is unexpected: the gatekeeper is never poisoned and the    *)
(* assertion of on_working_message_received never fails, because the       *)
(* answers of a worker, the blocks it answers and what the gatekeeper      *)
(* expects are one and the same list, of which each has seen a part.       *)
THEOREM NoHeartbeatIsUnexpected == Spec => []HeartbeatsAccepted
<1>1. IInv => HeartbeatsAccepted
  <2> SUFFICES ASSUME PalletType, NEW H, HistoryOK(H) PROVE HeartbeatsAccepted
    BY DEF IInv
  <2>1. StreamOK(H) /\ ObserversOK(H) /\ H.ht = height
    BY DEF HistoryOK
  <2>2. HeartbeatsExpected
    BY <2>1 DEF HeartbeatsExpected, ObserversOK, GatekeeperOK
  <2>3. ASSUME NEW w \in Workers, worker[w].out # << >>, Bound(w)
        PROVE  /\ height > sessions[Account(w)].challenge_time_last
               /\ Head(worker[w].out).block > sessions[Account(w)].challenge_time_last
    <3> DEFINE t == sessions[Account(w)]
               hb == Head(worker[w].out)
               a == H.acc[w][Now(H)]
    <3>1. Account(w) \in Accounts /\ Account(w)[2] = w
      BY <2>3, AccountFacts
    <3>2. ClockOK(H, w, t)
      BY <3>1 DEF HistoryOK, TrackOK
    <3>3. NextHeartbeat(H, w, hb)
      BY <2>1, <2>3, HeartbeatFacts DEF ObserversOK
    <3>4. t.challenge_time_last \in Nat
      <4>1. t \in SessionType(height, nextId) /\ height \in Nat /\ nextId \in Nat \ {0}
        BY <3>1, ConstantsAssumption DEF PalletType
      <4>2. t.challenge_time_last \in 0..height
        BY <4>1, SessionFields
      <4> QED
        BY <4>1, <4>2
    <3> HIDE DEF t, hb
    <3>5. /\ t.challenge_time_last < H.ht
          /\ \A j \in (a + 1)..Len(H.S[w]) : t.challenge_time_last < H.S[w][j].block
      BY <3>2 DEF ClockOK
    <3>6. /\ a + 1 \in 1..Len(H.S[w]) /\ hb = H.S[w][a + 1] /\ hb.block \in 1..(H.ht - 1)
      BY <3>3 DEF NextHeartbeat
    <3>7. a \in Nat /\ Len(H.S[w]) \in Nat
      BY <2>1, CountFacts
    <3> HIDE DEF a
    <3>8. a + 1 \in (a + 1)..Len(H.S[w])
      BY <3>6, <3>7
    <3>9. t.challenge_time_last < hb.block
      BY <3>5, <3>6, <3>8
    <3>10. H.ht \in Nat
      BY <2>1, Bounds DEF StreamOK
    <3>11. height > t.challenge_time_last
      BY <3>4, <3>5, <3>10, <2>1
    <3>12. hb.block > t.challenge_time_last
      BY <3>4, <3>6, <3>9, <3>10
    <3> QED
      BY <3>11, <3>12 DEF t, hb
  <2> QED
    BY <2>2, <2>3 DEF HeartbeatsAccepted, BenchmarkValid
<1> QED
  BY <1>1, Inductive, PTL

(* s is what the stream holds between p and q.                             *)
Stretch(H, s, p, q) ==
    /\ p \in 0..Now(H) /\ q \in 0..Now(H) /\ p <= q
    /\ s \in Seq(Events) /\ Len(s) = q - p
    /\ \A i \in 1..Len(s) : s[i] = H.E[p + i]

(* Two stretches that meet make one.                                       *)
LEMMA StretchesJoin ==
    ASSUME NEW H, Now(H) \in Nat, NEW s, NEW t, NEW p, NEW q, NEW r,
           Stretch(H, s, p, q), Stretch(H, t, q, r)
    PROVE  Stretch(H, s \o t, p, r)
<1> DEFINE k == Len(s)
           l == Len(t)
           u == s \o t
<1>1. /\ p \in 0..Now(H) /\ q \in 0..Now(H) /\ r \in 0..Now(H) /\ p <= q /\ q <= r
      /\ s \in Seq(Events) /\ t \in Seq(Events) /\ k = q - p /\ l = r - q
      /\ \A i \in 1..k : s[i] = H.E[p + i]
      /\ \A i \in 1..l : t[i] = H.E[q + i]
  BY DEF Stretch
<1>2. /\ u \in Seq(Events) /\ Len(u) = k + l /\ k \in Nat /\ l \in Nat
      /\ \A i \in 1..k : u[i] = s[i]
      /\ \A i \in 1..(k + l) : i > k => u[i] = t[i - k]
  <2>1. s \in Seq(Events) /\ t \in Seq(Events)
    BY <1>1
  <2> QED
    BY ONLY <2>1, ConcatProperties
<1> HIDE DEF k, l, u
<1>3. ASSUME NEW i \in 1..(k + l) PROVE u[i] = H.E[p + i]
  <2>1. CASE i <= k
    <3>1. i \in 1..k
      BY <2>1, <1>2
    <3> QED
      BY <3>1, <1>1, <1>2
  <2>2. CASE i > k
    <3>1. k = q - p /\ p \in Int /\ q \in Int /\ k \in Nat /\ l \in Nat
      BY <1>1, <1>2
    <3>2. i - k \in 1..l /\ q + (i - k) = p + i
      BY ONLY <2>2, <3>1, i \in 1..(k + l)
    <3>3. u[i] = t[i - k] /\ t[i - k] = H.E[q + (i - k)]
      BY <2>2, <3>2, <1>1, <1>2
    <3> QED
      BY <3>2, <3>3
  <2> QED
    BY <2>1, <2>2, <1>2
<1>4. p <= r /\ k + l = r - p
  BY <1>1
<1>5. Stretch(H, u, p, r)
  BY <1>1, <1>2, <1>3, <1>4 DEF Stretch
<1> QED
  BY <1>5 DEF u

(* A block is a stretch.                                                   *)
LEMMA BlockStretch ==
    ASSUME NEW H, StreamOK(H), NEW h \in 1..H.ht, NEW s, IsBlock(H, s, h)
    PROVE  Stretch(H, s, H.end[h - 1], H.end[h])
<1>1. H.ht \in Nat /\ h \in 0..H.ht /\ h - 1 \in 0..H.ht /\ h - 1 <= h /\ Now(H) \in Nat
  BY Bounds DEF StreamOK
<1>2. /\ H.end[h - 1] \in Nat /\ H.end[h - 1] <= Now(H) /\ H.end[h] \in Nat
      /\ H.end[h] <= Now(H) /\ H.end[h - 1] <= H.end[h]
  BY <1>1, Bounds DEF StreamOK
<1>3. H.end[h - 1] \in 0..Now(H) /\ H.end[h] \in 0..Now(H)
  BY <1>1, <1>2
<1> QED
  BY <1>2, <1>3 DEF Stretch, IsBlock

(* The recursion of EventsIn has a solution.                               *)
LEMMA EventsInRun ==
    ASSUME NEW inbox \in Seq(Blocks)
    PROVE  \E f \in [0..Len(inbox) -> Seq(Events)] :
              /\ f[0] = << >> /\ EventsIn(inbox) = f[Len(inbox)]
              /\ \A i \in 1..Len(inbox) : f[i] = f[i - 1] \o inbox[i].events
<1> DEFINE N == Len(inbox)
           X == Seq(Events)
           start == << >>
           Step(i, s) == s \o inbox[i].events
           step == [i \in 1..N |-> [s \in X |-> Step(i, s)]]
           Rec(f) == [i \in 0..N |-> IF i = 0 THEN start ELSE Step(i, f[i - 1])]
           after == CHOOSE f : f = Rec(f)
<1>1. N \in Nat /\ \A i \in 1..N : inbox[i].events \in X
  <2>1. \A i \in 1..N : inbox[i] \in Blocks
    BY ElementOfSeq
  <2> QED
    BY <2>1 DEF Blocks
<1>2. \A i \in 1..N, s \in X : Step(i, s) \in X
  BY <1>1
<1>3. start \in X
  OBVIOUS
<1>4. EventsIn(inbox) = after[N]
  BY DEF EventsIn
<1> HIDE DEF N, X, Step, start
<1>5. step \in [1..N -> [X -> X]]
  BY <1>2
<1>6. PICK g \in [0..N -> X] : g[0] = start /\ \A i \in 1..N : g[i] = step[i][g[i - 1]]
  <2> HIDE DEF step
  <2>1. \E g : Iterates(g, N, X, start, step)
    BY <1>1, <1>3, <1>5, IterationExists
  <2> QED
    BY <2>1 DEF Iterates
<1>7. g = Rec(g)
  <2>1. ASSUME NEW i \in 0..N PROVE g[i] = Rec(g)[i]
    <3>1. CASE i = 0
      BY <3>1, <1>1, <1>6
    <3>2. CASE i # 0
      <4>1. i \in 1..N /\ g[i - 1] \in X
        BY <1>1, <1>6, <3>2
      <4> QED
        BY <4>1, <1>6, <3>2
    <3> QED
      BY <3>1, <3>2
  <2> QED
    BY <2>1
<1>8. after = Rec(after)
  <2> HIDE DEF Rec
  <2> QED
    BY <1>7
<1> HIDE DEF after
<1>9. after[0] = start
  BY <1>1, <1>8
<1>10. \A i \in 1..N : after[i] = Step(i, after[i - 1])
  <2> SUFFICES ASSUME NEW i \in 1..N PROVE after[i] = Step(i, after[i - 1])
    OBVIOUS
  <2>1. i \in 0..N /\ i # 0
    BY <1>1
  <2>2. Rec(after)[i] = Step(i, after[i - 1])
    BY <2>1
  <2> QED
    BY <1>8, <2>2
<1>11. \A i \in 0..N : after[i] \in X
  <2> DEFINE P == {i \in 0..N : after[i] \in X}
  <2>1. \A k \in 1..N : k - 1 \in P => k \in P
    BY <1>1, <1>2, <1>10
  <2>2. 0 \in P
    BY <1>1, <1>3, <1>9
  <2>3. P \in SUBSET (0..N)
    OBVIOUS
  <2> HIDE DEF P
  <2>4. P = 0..N
    BY <1>1, <2>1, <2>2, <2>3, IntervalInduction
  <2> QED
    BY <2>4 DEF P
<1>12. after \in [0..N -> X]
  BY <1>8, <1>11
<1> QED
  BY <1>4, <1>9, <1>10, <1>12 DEF N, X, Step, start

(* The recursion of HeartbeatsIn has a solution.                           *)
LEMMA HeartbeatsInRun ==
    ASSUME NEW w, NEW events \in Seq(Events)
    PROVE  \E f \in [0..Len(events) -> Seq(Nat)] :
              /\ f[0] = << >> /\ HeartbeatsIn(w, events) = f[Len(events)]
              /\ \A i \in 1..Len(events) :
                    /\ IsHeartbeat(events[i], w) => f[i] = Append(f[i - 1], events[i].hb.block)
                    /\ ~IsHeartbeat(events[i], w) => f[i] = f[i - 1]
<1> DEFINE N == Len(events)
           X == Seq(Nat)
           start == << >>
           Step(i, s) == IF events[i].type = "Heartbeat" /\ events[i].worker = w
                         THEN Append(s, events[i].hb.block) ELSE s
           step == [i \in 1..N |-> [s \in X |-> Step(i, s)]]
           Rec(f) == [i \in 0..N |-> IF i = 0 THEN start ELSE Step(i, f[i - 1])]
           after == CHOOSE f : f = Rec(f)
<1>1. N \in Nat /\ \A i \in 1..N : events[i].type = "Heartbeat" => events[i].hb.block \in Nat
  <2>1. \A i \in 1..N : events[i] \in Events
    BY ElementOfSeq
  <2>2. \A i \in 1..N : events[i].type = "Heartbeat" => events[i].hb \in Answer
    BY <2>1, EventFacts DEF EventShape
  <2> QED
    BY <2>2 DEF Answer
<1>2. \A i \in 1..N, s \in X : Step(i, s) \in X
  BY <1>1
<1>3. start \in X
  OBVIOUS
<1>4. HeartbeatsIn(w, events) = after[N]
  BY DEF HeartbeatsIn
<1> HIDE DEF N, X, Step, start
<1>5. step \in [1..N -> [X -> X]]
  BY <1>2
<1>6. PICK g \in [0..N -> X] : g[0] = start /\ \A i \in 1..N : g[i] = step[i][g[i - 1]]
  <2> HIDE DEF step
  <2>1. \E g : Iterates(g, N, X, start, step)
    BY <1>1, <1>3, <1>5, IterationExists
  <2> QED
    BY <2>1 DEF Iterates
<1>7. g = Rec(g)
  <2>1. ASSUME NEW i \in 0..N PROVE g[i] = Rec(g)[i]
    <3>1. CASE i = 0
      BY <3>1, <1>1, <1>6
    <3>2. CASE i # 0
      <4>1. i \in 1..N /\ g[i - 1] \in X
        BY <1>1, <1>6, <3>2
      <4> QED
        BY <4>1, <1>6, <3>2
    <3> QED
      BY <3>1, <3>2
  <2> QED
    BY <2>1
<1>8. after = Rec(after)
  <2> HIDE DEF Rec
  <2> QED
    BY <1>7
<1> HIDE DEF after
<1>9. after[0] = start
  BY <1>1, <1>8
<1>10. \A i \in 1..N : after[i] = Step(i, after[i - 1])
  <2> SUFFICES ASSUME NEW i \in 1..N PROVE after[i] = Step(i, after[i - 1])
    OBVIOUS
  <2>1. i \in 0..N /\ i # 0
    BY <1>1
  <2>2. Rec(after)[i] = Step(i, after[i - 1])
    BY <2>1
  <2> QED
    BY <1>8, <2>2
<1>11. \A i \in 0..N : after[i] \in X
  <2> DEFINE P == {i \in 0..N : after[i] \in X}
  <2>1. \A k \in 1..N : k - 1 \in P => k \in P
    BY <1>1, <1>2, <1>10
  <2>2. 0 \in P
    BY <1>1, <1>3, <1>9
  <2>3. P \in SUBSET (0..N)
    OBVIOUS
  <2> HIDE DEF P
  <2>4. P = 0..N
    BY <1>1, <2>1, <2>2, <2>3, IntervalInduction
  <2> QED
    BY <2>4 DEF P
<1>12. after \in [0..N -> X]
  BY <1>8, <1>11
<1>13. \A i \in 1..N :
          /\ IsHeartbeat(events[i], w) => after[i] = Append(after[i - 1], events[i].hb.block)
          /\ ~IsHeartbeat(events[i], w) => after[i] = after[i - 1]
  BY <1>10 DEF Step, IsHeartbeat
<1> QED
  BY <1>4, <1>9, <1>12, <1>13 DEF N, X, start

(* What lies in an inbox is the stream from the last block handled.        *)
LEMMA InboxStretch ==
    ASSUME NEW H, StreamOK(H), NEW inbox, InboxOK(H, inbox)
    PROVE  Stretch(H, EventsIn(inbox), H.end[Done(H, inbox)], H.end[H.ht - 1])
<1> DEFINE N == Len(inbox)
           d == Done(H, inbox)
           p == H.end[d]
<1>1. inbox \in Seq(Blocks) /\ N \in Nat /\ N < H.ht /\ H.ht \in Nat /\ Now(H) \in Nat
  BY Bounds DEF InboxOK, StreamOK
<1>2. d \in Nat /\ d + N = H.ht - 1 /\ d \in 0..H.ht /\ p \in 0..Now(H)
  BY <1>1, DoneBounds DEF Done
<1>3. \A i \in 1..N : IsBlock(H, inbox[i].events, d + i)
  BY DEF InboxOK
<1>4. PICK f \in [0..N -> Seq(Events)] :
         /\ f[0] = << >> /\ EventsIn(inbox) = f[N]
         /\ \A i \in 1..N : f[i] = f[i - 1] \o inbox[i].events
  BY <1>1, EventsInRun
<1> DEFINE Ok(i) == Stretch(H, f[i], p, H.end[d + i])
           P == {i \in 0..N : Ok(i)}
<1>5. Ok(0)
  <2>1. d + 0 = d /\ p <= p /\ 0 = p - p /\ 1..0 = {}
    BY <1>1, <1>2
  <2>2. f[0] \in Seq(Events) /\ Len(f[0]) = 0
    BY <1>4
  <2> HIDE DEF p
  <2> QED
    BY <2>1, <2>2, <1>2 DEF Stretch, p
<1> HIDE DEF N, d
<1>6. ASSUME NEW k \in 1..N, Ok(k - 1) PROVE Ok(k)
  <2>1. d + k \in 1..H.ht /\ (d + k) - 1 = d + (k - 1)
    BY <1>1, <1>2
  <2>2. Stretch(H, inbox[k].events, H.end[(d + k) - 1], H.end[d + k])
    BY <2>1, <1>3, BlockStretch
  <2>3. Stretch(H, f[k - 1], p, H.end[(d + k) - 1])
    BY <2>1, <1>6
  <2>4. Stretch(H, f[k - 1] \o inbox[k].events, p, H.end[d + k])
    <3> HIDE DEF p, Ok
    <3> QED
      BY <2>2, <2>3, <1>1, StretchesJoin
  <2>5. f[k] = f[k - 1] \o inbox[k].events
    BY <1>4
  <2> QED
    BY <2>4, <2>5
<1> HIDE DEF Ok
<1>7. 0 \in P /\ P \in SUBSET (0..N) /\ \A k \in 1..N : k - 1 \in P => k \in P
  <2>1. 0 \in 0..N /\ \A k \in 1..N : k \in 0..N
    BY <1>1
  <2> QED
    BY <2>1, <1>5, <1>6
<1> HIDE DEF P
<1>8. P = 0..N
  BY <1>1, <1>7, IntervalInduction
<1>9. Ok(N)
  <2>1. N \in P
    BY <1>1, <1>8
  <2> QED
    BY <2>1 DEF P
<1> QED
  BY <1>2, <1>4, <1>9 DEF Ok, N, d

(* The heartbeats in a stretch are the answers accepted in it.             *)
LEMMA StretchHeartbeats ==
    ASSUME NEW H, StreamOK(H), NEW w \in Workers, NEW s, NEW p, NEW q, Stretch(H, s, p, q)
    PROVE  /\ HeartbeatsIn(w, s) \in Seq(Nat)
           /\ Len(HeartbeatsIn(w, s)) = H.acc[w][q] - H.acc[w][p]
           /\ \A i \in 1..Len(HeartbeatsIn(w, s)) :
                 HeartbeatsIn(w, s)[i] = H.S[w][H.acc[w][p] + i].block
<1> DEFINE N == Len(s)
           A(i) == H.acc[w][p + i]
           a == H.acc[w][p]
<1>1. /\ Now(H) \in Nat /\ p \in 0..Now(H) /\ q \in 0..Now(H) /\ N \in Nat /\ q = p + N
      /\ s \in Seq(Events)
  <2>1. Now(H) \in Nat
    BY Bounds DEF StreamOK
  <2>2. p \in 0..Now(H) /\ q \in 0..Now(H) /\ N = q - p /\ N \in Nat /\ s \in Seq(Events)
    BY DEF Stretch
  <2>3. q = p + N
    BY ONLY <2>1, <2>2
  <2> QED
    BY <2>1, <2>2, <2>3
<1>2. \A i \in 1..N : s[i] = H.E[p + i]
  BY DEF Stretch
<1>3. PICK f \in [0..N -> Seq(Nat)] :
         /\ f[0] = << >> /\ HeartbeatsIn(w, s) = f[N]
         /\ \A i \in 1..N : /\ IsHeartbeat(s[i], w) => f[i] = Append(f[i - 1], s[i].hb.block)
                            /\ ~IsHeartbeat(s[i], w) => f[i] = f[i - 1]
  BY <1>1, HeartbeatsInRun
<1> HIDE DEF N
<1>4. \A i \in 0..N : p + i \in 0..Now(H) /\ A(i) \in Nat
  <2>1. \A i \in 0..N : p + i \in 0..Now(H)
    BY <1>1
  <2> QED
    BY <2>1, CountFacts
<1>5. a \in Nat /\ A(0) = a /\ 0 \in 0..N
  <2>1. p + 0 = p
    BY <1>1
  <2> QED
    BY <2>1, <1>1, CountFacts
<1>6. ASSUME NEW k \in 1..N
      PROVE  /\ k - 1 \in 0..N /\ k \in 0..N
             /\ IsHeartbeat(s[k], w) => A(k) = A(k - 1) + 1 /\ s[k].hb = H.S[w][A(k)]
             /\ ~IsHeartbeat(s[k], w) => A(k) = A(k - 1)
  <2>1. p + k \in 1..Now(H) /\ (p + k) - 1 = p + (k - 1) /\ k - 1 \in 0..N /\ k \in 0..N
    BY <1>1
  <2>2. s[k] = H.E[p + k]
    BY <1>2
  <2>3. AnswersOK(H, w)
    BY DEF StreamOK
  <2>4. /\ IsHeartbeat(H.E[p + k], w) => /\ H.acc[w][p + k] = H.acc[w][(p + k) - 1] + 1
                                         /\ H.E[p + k].hb = H.S[w][H.acc[w][p + k]]
        /\ ~IsHeartbeat(H.E[p + k], w) => H.acc[w][p + k] = H.acc[w][(p + k) - 1]
    BY <2>1, <2>3 DEF AnswersOK
  <2> QED
    BY <2>1, <2>2, <2>4
<1> DEFINE Ok(i) == /\ Len(f[i]) = A(i) - a
                    /\ \A j \in 1..Len(f[i]) : f[i][j] = H.S[w][a + j].block
           P == {i \in 0..N : Ok(i)}
<1> HIDE DEF a, A
<1>7. Ok(0)
  <2>1. Len(f[0]) = 0 /\ 1..0 = {} /\ A(0) - a = 0
    BY <1>3, <1>5
  <2> QED
    BY <2>1
<1>8. ASSUME NEW k \in 1..N, Ok(k - 1) PROVE Ok(k)
  <2>1. CASE ~IsHeartbeat(s[k], w)
    <3>1. f[k] = f[k - 1] /\ A(k) = A(k - 1)
      BY <2>1, <1>3, <1>6
    <3> QED
      BY <3>1, <1>8
  <2>2. CASE IsHeartbeat(s[k], w)
    <3> DEFINE g == f[k - 1]
               l == Len(g)
               x == s[k].hb.block
    <3>1. f[k] = Append(g, x) /\ A(k) = A(k - 1) + 1 /\ x = H.S[w][A(k)].block
      BY <2>2, <1>3, <1>6
    <3>2. g \in Seq(Nat)
      BY <1>3, <1>6
    <3> HIDE DEF g, x
    <3>3. /\ l \in Nat /\ Len(f[k]) = l + 1 /\ f[k][l + 1] = x
          /\ \A j \in 1..l : f[k][j] = g[j]
      BY ONLY <3>1, <3>2
    <3>4. l = A(k - 1) - a /\ \A j \in 1..l : g[j] = H.S[w][a + j].block
      BY <1>8 DEF g
    <3> HIDE DEF l, Ok
    <3>5. A(k - 1) \in Nat /\ a \in Nat
      BY <1>4, <1>5, <1>6
    <3>6. l + 1 = A(k) - a /\ a + (l + 1) = A(k)
      BY <3>1, <3>3, <3>4, <3>5
    <3>7. \A j \in 1..(l + 1) : j \in 1..l \/ j = l + 1
      BY <3>3
    <3>8. \A j \in 1..(l + 1) : f[k][j] = H.S[w][a + j].block
      BY <3>1, <3>3, <3>4, <3>6, <3>7
    <3> QED
      BY <3>3, <3>6, <3>8 DEF Ok
  <2> QED
    BY <2>1, <2>2
<1> HIDE DEF Ok
<1>9. 0 \in P /\ P \in SUBSET (0..N) /\ \A k \in 1..N : k - 1 \in P => k \in P
  BY <1>5, <1>6, <1>7, <1>8
<1> HIDE DEF P
<1>10. P = 0..N
  BY <1>1, <1>9, IntervalInduction
<1>11. Ok(N) /\ N \in 0..N
  <2>1. N \in 0..N
    BY <1>1
  <2> QED
    BY <2>1, <1>10 DEF P
<1>12. f[N] \in Seq(Nat) /\ A(N) = H.acc[w][q]
  BY <1>1, <1>3, <1>11 DEF A
<1> QED
  BY <1>3, <1>11, <1>12 DEF Ok, a

(* Two sequences, one after the other, are a third.                        *)
LEMMA SameSequence ==
    ASSUME NEW S, NEW x \in Seq(S), NEW y \in Seq(S), NEW z \in Seq(S),
           Len(z) = Len(x) + Len(y),
           \A i \in 1..Len(x) : z[i] = x[i],
           \A i \in 1..Len(y) : z[Len(x) + i] = y[i]
    PROVE  z = x \o y
<1> DEFINE u == x \o y
           k == Len(x)
           l == Len(y)
<1>1. /\ u \in Seq(S) /\ Len(u) = k + l /\ k \in Nat /\ l \in Nat
      /\ \A i \in 1..(k + l) : u[i] = IF i <= k THEN x[i] ELSE y[i - k]
  BY ONLY x \in Seq(S), y \in Seq(S), ConcatProperties
<1>2. ASSUME NEW i \in 1..(k + l) PROVE z[i] = u[i]
  <2>1. CASE i <= k
    <3>1. i \in 1..k
      BY <2>1, <1>1
    <3> QED
      BY <2>1, <3>1, <1>1
  <2>2. CASE ~(i <= k)
    <3>1. i - k \in 1..l /\ k + (i - k) = i
      BY <2>2, <1>1
    <3> QED
      BY <2>2, <3>1, <1>1
  <2> QED
    BY <2>1, <2>2
<1> HIDE DEF u
<1>3. z = u
  BY <1>1, <1>2, SeqEqual
<1> QED
  BY <1>3 DEF u

(* Where gatekeeper and worker have handled the same blocks, the one       *)
(* expects what the other has under way.                                   *)
LEMMA ExpectedIsUnderWay ==
    ASSUME NEW H, HistoryOK(H), H.ht = height, NEW w \in Workers,
           worker[w].sm.session # 0, worker[w].inbox = gk.inbox
    PROVE  /\ gk.info[w].known /\ gk.info[w].sm = worker[w].sm
           /\ gk.info[w].waiting =
                HeartbeatsIn(w, EventsIn(gk.inbox) \o current)
                   \o [i \in 1..Len(worker[w].out) |-> worker[w].out[i].block]
<1> DEFINE st == worker[w]
           inbox == gk.inbox
           info == gk.info[w]
           n == Now(H)
           p == H.end[Done(H, inbox)]
           s == EventsIn(inbox) \o current
           x == HeartbeatsIn(w, s)
           y == [i \in 1..Len(st.out) |-> st.out[i].block]
           a == H.acc[w][p]
           b == H.acc[w][n]
           c == H.cnt[w][p]
<1>1. /\ StreamOK(H) /\ WorkerOK(H, w, st) /\ GatekeeperOK(H, gk) /\ InboxOK(H, inbox)
      /\ InfoOK(H, w, info, p) /\ info \in Infos
  BY DEF HistoryOK, ObserversOK, GatekeeperOK, Gatekeepers
<1>2. /\ p \in 0..n /\ n \in Nat /\ n \in 0..n /\ H.ht \in 1..H.ht /\ H.end[H.ht] = n
  <2>1. p \in 0..n /\ n \in Nat /\ H.ht \in Nat \ {0}
    BY <1>1, DoneBounds, Bounds DEF StreamOK
  <2> QED
    BY <2>1, <1>1 DEF StreamOK, ShapeOK
<1>3. st.sm = H.F[w][p] /\ OutOK(H, w, st.out, p) /\ st.out \in Seq(Answer)
  BY <1>1 DEF WorkerOK, WorkerStates
<1>4. KnownAt(H, w, p)
  BY <1>1, <1>2, <1>3 DEF StreamOK, LaunchOK
<1>5. info.known /\ info.sm = st.sm
  <2>1. InfoOK(H, w, info, p) /\ st.sm = H.F[w][p] /\ KnownAt(H, w, p)
    BY <1>1, <1>3, <1>4
  <2> HIDE DEF info, st, p
  <2> QED
    BY ONLY <2>1 DEF InfoOK
<1>6. Stretch(H, s, p, n)
  <2>1. Stretch(H, EventsIn(inbox), p, H.end[H.ht - 1])
    BY <1>1, InboxStretch
  <2>2. IsBlock(H, current, H.ht)
    BY DEF HistoryOK
  <2>3. Stretch(H, current, H.end[H.ht - 1], n)
    BY <2>2, <1>1, <1>2, BlockStretch
  <2> HIDE DEF p, n
  <2> QED
    BY <2>1, <2>3, <1>2, StretchesJoin DEF n
<1> HIDE DEF s
<1>7. /\ x \in Seq(Nat) /\ Len(x) = b - a
      /\ \A i \in 1..Len(x) : x[i] = H.S[w][a + i].block
  <2>1. StreamOK(H) /\ Stretch(H, s, p, n) /\ w \in Workers
    BY <1>1, <1>6
  <2> HIDE DEF p, n
  <2>2. /\ HeartbeatsIn(w, s) \in Seq(Nat)
        /\ Len(HeartbeatsIn(w, s)) = H.acc[w][n] - H.acc[w][p]
        /\ \A i \in 1..Len(HeartbeatsIn(w, s)) :
              HeartbeatsIn(w, s)[i] = H.S[w][H.acc[w][p] + i].block
    BY ONLY <2>1, StretchHeartbeats
  <2> QED
    BY ONLY <2>2 DEF x, a, b
<1>8. /\ info.waiting \in Seq(Nat) /\ Len(info.waiting) = c - a
      /\ \A i \in 1..Len(info.waiting) : info.waiting[i] = H.S[w][a + i].block
  <2>1. InfoOK(H, w, info, p) /\ info \in Infos
    BY SMTT(30), <1>1
  <2> HIDE DEF info, p
  <2> QED
    BY ONLY <2>1 DEF InfoOK, Infos, a, c
<1>9. /\ Len(st.out) = c - b /\ \A i \in 1..Len(st.out) : st.out[i] = H.S[w][b + i]
  BY <1>3 DEF OutOK
<1>10. a \in Nat /\ b \in Nat /\ c \in Nat
  BY <1>1, <1>2, CountFacts
<1> HIDE DEF x, a, b, c, p, n
<1>11. /\ y \in Seq(Nat) /\ Len(y) = Len(st.out)
       /\ \A i \in 1..Len(st.out) : y[i] = st.out[i].block
  <2>1. \A i \in 1..Len(st.out) : st.out[i] \in Answer
    BY <1>3, ElementOfSeq
  <2>2. \A i \in 1..Len(st.out) : st.out[i].block \in Nat
    BY <2>1 DEF Answer
  <2>3. Len(st.out) \in Nat
    BY <1>3
  <2> HIDE DEF st
  <2> QED
    BY <2>2, <2>3
<1> HIDE DEF y
<1> DEFINE z == info.waiting
           k == Len(x)
           l == Len(y)
<1>12. /\ Len(z) = c - a /\ k = b - a /\ l = c - b /\ k \in Nat /\ l \in Nat
  BY <1>7, <1>8, <1>9, <1>11
<1>13. \A i \in 1..l : y[i] = H.S[w][b + i].block
  BY <1>9, <1>11
<1>14. \A i \in 1..k : x[i] = H.S[w][a + i].block
  BY <1>7
<1>15. \A i \in 1..Len(z) : z[i] = H.S[w][a + i].block
  BY <1>8
<1>16. z \in Seq(Nat) /\ x \in Seq(Nat) /\ y \in Seq(Nat)
  BY <1>7, <1>8, <1>11
<1> HIDE DEF z, k, l
<1>17. Len(z) = k + l
  BY ONLY <1>10, <1>12
<1>18. ASSUME NEW i \in 1..k PROVE z[i] = x[i]
  <2>1. i \in 1..Len(z)
    BY <1>12, <1>17
  <2> QED
    BY <2>1, <1>14, <1>15
<1>19. ASSUME NEW i \in 1..l PROVE z[k + i] = y[i]
  <2>1. k + i \in 1..Len(z) /\ a + (k + i) = b + i
    BY <1>10, <1>12, <1>17
  <2> QED
    BY <2>1, <1>13, <1>15
<1>20. z = x \o y
  BY <1>16, <1>17, <1>18, <1>19, SameSequence DEF k, l
<1> QED
  BY <1>5, <1>20 DEF z, x, y, s

(* Pallet, worker and gatekeeper agree wherever they have handled the same *)
(* events: neither late blocks nor late heartbeats nor reports applied in  *)
(* between, restarts or rebinding leave one of the copies behind.          *)
THEOREM CopiesStayEqual == Spec => []CopiesAgree
<1>1. IInv => CopiesAgree
  <2> SUFFICES ASSUME PalletType, NEW H, HistoryOK(H) PROVE CopiesAgree
    BY DEF IInv
  <2>1. StreamOK(H) /\ H.ht = height /\ ObserversOK(H)
    BY DEF HistoryOK
  <2>2. GatekeeperMirrorsWorker
    BY <2>1, ExpectedIsUnderWay DEF GatekeeperMirrorsWorker
  <2>3. ASSUME NEW w \in Workers, worker[w].inbox = << >>, current = << >>
        PROVE  /\ worker[w].sm.session = IF Computes(w) THEN sessions[Account(w)].id ELSE 0
               /\ worker[w].sm.paused
                     <=> Computes(w) /\ sessions[Account(w)].state = "WorkerUnresponsive"
    <3>1. Done(H, worker[w].inbox) = H.ht - 1 /\ H.ht \in Nat \ {0} /\ Now(H) \in Nat
      BY <2>1, <2>3, Bounds DEF Done, StreamOK
    <3>2. IsBlock(H, current, H.ht) /\ Len(current) = 0
      BY <2>1, <2>3 DEF HistoryOK
    <3>3. H.end[H.ht - 1] = H.end[H.ht] /\ H.end[H.ht] = Now(H)
      <4>1. H.end[H.ht - 1] \in Nat /\ H.end[H.ht] \in Nat
        BY <3>1, <2>1, Bounds DEF StreamOK
      <4>2. 0 = H.end[H.ht] - H.end[H.ht - 1]
        BY <3>2 DEF IsBlock
      <4>3. H.end[H.ht] = Now(H)
        BY <2>1 DEF StreamOK, ShapeOK
      <4> QED
        BY <4>1, <4>2, <4>3
    <3>4. worker[w].sm = H.F[w][Now(H)]
      BY <2>1, <3>1, <3>3 DEF ObserversOK, WorkerOK
    <3>5. SessionOK(H, w)
      BY DEF HistoryOK, TrackOK
    <3> QED
      BY <3>4, <3>5 DEF SessionOK
  <2>4. WorkerFollowsPallet
    BY <2>3 DEF WorkerFollowsPallet, Computes
  <2> QED
    BY <2>2, <2>4 DEF CopiesAgree
<1> QED
  BY <1>1, Inductive, PTL
=============================================================================
