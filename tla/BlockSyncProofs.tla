--------------------------- MODULE BlockSyncProofs ---------------------------
(***************************************************************************)
(* Proofs about how pRuntime follows the chain, for chains, batches and    *)
(* forks of any length, any number of stray calls, restarts and effects.   *)
(***************************************************************************)
EXTENDS BlockSync, WellFoundedInduction, SequenceTheorems, FiniteSetTheorems, TLAPS

-----------------------------------------------------------------------------
(* Induction and recursion on natural numbers.  The statements speak of    *)
(* sets and functions where those of the library speak of operators, so    *)
(* that the provers can instantiate them.                                  *)

(* A set of natural numbers has a least element.                          *)
LEMMA LeastNatural ==
    ASSUME NEW T \in SUBSET Nat, T # {}
    PROVE  \E x \in T : \A y \in T : x <= y
<1>1. PICK x \in T : \A y \in T : ~(<<y, x>> \in OpToRel(<, Nat))
  BY NatLessThanWellFounded, WFMin
<1>2. \A y \in T : ~(y < x)
  BY <1>1 DEF OpToRel
<1> QED
  BY <1>2

(* Induction up to N, stated with a set in place of a predicate.           *)
LEMMA IntervalInduction ==
    ASSUME NEW N \in Nat, NEW P \in SUBSET (0..N), 0 \in P,
           \A k \in 1..N : k - 1 \in P => k \in P
    PROVE  P = 0..N
<1> DEFINE T == (0..N) \ P
<1>1. ASSUME NEW k \in T, \A y \in T : k <= y PROVE FALSE
  <2>1. k \in 1..N /\ k - 1 \in 0..N /\ k - 1 \notin T
    BY <1>1
  <2> QED
    BY <2>1
<1>2. T \in SUBSET Nat
  OBVIOUS
<1> HIDE DEF T
<1>3. T = {}
  BY <1>1, <1>2, LeastNatural
<1> QED
  BY <1>3 DEF T

(* f is the sequence of values that N steps lead to from init.             *)
Iterates(f, N, X, init, step) ==
    f \in [0..N -> X] /\ f[0] = init /\ \A i \in 1..N : f[i] = step[i][f[i - 1]]

(* N steps lead somewhere: a function on 0..N can be defined by recursion.  *)
LEMMA IterationExists ==
    ASSUME NEW N \in Nat, NEW X, NEW init \in X, NEW step \in [1..N -> [X -> X]]
    PROVE  \E f : Iterates(f, N, X, init, step)
<1> DEFINE Ok(k) == \E f \in [0..k -> X] :
                       f[0] = init /\ \A i \in 1..k : f[i] = step[i][f[i - 1]]
           T == {k \in 0..N : ~Ok(k)}
<1>1. Ok(0)
  <2> DEFINE g == [i \in 0..0 |-> init]
  <2>1. g \in [0..0 -> X] /\ g[0] = init /\ 1..0 = {}
    OBVIOUS
  <2> HIDE DEF g
  <2> QED
    BY <2>1
<1>2. ASSUME NEW k \in 1..N, Ok(k - 1)
      PROVE  Ok(k)
  <2>1. PICK f \in [0..(k - 1) -> X] :
            f[0] = init /\ \A i \in 1..(k - 1) : f[i] = step[i][f[i - 1]]
    BY <1>2
  <2> DEFINE g == [i \in 0..k |-> IF i = k THEN step[k][f[k - 1]] ELSE f[i]]
  <2>2. g \in [0..k -> X]
    BY <2>1
  <2>3. g[0] = init
    BY <2>1
  <2>4. ASSUME NEW i \in 1..k PROVE g[i] = step[i][g[i - 1]]
    BY <2>1
  <2> HIDE DEF g
  <2> QED
    BY <2>2, <2>3, <2>4
<1> HIDE DEF Ok
<1>3. T = {}
  <2> SUFFICES ASSUME T # {} PROVE FALSE
    OBVIOUS
  <2>1. PICK k \in T : \A y \in T : k <= y
    <3>1. T \in SUBSET Nat
      OBVIOUS
    <3> HIDE DEF T
    <3> QED
      BY <3>1, LeastNatural
  <2>2. k \in 1..N
    BY <1>1
  <2>3. Ok(k - 1)
    BY <2>1, <2>2
  <2> QED
    BY <1>2, <2>2, <2>3
<1>4. Ok(N)
  BY <1>3
<1> QED
  BY <1>4 DEF Ok, Iterates

(* The number of the next header of the chain whose blocks are dispatched. *)
NextOf(p) == IF p.kind = "para" THEN p.para_next ELSE p.header_next

(* The last block that the verified headers make final.                    *)
FinalTip(p) == IF p.kind = "para" THEN Heads[p.bridge.last.n] ELSE p.bridge.last.n

IsFinal(h, max) == h \in HeaderTypes /\ h.b = "final" /\ h.n <= max

(* A Phactory that was not initialised.                                    *)
Untouched(p) ==
    /\ p.header_next = 0 /\ p.block_next = 0 /\ p.para_next = 0
    /\ p.relay_root = NoHeader /\ p.roots = << >> /\ p.validated = FALSE
    /\ p.genesis = 0 /\ p.handled = << >>

(* The light client is at the last verified header.                        *)
ClientOK(p) ==
    /\ p.bridge.last = Final(IF p.header_next = 0 THEN 0 ELSE p.header_next - 1)
    /\ p.bridge.last.n <= MaxRelay
    /\ p.bridge.set = SetIdAt(p.bridge.last.n + 1)
    /\ p.kind = "para" => p.header_next > 0
    /\ p.relay_root # NoHeader => p.kind = "para" /\ p.relay_root = p.bridge.last

(* Only final roots are queued or reached.                                 *)
RootsFinal(p) ==
    /\ \A i \in 1..Len(p.roots) : IsFinal(p.roots[i], FinalTip(p))
    /\ p.validated => IsFinal(p.storage, FinalTip(p))

(* A state can be loaded only before anything was synced.                  *)
LoadOK(p) ==
    p.can_load => /\ p.roots = << >> /\ p.relay_root = NoHeader
                  /\ p.validated = FALSE /\ p.para_next = 0 /\ p.handled = << >>

(* The queued roots are those of the blocks to come.                       *)
Aligned(p) ==
    /\ p.roots = Segment(IF p.validated THEN p.block_next ELSE p.block_next - 1,
                         NextOf(p) - 1)
    /\ p.validated => /\ p.storage = Final(p.block_next - 1)
                      /\ p.block_next <= NextOf(p)
    /\ p.kind = "para" => p.block_next - 1 <= p.para_next

(* The system has handled every block up to the last one.                  *)
InOrder(p) ==
    /\ p.genesis + Len(p.handled) = p.block_next - 1
    /\ \A i \in 1..Len(p.handled) :
          p.handled[i] = [n |-> p.genesis + i, state |-> Final(p.genesis + i)]

Started(p) ==
    /\ p.block_next > 0
    /\ ClientOK(p)
    /\ RootsFinal(p)
    /\ LoadOK(p)
    /\ p.safe < 2 => Aligned(p)
    /\ p.safe = 0 => InOrder(p)

Good(p) ==
    /\ p \in Phactories
    /\ p.kind = "none" => Untouched(p)
    /\ p.kind # "none" => Started(p)

(* q is not behind p in any counter.                                       *)
NotBehind(q, p) ==
    /\ q.header_next >= p.header_next
    /\ q.para_next >= p.para_next
    /\ q.block_next >= p.block_next
    /\ Len(q.handled) >= Len(p.handled)

(* What a dispatch works on is the Phactory as it was at the start: until  *)
(* the end nothing but waiting effects is added to the original.           *)
TaskOK ==
    /\ Good(task.p)
    /\ task.p.rcu = FALSE /\ task.p.pending = {}
    /\ task.on => /\ task.p.kind # "none"
                  /\ NotBehind(task.p, ph)
                  /\ task.p.applied = ph.applied
    /\ ~task.on => task.p.kind = "none" /\ task.rcu = FALSE

CheckpointOK ==
    /\ Good(ckpt)
    /\ ckpt.safe = 0 /\ ckpt.rcu = FALSE /\ ckpt.pending = {}

(* The inductive invariant.                                                *)
IInv ==
    /\ TypeOK
    /\ Good(ph)
    /\ IsFiniteSet(ph.pending)
    /\ ph.rcu = FALSE => ph.pending = {}
    /\ TaskOK
    /\ CheckpointOK
    /\ EffectsKept

-----------------------------------------------------------------------------
(* Lemmas on sequences of headers.                                         *)

(* What Retain computes, step by step.                                     *)
Retains(f, s, n, S) ==
    /\ f \in [0..Len(s) -> Seq(S)]
    /\ f[0] = << >>
    /\ \A i \in 1..Len(s) :
          f[i] = IF s[i].n >= n THEN Append(f[i - 1], s[i]) ELSE f[i - 1]
    /\ Retain(s, n) = f[Len(s)]

(* The recursion of Retain has a solution.                                 *)
LEMMA RetainDef ==
    ASSUME NEW S, NEW s \in Seq(S), NEW n
    PROVE  \E f : Retains(f, s, n, S)
<1> DEFINE N == Len(s)
           X == Seq(S)
           Step(i, t) == IF s[i].n >= n THEN Append(t, s[i]) ELSE t
           step == [i \in 1..N |-> [t \in X |-> Step(i, t)]]
           Rec(f) == [i \in 0..N |-> IF i = 0 THEN << >> ELSE Step(i, f[i - 1])]
           kept == CHOOSE f : f = Rec(f)
<1>1. N \in Nat /\ << >> \in X
      /\ \A i \in 1..N, t \in X : Step(i, t) \in X
  OBVIOUS
<1>2. Retain(s, n) = kept[N]
  BY DEF Retain
<1> HIDE DEF N, X, Step
<1>3. step \in [1..N -> [X -> X]]
  BY <1>1
<1>4. PICK g \in [0..N -> X] : g[0] = << >> /\ \A i \in 1..N : g[i] = step[i][g[i - 1]]
  <2> HIDE DEF step
  <2>1. \E g : Iterates(g, N, X, << >>, step)
    BY <1>1, <1>3, IterationExists
  <2> QED
    BY <2>1 DEF Iterates
<1>5. g = Rec(g)
  <2>1. ASSUME NEW i \in 0..N PROVE g[i] = Rec(g)[i]
    <3>1. CASE i = 0
      BY <3>1, <1>1, <1>4
    <3>2. CASE i # 0
      <4>1. i \in 1..N /\ g[i - 1] \in X
        BY <1>1, <1>4, <3>2
      <4> QED
        BY <4>1, <1>4, <3>2
    <3> QED
      BY <3>1, <3>2
  <2> QED
    BY <2>1
<1>6. kept = Rec(kept)
  <2> HIDE DEF Rec
  <2> QED
    BY <1>5
<1> HIDE DEF kept
<1>7. kept[0] = << >>
  BY <1>1, <1>6
<1>8. \A i \in 1..N : kept[i] = Step(i, kept[i - 1])
  BY <1>1, <1>6
<1>9. \A i \in 0..N : kept[i] \in X
  <2> DEFINE T == {i \in 0..N : kept[i] \notin X}
  <2>1. ASSUME NEW k \in T, \A y \in T : k <= y PROVE FALSE
    <3>1. k \in 1..N /\ k - 1 \in 0..N
      BY <1>1, <1>7
    <3>2. kept[k - 1] \in X
      BY <2>1, <3>1, <1>1
    <3> QED
      BY <3>1, <3>2, <1>1, <1>8
  <2>2. T \in SUBSET Nat
    BY <1>1
  <2> HIDE DEF T
  <2>3. T = {}
    BY <2>1, <2>2, LeastNatural
  <2> QED
    BY <2>3 DEF T
<1>10. kept \in [0..N -> X]
  BY <1>6, <1>9
<1> QED
  BY <1>2, <1>7, <1>8, <1>10 DEF N, X, Step, Retains

(* Retain selects from a sequence.                                         *)
LEMMA RetainType ==
    ASSUME NEW S, NEW s \in Seq(S), NEW n
    PROVE  Retain(s, n) \in Seq(S)
  BY RetainDef DEF Retains

(* A final header is a header.                                             *)
LEMMA FinalType ==
    ASSUME NEW n \in Nat
    PROVE  Final(n) \in HeaderTypes /\ Final(n).n = n /\ Final(n).b = "final"
  BY DEF Final, HeaderTypes

(* The final headers from lo to hi.                                        *)
LEMMA SegmentProperties ==
    ASSUME NEW lo \in Nat, NEW hi \in Int
    PROVE  /\ Segment(lo, hi) \in Seq(HeaderTypes)
           /\ hi < lo => Segment(lo, hi) = << >>
           /\ hi >= lo => Len(Segment(lo, hi)) = hi - lo + 1
           /\ \A i \in 1..Len(Segment(lo, hi)) :
                 /\ Segment(lo, hi)[i] = Final(lo + i - 1)
                 /\ lo + i - 1 \in lo..hi
<1>1. CASE hi < lo
  BY <1>1 DEF Segment
<1>2. CASE hi >= lo
  <2>1. Segment(lo, hi) = [i \in 1..(hi - lo + 1) |-> Final(lo + i - 1)]
    BY <1>2 DEF Segment
  <2>2. \A i \in 1..(hi - lo + 1) : Final(lo + i - 1) \in HeaderTypes
    BY FinalType
  <2>3. hi - lo + 1 \in Nat
    BY <1>2
  <2>4. Segment(lo, hi) \in Seq(HeaderTypes) /\ Len(Segment(lo, hi)) = hi - lo + 1
    BY <2>1, <2>2, <2>3
  <2> QED
    BY <1>2, <2>1, <2>3, <2>4
<1> QED
  BY <1>1, <1>2

(* A segment whose bounds do not cross.                                    *)
LEMMA SegmentOf ==
    ASSUME NEW lo \in Nat, NEW hi \in Int, hi >= lo - 1
    PROVE  /\ Segment(lo, hi) \in Seq(HeaderTypes)
           /\ Len(Segment(lo, hi)) = hi - lo + 1
           /\ \A i \in 1..(hi - lo + 1) : Segment(lo, hi)[i] = Final(lo + i - 1)
<1>1. CASE hi = lo - 1
  <2>1. Segment(lo, hi) = << >>
    BY <1>1 DEF Segment
  <2>2. hi - lo + 1 = 0 /\ 1..0 = {}
    BY <1>1
  <2> QED
    BY <2>1, <2>2
<1>2. CASE hi >= lo
  BY <1>2, SegmentProperties
<1> QED
  BY <1>1, <1>2

(* A segment grows by its next header.                                     *)
LEMMA SegmentAppend ==
    ASSUME NEW lo \in Nat, NEW hi \in Int, hi >= lo - 1
    PROVE  Append(Segment(lo, hi), Final(hi + 1)) = Segment(lo, hi + 1)
<1> DEFINE s == Segment(lo, hi)
           t == Segment(lo, hi + 1)
<1>1. /\ s \in Seq(HeaderTypes) /\ Len(s) = hi - lo + 1
      /\ \A i \in 1..(hi - lo + 1) : s[i] = Final(lo + i - 1)
  BY SegmentOf
<1>2. /\ t \in Seq(HeaderTypes) /\ Len(t) = (hi + 1) - lo + 1
      /\ \A i \in 1..((hi + 1) - lo + 1) : t[i] = Final(lo + i - 1)
  <2>1. hi + 1 \in Int /\ hi + 1 >= lo - 1
    OBVIOUS
  <2> QED
    BY <2>1, SegmentOf
<1>3. Final(hi + 1) \in HeaderTypes
  BY FinalType
<1> HIDE DEF s, t
<1>4. Append(s, Final(hi + 1)) \in Seq(HeaderTypes) /\ Len(Append(s, Final(hi + 1))) = Len(t)
  BY <1>1, <1>2, <1>3
<1>5. ASSUME NEW i \in 1..Len(t)
      PROVE  Append(s, Final(hi + 1))[i] = t[i]
  BY <1>1, <1>2, <1>3
<1> QED
  BY <1>2, <1>4, <1>5, SeqEqual DEF s, t

(* Two segments that meet are one.                                         *)
LEMMA SegmentConcat ==
    ASSUME NEW lo \in Nat, NEW mid \in Nat, NEW hi \in Int, lo <= mid, mid - 1 <= hi
    PROVE  Segment(lo, mid - 1) \o Segment(mid, hi) = Segment(lo, hi)
<1> DEFINE s == Segment(lo, mid - 1)
           t == Segment(mid, hi)
           u == Segment(lo, hi)
<1>1. /\ s \in Seq(HeaderTypes) /\ Len(s) = mid - lo
      /\ \A i \in 1..(mid - lo) : s[i] = Final(lo + i - 1)
  <2>1. mid - 1 \in Int /\ mid - 1 >= lo - 1 /\ (mid - 1) - lo + 1 = mid - lo
    OBVIOUS
  <2> QED
    BY <2>1, SegmentOf
<1>2. /\ t \in Seq(HeaderTypes) /\ Len(t) = hi - mid + 1
      /\ \A i \in 1..(hi - mid + 1) : t[i] = Final(mid + i - 1)
  BY SegmentOf
<1>3. /\ u \in Seq(HeaderTypes) /\ Len(u) = hi - lo + 1
      /\ \A i \in 1..(hi - lo + 1) : u[i] = Final(lo + i - 1)
  <2>1. hi >= lo - 1
    OBVIOUS
  <2> QED
    BY <2>1, SegmentOf
<1> HIDE DEF s, t, u
<1>4. s \o t \in Seq(HeaderTypes) /\ Len(s \o t) = Len(u)
  <2>1. s \o t \in Seq(HeaderTypes) /\ Len(s \o t) = Len(s) + Len(t)
    BY <1>1, <1>2
  <2> QED
    BY <2>1, <1>1, <1>2, <1>3
<1>5. ASSUME NEW i \in 1..Len(u)
      PROVE  (s \o t)[i] = u[i]
  <2>1. CASE i <= Len(s)
    BY <2>1, <1>1, <1>2, <1>3
  <2>2. CASE i > Len(s)
    <3>1. i - Len(s) \in 1..Len(t) /\ (s \o t)[i] = t[i - Len(s)]
      BY SMTT(30), <2>2, <1>1, <1>2, <1>3
    <3>2. mid + (i - Len(s)) - 1 = lo + i - 1
      BY <1>1
    <3> QED
      BY <3>1, <3>2, <1>2, <1>3
  <2>3. i <= Len(s) \/ i > Len(s)
    BY <1>1
  <2> QED
    BY <2>1, <2>2, <2>3
<1> QED
  BY <1>3, <1>4, <1>5, SeqEqual DEF s, t, u

(* The first header of a segment, and the others.                          *)
LEMMA SegmentHead ==
    ASSUME NEW lo \in Nat, NEW hi \in Int, lo <= hi
    PROVE  /\ Head(Segment(lo, hi)) = Final(lo)
           /\ Tail(Segment(lo, hi)) = Segment(lo + 1, hi)
<1> DEFINE s == Segment(lo, hi)
           t == Segment(lo + 1, hi)
<1>1. /\ s \in Seq(HeaderTypes) /\ Len(s) = hi - lo + 1
      /\ \A i \in 1..(hi - lo + 1) : s[i] = Final(lo + i - 1)
  <2>1. hi >= lo - 1
    OBVIOUS
  <2> QED
    BY <2>1, SegmentOf
<1>2. /\ t \in Seq(HeaderTypes) /\ Len(t) = hi - (lo + 1) + 1
      /\ \A i \in 1..(hi - (lo + 1) + 1) : t[i] = Final((lo + 1) + i - 1)
  <2>1. lo + 1 \in Nat /\ hi >= (lo + 1) - 1
    OBVIOUS
  <2> QED
    BY <2>1, SegmentOf
<1> HIDE DEF s, t
<1>3. Tail(s) \in Seq(HeaderTypes) /\ Len(Tail(s)) = Len(t) /\ s # << >>
  BY <1>1, <1>2
<1>4. ASSUME NEW i \in 1..Len(t) PROVE Tail(s)[i] = t[i]
  <2>1. Tail(s)[i] = s[i + 1] /\ i + 1 \in 1..(hi - lo + 1)
    BY <1>1, <1>2
  <2>2. (lo + 1) + i - 1 = lo + (i + 1) - 1
    OBVIOUS
  <2> QED
    BY <1>1, <1>2, <2>1, <2>2
<1>5. Tail(s) = t
  BY <1>2, <1>3, <1>4, SeqEqual
<1>6. Head(s) = Final(lo)
  <2>1. 1 \in 1..(hi - lo + 1) /\ lo + 1 - 1 = lo
    OBVIOUS
  <2> QED
    BY <1>1, <1>3, <2>1
<1> QED
  BY <1>5, <1>6 DEF s, t

(* What Retain leaves of a segment.                                        *)
LEMMA RetainSegment ==
    ASSUME NEW lo \in Nat, NEW hi \in Nat, hi >= lo - 1, NEW n \in Nat
    PROVE  Retain(Segment(lo, hi), n) = Segment(IF lo >= n THEN lo ELSE n, hi)
<1> DEFINE s == Segment(lo, hi)
           from == IF lo >= n THEN lo ELSE n
           N == Len(s)
<1>1. /\ s \in Seq(HeaderTypes) /\ N = hi - lo + 1
      /\ \A i \in 1..(hi - lo + 1) : s[i] = Final(lo + i - 1)
      /\ N \in Nat
  BY SegmentOf
<1> HIDE DEF s
<1>2. PICK f \in [0..N -> Seq(HeaderTypes)] :
          /\ f[0] = << >>
          /\ \A i \in 1..N :
                f[i] = IF s[i].n >= n THEN Append(f[i - 1], s[i]) ELSE f[i - 1]
          /\ Retain(s, n) = f[N]
  <2>1. \E f : Retains(f, s, n, HeaderTypes)
    BY <1>1, RetainDef
  <2> QED
    BY <2>1 DEF Retains
<1> DEFINE P == {i \in 0..N : f[i] = Segment(from, lo + i - 1)}
<1>3. 0 \in P
  BY <1>1, <1>2 DEF Segment
<1>4. ASSUME NEW k \in 1..N, k - 1 \in P PROVE k \in P
  <2>1. s[k] = Final(lo + k - 1) /\ s[k].n = lo + k - 1 /\ lo + k - 1 \in Nat
    BY <1>1, FinalType
  <2>2. f[k - 1] = Segment(from, lo + k - 2)
    <3>1. lo + (k - 1) - 1 = lo + k - 2
      OBVIOUS
    <3> QED
      BY <1>4, <3>1
  <2>3. CASE lo + k - 1 >= n
    <3>1. from \in Nat /\ lo + k - 2 \in Int /\ lo + k - 2 >= from - 1
          /\ (lo + k - 2) + 1 = lo + k - 1
      BY <2>3
    <3>2. Append(Segment(from, lo + k - 2), Final(lo + k - 1)) = Segment(from, lo + k - 1)
      BY <3>1, SegmentAppend
    <3>3. f[k] = Append(f[k - 1], s[k])
      BY <2>1, <2>3, <1>2
    <3>4. k \in 0..N /\ f[k] = Segment(from, lo + k - 1)
      BY <3>2, <3>3, <2>1, <2>2
    <3> HIDE DEF from
    <3> QED
      BY <3>4
  <2>4. CASE ~(lo + k - 1 >= n)
    <3>1. Segment(from, lo + k - 2) = << >> /\ Segment(from, lo + k - 1) = << >>
      BY <2>4 DEF Segment
    <3> QED
      BY <3>1, <2>1, <2>2, <2>4, <1>2
  <2> QED
    BY <2>3, <2>4
<1>5. P \in SUBSET (0..N)
  OBVIOUS
<1> HIDE DEF P
<1>6. P = 0..N
  BY <1>1, <1>3, <1>4, <1>5, IntervalInduction
<1>7. N \in P /\ lo + N - 1 = hi
  BY <1>1, <1>6
<1>8. f[N] = Segment(from, lo + N - 1)
  BY <1>7 DEF P
<1> QED
  BY <1>2, <1>7, <1>8 DEF s

(* A batch of headers that are chained, the last one final, is a segment   *)
(* of the final chain: the fork has no final descendants.                  *)
LEMMA ChainedIsSegment ==
    ASSUME NEW hs \in Seq(HeaderTypes), hs # << >>, Chained(hs), LastOf(hs).b = "final"
    PROVE  /\ LastOf(hs) = Final(LastOf(hs).n) /\ LastOf(hs).n \in Nat
           /\ hs[1].n \in Nat /\ hs[1].n <= LastOf(hs).n
           /\ hs = Segment(hs[1].n, LastOf(hs).n)
<1> DEFINE L == LastOf(hs).n
           N == Len(hs) - 1
           P == {k \in 0..N : L - k >= 0 /\ hs[Len(hs) - k] = Final(L - k)}
<1>1. Len(hs) \in Nat \ {0} /\ N \in Nat /\ \A i \in 1..Len(hs) : hs[i] \in HeaderTypes
  OBVIOUS
<1>2. LastOf(hs) = Final(L) /\ L \in Nat /\ hs[Len(hs)] = Final(L)
  <2>1. hs[Len(hs)] \in HeaderTypes
    BY <1>1
  <2> QED
    BY <2>1 DEF LastOf, Final, HeaderTypes
<1> HIDE DEF L
<1>3. 0 \in P
  BY <1>1, <1>2
<1>4. ASSUME NEW k \in 1..N, k - 1 \in P PROVE k \in P
  <2> DEFINE i == Len(hs) - (k - 1)
             m == L - (k - 1)
  <2>1. i \in 2..Len(hs) /\ i - 1 = Len(hs) - k /\ i - 1 \in 1..Len(hs) /\ m \in Nat
        /\ m - 1 = L - k
    BY <1>1, <1>2, <1>4
  <2>2. hs[i] = Final(m) /\ Parent(hs[i]) = hs[i - 1] /\ hs[i - 1] \in HeaderTypes
    BY <1>1, <1>4, <2>1 DEF Chained
  <2> HIDE DEF i, m
  <2>3. m # 0
    BY SMTT(30), <2>1, <2>2, ConstantsAssumption DEF Parent, Final
  <2>4. Parent(Final(m)) = Final(m - 1)
    BY <2>1, <2>3 DEF Parent, Final
  <2> QED
    BY <2>1, <2>2, <2>3, <2>4
<1>5. P \in SUBSET (0..N)
  OBVIOUS
<1> HIDE DEF P
<1>6. P = 0..N
  BY <1>1, <1>3, <1>4, <1>5, IntervalInduction
<1>7. ASSUME NEW i \in 1..Len(hs)
      PROVE  L - (Len(hs) - i) >= 0 /\ hs[i] = Final(L - (Len(hs) - i))
  <2>1. Len(hs) - i \in 0..N /\ Len(hs) - (Len(hs) - i) = i
    BY <1>1
  <2> QED
    BY <1>6, <2>1 DEF P
<1> DEFINE first == L - (Len(hs) - 1)
<1>8. hs[1] = Final(first) /\ hs[1].n = first /\ first \in Nat /\ first <= L
      /\ L - first + 1 = Len(hs)
  <2>1. 1 \in 1..Len(hs)
    BY <1>1
  <2>2. first >= 0 /\ hs[1] = Final(first)
    BY <1>7, <2>1
  <2> QED
    BY <1>1, <1>2, <2>2, FinalType
<1>9. /\ Segment(first, L) \in Seq(HeaderTypes) /\ Len(Segment(first, L)) = Len(hs)
      /\ \A i \in 1..Len(hs) : Segment(first, L)[i] = Final(first + i - 1)
  <2> HIDE DEF first
  <2>1. L \in Int /\ L >= first - 1
    BY <1>2, <1>8
  <2>2. /\ Segment(first, L) \in Seq(HeaderTypes)
        /\ Len(Segment(first, L)) = L - first + 1
        /\ \A i \in 1..(L - first + 1) : Segment(first, L)[i] = Final(first + i - 1)
    BY <1>8, <2>1, SegmentOf
  <2> QED
    BY <1>8, <2>2
<1>10. ASSUME NEW i \in 1..Len(hs) PROVE hs[i] = Segment(first, L)[i]
  <2>1. first + i - 1 = L - (Len(hs) - i)
    BY <1>1, <1>2
  <2> QED
    BY <1>7, <1>9, <2>1
<1>11. hs = Segment(first, L)
  BY <1>9, <1>10, SeqEqual
<1> QED
  BY <1>2, <1>8, <1>11 DEF L

-----------------------------------------------------------------------------
(* Lemmas on the light client.                                             *)

(* The count of authority sets grows at a header that announces one.       *)
LEMMA SetIdProperties ==
    /\ \A n \in Nat : SetIdAt(n) \in Nat
    /\ SetIdAt(1) = 0
    /\ \A n \in Nat : SetIdAt(n + 1) =
          IF n \in SetChanges THEN SetIdAt(n) + 1 ELSE SetIdAt(n)
<1> DEFINE Before(n) == {c \in SetChanges : c < n}
<1>1. (\A c \in SetChanges : c \in Nat /\ c > 0) /\ IsFiniteSet(SetChanges)
  <2>1. SetChanges \subseteq 1..MaxRelay /\ MaxRelay \in Nat
    BY ConstantsAssumption
  <2>2. IsFiniteSet(1..MaxRelay)
    BY <2>1, FS_Interval
  <2>3. IsFiniteSet(SetChanges)
    BY <2>1, <2>2, FS_Subset
  <2> QED
    BY <2>1, <2>3
<1>2. \A n \in Nat : IsFiniteSet(Before(n)) /\ Cardinality(Before(n)) \in Nat
  BY <1>1, FS_Subset, FS_CardinalityType
<1>3. Before(1) = {}
  BY <1>1
<1>4. ASSUME NEW n \in Nat
      PROVE  SetIdAt(n + 1) = IF n \in SetChanges THEN SetIdAt(n) + 1 ELSE SetIdAt(n)
  <2>1. CASE n \in SetChanges
    <3>0. \A c \in SetChanges : c < n + 1 <=> (c < n \/ c = n)
      BY <1>1
    <3>1. Before(n + 1) = Before(n) \cup {n}
      BY <3>0, <2>1
    <3>3. n \notin Before(n)
      OBVIOUS
    <3>2. Cardinality(Before(n) \cup {n}) = Cardinality(Before(n)) + 1
      BY <1>2, <3>3, FS_AddElement
    <3> QED
      BY <3>1, <3>2, <2>1 DEF SetIdAt
  <2>2. CASE n \notin SetChanges
    <3>1. Before(n + 1) = Before(n)
      BY <1>1, <2>2
    <3> QED
      BY <3>1, <2>2 DEF SetIdAt
  <2> QED
    BY <2>1, <2>2
<1> QED
  BY <1>2, <1>3, <1>4, FS_EmptySet DEF SetIdAt

(* The fields of a Phactory.                                               *)
LEMMA PhactoryFields ==
    ASSUME NEW p \in Phactories
    PROVE  /\ p.kind \in {"none", "solo", "para"} /\ p.safe \in 0..2
           /\ p.can_load \in BOOLEAN /\ p.rcu \in BOOLEAN /\ p.validated \in BOOLEAN
           /\ p.header_next \in Nat /\ p.block_next \in Nat /\ p.para_next \in Nat
           /\ p.relay_root \in HeaderTypes \cup {NoHeader}
           /\ p.roots \in Seq(HeaderTypes)
           /\ p.bridge \in [last : HeaderTypes \cup {NoHeader}, set : Nat]
           /\ p.storage \in HeaderTypes \cup {NoHeader} /\ p.genesis \in Nat
           /\ p.handled \in Seq([n : Nat, state : HeaderTypes \cup {NoHeader}])
           /\ p.applied \in SUBSET Effects /\ p.pending \in SUBSET Effects
  BY DEF Phactories

(* init_runtime.                                                           *)
LEMMA InitSyncGood ==
    ASSUME NEW p, Good(p), p.kind = "none", NEW kind \in {"solo", "para"}
    PROVE  /\ Good(InitSync(p, kind)) /\ NotBehind(InitSync(p, kind), p)
           /\ InitSync(p, kind).rcu = p.rcu /\ InitSync(p, kind).safe = p.safe
           /\ InitSync(p, kind).applied = p.applied
           /\ InitSync(p, kind).pending = p.pending
<1> DEFINE q == InitSync(p, kind)
<1>1. p \in Phactories /\ Untouched(p)
  BY DEF Good
<1>2. Final(0) \in HeaderTypes /\ Final(0).n = 0
  BY FinalType
<1>3. /\ q \in Phactories /\ q.kind = kind /\ q.safe = p.safe
      /\ q.header_next = (IF kind = "para" THEN 1 ELSE 0) /\ q.block_next = 1
      /\ q.para_next = 0 /\ q.relay_root = NoHeader /\ q.roots = << >>
      /\ q.validated = FALSE /\ q.bridge = [last |-> Final(0), set |-> 0]
      /\ q.genesis = 0 /\ q.handled = << >>
      /\ q.rcu = p.rcu /\ q.applied = p.applied /\ q.pending = p.pending
  BY ZenonT(60), <1>1, <1>2 DEF InitSync, Untouched, Phactories
<1> HIDE DEF q
<1>4. ClientOK(q)
  <2>1. q.bridge.last = Final(0) /\ q.bridge.set = 0 /\ q.bridge.last.n = 0
    BY <1>2, <1>3
  <2>2. SetIdAt(0 + 1) = 0 /\ 0 <= MaxRelay
    BY SetIdProperties, ConstantsAssumption
  <2>3. Final(IF q.header_next = 0 THEN 0 ELSE q.header_next - 1) = Final(0)
    BY <1>3
  <2> QED
    BY <1>3, <2>1, <2>2, <2>3 DEF ClientOK
<1>5. Aligned(q)
  BY <1>3 DEF Aligned, Segment, NextOf
<1>6. RootsFinal(q) /\ LoadOK(q) /\ InOrder(q)
  BY <1>3 DEF RootsFinal, LoadOK, InOrder
<1>7. Good(q)
  BY <1>3, <1>4, <1>5, <1>6 DEF Good, Started
<1>8. NotBehind(q, p)
  BY <1>1, <1>3 DEF NotBehind, Untouched
<1> QED
  BY <1>3, <1>7, <1>8 DEF q

(* A batch of headers within the chain.                                    *)
WithinRelay(hs) == hs \in Seq(HeaderTypes) /\ \A i \in 1..Len(hs) : hs[i].n <= MaxRelay

(* The last header of what Retain leaves is within the chain, too.         *)
LEMMA RetainWithin ==
    ASSUME NEW hs, WithinRelay(hs), NEW n
    PROVE  WithinRelay(Retain(hs, n))
<1> DEFINE S == {h \in HeaderTypes : h.n <= MaxRelay}
<1>1. hs \in Seq(S)
  BY DEF WithinRelay
<1>2. Retain(hs, n) \in Seq(S)
  <2> HIDE DEF S
  <2> QED
    BY <1>1, RetainType
<1>3. Retain(hs, n) \in Seq(HeaderTypes)
  BY <1>2
<1>4. \A i \in 1..Len(Retain(hs, n)) : Retain(hs, n)[i] \in S
  BY <1>2
<1> QED
  BY <1>3, <1>4 DEF WithinRelay

(* A batch that the light client accepts is a segment of the final chain   *)
(* from the next header on, and brings the authorities up to date.         *)
LEMMA AcceptedIsSegment ==
    ASSUME NEW p, p \in Phactories, NEW hs, WithinRelay(hs), HeadersAccepted(p, hs)
    PROVE  /\ LastOf(hs) = Final(LastOf(hs).n)
           /\ LastOf(hs).n \in p.header_next..MaxRelay
           /\ hs = Segment(p.header_next, LastOf(hs).n)
           /\ SubmitFinalized(p.bridge, LastOf(hs)) =
                 [last |-> LastOf(hs), set |-> SetIdAt(LastOf(hs).n + 1)]
<1>1. /\ hs \in Seq(HeaderTypes) /\ hs # << >> /\ hs[1].n = p.header_next
      /\ Chained(hs) /\ LastOf(hs).b = "final"
      /\ p.bridge.set = SetIdAt(LastOf(hs).n)
  BY DEF HeadersAccepted, VerifyGrandpaProof, WithinRelay
<1>2. /\ LastOf(hs) = Final(LastOf(hs).n) /\ LastOf(hs).n \in Nat
      /\ hs[1].n \in Nat /\ hs[1].n <= LastOf(hs).n
      /\ hs = Segment(hs[1].n, LastOf(hs).n)
  BY <1>1, ChainedIsSegment
<1>3. LastOf(hs).n <= MaxRelay
  <2>1. Len(hs) \in 1..Len(hs)
    BY <1>1
  <2> QED
    BY <2>1 DEF WithinRelay, LastOf
<1> DEFINE n == LastOf(hs).n
<1>4. SetIdAt(n + 1) = IF n \in SetChanges THEN SetIdAt(n) + 1 ELSE SetIdAt(n)
  BY <1>2, SetIdProperties
<1> QED
  BY <1>1, <1>2, <1>3, <1>4, ConstantsAssumption DEF SubmitFinalized

(* More headers make more blocks final.                                    *)
LEMMA TipGrows ==
    ASSUME NEW p, NEW q, q.kind = p.kind, p.bridge.last.n \in 0..MaxRelay,
           q.bridge.last.n \in 0..MaxRelay, p.bridge.last.n <= q.bridge.last.n
    PROVE  FinalTip(p) \in Nat /\ FinalTip(q) \in Nat /\ FinalTip(p) <= FinalTip(q)
<1> DEFINE a == p.bridge.last.n
           b == q.bridge.last.n
<1>1. Heads[a] \in Nat /\ Heads[b] \in Nat /\ Heads[a] <= Heads[b]
      /\ a \in Nat /\ b \in Nat
  BY ConstantsAssumption
<1> QED
  BY <1>1 DEF FinalTip

(* Where the light client is.                                              *)
LEMMA ClientAt ==
    ASSUME NEW p \in Phactories, ClientOK(p)
    PROVE  /\ p.bridge.last.n = IF p.header_next = 0 THEN 0 ELSE p.header_next - 1
           /\ p.bridge.last.n \in 0..MaxRelay /\ p.bridge.last \in HeaderTypes
           /\ p.bridge.last.b = "final"
           /\ FinalTip(p) \in Nat
<1> DEFINE n == IF p.header_next = 0 THEN 0 ELSE p.header_next - 1
<1>1. n \in Nat /\ p.bridge.last = Final(n) /\ p.bridge.last.n <= MaxRelay
  BY PhactoryFields DEF ClientOK
<1>2. p.bridge.last.n = n /\ p.bridge.last \in HeaderTypes /\ p.bridge.last.b = "final"
  <2> HIDE DEF n
  <2> QED
    BY <1>1, FinalType
<1>3. p.bridge.last.n \in 0..MaxRelay
  BY <1>1, <1>2, ConstantsAssumption
<1>4. FinalTip(p) \in Nat
  BY <1>3, ConstantsAssumption DEF FinalTip
<1> QED
  BY <1>2, <1>3, <1>4

(* The queued roots and the state stay final.                              *)
LEMMA IsFinalGrows ==
    ASSUME NEW h, NEW m \in Nat, NEW n \in Nat, m <= n, IsFinal(h, m)
    PROVE  IsFinal(h, n)
  BY DEF IsFinal, HeaderTypes

(* sync_header as far as the light client and the queue are concerned.     *)
LEMMA IngestGood ==
    ASSUME NEW p, Good(p), p.can_load = FALSE, NEW hs, WithinRelay(hs)
    PROVE  /\ Good(Ingest(p, hs)) /\ NotBehind(Ingest(p, hs), p)
           /\ Ingest(p, hs).kind = p.kind
           /\ Ingest(p, hs).can_load = FALSE
           /\ Ingest(p, hs).rcu = p.rcu /\ Ingest(p, hs).safe = p.safe
           /\ Ingest(p, hs).applied = p.applied
           /\ Ingest(p, hs).pending = p.pending
<1> DEFINE q == Ingest(p, hs)
           kept == Retain(hs, p.header_next)
           last == LastOf(kept)
<1>1. p \in Phactories
  BY DEF Good
<1>2. CASE p.kind = "none" \/ ~HeadersAccepted(p, kept)
  <2>1. q = p
    BY <1>2 DEF Ingest
  <2> QED
    BY <2>1, <1>1, PhactoryFields DEF NotBehind
<1>3. CASE p.kind # "none" /\ HeadersAccepted(p, kept)
  <2>1. WithinRelay(kept)
    BY RetainWithin
  <2>2. /\ last = Final(last.n) /\ last.n \in p.header_next..MaxRelay
        /\ kept = Segment(p.header_next, last.n)
        /\ SubmitFinalized(p.bridge, last) = [last |-> last, set |-> SetIdAt(last.n + 1)]
    BY <1>1, <1>3, <2>1, AcceptedIsSegment
  <2> DEFINE more == Retain(kept, p.block_next - 1)
  <2>3. last \in HeaderTypes /\ last.n \in Nat /\ last.n <= MaxRelay
        /\ p.header_next <= last.n
        /\ SetIdAt(last.n + 1) \in Nat /\ more \in Seq(HeaderTypes)
        /\ p.header_next \in Nat /\ p.block_next \in Nat
    <3>1. last.n \in Nat /\ last.n + 1 \in Nat /\ p.header_next \in Nat
      BY <1>1, <2>2, PhactoryFields, ConstantsAssumption
    <3>2. last \in HeaderTypes /\ last.n <= MaxRelay /\ p.header_next <= last.n
      BY <2>2, <3>1, FinalType, ConstantsAssumption
    <3>3. kept \in Seq(HeaderTypes)
      BY <2>1 DEF WithinRelay
    <3>4. more \in Seq(HeaderTypes)
      <4> HIDE DEF kept
      <4> QED
        BY <3>3, RetainType
    <3> QED
      BY <1>1, <3>1, <3>2, <3>4, SetIdProperties, PhactoryFields
  <2>4. q = [p EXCEPT
               !.bridge = [last |-> last, set |-> SetIdAt(last.n + 1)],
               !.header_next = last.n + 1,
               !.roots = IF p.kind = "solo" THEN @ \o more ELSE @,
               !.relay_root = IF p.kind = "para" THEN last ELSE @]
    BY <1>1, <1>3, <2>2 DEF Ingest, Phactories
  <2> HIDE DEF last, kept, more
  <2> DEFINE roots == IF p.kind = "solo" THEN p.roots \o more ELSE p.roots
             relay == IF p.kind = "para" THEN last ELSE p.relay_root
             bridge == [last |-> last, set |-> SetIdAt(last.n + 1)]
  <2>a. roots \in Seq(HeaderTypes) /\ relay \in HeaderTypes \cup {NoHeader}
        /\ bridge \in [last : HeaderTypes \cup {NoHeader}, set : Nat]
        /\ last.n + 1 \in Nat
    BY <1>1, <2>3, PhactoryFields
  <2>b. q = [p EXCEPT !.bridge = bridge, !.header_next = last.n + 1, !.roots = roots, !.relay_root = relay]
    BY <1>1, <2>4 DEF Phactories
  <2> HIDE DEF roots, relay, bridge, q
  <2>c. q \in Phactories
    BY <1>1, <2>a, <2>b DEF Phactories
  <2>5. /\ q.bridge = bridge
        /\ q.header_next = last.n + 1
        /\ q.roots = roots /\ q.relay_root = relay
        /\ q.kind = p.kind /\ q.safe = p.safe /\ q.can_load = p.can_load
        /\ q.rcu = p.rcu /\ q.block_next = p.block_next /\ q.para_next = p.para_next
        /\ q.validated = p.validated /\ q.storage = p.storage
        /\ q.genesis = p.genesis /\ q.handled = p.handled
        /\ q.applied = p.applied /\ q.pending = p.pending
    BY <1>1, <2>b DEF Phactories
  <2> HIDE DEF q
  <2>6. Started(p) /\ ClientOK(p) /\ RootsFinal(p) /\ p.kind \in {"solo", "para"}
    BY <1>1, <1>3, PhactoryFields DEF Good, Started
  <2>7. ClientOK(q)
    <3>1. q.bridge.last = last /\ q.bridge.set = SetIdAt(last.n + 1)
      BY <2>5 DEF bridge
    <3>2. Final(IF q.header_next = 0 THEN 0 ELSE q.header_next - 1) = last
      BY <2>2, <2>3, <2>5
    <3>3. q.relay_root # NoHeader => q.kind = "para" /\ q.relay_root = last
      BY <2>5, <2>6 DEF relay, ClientOK
    <3> QED
      BY <2>3, <2>5, <3>1, <3>2, <3>3 DEF ClientOK
  <2>8. /\ FinalTip(p) \in Nat /\ FinalTip(q) \in Nat /\ FinalTip(p) <= FinalTip(q)
        /\ p.kind = "solo" => FinalTip(q) = last.n
    <3>1. q.bridge.last.n = last.n /\ last.n \in 0..MaxRelay
      BY <2>3, <2>5, ConstantsAssumption DEF bridge
    <3>2. p.bridge.last.n \in 0..MaxRelay /\ p.bridge.last.n <= last.n
      <4>1. p.bridge.last.n = (IF p.header_next = 0 THEN 0 ELSE p.header_next - 1)
            /\ p.bridge.last.n \in 0..MaxRelay
        BY <1>1, <2>6, ClientAt
      <4> QED
        BY <2>3, <4>1
    <3> QED
      BY <2>5, <3>1, <3>2, TipGrows DEF FinalTip
  <2>9. ASSUME p.kind = "solo"
        PROVE  \A i \in 1..Len(more) : IsFinal(more[i], last.n)
    <3> DEFINE S == {h \in HeaderTypes : IsFinal(h, last.n)}
    <3>1. kept \in Seq(HeaderTypes) /\ \A i \in 1..Len(kept) : kept[i] \in S
      <4>1. /\ Segment(p.header_next, last.n) \in Seq(HeaderTypes)
            /\ \A i \in 1..Len(Segment(p.header_next, last.n)) :
                 /\ Segment(p.header_next, last.n)[i] = Final(p.header_next + i - 1)
                 /\ p.header_next + i - 1 \in p.header_next..last.n
        <5>1. last.n \in Int /\ p.header_next \in Nat
          BY <2>3
        <5> QED
          BY <5>1, SegmentProperties
      <4>2. ASSUME NEW i \in 1..Len(kept) PROVE kept[i] \in S
        <5>1. kept[i] = Final(p.header_next + i - 1)
              /\ p.header_next + i - 1 \in p.header_next..last.n
          BY <2>2, <4>1
        <5>2. p.header_next + i - 1 \in Nat /\ p.header_next + i - 1 <= last.n
          BY <2>3, <5>1
        <5> QED
          BY <5>1, <5>2, FinalType DEF IsFinal
      <4> QED
        BY <2>2, <4>1, <4>2
    <3>2. kept \in Seq(S)
      <4> HIDE DEF S
      <4> QED
        BY <3>1
    <3>3. more \in Seq(S)
      <4> HIDE DEF S
      <4> QED
        BY <3>2, RetainType DEF more
    <3> QED
      BY <3>3
  <2>10. RootsFinal(q)
    <3>1. ASSUME NEW i \in 1..Len(p.roots) PROVE IsFinal(p.roots[i], FinalTip(q))
      BY <2>6, <2>8, IsFinalGrows DEF RootsFinal
    <3>2. q.validated => IsFinal(q.storage, FinalTip(q))
      BY <2>5, <2>6, <2>8, IsFinalGrows DEF RootsFinal
    <3>3. ASSUME NEW i \in 1..Len(q.roots) PROVE IsFinal(q.roots[i], FinalTip(q))
      <4>1. CASE p.kind = "para"
        BY <4>1, <2>5, <3>1 DEF roots
      <4>2. CASE p.kind = "solo"
        <5>1. q.roots = p.roots \o more
          BY <4>2, <2>5 DEF roots
        <5>2. p.roots \in Seq(HeaderTypes) /\ more \in Seq(HeaderTypes)
          BY <1>1, <2>3, PhactoryFields
        <5>3. CASE i <= Len(p.roots)
          <6>1. i \in 1..Len(p.roots) /\ q.roots[i] = p.roots[i]
            BY <5>1, <5>2, <5>3
          <6> QED
            BY <6>1, <3>1
        <5>4. CASE i > Len(p.roots)
          <6>1. i - Len(p.roots) \in 1..Len(more) /\ q.roots[i] = more[i - Len(p.roots)]
            BY <5>1, <5>2, <5>4
          <6> QED
            BY <6>1, <4>2, <2>8, <2>9
        <5>5. i <= Len(p.roots) \/ i > Len(p.roots)
          BY <5>2
        <5> QED
          BY <5>3, <5>4, <5>5
      <4> QED
        BY <4>1, <4>2, <2>6
    <3> QED
      BY <3>2, <3>3 DEF RootsFinal
  <2>11. ASSUME p.safe < 2 PROVE Aligned(q)
    <3> DEFINE bn == p.block_next
               hn == p.header_next
    <3>1. Aligned(p) /\ bn \in Nat /\ bn > 0 /\ hn \in Nat
      BY <1>1, <2>6, <2>11, PhactoryFields DEF Started
    <3>2. CASE p.kind = "para"
      BY <3>1, <3>2, <2>5 DEF Aligned, NextOf, roots
    <3>3. CASE p.kind = "solo"
      <4>1. more = Segment(IF hn >= bn - 1 THEN hn ELSE bn - 1, last.n)
        <5>1. bn - 1 \in Nat /\ last.n \in Nat /\ last.n >= hn - 1
          BY <2>3, <3>1
        <5> HIDE DEF bn, hn
        <5>2. Retain(Segment(hn, last.n), bn - 1)
                = Segment(IF hn >= bn - 1 THEN hn ELSE bn - 1, last.n)
          BY <3>1, <5>1, RetainSegment
        <5> QED
          BY <5>2, <2>2 DEF more, bn, hn
      <4>2. q.roots = p.roots \o more /\ NextOf(p) = hn /\ NextOf(q) - 1 = last.n
            /\ NextOf(q) >= hn
        BY <3>1, <3>3, <2>3, <2>5 DEF roots, NextOf
      <4> HIDE DEF bn, hn
      <4> DEFINE lo == IF p.validated THEN bn ELSE bn - 1
      <4>3. /\ p.roots = Segment(lo, hn - 1) /\ lo \in Nat
            /\ p.validated => p.storage = Final(bn - 1) /\ bn <= hn
        BY <3>1, <4>2 DEF Aligned, bn, hn
      <4>4. q.roots = Segment(lo, last.n)
        <5>1. CASE lo <= hn
          <6>1. hn >= bn - 1 /\ hn - 1 <= last.n /\ last.n \in Int
            BY <5>1, <3>1, <4>3, <2>3 DEF hn, bn
          <6>2. more = Segment(hn, last.n)
            BY <6>1, <4>1
          <6>3. Segment(lo, hn - 1) \o Segment(hn, last.n) = Segment(lo, last.n)
            <7> HIDE DEF lo
            <7> QED
              BY <5>1, <6>1, <3>1, <4>3, SegmentConcat
          <6> QED
            BY <6>2, <6>3, <4>2, <4>3
        <5>2. CASE ~(lo <= hn)
          <6>1. ~p.validated /\ lo = bn - 1 /\ ~(hn >= bn - 1) /\ hn - 1 < lo
            BY <5>2, <3>1, <4>3
          <6>2. p.roots = << >> /\ more = Segment(lo, last.n)
            BY <6>1, <4>1, <4>3 DEF Segment
          <6> QED
            BY <6>2, <4>2, <2>3
        <5> QED
          BY <5>1, <5>2
      <4>5. q.validated => q.storage = Final(q.block_next - 1) /\ q.block_next <= NextOf(q)
        BY <4>2, <4>3, <3>1, <2>3, <2>5 DEF bn, hn, NextOf
      <4> QED
        BY <3>3, <4>2, <4>4, <4>5, <2>5 DEF Aligned, bn
    <3> QED
      BY <3>2, <3>3, <2>6
  <2>12. LoadOK(q) /\ (q.safe = 0 => InOrder(q))
    BY <2>5, <2>6 DEF LoadOK, InOrder, Started
  <2>13. Good(q)
    BY <2>c, <2>5, <2>6, <2>7, <2>10, <2>11, <2>12 DEF Good, Started
  <2>14. NotBehind(q, p)
    BY <1>1, <2>3, <2>5, PhactoryFields DEF NotBehind
  <2> QED
    BY <2>5, <2>13, <2>14 DEF q
<1> QED
  BY <1>2, <1>3 DEF q

(* q differs from p in its flags and effects only.                         *)
SameSync(q, p) ==
    /\ q.kind = p.kind /\ q.header_next = p.header_next
    /\ q.block_next = p.block_next /\ q.para_next = p.para_next
    /\ q.relay_root = p.relay_root /\ q.roots = p.roots
    /\ q.validated = p.validated /\ q.bridge = p.bridge
    /\ q.storage = p.storage /\ q.genesis = p.genesis /\ q.handled = p.handled
    /\ q.can_load \in {p.can_load, FALSE}
    /\ q.safe = p.safe \/ p.safe = 0

(* Flags and effects do not matter to what was synced.                     *)
LEMMA SameSyncGood ==
    ASSUME NEW p, Good(p), NEW q \in Phactories, SameSync(q, p)
    PROVE  Good(q) /\ NotBehind(q, p)
<1>1. p \in Phactories /\ (p.kind = "none" => Untouched(p))
  BY DEF Good
<1>2. p.kind = "none" => Untouched(q)
  BY <1>1 DEF SameSync, Untouched
<1>3. ASSUME p.kind # "none" PROVE Started(q)
  <2>1. Started(p)
    BY <1>3 DEF Good
  <2>2. ClientOK(q) /\ RootsFinal(q) /\ LoadOK(q)
    BY <2>1 DEF Started, SameSync, ClientOK, RootsFinal, LoadOK, FinalTip
  <2>3. q.safe < 2 => Aligned(q)
    BY <2>1 DEF Started, SameSync, Aligned, NextOf
  <2>4. q.safe = 0 => InOrder(q)
    BY <2>1 DEF Started, SameSync, InOrder
  <2> QED
    BY <2>1, <2>2, <2>3, <2>4 DEF Started, SameSync
<1>4. NotBehind(q, p)
  BY <1>1, PhactoryFields DEF NotBehind, SameSync
<1> QED
  BY <1>2, <1>3, <1>4 DEF Good, SameSync

(* sync_header.                                                            *)
LEMMA SyncedHeadersGood ==
    ASSUME NEW p, Good(p), NEW hs, WithinRelay(hs)
    PROVE  LET q == SyncedHeaders(p, hs)
           IN  /\ Good(q) /\ NotBehind(q, p) /\ q.can_load = FALSE /\ q.kind = p.kind
               /\ q.rcu = p.rcu /\ q.safe = p.safe /\ q.applied = p.applied
               /\ q.pending = p.pending
<1> DEFINE r == [p EXCEPT !.can_load = FALSE]
           q == Ingest(r, hs)
<1>1. p \in Phactories
  BY DEF Good
<1>2. /\ r \in Phactories /\ SameSync(r, p) /\ r.can_load = FALSE /\ r.kind = p.kind
      /\ r.rcu = p.rcu /\ r.safe = p.safe /\ r.applied = p.applied
      /\ r.pending = p.pending
  BY <1>1 DEF Phactories, SameSync
<1> HIDE DEF r
<1>3. Good(r) /\ NotBehind(r, p)
  BY <1>2, SameSyncGood
<1>4. /\ Good(q) /\ NotBehind(q, r) /\ q.can_load = FALSE /\ q.kind = r.kind
      /\ q.rcu = r.rcu /\ q.safe = r.safe /\ q.applied = r.applied
      /\ q.pending = r.pending
  BY <1>2, <1>3, IngestGood
<1>5. NotBehind(q, p)
  <2>1. q \in Phactories
    BY <1>4 DEF Good
  <2>2. q.header_next \in Nat /\ q.para_next \in Nat /\ q.block_next \in Nat
        /\ q.handled \in Seq([n : Nat, state : HeaderTypes \cup {NoHeader}])
    BY <2>1, PhactoryFields
  <2>3. r.header_next = p.header_next /\ r.para_next = p.para_next
        /\ r.block_next = p.block_next /\ r.handled = p.handled
    BY <1>2 DEF SameSync
  <2> QED
    BY <1>4, <2>3 DEF NotBehind
<1>6. SyncedHeaders(p, hs) = q
  BY DEF SyncedHeaders, r
<1> QED
  BY <1>2, <1>4, <1>5, <1>6

(* sync_para_header: the batch ends with the head in the verified state of *)
(* the relay chain, so that all of it is final.                            *)
LEMMA SyncedParaHeadersGood ==
    ASSUME NEW p, Good(p), NEW hs \in Seq(HeaderTypes)
    PROVE  LET q == SyncedParaHeaders(p, hs)
           IN  /\ Good(q) /\ NotBehind(q, p)
               /\ q.rcu = p.rcu /\ q.safe = p.safe /\ q.applied = p.applied
               /\ q.pending = p.pending
<1> DEFINE q == SyncedParaHeaders(p, hs)
           kept == Retain(hs, p.para_next)
           last == LastOf(kept)
<1>1. p \in Phactories
  BY DEF Good
<1>2. CASE ~ParaHeadersAccepted(p, kept)
  <2>1. q = p
    BY <1>2 DEF SyncedParaHeaders
  <2> QED
    BY <2>1, <1>1, PhactoryFields DEF NotBehind
<1>3. CASE ParaHeadersAccepted(p, kept)
  <2>1. /\ p.kind = "para" /\ kept # << >> /\ kept[1].n = p.para_next
        /\ p.relay_root # NoHeader /\ last = Final(Heads[p.relay_root.n])
        /\ Chained(kept) /\ kept \in Seq(HeaderTypes)
    BY <1>3, RetainType DEF ParaHeadersAccepted, ParaProved
  <2>2. Started(p) /\ ClientOK(p) /\ RootsFinal(p) /\ p.relay_root = p.bridge.last
        /\ p.can_load \in {FALSE} /\ p.block_next > 0
    BY <1>1, <2>1, PhactoryFields DEF Good, Started, ClientOK, LoadOK
  <2>3. FinalTip(p) = Heads[p.relay_root.n] /\ FinalTip(p) \in Nat
    BY <1>1, <2>1, <2>2, ClientAt DEF FinalTip
  <2> DEFINE tip == FinalTip(p)
  <2>4. last = Final(tip) /\ last.n = tip /\ last.b = "final"
    BY <2>1, <2>3, FinalType
  <2>5. kept = Segment(p.para_next, tip) /\ p.para_next <= tip /\ p.para_next \in Nat
    BY <1>1, <2>1, <2>4, ChainedIsSegment, PhactoryFields
  <2>6. q = [p EXCEPT !.roots = p.roots \o kept, !.relay_root = NoHeader,
                      !.para_next = tip + 1]
    BY <1>1, <1>3, <2>4 DEF SyncedParaHeaders, Phactories
  <2> HIDE DEF q, kept, last, tip
  <2>7. p.roots \in Seq(HeaderTypes) /\ p.roots \o kept \in Seq(HeaderTypes)
        /\ tip + 1 \in Nat /\ tip \in Nat
    BY <1>1, <2>1, <2>3, PhactoryFields DEF tip
  <2>8. q \in Phactories
    BY <1>1, <2>6, <2>7 DEF Phactories
  <2>9. /\ q.roots = p.roots \o kept /\ q.relay_root = NoHeader
        /\ q.para_next = tip + 1 /\ q.header_next = p.header_next
        /\ q.kind = p.kind /\ q.safe = p.safe /\ q.can_load = p.can_load
        /\ q.rcu = p.rcu /\ q.block_next = p.block_next /\ q.bridge = p.bridge
        /\ q.validated = p.validated /\ q.storage = p.storage
        /\ q.genesis = p.genesis /\ q.handled = p.handled
        /\ q.applied = p.applied /\ q.pending = p.pending
    BY <1>1, <2>6 DEF Phactories
  <2>10. ClientOK(q) /\ LoadOK(q) /\ FinalTip(q) = tip
    BY <2>2, <2>9 DEF ClientOK, LoadOK, FinalTip, tip
  <2>11. RootsFinal(q)
    <3>1. \A i \in 1..Len(p.roots) : IsFinal(p.roots[i], tip)
      BY <2>2 DEF RootsFinal, tip
    <3>2. ASSUME NEW i \in 1..Len(kept) PROVE IsFinal(kept[i], tip)
      <4>1. tip \in Int
        BY <2>7
      <4>2. kept[i] = Final(p.para_next + i - 1)
            /\ p.para_next + i - 1 \in p.para_next..tip
        BY <2>5, <4>1, SegmentProperties
      <4>3. p.para_next + i - 1 \in Nat /\ p.para_next + i - 1 <= tip
        BY <2>5, <4>1, <4>2
      <4> QED
        BY <4>2, <4>3, FinalType DEF IsFinal
    <3>3. ASSUME NEW i \in 1..Len(q.roots) PROVE IsFinal(q.roots[i], tip)
      <4>1. CASE i <= Len(p.roots)
        <5>1. i \in 1..Len(p.roots) /\ q.roots[i] = p.roots[i]
          BY <2>1, <2>7, <2>9, <4>1
        <5> QED
          BY <5>1, <3>1
      <4>2. CASE i > Len(p.roots)
        <5>1. i - Len(p.roots) \in 1..Len(kept) /\ q.roots[i] = kept[i - Len(p.roots)]
          BY <2>1, <2>7, <2>9, <4>2
        <5> QED
          BY <5>1, <3>2
      <4>3. i <= Len(p.roots) \/ i > Len(p.roots)
        BY <2>7
      <4> QED
        BY <4>1, <4>2, <4>3
    <3> QED
      BY <3>3, <2>2, <2>9, <2>10 DEF RootsFinal, tip
  <2>12. ASSUME q.safe < 2 PROVE Aligned(q)
    <3> DEFINE lo == IF p.validated THEN p.block_next ELSE p.block_next - 1
    <3>1. /\ p.roots = Segment(lo, p.para_next - 1) /\ lo \in Nat /\ lo <= p.para_next
          /\ p.block_next \in Nat /\ p.block_next - 1 <= p.para_next
          /\ p.validated => p.storage = Final(p.block_next - 1)
                            /\ p.block_next <= p.para_next
      BY SMTT(30), <1>1, <2>1, <2>2, <2>9, <2>12, PhactoryFields DEF Started, Aligned, NextOf
    <3>2. Segment(lo, p.para_next - 1) \o Segment(p.para_next, tip) = Segment(lo, tip)
      <4>1. p.para_next - 1 <= tip /\ tip \in Int
        BY <2>5, <2>7
      <4> HIDE DEF lo
      <4> QED
        BY <3>1, <4>1, <2>5, SegmentConcat
    <3>3. q.roots = Segment(lo, tip) /\ NextOf(q) - 1 = tip /\ NextOf(q) = tip + 1
      <4>1. NextOf(q) = tip + 1
        BY <2>1, <2>9 DEF NextOf
      <4>2. q.roots = Segment(lo, tip)
        <5> HIDE DEF lo
        <5> QED
          BY <3>1, <3>2, <2>5, <2>9
      <4> QED
        BY <4>1, <4>2, <2>7
    <3>4. p.block_next <= p.para_next => p.block_next <= tip + 1
      BY <3>1, <2>5, <2>7
    <3> QED
      BY <3>1, <3>3, <3>4, <2>5, <2>7, <2>9 DEF Aligned
  <2>13. q.safe = 0 => InOrder(q)
    BY <2>2, <2>9 DEF Started, InOrder
  <2>14. Good(q)
    BY <2>1, <2>2, <2>8, <2>9, <2>10, <2>11, <2>12, <2>13 DEF Good, Started
  <2>15. NotBehind(q, p)
    BY <1>1, <2>5, <2>7, <2>9, PhactoryFields DEF NotBehind
  <2> QED
    BY <2>9, <2>14, <2>15 DEF q
<1> QED
  BY <1>2, <1>3 DEF q

(* Not being behind is transitive.                                         *)
LEMMA NotBehindTransitive ==
    ASSUME NEW p \in Phactories, NEW q \in Phactories, NEW r \in Phactories,
           NotBehind(q, r), NotBehind(r, p)
    PROVE  NotBehind(q, p)
<1>1. ASSUME NEW x \in Phactories
      PROVE  /\ x.header_next \in Nat /\ x.para_next \in Nat /\ x.block_next \in Nat
             /\ Len(x.handled) \in Nat
  BY PhactoryFields
<1> QED
  BY SMTT(30), <1>1 DEF NotBehind

(* sync_combined_headers.                                                  *)
LEMMA SyncedCombinedGood ==
    ASSUME NEW p, Good(p), NEW hs, WithinRelay(hs), NEW phs \in Seq(HeaderTypes)
    PROVE  LET q == SyncedCombined(p, hs, phs)
           IN  /\ Good(q) /\ NotBehind(q, p)
               /\ q.rcu = p.rcu /\ q.safe = p.safe /\ q.applied = p.applied
               /\ q.pending = p.pending
<1> DEFINE r == SyncedHeaders(p, hs)
           q == SyncedParaHeaders(r, phs)
<1>1. /\ Good(r) /\ NotBehind(r, p) /\ r.rcu = p.rcu /\ r.safe = p.safe
      /\ r.applied = p.applied /\ r.pending = p.pending
  BY SyncedHeadersGood
<1> HIDE DEF r
<1>2. /\ Good(q) /\ NotBehind(q, r) /\ q.rcu = r.rcu /\ q.safe = r.safe
      /\ q.applied = r.applied /\ q.pending = r.pending
  BY <1>1, SyncedParaHeadersGood
<1> HIDE DEF q
<1>3. NotBehind(q, p)
  <2>1. p \in Phactories /\ q \in Phactories /\ r \in Phactories
    BY <1>1, <1>2 DEF Good
  <2> QED
    BY <2>1, <1>1, <1>2, NotBehindTransitive
<1>4. SyncedCombined(p, hs, phs) \in {q, r}
  BY DEF SyncedCombined, q, r
<1> QED
  BY <1>1, <1>2, <1>3, <1>4

(* load_chain_state: nothing was synced before.                            *)
LEMMA LoadedGood ==
    ASSUME NEW p, Good(p), p.safe = 0, p.can_load, p.kind # "none", CanAssume(p),
           NEW n \in Nat \ {0}, NEW state \in HeaderTypes
    PROVE  LET q == Loaded(p, n, state)
           IN  /\ Good(q) /\ NotBehind(q, p)
               /\ q.rcu = p.rcu /\ q.safe = p.safe /\ q.applied = p.applied
               /\ q.pending = p.pending
<1> DEFINE q == Loaded(p, n, state)
           pn == IF p.kind = "para" THEN n ELSE p.para_next
<1>1. p \in Phactories /\ Started(p) /\ ClientOK(p) /\ LoadOK(p)
      /\ p.kind \in {"solo", "para"}
  BY PhactoryFields DEF Good, Started
<1>2. /\ p.roots = << >> /\ p.relay_root = NoHeader /\ p.validated = FALSE
      /\ p.para_next = 0 /\ p.handled = << >> /\ p.block_next <= 1
      /\ p.kind = "solo" => p.header_next = 0
  BY <1>1 DEF LoadOK, CanAssume
<1>3. q = [p EXCEPT !.block_next = n + 1, !.para_next = pn, !.storage = state,
                    !.genesis = n, !.can_load = FALSE]
  BY <1>1 DEF Loaded, Phactories
<1>4. pn \in Nat /\ n \in Nat /\ n + 1 \in Nat /\ state \in HeaderTypes \cup {NoHeader}
  BY <1>2
<1> HIDE DEF q, pn
<1>5. q \in Phactories
  BY <1>1, <1>3, <1>4 DEF Phactories
<1>6. /\ q.block_next = n + 1 /\ q.para_next = pn /\ q.genesis = n
      /\ q.can_load = FALSE /\ q.kind = p.kind /\ q.safe = p.safe /\ q.rcu = p.rcu
      /\ q.header_next = p.header_next /\ q.relay_root = p.relay_root
      /\ q.roots = p.roots /\ q.validated = p.validated /\ q.bridge = p.bridge
      /\ q.handled = p.handled /\ q.applied = p.applied /\ q.pending = p.pending
  BY <1>1, <1>3 DEF Phactories
<1>7. ClientOK(q) /\ RootsFinal(q) /\ LoadOK(q)
  BY <1>1, <1>2, <1>6 DEF ClientOK, RootsFinal, LoadOK
<1>8. Aligned(q)
  <2>1. NextOf(q) - 1 < n /\ NextOf(q) - 1 \in Int
    BY <1>1, <1>2, <1>6 DEF NextOf, pn
  <2>2. Segment((n + 1) - 1, NextOf(q) - 1) = << >>
    BY <2>1 DEF Segment
  <2>3. q.kind = "para" => q.para_next = n
    BY <1>6 DEF pn
  <2> QED
    BY <2>2, <2>3, <1>2, <1>6 DEF Aligned
<1>9. InOrder(q)
  BY <1>2, <1>6 DEF InOrder
<1>10. NotBehind(q, p)
  <2>1. p.block_next \in Nat /\ p.header_next \in Nat
    BY <1>1, PhactoryFields
  <2> QED
    BY <2>1, <1>2, <1>4, <1>6 DEF NotBehind
<1>11. Good(q)
  BY <1>1, <1>5, <1>6, <1>7, <1>8, <1>9 DEF Good, Started
<1> QED
  BY <1>6, <1>10, <1>11 DEF q

(* The first block validates the state it starts from.                     *)
LEMMA ValidateGood ==
    ASSUME NEW p, Good(p), p.kind # "none", GenesisValid(p), p.safe < 2
    PROVE  LET q == Validate(p)
           IN  /\ Good(q) /\ NotBehind(q, p) /\ q.validated = TRUE
               /\ q.kind = p.kind /\ q.block_next = p.block_next
               /\ q.rcu = p.rcu /\ q.safe = p.safe /\ q.applied = p.applied
               /\ q.pending = p.pending
<1> DEFINE q == Validate(p)
<1>1. p \in Phactories /\ Started(p) /\ ClientOK(p) /\ RootsFinal(p) /\ Aligned(p)
  BY DEF Good, Started
<1>2. CASE p.validated
  <2>1. q = p /\ p.validated = TRUE
    BY <1>1, <1>2, PhactoryFields DEF Validate
  <2> QED
    BY <2>1, <1>1, PhactoryFields DEF NotBehind
<1>3. CASE ~p.validated
  <2> DEFINE bn == p.block_next
             hi == NextOf(p) - 1
  <2>1. p.roots # << >> /\ p.storage = Head(p.roots) /\ p.roots \in Seq(HeaderTypes)
        /\ p.roots = Segment(bn - 1, hi) /\ bn \in Nat /\ bn - 1 \in Nat /\ hi \in Int
    BY <1>1, <1>3, PhactoryFields DEF GenesisValid, Aligned, NextOf, Started
  <2>2. hi >= bn - 1 /\ NextOf(p) \in Nat
    <3>1. ~(hi < bn - 1)
      <4> HIDE DEF hi, bn
      <4> QED
        BY <2>1 DEF Segment
    <3>2. NextOf(p) \in Nat
      BY <1>1, PhactoryFields DEF NextOf
    <3> QED
      BY <3>1, <3>2, <2>1
  <2>3. p.roots[1] = Final(bn - 1) /\ Tail(p.roots) = Segment(bn, hi)
    <3> HIDE DEF hi, bn
    <3>1. Head(p.roots) = Final(bn - 1) /\ Tail(p.roots) = Segment((bn - 1) + 1, hi)
      BY <2>1, <2>2, SegmentHead
    <3> QED
      BY <2>1, <3>1
  <2>4. q = [p EXCEPT !.validated = TRUE, !.roots = Tail(p.roots)]
    BY <1>1, <1>3 DEF Validate, Phactories
  <2>5. Tail(p.roots) \in Seq(HeaderTypes)
    BY <2>1
  <2> HIDE DEF q
  <2>6. q \in Phactories
    BY <1>1, <2>4, <2>5 DEF Phactories
  <2>7. /\ q.validated = TRUE /\ q.roots = Tail(p.roots) /\ q.storage = p.storage
        /\ q.kind = p.kind /\ q.safe = p.safe /\ q.rcu = p.rcu /\ q.can_load = p.can_load
        /\ q.header_next = p.header_next /\ q.para_next = p.para_next
        /\ q.block_next = p.block_next /\ q.relay_root = p.relay_root
        /\ q.bridge = p.bridge /\ q.genesis = p.genesis /\ q.handled = p.handled
        /\ q.applied = p.applied /\ q.pending = p.pending
    BY <1>1, <2>4 DEF Phactories
  <2>8. q.storage = Final(bn - 1) /\ q.storage = p.roots[1]
    BY <2>1, <2>3, <2>7
  <2>9. ClientOK(q) /\ FinalTip(q) = FinalTip(p) /\ NextOf(q) = NextOf(p)
    BY <1>1, <2>7 DEF ClientOK, FinalTip, NextOf
  <2>10. LoadOK(q)
    BY <1>1, <2>1, <2>7 DEF Started, LoadOK
  <2>11. RootsFinal(q)
    <3>1. 1 \in 1..Len(p.roots) /\ \A i \in 1..Len(Tail(p.roots)) :
            i + 1 \in 1..Len(p.roots) /\ Tail(p.roots)[i] = p.roots[i + 1]
      BY <2>1
    <3> QED
      BY <3>1, <1>1, <2>7, <2>8, <2>9 DEF RootsFinal
  <2>12. Aligned(q)
    <3>1. q.roots = Segment(q.block_next, NextOf(q) - 1)
      BY <2>3, <2>7, <2>9
    <3>2. q.block_next <= NextOf(q) /\ q.storage = Final(q.block_next - 1)
      BY <2>1, <2>2, <2>7, <2>8, <2>9
    <3>3. q.kind = "para" => q.block_next - 1 <= q.para_next
      BY <1>1, <2>7 DEF Aligned
    <3> QED
      BY <2>7, <3>1, <3>2, <3>3 DEF Aligned
  <2>13. q.safe = 0 => InOrder(q)
    BY <1>1, <2>7 DEF Started, InOrder
  <2>14. Good(q)
    BY <1>1, <2>6, <2>7, <2>9, <2>10, <2>11, <2>12, <2>13 DEF Good, Started
  <2>15. NotBehind(q, p)
    BY <1>1, <2>7, PhactoryFields DEF NotBehind
  <2> QED
    BY <2>7, <2>14, <2>15 DEF q
<1> QED
  BY <1>2, <1>3 DEF q

(* A queued root becomes the state.                                        *)
LEMMA NextRootGood ==
    ASSUME NEW p \in Phactories, Started(p), p.kind # "none", p.roots # << >>
    PROVE  LET q == NextRoot(p)
           IN  /\ q \in Phactories /\ NotBehind(q, p)
               /\ q.block_next = p.block_next + 1 /\ q.storage = Head(p.roots)
               /\ q.roots = Tail(p.roots) /\ q.can_load = FALSE
               /\ q.kind = p.kind /\ q.safe = p.safe /\ q.rcu = p.rcu
               /\ q.validated = p.validated /\ q.para_next = p.para_next
               /\ q.header_next = p.header_next
               /\ q.genesis = p.genesis /\ q.handled = p.handled
               /\ q.applied = p.applied /\ q.pending = p.pending
               /\ ClientOK(q) /\ RootsFinal(q) /\ LoadOK(q)
<1> DEFINE q == NextRoot(p)
<1>1. p.roots \in Seq(HeaderTypes) /\ Tail(p.roots) \in Seq(HeaderTypes)
      /\ Head(p.roots) \in HeaderTypes \cup {NoHeader} /\ Head(p.roots) = p.roots[1]
      /\ 1 \in 1..Len(p.roots)
  BY PhactoryFields
<1>2. q = [p EXCEPT !.block_next = p.block_next + 1, !.storage = Head(p.roots),
                    !.roots = Tail(p.roots)]
  BY DEF NextRoot, Phactories
<1>3. p.can_load = FALSE /\ p.block_next + 1 \in Nat /\ p.block_next \in Nat
  BY PhactoryFields DEF Started, LoadOK
<1> HIDE DEF q
<1>4. q \in Phactories
  BY <1>1, <1>2, <1>3 DEF Phactories
<1>5. /\ q.block_next = p.block_next + 1 /\ q.storage = Head(p.roots)
      /\ q.roots = Tail(p.roots) /\ q.can_load = p.can_load
      /\ q.kind = p.kind /\ q.safe = p.safe /\ q.rcu = p.rcu
      /\ q.validated = p.validated /\ q.para_next = p.para_next
      /\ q.header_next = p.header_next /\ q.relay_root = p.relay_root
      /\ q.bridge = p.bridge /\ q.genesis = p.genesis /\ q.handled = p.handled
      /\ q.applied = p.applied /\ q.pending = p.pending
  BY <1>2 DEF Phactories
<1>6. ClientOK(q) /\ LoadOK(q) /\ FinalTip(q) = FinalTip(p)
  BY <1>3, <1>5 DEF Started, ClientOK, LoadOK, FinalTip
<1>7. RootsFinal(q)
  <2>1. \A i \in 1..Len(Tail(p.roots)) :
          i + 1 \in 1..Len(p.roots) /\ Tail(p.roots)[i] = p.roots[i + 1]
    BY <1>1
  <2> QED
    BY <1>1, <1>5, <1>6, <2>1 DEF Started, RootsFinal
<1>8. NotBehind(q, p)
  BY <1>3, <1>5, PhactoryFields DEF NotBehind
<1> QED
  BY <1>3, <1>4, <1>5, <1>6, <1>7, <1>8 DEF q

(* A block that passes feed_block is handled on the state of that block.   *)
LEMMA DispatchGood ==
    ASSUME NEW p, Good(p), p.kind # "none", NEW b \in HeaderTypes, ~FeedFails(p, b)
    PROVE  LET q == Handle(Fed(p, b), b)
           IN  /\ Good(q) /\ NotBehind(q, p) /\ q.kind = p.kind
               /\ q.rcu = p.rcu /\ q.safe = p.safe /\ q.applied = p.applied
               /\ q.pending = p.pending
<1>1. p \in Phactories /\ Started(p) /\ b.n = p.block_next /\ p.safe \in 0..2
  BY PhactoryFields DEF Good, FeedFails
<1>2. CASE p.safe = 2
  <2> DEFINE q == NextRoot(p)
  <2>1. Handle(Fed(p, b), b) = q
    <3>1. Fed(p, b) = q
      BY <1>2 DEF Fed
    <3>2. q.safe = 2
      BY <1>1, <1>2, NextRootGood DEF FeedFails
    <3> QED
      BY <3>1, <3>2 DEF Handle
  <2>2. p.roots # << >>
    BY <1>2 DEF FeedFails
  <2>3. /\ q \in Phactories /\ NotBehind(q, p)
        /\ q.block_next = p.block_next + 1 /\ q.kind = p.kind /\ q.safe = p.safe
        /\ q.rcu = p.rcu /\ q.applied = p.applied /\ q.pending = p.pending
        /\ ClientOK(q) /\ RootsFinal(q) /\ LoadOK(q)
    BY <1>1, <2>2, NextRootGood
  <2>4. p.block_next \in Nat
    BY <1>1, PhactoryFields
  <2> HIDE DEF q
  <2>5. Good(q)
    BY <1>2, <2>3, <2>4 DEF Good, Started
  <2> QED
    BY <2>1, <2>3, <2>5
<1>3. CASE p.safe < 2
  <2> DEFINE v == Validate(p)
             r == NextRoot(v)
             q == Handle(r, b)
  <2>1. GenesisValid(p) /\ RootMatches(v, b)
    BY <1>1, <1>3 DEF FeedFails
  <2>2. /\ Good(v) /\ NotBehind(v, p) /\ v.validated = TRUE /\ v.kind = p.kind
        /\ v.block_next = p.block_next /\ v.rcu = p.rcu /\ v.safe = p.safe
        /\ v.applied = p.applied /\ v.pending = p.pending
    BY <1>3, <2>1, ValidateGood
  <2>3. Fed(p, b) = r
    BY <1>1, <1>3 DEF Fed
  <2>4. v.roots # << >>
    BY <2>1 DEF RootMatches
  <2> HIDE DEF v
  <2>5. v \in Phactories /\ Started(v) /\ Aligned(v)
    BY <1>3, <2>2 DEF Good, Started
  <2>6. /\ r \in Phactories /\ NotBehind(r, v)
        /\ r.block_next = v.block_next + 1 /\ r.storage = Head(v.roots)
        /\ r.roots = Tail(v.roots) /\ r.can_load = FALSE
        /\ r.kind = v.kind /\ r.safe = v.safe /\ r.rcu = v.rcu
        /\ r.validated = TRUE /\ r.para_next = v.para_next
        /\ r.header_next = v.header_next
        /\ r.genesis = v.genesis /\ r.handled = v.handled
        /\ r.applied = v.applied /\ r.pending = v.pending
        /\ ClientOK(r) /\ RootsFinal(r) /\ LoadOK(r)
    BY <2>2, <2>4, <2>5, NextRootGood
  <2> HIDE DEF r
  <2> DEFINE bn == v.block_next
             hi == NextOf(v) - 1
  <2>7. /\ v.roots = Segment(bn, hi) /\ bn \in Nat /\ bn > 0 /\ hi \in Int /\ bn <= hi
        /\ NextOf(r) = hi + 1
        /\ v.kind = "para" => bn - 1 <= v.para_next
        /\ v.kind = "para" => v.para_next = hi + 1
    <3>1. v.roots = Segment(bn, hi) /\ bn \in Nat /\ bn > 0 /\ NextOf(v) \in Nat
      BY <2>2, <2>5, PhactoryFields DEF Aligned, Started, NextOf
    <3>2. ~(hi < bn)
      BY <2>4, <3>1 DEF Segment
    <3> QED
      BY <2>5, <2>6, <3>1, <3>2 DEF Aligned, NextOf
  <2>8. r.storage = Final(bn) /\ r.roots = Segment(bn + 1, hi)
    <3> HIDE DEF bn, hi
    <3> QED
      BY <2>6, <2>7, SegmentHead
  <2>9. Aligned(r)
    <3>1. r.roots = Segment(r.block_next, NextOf(r) - 1)
      <4>1. NextOf(r) - 1 = hi /\ r.block_next = bn + 1
        BY <2>6, <2>7
      <4> HIDE DEF bn, hi
      <4> QED
        BY <2>8, <4>1
    <3>2. r.storage = Final(r.block_next - 1) /\ r.block_next <= NextOf(r)
      BY <2>6, <2>7, <2>8
    <3>3. r.kind = "para" => r.block_next - 1 <= r.para_next
      BY <2>6, <2>7
    <3> QED
      BY <2>6, <3>1, <3>2, <3>3 DEF Aligned
  <2>10. NotBehind(r, p)
    BY <1>1, <2>2, <2>5, <2>6, NotBehindTransitive
  <2>11. CASE p.safe > 0
    <3>1. q = r
      BY <2>2, <2>6, <2>11 DEF Handle
    <3>2. Good(r)
      BY <2>2, <2>6, <2>7, <2>9, <2>11 DEF Good, Started
    <3> QED
      BY <2>2, <2>3, <2>6, <2>10, <3>1, <3>2
  <2>12. CASE p.safe = 0
    <3> DEFINE done == [n |-> b.n, state |-> r.storage]
    <3>1. q = [r EXCEPT !.handled = Append(r.handled, done)]
      BY <2>2, <2>6, <2>12 DEF Handle, Phactories
    <3>2. done \in [n : Nat, state : HeaderTypes \cup {NoHeader}]
          /\ done = [n |-> bn, state |-> Final(bn)]
      BY <1>1, <2>2, <2>7, <2>8, FinalType
    <3>3. /\ r.handled \in Seq([n : Nat, state : HeaderTypes \cup {NoHeader}])
          /\ r.genesis \in Nat
          /\ Append(r.handled, done) \in Seq([n : Nat, state : HeaderTypes \cup {NoHeader}])
      <4> DEFINE S == [n : Nat, state : HeaderTypes \cup {NoHeader}]
      <4>1. r.handled \in Seq(S) /\ r.genesis \in Nat /\ done \in S
        BY <2>6, <3>2, PhactoryFields
      <4> HIDE DEF done, S
      <4>2. Append(r.handled, done) \in Seq(S)
        BY <4>1
      <4> QED
        BY <4>1, <4>2 DEF S
    <3> HIDE DEF q, done
    <3>4. q \in Phactories
      BY <2>6, <3>1, <3>3 DEF Phactories
    <3>5. /\ q.handled = Append(r.handled, done) /\ q.genesis = r.genesis
          /\ q.block_next = r.block_next /\ q.storage = r.storage
          /\ q.roots = r.roots /\ q.can_load = r.can_load
          /\ q.kind = r.kind /\ q.safe = r.safe /\ q.rcu = r.rcu
          /\ q.validated = r.validated /\ q.para_next = r.para_next
          /\ q.header_next = r.header_next /\ q.relay_root = r.relay_root
          /\ q.bridge = r.bridge /\ q.applied = r.applied /\ q.pending = r.pending
      BY <2>6, <3>1 DEF Phactories
    <3>6. ClientOK(q) /\ RootsFinal(q) /\ LoadOK(q) /\ Aligned(q)
      BY <2>6, <2>9, <3>5 DEF ClientOK, RootsFinal, LoadOK, Aligned, FinalTip, NextOf
    <3>7. InOrder(q)
      <4>1. /\ r.genesis + Len(r.handled) = bn - 1
            /\ \A i \in 1..Len(r.handled) :
                 r.handled[i] = [n |-> r.genesis + i, state |-> Final(r.genesis + i)]
        BY <2>2, <2>5, <2>6, <2>12 DEF Started, InOrder
      <4>2. Len(q.handled) = Len(r.handled) + 1 /\ Len(r.handled) \in Nat
            /\ q.handled[Len(r.handled) + 1] = done
            /\ \A i \in 1..Len(r.handled) : q.handled[i] = r.handled[i]
        BY <3>3, <3>5
      <4>3. r.genesis + (Len(r.handled) + 1) = bn
        <5>1. r.genesis \in Nat /\ Len(r.handled) \in Nat /\ bn \in Nat
              /\ r.genesis + Len(r.handled) = bn - 1
          BY <2>7, <3>3, <4>1, <4>2
        <5> HIDE DEF bn
        <5> QED
          BY <5>1
      <4>4. ASSUME NEW i \in 1..Len(q.handled)
            PROVE  q.handled[i] = [n |-> q.genesis + i, state |-> Final(q.genesis + i)]
        <5>1. CASE i \in 1..Len(r.handled)
          BY <3>5, <4>1, <4>2, <5>1
        <5>2. CASE i = Len(r.handled) + 1
          BY <3>2, <3>5, <4>2, <4>3, <5>2
        <5> QED
          BY <4>2, <5>1, <5>2
      <4>5. q.genesis + Len(q.handled) = bn /\ q.block_next - 1 = bn
        BY <2>6, <2>7, <3>5, <4>2, <4>3
      <4> QED
        BY <4>4, <4>5 DEF InOrder
    <3>8. Good(q)
      BY <2>2, <2>6, <2>7, <3>4, <3>5, <3>6, <3>7 DEF Good, Started
    <3>9. NotBehind(q, r)
      BY <2>6, <3>3, <3>5, PhactoryFields DEF NotBehind
    <3>10. NotBehind(q, p)
      BY <1>1, <2>6, <2>10, <3>4, <3>9, NotBehindTransitive
    <3> QED
      BY <2>2, <2>3, <2>6, <3>5, <3>8, <3>10 DEF q
  <2> QED
    BY <1>1, <2>11, <2>12
<1> QED
  BY <1>1, <1>2, <1>3

(* What a block that fails leaves behind.                                  *)
LEMMA FedInVainGood ==
    ASSUME NEW p, Good(p), p.kind # "none", NEW b \in HeaderTypes
    PROVE  LET q == FedInVain(p, b)
           IN  /\ Good(q) /\ NotBehind(q, p) /\ q.kind = p.kind
               /\ q.rcu = p.rcu /\ q.safe = p.safe /\ q.applied = p.applied
               /\ q.pending = p.pending
<1> DEFINE q == FedInVain(p, b)
           r == [p EXCEPT !.block_next = @ + 1]
<1>1. p \in Phactories /\ Started(p) /\ p.safe \in 0..2 /\ p.block_next \in Nat
  BY PhactoryFields DEF Good
<1>2. CASE q = p
  BY <1>1, <1>2, PhactoryFields DEF NotBehind
<1>3. CASE p.safe = 2 /\ q = r
  <2>1. p.block_next + 1 \in Nat
    BY <1>1
  <2>2. r \in Phactories
    BY <1>1, <2>1 DEF Phactories
  <2>3. /\ r.block_next = p.block_next + 1 /\ r.storage = p.storage
        /\ r.roots = p.roots /\ r.can_load = p.can_load
        /\ r.kind = p.kind /\ r.safe = p.safe /\ r.rcu = p.rcu
        /\ r.validated = p.validated /\ r.para_next = p.para_next
        /\ r.header_next = p.header_next /\ r.relay_root = p.relay_root
        /\ r.bridge = p.bridge /\ r.genesis = p.genesis /\ r.handled = p.handled
        /\ r.applied = p.applied /\ r.pending = p.pending
    BY <1>1 DEF Phactories
  <2> HIDE DEF r
  <2>4. ClientOK(r) /\ RootsFinal(r) /\ LoadOK(r)
    BY <1>1, <2>3 DEF Started, ClientOK, RootsFinal, LoadOK, FinalTip
  <2>5. Good(r)
    BY <1>1, <1>3, <2>1, <2>2, <2>3, <2>4 DEF Good, Started
  <2>6. NotBehind(r, p)
    BY <1>1, <2>3, PhactoryFields DEF NotBehind
  <2> QED
    BY <1>3, <2>3, <2>5, <2>6
<1>4. CASE p.safe < 2 /\ GenesisValid(p) /\ q = Validate(p)
  BY <1>4, ValidateGood
<1> QED
  BY <1>1, <1>2, <1>3, <1>4 DEF FedInVain

-----------------------------------------------------------------------------
(* One lemma for each kind of step.                                        *)

(* What a step keeps.                                                      *)
StepOK == IInv' /\ (restarts' = restarts => NotBehind(ph', ph))

(* A new process.                                                          *)
LEMMA NewGood ==
    ASSUME NEW safe \in 0..2
    PROVE  /\ Good(New(safe)) /\ New(safe).kind = "none" /\ New(safe).rcu = FALSE
           /\ New(safe).safe = safe /\ New(safe).pending = {}
           /\ New(safe).applied = {}
<1>1. New(safe) \in Phactories
  <2>1. << >> \in Seq(HeaderTypes)
        /\ << >> \in Seq([n : Nat, state : HeaderTypes \cup {NoHeader}])
    OBVIOUS
  <2> QED
    BY <2>1 DEF New, Phactories
<1>2. /\ New(safe).kind = "none" /\ New(safe).rcu = FALSE
      /\ New(safe).safe = safe /\ New(safe).pending = {} /\ New(safe).applied = {}
      /\ Untouched(New(safe))
  BY DEF New, Untouched
<1> QED
  BY <1>1, <1>2 DEF Good

(* No dispatch.                                                            *)
LEMMA IdleGood ==
    /\ Idle \in [on : BOOLEAN, rcu : BOOLEAN, p : Phactories, blocks : Seq(HeaderTypes)]
    /\ Good(Idle.p) /\ Idle.p.rcu = FALSE /\ Idle.p.pending = {}
    /\ Idle.p.kind = "none" /\ Idle.rcu = FALSE /\ Idle.on = FALSE
<1>1. 0 \in 0..2
  OBVIOUS
<1>2. /\ Good(New(0)) /\ New(0).kind = "none" /\ New(0).rcu = FALSE
      /\ New(0).pending = {}
  BY <1>1, NewGood
<1>3. New(0) \in Phactories
  BY <1>2 DEF Good
<1>4. Idle.p = New(0) /\ Idle.rcu = FALSE /\ Idle.on = FALSE
  BY DEF Idle
<1>5. Idle \in [on : BOOLEAN, rcu : BOOLEAN, p : Phactories, blocks : Seq(HeaderTypes)]
  BY <1>3 DEF Idle
<1> QED
  BY <1>2, <1>4, <1>5

(* Whoever gets the lock and asks for no dispatch to run finds none.       *)
LEMMA LockedIdle ==
    ASSUME IInv, NEW safemode, LockPhactory(FALSE, safemode)
    PROVE  ph.rcu = FALSE /\ task.rcu = FALSE /\ task.on = FALSE
<1>1. ph.rcu \in BOOLEAN /\ task.on \in BOOLEAN /\ task.rcu \in BOOLEAN
      /\ ph.rcu = task.rcu
  BY PhactoryFields DEF IInv, TypeOK
<1> QED
  BY <1>1 DEF LockPhactory

(* A request that changes the Phactory under the lock.                     *)
LEMMA RequestStep ==
    ASSUME IInv, NEW safemode, LockPhactory(FALSE, safemode),
           Good(ph'), NotBehind(ph', ph), ph'.rcu = ph.rcu,
           ph'.applied = ph.applied, ph'.pending = ph.pending,
           UNCHANGED <<task, ckpt, accepted, restarts>>, strays' \in 0..MaxStray
    PROVE  StepOK
<1>1. ph.rcu = FALSE /\ task.rcu = FALSE /\ task.on = FALSE
  BY LockedIdle
<1>2. TypeOK'
  BY DEF IInv, TypeOK, Good
<1>3. TaskOK'
  BY <1>1 DEF IInv, TaskOK
<1>4. CheckpointOK' /\ EffectsKept'
  BY DEF IInv, CheckpointOK, EffectsKept
<1>5. IsFiniteSet(ph'.pending) /\ (ph'.rcu = FALSE => ph'.pending = {})
  BY DEF IInv
<1> QED
  BY <1>2, <1>3, <1>4, <1>5 DEF IInv, StepOK

(* init_runtime.                                                           *)
LEMMA InitRuntimeStep ==
    ASSUME IInv, NEW kind \in Kinds, InitRuntime(kind)
    PROVE  StepOK
<1>1. /\ LockPhactory(FALSE, FALSE) /\ ph.kind = "none" /\ ph' = InitSync(ph, kind)
      /\ UNCHANGED <<task, ckpt, accepted, strays, restarts>>
  BY DEF InitRuntime
<1>2. kind \in {"solo", "para"} /\ Good(ph) /\ strays \in 0..MaxStray
  BY ConstantsAssumption DEF IInv, TypeOK
<1>3. /\ Good(ph') /\ NotBehind(ph', ph) /\ ph'.rcu = ph.rcu
      /\ ph'.applied = ph.applied /\ ph'.pending = ph.pending
  BY <1>1, <1>2, InitSyncGood
<1> QED
  BY <1>1, <1>2, <1>3, RequestStep

(* sync_header.                                                            *)
LEMMA SyncHeaderStep ==
    ASSUME IInv, NEW hs, WithinRelay(hs), SyncHeader(hs), strays' \in 0..MaxStray
    PROVE  StepOK
<1>1. /\ LockPhactory(FALSE, TRUE) /\ ph' = SyncedHeaders(ph, hs) /\ Good(ph)
      /\ UNCHANGED <<task, ckpt, accepted, restarts>>
  BY DEF SyncHeader, IInv
<1>2. /\ Good(ph') /\ NotBehind(ph', ph) /\ ph'.rcu = ph.rcu
      /\ ph'.applied = ph.applied /\ ph'.pending = ph.pending
  BY <1>1, SyncedHeadersGood
<1> QED
  BY <1>1, <1>2, RequestStep

(* sync_para_header.                                                       *)
LEMMA SyncParaHeaderStep ==
    ASSUME IInv, NEW hs \in Seq(HeaderTypes), SyncParaHeader(hs), strays' \in 0..MaxStray
    PROVE  StepOK
<1>1. /\ LockPhactory(FALSE, TRUE) /\ ph' = SyncedParaHeaders(ph, hs) /\ Good(ph)
      /\ UNCHANGED <<task, ckpt, accepted, restarts>>
  BY DEF SyncParaHeader, IInv
<1>2. /\ Good(ph') /\ NotBehind(ph', ph) /\ ph'.rcu = ph.rcu
      /\ ph'.applied = ph.applied /\ ph'.pending = ph.pending
  BY <1>1, SyncedParaHeadersGood
<1> QED
  BY <1>1, <1>2, RequestStep

(* sync_combined_headers.                                                  *)
LEMMA SyncCombinedHeadersStep ==
    ASSUME IInv, NEW hs, WithinRelay(hs), NEW phs \in Seq(HeaderTypes),
           SyncCombinedHeaders(hs, phs), strays' \in 0..MaxStray
    PROVE  StepOK
<1>1. /\ LockPhactory(FALSE, TRUE) /\ ph' = SyncedCombined(ph, hs, phs) /\ Good(ph)
      /\ UNCHANGED <<task, ckpt, accepted, restarts>>
  BY DEF SyncCombinedHeaders, IInv
<1>2. /\ Good(ph') /\ NotBehind(ph', ph) /\ ph'.rcu = ph.rcu
      /\ ph'.applied = ph.applied /\ ph'.pending = ph.pending
  BY <1>1, SyncedCombinedGood
<1> QED
  BY <1>1, <1>2, RequestStep

(* load_chain_state.                                                       *)
LEMMA LoadChainStateStep ==
    ASSUME IInv, NEW n \in Nat, NEW state \in HeaderTypes, LoadChainState(n, state),
           strays' \in 0..MaxStray
    PROVE  StepOK
<1>1. /\ LockPhactory(FALSE, FALSE) /\ ph' = Loaded(ph, n, state) /\ Good(ph)
      /\ ph.can_load /\ n > 0 /\ ph.kind # "none" /\ CanAssume(ph)
      /\ UNCHANGED <<task, ckpt, accepted, restarts>>
  BY DEF LoadChainState, IInv
<1>0. n \in Nat \ {0}
  BY <1>1
<1>2. ph.safe = 0
  BY <1>1 DEF LockPhactory
<1>3. /\ Good(ph') /\ NotBehind(ph', ph) /\ ph'.rcu = ph.rcu
      /\ ph'.applied = ph.applied /\ ph'.pending = ph.pending
  BY <1>0, <1>1, <1>2, LoadedGood
<1> QED
  BY <1>1, <1>3, RequestStep

(* What a checkpoint keeps.                                                *)
LEMMA DumpGood ==
    ASSUME NEW p, Good(p), p.safe = 0
    PROVE  /\ Good(Dump(p)) /\ Dump(p).safe = 0 /\ Dump(p).rcu = FALSE
           /\ Dump(p).pending = {}
<1> DEFINE q == Dump(p)
<1>1. p \in Phactories
  BY DEF Good
<1>2. q \in Phactories
  BY <1>1 DEF Dump, Phactories
<1>3. /\ q.kind = p.kind /\ q.header_next = p.header_next
      /\ q.block_next = p.block_next /\ q.para_next = p.para_next
      /\ q.relay_root = p.relay_root /\ q.roots = p.roots
      /\ q.validated = p.validated /\ q.bridge = p.bridge
      /\ q.storage = p.storage /\ q.genesis = p.genesis /\ q.handled = p.handled
      /\ q.can_load = FALSE /\ q.safe = p.safe /\ q.rcu = FALSE /\ q.pending = {}
  BY <1>1 DEF Dump, Phactories
<1> HIDE DEF q
<1>4. SameSync(q, p)
  BY <1>3 DEF SameSync
<1> QED
  BY <1>2, <1>3, <1>4, SameSyncGood DEF q

(* dispatch_blocks takes the clone.                                        *)
LEMMA StartDispatchStep ==
    ASSUME IInv, NEW blocks \in Seq(HeaderTypes), StartDispatch(blocks),
           strays' \in 0..MaxStray
    PROVE  StepOK
<1>1. /\ LockPhactory(FALSE, TRUE) /\ ph.kind # "none"
      /\ UNCHANGED <<ckpt, accepted, restarts>>
  BY DEF StartDispatch
<1>2. PICK rcu \in BOOLEAN :
        /\ task' = [on |-> TRUE, rcu |-> rcu, p |-> ph,
                    blocks |-> Retain(blocks, ph.block_next)]
        /\ ph' = [ph EXCEPT !.rcu = rcu]
  BY DEF StartDispatch
<1>3. ph.rcu = FALSE /\ ph.pending = {} /\ Good(ph) /\ ph \in Phactories
  BY <1>1, LockedIdle DEF IInv, Good
<1>4. ph' \in Phactories
  BY <1>2, <1>3 DEF Phactories
<1>5. /\ ph'.kind = ph.kind /\ ph'.header_next = ph.header_next
      /\ ph'.block_next = ph.block_next /\ ph'.para_next = ph.para_next
      /\ ph'.relay_root = ph.relay_root /\ ph'.roots = ph.roots
      /\ ph'.validated = ph.validated /\ ph'.bridge = ph.bridge
      /\ ph'.storage = ph.storage /\ ph'.genesis = ph.genesis
      /\ ph'.handled = ph.handled /\ ph'.can_load = ph.can_load
      /\ ph'.safe = ph.safe /\ ph'.rcu = rcu
      /\ ph'.applied = ph.applied /\ ph'.pending = ph.pending
  BY <1>2, <1>3 DEF Phactories
<1>6. SameSync(ph', ph)
  BY <1>5 DEF SameSync
<1>7. Good(ph') /\ NotBehind(ph', ph)
  BY <1>3, <1>4, <1>6, SameSyncGood
<1>8. Retain(blocks, ph.block_next) \in Seq(HeaderTypes)
  BY RetainType
<1>9. /\ task' \in [on : BOOLEAN, rcu : BOOLEAN, p : Phactories, blocks : Seq(HeaderTypes)]
      /\ task'.on = TRUE /\ task'.rcu = rcu /\ task'.p = ph
  BY <1>2, <1>3, <1>8
<1>10. Cardinality(ph'.pending) = 0 /\ MAX_PENDING \in Nat /\ IsFiniteSet(ph'.pending)
  BY <1>3, <1>5, FS_EmptySet, ConstantsAssumption
<1>11. TypeOK'
  BY <1>1, <1>4, <1>5, <1>9, <1>10 DEF IInv, TypeOK
<1>12. NotBehind(ph, ph')
  BY <1>3, <1>5, PhactoryFields DEF NotBehind
<1>13. TaskOK'
  BY <1>1, <1>3, <1>5, <1>9, <1>12 DEF TaskOK
<1>14. CheckpointOK' /\ EffectsKept'
  BY <1>1, <1>5 DEF IInv, CheckpointOK, EffectsKept
<1> QED
  BY <1>3, <1>5, <1>7, <1>10, <1>11, <1>13, <1>14 DEF IInv, StepOK

(* What dispatching a block leaves of the task: r and the blocks bs.       *)
Dispatched(r, bs) ==
    /\ r \in Phactories /\ bs \in Seq(HeaderTypes)
    /\ task' = [task EXCEPT !.p = r, !.blocks = bs]
    /\ Good(r) /\ NotBehind(r, task.p) /\ r.kind = task.p.kind
    /\ r.rcu = task.p.rcu /\ r.applied = task.p.applied
    /\ r.pending = task.p.pending
    /\ UNCHANGED ckpt \/ (r.safe = 0 /\ ckpt' = Dump(r))

(* One block of a dispatch, and maybe a checkpoint after it.               *)
LEMMA DispatchBlockStep ==
    ASSUME IInv, DispatchBlock
    PROVE  StepOK
<1> DEFINE b == Head(task.blocks)
           q == Handle(Fed(task.p, b), b)
           v == FedInVain(task.p, b)
<1>1. /\ task.on /\ task.blocks # << >>
      /\ UNCHANGED <<ph, accepted, strays, restarts>>
      /\ \/ /\ FeedFails(task.p, b)
            /\ task' = [task EXCEPT !.p = v, !.blocks = << >>]
            /\ UNCHANGED ckpt
         \/ /\ ~FeedFails(task.p, b)
            /\ task' = [task EXCEPT !.p = q, !.blocks = Tail(@)]
            /\ UNCHANGED ckpt \/ (q.safe = 0 /\ ckpt' = Dump(q))
  BY DEF DispatchBlock
<1>2. /\ task \in [on : BOOLEAN, rcu : BOOLEAN, p : Phactories, blocks : Seq(HeaderTypes)]
      /\ Good(task.p) /\ task.p.kind # "none" /\ task.p.rcu = FALSE
      /\ task.p.pending = {} /\ NotBehind(task.p, ph)
      /\ task.p.applied = ph.applied /\ ph \in Phactories
  BY <1>1 DEF IInv, TypeOK, TaskOK
<1>3. b \in HeaderTypes /\ Tail(task.blocks) \in Seq(HeaderTypes)
      /\ << >> \in Seq(HeaderTypes)
  BY <1>1, <1>2
<1> HIDE DEF b
<1>4. \E r, bs : Dispatched(r, bs)
  <2>1. CASE FeedFails(task.p, b)
    <3>1. /\ Good(v) /\ NotBehind(v, task.p) /\ v.kind = task.p.kind
          /\ v.rcu = task.p.rcu /\ v.applied = task.p.applied
          /\ v.pending = task.p.pending /\ v \in Phactories
      BY <1>2, <1>3, FedInVainGood DEF Good
    <3> HIDE DEF v
    <3>2. Dispatched(v, << >>)
      BY <1>1, <1>3, <2>1, <3>1 DEF Dispatched
    <3> QED
      BY <3>2
  <2>2. CASE ~FeedFails(task.p, b)
    <3>1. /\ Good(q) /\ NotBehind(q, task.p) /\ q.kind = task.p.kind
          /\ q.rcu = task.p.rcu /\ q.applied = task.p.applied
          /\ q.pending = task.p.pending /\ q \in Phactories
      BY <1>2, <1>3, <2>2, DispatchGood DEF Good
    <3>2. task' = [task EXCEPT !.p = q, !.blocks = Tail(task.blocks)]
      BY <1>1, <1>2, <2>2
    <3> HIDE DEF q
    <3>3. Dispatched(q, Tail(task.blocks))
      BY <1>1, <1>3, <2>2, <3>1, <3>2 DEF Dispatched
    <3> QED
      BY <3>3
  <2> QED
    BY <2>1, <2>2
<1>5. PICK r, bs : Dispatched(r, bs)
  BY <1>4
<1>6. /\ task' \in [on : BOOLEAN, rcu : BOOLEAN, p : Phactories, blocks : Seq(HeaderTypes)]
      /\ task'.on = task.on /\ task'.rcu = task.rcu /\ task'.p = r
  BY <1>2, <1>5 DEF Dispatched
<1>7. NotBehind(r, ph)
  <2>1. task.p \in Phactories
    BY <1>2
  <2> QED
    BY <1>2, <1>5, <2>1, NotBehindTransitive DEF Dispatched
<1>8. TaskOK'
  BY <1>1, <1>2, <1>5, <1>6, <1>7 DEF TaskOK, Dispatched
<1>9. CheckpointOK' /\ ckpt' \in Phactories
  <2>1. CASE UNCHANGED ckpt
    BY <2>1 DEF IInv, TypeOK, CheckpointOK
  <2>2. CASE r.safe = 0 /\ ckpt' = Dump(r)
    BY <1>5, <2>2, DumpGood DEF CheckpointOK, Good, Dispatched
  <2> QED
    BY <1>5, <2>1, <2>2 DEF Dispatched
<1>10. TypeOK' /\ EffectsKept'
  BY <1>1, <1>6, <1>9 DEF IInv, TypeOK, EffectsKept
<1>11. NotBehind(ph', ph)
  BY <1>1, <1>2, PhactoryFields DEF NotBehind
<1> QED
  BY <1>1, <1>8, <1>9, <1>10, <1>11 DEF IInv, StepOK

(* The clone replaces the Phactory.                                        *)
LEMMA FinishDispatchStep ==
    ASSUME IInv, FinishDispatch
    PROVE  StepOK
<1>1. /\ task.on /\ task' = Idle /\ UNCHANGED <<ckpt, accepted, strays, restarts>>
      /\ ph' = [task.p EXCEPT !.applied = task.p.applied \cup ph.pending]
  <2>1. task.p \in Phactories
    BY DEF IInv, TypeOK
  <2> QED
    BY <2>1 DEF FinishDispatch, Phactories
<1>2. /\ task.p \in Phactories /\ ph \in Phactories /\ Good(task.p)
      /\ task.p.rcu = FALSE /\ task.p.pending = {} /\ NotBehind(task.p, ph)
      /\ task.p.applied = ph.applied
  BY <1>1 DEF IInv, TypeOK, TaskOK
<1> DEFINE applied == task.p.applied \cup ph.pending
<1>3. applied \in SUBSET Effects
  BY <1>2, PhactoryFields
<1> HIDE DEF applied
<1>4. ph' = [task.p EXCEPT !.applied = applied]
  BY <1>1 DEF applied
<1>5. ph' \in Phactories
  BY <1>2, <1>3, <1>4 DEF Phactories
<1>6. /\ ph'.kind = task.p.kind /\ ph'.header_next = task.p.header_next
      /\ ph'.block_next = task.p.block_next /\ ph'.para_next = task.p.para_next
      /\ ph'.relay_root = task.p.relay_root /\ ph'.roots = task.p.roots
      /\ ph'.validated = task.p.validated /\ ph'.bridge = task.p.bridge
      /\ ph'.storage = task.p.storage /\ ph'.genesis = task.p.genesis
      /\ ph'.handled = task.p.handled /\ ph'.can_load = task.p.can_load
      /\ ph'.safe = task.p.safe /\ ph'.rcu = FALSE
      /\ ph'.applied = applied /\ ph'.pending = {}
  BY <1>2, <1>4 DEF Phactories
<1>7. SameSync(ph', task.p)
  BY <1>6 DEF SameSync
<1>8. Good(ph') /\ NotBehind(ph', task.p)
  BY <1>2, <1>5, <1>7, SameSyncGood
<1>9. NotBehind(ph', ph)
  BY <1>2, <1>5, <1>8, NotBehindTransitive
<1>10. Cardinality(ph'.pending) = 0 /\ IsFiniteSet(ph'.pending)
  BY <1>6, FS_EmptySet
<1>11. TypeOK'
  <2>1. /\ task' \in [on : BOOLEAN, rcu : BOOLEAN, p : Phactories, blocks : Seq(HeaderTypes)]
        /\ task'.rcu = FALSE
    BY <1>1, IdleGood
  <2>2. strays \in 0..MaxStray /\ restarts \in 0..MaxRestarts /\ accepted \subseteq Effects
        /\ ckpt \in Phactories
    BY DEF IInv, TypeOK
  <2>3. Cardinality(ph'.pending) <= IF ph'.rcu THEN MAX_PENDING ELSE 0
    BY <1>6, <1>10
  <2> QED
    BY <1>1, <1>5, <1>6, <2>1, <2>2, <2>3 DEF TypeOK
<1>12. TaskOK'
  BY <1>1, IdleGood DEF TaskOK
<1>13. CheckpointOK' /\ EffectsKept'
  BY <1>1, <1>2, <1>6 DEF IInv, CheckpointOK, EffectsKept, applied
<1> QED
  BY <1>6, <1>8, <1>9, <1>10, <1>11, <1>12, <1>13 DEF IInv, StepOK

(* The effects of a query, applied or made to wait.                        *)
LEMMA ApplySideEffectsStep ==
    ASSUME IInv, NEW e \in Effects, ApplySideEffects(e)
    PROVE  StepOK
<1>1. /\ LockPhactory(TRUE, FALSE) /\ accepted' = accepted \cup {e}
      /\ UNCHANGED <<task, ckpt, strays, restarts>>
      /\ ph \in Phactories /\ Good(ph) /\ ph.rcu = task.rcu
      /\ ph.rcu \in BOOLEAN /\ task.on \in BOOLEAN
      /\ IsFiniteSet(ph.pending) /\ ph.applied \in SUBSET Effects
      /\ ph.pending \in SUBSET Effects
  BY PhactoryFields DEF ApplySideEffects, IInv, TypeOK
<1>2. CASE ph.rcu
  <2> DEFINE pending == ph.pending \cup {e}
  <2>1. /\ Cardinality(ph.pending) < MAX_PENDING
        /\ ph' = [ph EXCEPT !.pending = pending]
    BY <1>1, <1>2 DEF ApplySideEffects, Phactories
  <2>2. pending \in SUBSET Effects
    BY <1>1
  <2>3. IsFiniteSet(pending) /\ Cardinality(pending) <= MAX_PENDING
    <3>1. /\ IsFiniteSet(pending)
          /\ Cardinality(pending) = IF e \in ph.pending THEN Cardinality(ph.pending)
                                    ELSE Cardinality(ph.pending) + 1
      BY <1>1, FS_AddElement
    <3>2. Cardinality(ph.pending) \in Nat
      BY <1>1, FS_CardinalityType
    <3> HIDE DEF pending
    <3> QED
      BY <2>1, <3>1, <3>2, ConstantsAssumption
  <2> HIDE DEF pending
  <2>4. ph' \in Phactories
    BY <1>1, <2>1, <2>2 DEF Phactories
  <2>5. /\ ph'.kind = ph.kind /\ ph'.header_next = ph.header_next
        /\ ph'.block_next = ph.block_next /\ ph'.para_next = ph.para_next
        /\ ph'.relay_root = ph.relay_root /\ ph'.roots = ph.roots
        /\ ph'.validated = ph.validated /\ ph'.bridge = ph.bridge
        /\ ph'.storage = ph.storage /\ ph'.genesis = ph.genesis
        /\ ph'.handled = ph.handled /\ ph'.can_load = ph.can_load
        /\ ph'.safe = ph.safe /\ ph'.rcu = ph.rcu
        /\ ph'.applied = ph.applied /\ ph'.pending = pending
    BY <1>1, <2>1 DEF Phactories
  <2>6. SameSync(ph', ph)
    BY <2>5 DEF SameSync
  <2>7. Good(ph') /\ NotBehind(ph', ph)
    BY <1>1, <2>4, <2>6, SameSyncGood
  <2>8. TypeOK'
    BY <1>1, <1>2, <2>3, <2>4, <2>5 DEF IInv, TypeOK
  <2>9. TaskOK'
    BY <1>1, <2>5 DEF IInv, TaskOK, NotBehind
  <2>10. CheckpointOK' /\ EffectsKept'
    BY <1>1, <2>5 DEF IInv, CheckpointOK, EffectsKept, pending
  <2> QED
    BY <1>2, <2>3, <2>5, <2>7, <2>8, <2>9, <2>10 DEF IInv, StepOK
<1>3. CASE ~ph.rcu
  <2> DEFINE applied == ph.applied \cup {e}
  <2>1. ph' = [ph EXCEPT !.applied = applied]
    BY <1>1, <1>3 DEF ApplySideEffects, Phactories
  <2>2. applied \in SUBSET Effects
    BY <1>1
  <2> HIDE DEF applied
  <2>3. ph' \in Phactories
    BY <1>1, <2>1, <2>2 DEF Phactories
  <2>4. /\ ph'.kind = ph.kind /\ ph'.header_next = ph.header_next
        /\ ph'.block_next = ph.block_next /\ ph'.para_next = ph.para_next
        /\ ph'.relay_root = ph.relay_root /\ ph'.roots = ph.roots
        /\ ph'.validated = ph.validated /\ ph'.bridge = ph.bridge
        /\ ph'.storage = ph.storage /\ ph'.genesis = ph.genesis
        /\ ph'.handled = ph.handled /\ ph'.can_load = ph.can_load
        /\ ph'.safe = ph.safe /\ ph'.rcu = ph.rcu
        /\ ph'.applied = applied /\ ph'.pending = ph.pending
    BY <1>1, <2>1 DEF Phactories
  <2>5. SameSync(ph', ph)
    BY <2>4 DEF SameSync
  <2>6. Good(ph') /\ NotBehind(ph', ph)
    BY <1>1, <2>3, <2>5, SameSyncGood
  <2>7. task.on = FALSE
    BY <1>1, <1>3 DEF LockPhactory
  <2>8. TypeOK'
    BY <1>1, <2>3, <2>4 DEF IInv, TypeOK
  <2>9. TaskOK'
    BY <1>1, <2>7 DEF IInv, TaskOK
  <2>10. CheckpointOK' /\ EffectsKept'
    BY <1>1, <2>4 DEF IInv, CheckpointOK, EffectsKept, applied
  <2> QED
    BY <1>1, <2>4, <2>6, <2>8, <2>9, <2>10 DEF IInv, StepOK
<1> QED
  BY <1>2, <1>3

(* take_checkpoint.                                                        *)
LEMMA TakeCheckpointStep ==
    ASSUME IInv, TakeCheckpoint, strays' \in 0..MaxStray
    PROVE  StepOK
<1>1. /\ ph.safe = 0 /\ ckpt' = Dump(ph) /\ UNCHANGED <<ph, task, accepted, restarts>>
      /\ Good(ph) /\ ph \in Phactories
  BY DEF TakeCheckpoint, LockPhactory, IInv, Good
<1>2. CheckpointOK' /\ ckpt' \in Phactories
  BY <1>1, DumpGood DEF CheckpointOK, Good
<1>3. TypeOK' /\ TaskOK' /\ EffectsKept'
  BY <1>1, <1>2 DEF IInv, TypeOK, TaskOK, EffectsKept
<1>4. NotBehind(ph', ph)
  BY <1>1, PhactoryFields DEF NotBehind
<1> QED
  BY <1>1, <1>2, <1>3, <1>4 DEF IInv, StepOK

(* A restart.                                                              *)
LEMMA RestartStep ==
    ASSUME IInv, NEW safe \in 0..2, Restart(safe)
    PROVE  StepOK
<1>1. /\ restarts < MaxRestarts /\ restarts' = restarts + 1 /\ task' = Idle
      /\ accepted' = {} /\ UNCHANGED <<ckpt, strays>>
      /\ ckpt \in Phactories /\ CheckpointOK
  BY DEF Restart, IInv, TypeOK
<1>2. Good(ph') /\ ph'.rcu = FALSE /\ ph'.pending = {}
  <2>1. CASE ckpt.kind = "none"
    BY <2>1, NewGood DEF Restart
  <2>2. CASE ckpt.kind # "none"
    <3> DEFINE q == [ckpt EXCEPT !.safe = safe]
    <3>1. ph' = q
      BY <2>2 DEF Restart
    <3>2. q \in Phactories
      BY <1>1 DEF Phactories
    <3>3. /\ q.kind = ckpt.kind /\ q.header_next = ckpt.header_next
          /\ q.block_next = ckpt.block_next /\ q.para_next = ckpt.para_next
          /\ q.relay_root = ckpt.relay_root /\ q.roots = ckpt.roots
          /\ q.validated = ckpt.validated /\ q.bridge = ckpt.bridge
          /\ q.storage = ckpt.storage /\ q.genesis = ckpt.genesis
          /\ q.handled = ckpt.handled /\ q.can_load = ckpt.can_load
          /\ q.rcu = ckpt.rcu /\ q.pending = ckpt.pending
      BY <1>1 DEF Phactories
    <3> HIDE DEF q
    <3>4. SameSync(q, ckpt)
      BY <1>1, <3>3 DEF SameSync, CheckpointOK
    <3> QED
      BY <1>1, <3>1, <3>2, <3>3, <3>4, SameSyncGood DEF CheckpointOK
  <2> QED
    BY <2>1, <2>2
<1>3. Cardinality(ph'.pending) = 0 /\ IsFiniteSet(ph'.pending) /\ ph' \in Phactories
  BY <1>2, FS_EmptySet DEF Good
<1>4. restarts' \in 0..MaxRestarts /\ restarts' # restarts
  BY <1>1, ConstantsAssumption DEF IInv, TypeOK
<1>5. TypeOK'
  <2>1. /\ task' \in [on : BOOLEAN, rcu : BOOLEAN, p : Phactories, blocks : Seq(HeaderTypes)]
        /\ task'.rcu = FALSE
    BY <1>1, IdleGood
  <2>2. strays \in 0..MaxStray /\ ckpt \in Phactories
    BY DEF IInv, TypeOK
  <2>3. Cardinality(ph'.pending) <= IF ph'.rcu THEN MAX_PENDING ELSE 0
    BY <1>2, <1>3
  <2> QED
    BY <1>1, <1>2, <1>3, <1>4, <2>1, <2>2, <2>3 DEF TypeOK
<1>6. TaskOK'
  BY <1>1, IdleGood DEF TaskOK
<1>7. CheckpointOK' /\ EffectsKept'
  BY <1>1 DEF CheckpointOK, EffectsKept
<1> QED
  BY <1>2, <1>3, <1>4, <1>5, <1>6, <1>7 DEF IInv, StepOK

(* Headers that callers may know, in batches.                              *)
LEMMA BatchType ==
    ASSUME NEW S, NEW s \in Batches(S)
    PROVE  s \in Seq(S)
<1>1. PICK k \in 0..MaxBatch : s \in [1..k -> S]
  BY DEF Batches
<1>2. k \in Nat
  BY <1>1, ConstantsAssumption
<1> QED
  BY <1>1, <1>2

(* A header that some caller knows.                                        *)
LEMMA HeadersType ==
    ASSUME NEW max \in Nat, NEW h \in HeadersUpTo(max)
    PROVE  h \in HeaderTypes /\ h.n <= max
<1>1. CASE \E n \in 0..max : h = Final(n)
  BY <1>1 DEF Final, HeaderTypes
<1>2. CASE \E n \in ForkAt..max : h = [n |-> n, b |-> "fork"]
  <2>1. PICK n \in ForkAt..max : h = [n |-> n, b |-> "fork"]
    BY <1>2
  <2>2. n \in Nat /\ n <= max
    BY <2>1, ConstantsAssumption
  <2> QED
    BY <2>1, <2>2 DEF HeaderTypes
<1> QED
  BY <1>1, <1>2 DEF HeadersUpTo

(* A batch of such headers.                                                *)
LEMMA BatchOfHeaders ==
    ASSUME NEW max \in Nat, NEW s \in Batches(HeadersUpTo(max))
    PROVE  s \in Seq(HeaderTypes) /\ \A i \in 1..Len(s) : s[i].n <= max
<1>1. s \in Seq(HeadersUpTo(max))
  BY BatchType
<1>2. \A i \in 1..Len(s) : s[i] \in HeadersUpTo(max)
  BY <1>1
<1>3. \A i \in 1..Len(s) : s[i] \in HeaderTypes /\ s[i].n <= max
  BY <1>2, HeadersType
<1> QED
  BY <1>1, <1>3

(* A segment of the chain that the light client follows.                   *)
LEMMA SegmentWithin ==
    ASSUME NEW lo \in Nat, NEW hi \in Int, hi <= MaxRelay
    PROVE  WithinRelay(Segment(lo, hi))
<1>1. Segment(lo, hi) \in Seq(HeaderTypes)
  BY SegmentProperties
<1>2. ASSUME NEW i \in 1..Len(Segment(lo, hi)) PROVE Segment(lo, hi)[i].n <= MaxRelay
  <2>1. Segment(lo, hi)[i] = Final(lo + i - 1) /\ lo + i - 1 \in lo..hi
    BY SegmentProperties
  <2>2. lo + i - 1 \in Nat /\ lo + i - 1 <= MaxRelay
    BY <2>1, ConstantsAssumption
  <2> QED
    BY <2>1, <2>2, FinalType
<1> QED
  BY <1>1, <1>2 DEF WithinRelay

(* The relayer.                                                            *)
LEMMA RelayStep ==
    ASSUME IInv, Relay
    PROVE  StepOK
<1>1. /\ ph \in Phactories /\ ph.block_next \in Nat /\ ph.para_next \in Nat
      /\ ph.header_next \in Nat /\ Good(ph) /\ strays' \in 0..MaxStray
  BY PhactoryFields DEF IInv, TypeOK, Relay
<1>2. CASE RelayBlocks
  <2>1. NextSynced \in Nat
    BY <1>1 DEF NextSynced
  <2>2. PICK hi \in ph.block_next..(NextSynced - 1) :
          StartDispatch(Segment(ph.block_next, hi))
    BY <1>2 DEF RelayBlocks
  <2>3. hi \in Int
    BY <1>1, <2>1, <2>2
  <2>4. Segment(ph.block_next, hi) \in Seq(HeaderTypes)
    BY <1>1, <2>3, SegmentProperties
  <2> QED
    BY <1>1, <2>2, <2>4, StartDispatchStep
<1>3. CASE RelayParaHeaders
  <2>1. ph.kind = "para" /\ SyncParaHeader(Segment(ph.para_next, ParaHead))
    BY <1>3 DEF RelayParaHeaders
  <2>2. ClientOK(ph)
    BY <1>1, <2>1 DEF Good, Started
  <2>3. ph.header_next - 1 \in 0..MaxRelay
    BY <1>1, <2>1, <2>2, ClientAt DEF ClientOK
  <2>4. ParaHead \in Int
    BY <2>3, ConstantsAssumption DEF ParaHead
  <2>5. Segment(ph.para_next, ParaHead) \in Seq(HeaderTypes)
    BY <1>1, <2>4, SegmentProperties
  <2> QED
    BY <1>1, <2>1, <2>5, SyncParaHeaderStep
<1>4. CASE RelayHeaders
  <2>1. PICK hi \in ProveFinality(ph.header_next) :
          SyncHeader(Segment(ph.header_next, hi))
    BY <1>4 DEF RelayHeaders
  <2>2. hi \in Int /\ hi <= MaxRelay
    BY <1>1, <2>1, ConstantsAssumption DEF ProveFinality
  <2>3. WithinRelay(Segment(ph.header_next, hi))
    BY <1>1, <2>2, SegmentWithin
  <2> QED
    BY <1>1, <2>1, <2>3, SyncHeaderStep
<1> QED
  BY <1>2, <1>3, <1>4 DEF Relay

(* Stray calls.                                                            *)
LEMMA StrayStep ==
    ASSUME IInv, Stray
    PROVE  StepOK
<1>1. strays' \in 0..MaxStray
  BY ConstantsAssumption DEF IInv, TypeOK, Stray
<1> DEFINE relay == HeadersUpTo(MaxRelay)
           tip == Tip(ph.kind)
           own == HeadersUpTo(tip)
<1>2. MaxRelay \in Nat /\ tip \in Nat
  <2>1. MaxRelay \in 0..MaxRelay
    BY ConstantsAssumption
  <2> QED
    BY <2>1, ConstantsAssumption DEF Tip
<1> HIDE DEF tip
<1>3. ASSUME NEW hs \in Batches(relay), SyncHeader(hs) PROVE StepOK
  <2>1. WithinRelay(hs)
    BY <1>2, BatchOfHeaders DEF WithinRelay
  <2> QED
    BY <1>1, <1>3, <2>1, SyncHeaderStep
<1>4. ASSUME NEW hs \in Batches(own), SyncParaHeader(hs) PROVE StepOK
  BY <1>1, <1>2, <1>4, BatchOfHeaders, SyncParaHeaderStep
<1>5. ASSUME NEW lo \in 0..MaxRelay, NEW hi \in 0..MaxRelay, NEW phs \in Batches(own),
             SyncCombinedHeaders(Segment(lo, hi), phs)
      PROVE  StepOK
  <2>1. lo \in Nat /\ hi \in Int /\ hi <= MaxRelay
    BY <1>2
  <2>2. WithinRelay(Segment(lo, hi))
    BY <2>1, SegmentWithin
  <2>3. phs \in Seq(HeaderTypes)
    BY <1>2, BatchOfHeaders
  <2> QED
    BY <1>1, <1>5, <2>2, <2>3, SyncCombinedHeadersStep
<1>6. ASSUME NEW n \in 0..tip, NEW state \in own, LoadChainState(n, state) PROVE StepOK
  <2>1. n \in Nat /\ state \in HeaderTypes
    BY <1>2, HeadersType
  <2> QED
    BY <1>1, <1>6, <2>1, LoadChainStateStep
<1>7. ASSUME NEW blocks \in Batches(own), StartDispatch(blocks) PROVE StepOK
  BY <1>1, <1>2, <1>7, BatchOfHeaders, StartDispatchStep
<1>8. ASSUME TakeCheckpoint PROVE StepOK
  BY <1>1, <1>8, TakeCheckpointStep
<1> QED
  BY <1>3, <1>4, <1>5, <1>6, <1>7, <1>8 DEF Stray, tip

-----------------------------------------------------------------------------
(* The theorems.                                                           *)

(* A process that was just started for the first time.                     *)
LEMMA InitIInv ==
    ASSUME Init
    PROVE  IInv
<1>1. 0 \in 0..2 /\ MaxStray \in Nat /\ MaxRestarts \in Nat
  BY ConstantsAssumption
<1>2. /\ Good(New(0)) /\ New(0).rcu = FALSE /\ New(0).safe = 0
      /\ New(0).pending = {} /\ New(0).applied = {} /\ New(0) \in Phactories
  BY <1>1, NewGood DEF Good
<1>3. /\ task \in [on : BOOLEAN, rcu : BOOLEAN, p : Phactories, blocks : Seq(HeaderTypes)]
      /\ task.rcu = FALSE /\ TaskOK
  BY IdleGood DEF Init, TaskOK
<1>4. /\ ph = New(0) /\ ckpt = New(0) /\ accepted = {} /\ strays = 0 /\ restarts = 0
  BY DEF Init
<1>5. Cardinality(ph.pending) = 0 /\ IsFiniteSet(ph.pending)
  BY <1>2, <1>4, FS_EmptySet
<1>6. TypeOK
  <2>1. ph \in Phactories /\ ckpt \in Phactories /\ ph.rcu = FALSE
    BY <1>2, <1>4
  <2>2. Cardinality(ph.pending) <= IF ph.rcu THEN MAX_PENDING ELSE 0
    BY <1>5, <2>1
  <2>3. accepted \subseteq Effects /\ strays \in 0..MaxStray /\ restarts \in 0..MaxRestarts
    BY <1>1, <1>4
  <2> QED
    BY <1>3, <2>1, <2>2, <2>3 DEF TypeOK
<1>7. CheckpointOK /\ EffectsKept
  BY <1>2, <1>4 DEF CheckpointOK, EffectsKept
<1> QED
  BY <1>2, <1>3, <1>4, <1>5, <1>6, <1>7 DEF IInv

(* Every step.                                                             *)
LEMMA NextStep ==
    ASSUME IInv, [Next]_vars
    PROVE  StepOK
<1>1. CASE \E kind \in Kinds : InitRuntime(kind)
  BY <1>1, InitRuntimeStep
<1>2. CASE Relay
  BY <1>2, RelayStep
<1>3. CASE Stray
  BY <1>3, StrayStep
<1>4. CASE DispatchBlock
  BY <1>4, DispatchBlockStep
<1>5. CASE FinishDispatch
  BY <1>5, FinishDispatchStep
<1>6. CASE \E e \in Effects : ApplySideEffects(e)
  BY <1>6, ApplySideEffectsStep
<1>7. CASE \E safe \in 0..2 : Restart(safe)
  BY <1>7, RestartStep
<1>8. CASE UNCHANGED vars
  <2>1. /\ ph' = ph /\ task' = task /\ ckpt' = ckpt /\ accepted' = accepted
        /\ strays' = strays /\ restarts' = restarts
    BY <1>8 DEF vars
  <2>2. NotBehind(ph', ph)
    BY <2>1, PhactoryFields DEF IInv, TypeOK, NotBehind
  <2>3. TypeOK' /\ TaskOK' /\ CheckpointOK' /\ EffectsKept'
    BY <2>1 DEF IInv, TypeOK, TaskOK, CheckpointOK, EffectsKept
  <2> QED
    BY <2>1, <2>2, <2>3 DEF IInv, StepOK
<1> QED
  BY <1>1, <1>2, <1>3, <1>4, <1>5, <1>6, <1>7, <1>8 DEF Next

(* The inductive invariant holds in every reachable state: the Phactory,   *)
(* the clone of a running dispatch and the checkpoint are all in order,    *)
(* and between the start of a dispatch and its end nothing but waiting     *)
(* effects is added to the original.                                       *)
THEOREM Inductive == Spec => []IInv
<1>1. IInv /\ [Next]_vars => IInv'
  BY NextStep DEF StepOK
<1> QED
  BY InitIInv, <1>1, PTL DEF Spec

(* The state of pRuntime has its types, and effects wait only during a     *)
(* dispatch on a clone and within MAX_PENDING (prpc_service.rs).           *)
THEOREM TypeCorrect == Spec => []TypeOK
  BY Inductive, PTL DEF IInv

(* The three Phactories that count are all Good.                           *)
LEMMA LiveGood ==
    ASSUME IInv, NEW p \in Live
    PROVE  p \in Phactories /\ Started(p)
  BY DEF IInv, TaskOK, CheckpointOK, Live, Good

(* The queued state roots match the blocks to come (storage_sync.rs), for  *)
(* every chain, load, batch and failure below safe mode level 2.           *)
THEOREM RootsStayAligned == Spec => []RootsAligned
<1>1. ASSUME IInv PROVE RootsAligned
  <2>1. ASSUME NEW p \in Live, p.safe < 2 PROVE Aligned(p)
    BY <1>1, <2>1, LiveGood DEF Started
  <2> QED
    BY <2>1 DEF RootsAligned, Aligned, NextOf
<1> QED
  BY <1>1, Inductive, PTL

(* Only final roots are queued or reached, whatever callers send and at    *)
(* every safe mode level (light_validation, storage_sync.rs).              *)
THEOREM OnlyFinalRoots == Spec => []FinalOnly
<1>1. ASSUME IInv PROVE FinalOnly
  <2>1. ASSUME NEW p \in Live PROVE RootsFinal(p)
    BY <1>1, LiveGood DEF Started
  <2> QED
    BY <2>1 DEF FinalOnly, RootsFinal, IsFinal, FinalTip
<1> QED
  BY <1>1, Inductive, PTL

(* The light client never misses a change of authorities                   *)
(* (submit_finalized_headers).                                             *)
THEOREM AuthoritiesAreFollowed == Spec => []AuthoritiesFollowed
<1>1. ASSUME IInv PROVE AuthoritiesFollowed
  <2>1. ASSUME NEW p \in Live
        PROVE  /\ p.bridge.set = SetIdAt(p.bridge.last.n + 1)
               /\ p.header_next > 0 => p.bridge.last = Final(p.header_next - 1)
    <3>1. p \in Phactories /\ ClientOK(p)
      BY <1>1, LiveGood DEF Started
    <3> QED
      BY <3>1, PhactoryFields DEF ClientOK
  <2> QED
    BY <2>1 DEF AuthoritiesFollowed
<1> QED
  BY <1>1, Inductive, PTL

(* The system handles the blocks one after the other, on their final       *)
(* states, across restarts, safe mode and dispatches on clones.            *)
THEOREM BlocksHandledInOrder == Spec => []HandledInOrder
<1>1. ASSUME IInv PROVE HandledInOrder
  <2>1. ASSUME NEW p \in Live, p.safe = 0 PROVE InOrder(p)
    BY <1>1, <2>1, LiveGood DEF Started
  <2> QED
    BY <2>1 DEF HandledInOrder, InOrder
<1> QED
  BY <1>1, Inductive, PTL

(* No effect of a query is lost to the clone that replaces the Phactory.   *)
THEOREM EffectsAreKept == Spec => []EffectsKept
  BY Inductive, PTL DEF IInv

(* Until a restart no counter of pRuntime goes back.                       *)
THEOREM NothingIsUndone == Spec => NothingUndone
<1>1. ASSUME IInv, [Next]_vars
      PROVE  [restarts' = restarts =>
                /\ ph'.header_next >= ph.header_next
                /\ ph'.para_next >= ph.para_next
                /\ ph'.block_next >= ph.block_next
                /\ Len(ph'.handled) >= Len(ph.handled)]_vars
  BY <1>1, NextStep DEF StepOK, NotBehind
<1> QED
  BY <1>1, Inductive, PTL DEF Spec, NothingUndone
=============================================================================
