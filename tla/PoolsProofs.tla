----------------------------- MODULE PoolsProofs -----------------------------
(***************************************************************************)
(* Proofs about Pools, for every set of users, workers and referenda and   *)
(* every price, dust limit and amount: the shares of a pool are the ones   *)
(* its delegators can redeem, and its books are covered by money.          *)
(***************************************************************************)
EXTENDS Pools, WellFoundedInduction, FiniteSetTheorems, TLAPS

-----------------------------------------------------------------------------
(* Induction and recursion on natural numbers.  The statements speak of    *)
(* sets and functions where those of the library speak of operators, so    *)
(* that the provers can instantiate them.                                  *)

(* A set of natural numbers has a least element.                          *)
LEMMA LeastNatural ==
    ASSUME NEW T \in SUBSET Nat, T # {}
    PROVE  \E x \in T : \A y \in T : x <= y
<1>1. PICK x \in T : \A y \in T : ~(<<y, x>> \in OpToRel(<, Nat))
  BY NatLessThanWellFounded, WFMin
<1>2. \A y \in T : ~(y < x)
  BY <1>1 DEF OpToRel
<1> QED
  BY <1>2

(* Induction up to N, stated with a set in place of a predicate.           *)
LEMMA IntervalInduction ==
    ASSUME NEW N \in Nat, NEW P \in SUBSET (0..N), 0 \in P,
           \A k \in 1..N : k - 1 \in P => k \in P
    PROVE  P = 0..N
<1> DEFINE T == (0..N) \ P
<1>1. ASSUME NEW k \in T, \A y \in T : k <= y PROVE FALSE
  <2>1. k \in 1..N /\ k - 1 \in 0..N /\ k - 1 \notin T
    BY <1>1
  <2> QED
    BY <2>1
<1>2. T \in SUBSET Nat
  OBVIOUS
<1> HIDE DEF T
<1>3. T = {}
  BY <1>1, <1>2, LeastNatural
<1> QED
  BY <1>3 DEF T

(* f is the sequence of values that N steps lead to from init.             *)
Iterates(f, N, X, init, step) ==
    f \in [0..N -> X] /\ f[0] = init /\ \A i \in 1..N : f[i] = step[i][f[i - 1]]

(* N steps lead somewhere: a function on 0..N can be defined by recursion.  *)
LEMMA IterationExists ==
    ASSUME NEW N \in Nat, NEW X, NEW init \in X, NEW step \in [1..N -> [X -> X]]
    PROVE  \E f : Iterates(f, N, X, init, step)
<1> DEFINE Ok(k) == \E f \in [0..k -> X] :
                       f[0] = init /\ \A i \in 1..k : f[i] = step[i][f[i - 1]]
           T == {k \in 0..N : ~Ok(k)}
<1>1. Ok(0)
  <2> DEFINE g == [i \in 0..0 |-> init]
  <2>1. g \in [0..0 -> X] /\ g[0] = init /\ 1..0 = {}
    OBVIOUS
  <2> HIDE DEF g
  <2> QED
    BY <2>1
<1>2. ASSUME NEW k \in 1..N, Ok(k - 1)
      PROVE  Ok(k)
  <2>1. PICK f \in [0..(k - 1) -> X] :
            f[0] = init /\ \A i \in 1..(k - 1) : f[i] = step[i][f[i - 1]]
    BY <1>2
  <2> DEFINE g == [i \in 0..k |-> IF i = k THEN step[k][f[k - 1]] ELSE f[i]]
  <2>2. g \in [0..k -> X]
    BY <2>1
  <2>3. g[0] = init
    BY <2>1
  <2>4. ASSUME NEW i \in 1..k PROVE g[i] = step[i][g[i - 1]]
    BY <2>1
  <2> HIDE DEF g
  <2> QED
    BY <2>2, <2>3, <2>4
<1> HIDE DEF Ok
<1>3. T = {}
  <2> SUFFICES ASSUME T # {} PROVE FALSE
    OBVIOUS
  <2>1. PICK k \in T : \A y \in T : k <= y
    <3>1. T \in SUBSET Nat
      OBVIOUS
    <3> HIDE DEF T
    <3> QED
      BY <3>1, LeastNatural
  <2>2. k \in 1..N
    BY <1>1
  <2>3. Ok(k - 1)
    BY <2>1, <2>2
  <2> QED
    BY <1>2, <2>2, <2>3
<1>4. Ok(N)
  BY <1>3
<1> QED
  BY <1>4 DEF Ok, Iterates

----------------------------------------------------------------------------
(* Sums over a finite set.                                                 *)

(* The element a sum takes first.                                          *)
First(s) == CHOOSE x \in s : TRUE

(* g is the function that the recursion of PartialSums defines.            *)
SumsOf(g, f, S) ==
  /\ g \in [SUBSET S -> Int]
  /\ g[{}] = 0
  /\ \A s \in SUBSET S : s # {} => g[s] = f[First(s)] + g[s \ {First(s)}]

(* What the first element of a subset leaves is a smaller subset.          *)
LEMMA FirstElement ==
    ASSUME NEW S, IsFiniteSet(S), NEW s \in SUBSET S, s # {}
    PROVE  /\ First(s) \in s /\ s \ {First(s)} \in SUBSET S
           /\ IsFiniteSet(s) /\ Cardinality(s) \in Nat
           /\ Cardinality(s \ {First(s)}) = Cardinality(s) - 1
           /\ Cardinality(s) \in 1..Cardinality(S)
<1>1. First(s) \in s
  BY DEF First
<1>2. IsFiniteSet(s)
  BY FS_Subset
<1>3. Cardinality(s) \in Nat /\ Cardinality(s) <= Cardinality(S)
  BY <1>2, FS_CardinalityType, FS_Subset
<1>4. Cardinality(s \ {First(s)}) = Cardinality(s) - 1
  BY <1>1, <1>2, FS_RemoveElement
<1>5. Cardinality(S) \in Nat
  BY FS_CardinalityType
<1>6. Cardinality(s) # 0
  BY <1>2, FS_EmptySet
<1> QED
  BY <1>1, <1>2, <1>3, <1>4, <1>5, <1>6

(* Induction over the subsets of a finite set, along the order of a sum.   *)
LEMMA SubsetInduction ==
    ASSUME NEW S, IsFiniteSet(S), NEW P \in SUBSET (SUBSET S), {} \in P,
           \A s \in SUBSET S : s # {} /\ s \ {First(s)} \in P => s \in P
    PROVE  P = SUBSET S
<1> DEFINE N == Cardinality(S)
           Q == {k \in 0..N : \A s \in SUBSET S : Cardinality(s) = k => s \in P}
<1>1. N \in Nat
  BY FS_CardinalityType
<1>2. 0 \in Q
  <2>1. \A s \in SUBSET S : Cardinality(s) = 0 => s = {}
    BY FS_Subset, FS_EmptySet
  <2>2. \A s \in SUBSET S : Cardinality(s) = 0 => s \in P
    BY <2>1
  <2>3. 0 \in 0..N
    BY <1>1
  <2> QED
    BY <2>2, <2>3
<1>3. ASSUME NEW k \in 1..N, k - 1 \in Q PROVE k \in Q
  <2>1. ASSUME NEW s \in SUBSET S, Cardinality(s) = k PROVE s \in P
    <3>1. s # {}
      <4>1. k # 0
        BY <1>1
      <4> QED
        BY <4>1, <2>1, FS_EmptySet
    <3>2. Cardinality(s \ {First(s)}) = k - 1 /\ s \ {First(s)} \in SUBSET S
      BY <2>1, <3>1, FirstElement
    <3>3. s \ {First(s)} \in P
      BY <3>2, <1>3
    <3> QED
      BY <3>1, <3>3
  <2> QED
    BY <2>1, <1>1
<1>4. Q \in SUBSET (0..N)
  OBVIOUS
<1>5. Q = 0..N
  <2> HIDE DEF Q, N
  <2> QED
    BY <1>1, <1>2, <1>3, <1>4, IntervalInduction
<1>6. ASSUME NEW s \in SUBSET S PROVE s \in P
  <2>1. ASSUME s # {} PROVE Cardinality(s) \in 0..N
    <3>1. Cardinality(s) \in 1..Cardinality(S)
      BY <2>1, FirstElement
    <3> QED
      BY <3>1, <1>1
  <2>2. s # {} => Cardinality(s) \in Q
    BY <2>1, <1>5
  <2> QED
    BY <2>2
<1> QED
  BY <1>6

(* PartialSums is a solution of its recursion.                             *)
LEMMA SumsDefined ==
    ASSUME NEW S, IsFiniteSet(S), NEW f \in [S -> Int]
    PROVE  SumsOf(PartialSums(f), f, S)
<1> DEFINE N == Cardinality(S)
           X == [SUBSET S -> Int]
           Rec(g) == [s \in SUBSET S |->
                        IF s = {} THEN 0 ELSE f[First(s)] + g[s \ {First(s)}]]
           zero == [s \in SUBSET S |-> 0]
           step == [i \in 1..N |-> [g \in X |-> Rec(g)]]
           sums == CHOOSE g : g = Rec(g)
<1>1. PartialSums(f) = sums
  BY DEF PartialSums, First
<1>2. N \in Nat
  BY FS_CardinalityType
<1>3. ASSUME NEW g \in X PROVE Rec(g) \in X
  <2>1. ASSUME NEW s \in SUBSET S, s # {}
        PROVE  f[First(s)] + g[s \ {First(s)}] \in Int
    <3>1. First(s) \in S /\ s \ {First(s)} \in SUBSET S
      BY <2>1, FirstElement
    <3> QED
      BY <3>1
  <2> QED
    BY <2>1
<1>4. step \in [1..N -> [X -> X]]
  <2> HIDE DEF X, Rec
  <2> QED
    BY <1>3
<1>5. zero \in X
  OBVIOUS
<1>6. PICK h : Iterates(h, N, X, zero, step)
  <2> HIDE DEF N, X, zero, step
  <2> QED
    BY <1>2, <1>4, <1>5, IterationExists
<1>7. h \in [0..N -> X]
  BY <1>6 DEF Iterates
<1>8. \A i \in 1..N : h[i] = Rec(h[i - 1])
  <2> SUFFICES ASSUME NEW i \in 1..N PROVE h[i] = Rec(h[i - 1])
    OBVIOUS
  <2>1. h[i] = step[i][h[i - 1]]
    BY <1>6 DEF Iterates
  <2>2. h[i - 1] \in X
    <3> HIDE DEF X
    <3> QED
      BY <1>7, <1>2
  <2> HIDE DEF X, Rec
  <2> QED
    BY <2>1, <2>2
<1>9. ASSUME NEW g \in X, NEW s \in SUBSET S
      PROVE  /\ s = {} => Rec(g)[s] = 0
             /\ s # {} => Rec(g)[s] = f[First(s)] + g[s \ {First(s)}]
  OBVIOUS
<1> DEFINE Settled(k) == \A s \in SUBSET S : Cardinality(s) < k => h[k][s] = h[k - 1][s]
           P == {k \in 0..N : k > 0 => Settled(k)}
<1> HIDE DEF N, X, Rec
<1>10. ASSUME NEW k \in 1..N, k - 1 \in P PROVE k \in P
  <2> SUFFICES ASSUME NEW s \in SUBSET S, Cardinality(s) < k
               PROVE  h[k][s] = h[k - 1][s]
    BY <1>2
  <2>1. h[k - 1] \in X /\ h[k] = Rec(h[k - 1]) /\ k \in 0..N /\ k - 1 \in 0..N
    BY <1>2, <1>7, <1>8
  <2>2. CASE k = 1
    <3>1. s = {}
      <4> SUFFICES ASSUME s # {} PROVE FALSE
        OBVIOUS
      <4>1. Cardinality(s) \in 1..Cardinality(S) /\ Cardinality(S) \in Nat
        BY FirstElement, FS_CardinalityType
      <4> QED
        BY <4>1, <2>2
    <3>2. h[0] = zero
      BY <1>6 DEF Iterates
    <3>3. h[k][s] = 0
      BY <3>1, <2>1, <1>9
    <3> QED
      BY <3>1, <3>2, <3>3, <2>2
  <2>3. CASE k # 1
    <3> DEFINE j == k - 1
    <3>1. j \in 1..N /\ j - 1 \in 0..N /\ j > 0
      BY <2>3, <1>2
    <3>2. h[j] = Rec(h[j - 1]) /\ h[j - 1] \in X
      BY <3>1, <1>7, <1>8
    <3>3. CASE s = {}
      BY <3>2, <3>3, <2>1, <1>9
    <3>4. CASE s # {}
      <4> DEFINE r == s \ {First(s)}
      <4>1. r \in SUBSET S /\ Cardinality(r) < j
        BY <3>4, FirstElement
      <4>2. h[j][r] = h[j - 1][r]
        BY <1>10, <4>1, <3>1
      <4>3. h[k][s] = f[First(s)] + h[j][r]
        BY <2>1, <1>9, <3>4
      <4>4. h[j][s] = f[First(s)] + h[j - 1][r]
        BY <3>2, <1>9, <3>4
      <4> QED
        BY <4>2, <4>3, <4>4
    <3> QED
      BY <3>3, <3>4
  <2> QED
    BY <2>2, <2>3
<1>11. P = 0..N
  <2>1. P \in SUBSET (0..N) /\ 0 \in P
    BY <1>2
  <2> HIDE DEF P
  <2> QED
    BY <2>1, <1>2, <1>10, IntervalInduction
<1> DEFINE g == Rec(h[N])
<1>12. h[N] \in X /\ g \in X
  BY <1>2, <1>7, <1>3
<1>13. ASSUME NEW s \in SUBSET S PROVE g[s] = Rec(g)[s]
  <2>1. CASE s = {}
    BY <2>1, <1>9, <1>12
  <2>2. CASE s # {}
    <3> DEFINE r == s \ {First(s)}
    <3>1. r \in SUBSET S /\ Cardinality(r) < N /\ N \in 1..N
      <4>1. r \in SUBSET S /\ Cardinality(r) = Cardinality(s) - 1
            /\ Cardinality(s) \in 1..N
        BY <2>2, FirstElement DEF N
      <4> QED
        BY <4>1, <1>2
    <3>2. g[s] = f[First(s)] + h[N][r]
      BY <1>9, <1>12, <2>2
    <3>3. Rec(g)[s] = f[First(s)] + g[r]
      BY <1>9, <1>12, <2>2
    <3>4. h[N][r] = h[N - 1][r]
      BY <3>1, <1>11, <1>2
    <3>5. g[r] = h[N][r]
      <4>1. h[N] = Rec(h[N - 1]) /\ h[N - 1] \in X
        BY <1>8, <3>1, <1>7, <1>2
      <4>2. CASE r = {}
        BY <4>1, <4>2, <1>9, <1>12, <3>1
      <4>3. CASE r # {}
        <5> DEFINE q == r \ {First(r)}
        <5>1. q \in SUBSET S /\ Cardinality(q) < N
          BY <4>3, <3>1, FirstElement
        <5>2. h[N][q] = h[N - 1][q]
          BY <5>1, <3>1, <1>11, <1>2
        <5>3. g[r] = f[First(r)] + h[N][q]
          BY <1>9, <1>12, <4>3, <3>1
        <5>4. h[N][r] = f[First(r)] + h[N - 1][q]
          BY <1>9, <4>1, <4>3, <3>1
        <5> QED
          BY <5>2, <5>3, <5>4
      <4> QED
        BY <4>2, <4>3
    <3> QED
      BY <3>2, <3>3, <3>5
  <2> QED
    BY <2>1, <2>2
<1>14. g = Rec(g)
  <2>1. DOMAIN g = SUBSET S /\ g = [s \in SUBSET S |-> g[s]]
    BY <1>12 DEF X
  <2>2. Rec(g) \in X
    BY <1>12, <1>3
  <2>3. Rec(g) = [s \in SUBSET S |-> Rec(g)[s]]
    BY <2>2 DEF X
  <2> HIDE DEF g
  <2> QED
    BY <2>1, <2>3, <1>13
<1>15. sums = Rec(sums)
  <2> HIDE DEF g
  <2> QED
    BY <1>14
<1> HIDE DEF sums
<1>16. sums = [s \in SUBSET S |->
                 IF s = {} THEN 0 ELSE f[First(s)] + sums[s \ {First(s)}]]
  BY <1>15 DEF Rec
<1>17. sums[{}] = 0
  BY <1>16
<1>18. \A s \in SUBSET S : s # {} => sums[s] = f[First(s)] + sums[s \ {First(s)}]
  BY <1>16
<1>19. \A s \in SUBSET S : sums[s] \in Int
  <2> DEFINE T == {s \in SUBSET S : sums[s] \in Int}
  <2>1. {} \in T /\ T \in SUBSET (SUBSET S)
    BY <1>17
  <2>2. ASSUME NEW s \in SUBSET S, s # {}, s \ {First(s)} \in T PROVE s \in T
    <3>1. First(s) \in S
      BY <2>2, FirstElement
    <3>2. f[First(s)] \in Int /\ sums[s \ {First(s)}] \in Int
      BY <3>1, <2>2
    <3>3. sums[s] = f[First(s)] + sums[s \ {First(s)}]
      BY <2>2, <1>18
    <3> QED
      BY <3>2, <3>3
  <2> HIDE DEF T
  <2>3. T = SUBSET S
    BY <2>1, <2>2, SubsetInduction
  <2> QED
    BY <2>3 DEF T
<1> QED
  BY <1>1, <1>16, <1>17, <1>18, <1>19 DEF SumsOf

(* A sum is an integer, and the recursion that computes it.                *)
LEMMA SumFacts ==
    ASSUME NEW S, IsFiniteSet(S), NEW f \in [S -> Int]
    PROVE  /\ SumOver(f) = PartialSums(f)[S] /\ SumOver(f) \in Int
           /\ PartialSums(f)[{}] = 0
           /\ \A s \in SUBSET S : PartialSums(f)[s] \in Int
           /\ \A s \in SUBSET S : s # {} => PartialSums(f)[s] =
                f[First(s)] + PartialSums(f)[s \ {First(s)}]
<1>1. SumsOf(PartialSums(f), f, S)
  BY SumsDefined
<1>2. DOMAIN f = S
  OBVIOUS
<1>3. SumOver(f) = PartialSums(f)[S]
  BY <1>2 DEF SumOver
<1> HIDE DEF SumOver
<1> DEFINE g == PartialSums(f)
<1>4. SumsOf(g, f, S)
  BY <1>1
<1>5. SumOver(f) = g[S]
  BY <1>3
<1> SUFFICES /\ SumOver(f) = g[S] /\ SumOver(f) \in Int /\ g[{}] = 0
             /\ \A s \in SUBSET S : g[s] \in Int
             /\ \A s \in SUBSET S : s # {} => g[s] = f[First(s)] + g[s \ {First(s)}]
  OBVIOUS
<1> HIDE DEF g
<1>6. S \in SUBSET S
  OBVIOUS
<1> QED
  BY <1>4, <1>5, <1>6 DEF SumsOf

(* A sum of natural numbers is a natural number.                           *)
LEMMA SumNat ==
    ASSUME NEW S, IsFiniteSet(S), NEW f \in [S -> Nat]
    PROVE  SumOver(f) \in Nat
<1>1. f \in [S -> Int]
  OBVIOUS
<1> DEFINE g == PartialSums(f)
           T == {s \in SUBSET S : g[s] \in Nat}
<1>2. SumOver(f) = g[S] /\ g[{}] = 0
  BY <1>1, SumFacts
<1>3. \A s \in SUBSET S : s # {} => g[s] = f[First(s)] + g[s \ {First(s)}]
  BY <1>1, SumFacts
<1> HIDE DEF g
<1>4. {} \in T /\ T \in SUBSET (SUBSET S)
  BY <1>2
<1>5. ASSUME NEW s \in SUBSET S, s # {}, s \ {First(s)} \in T PROVE s \in T
  <2>1. First(s) \in S
    BY <1>5, FirstElement
  <2>2. f[First(s)] \in Nat /\ g[s \ {First(s)}] \in Nat
    BY <2>1, <1>5
  <2>3. g[s] = f[First(s)] + g[s \ {First(s)}]
    BY <1>3, <1>5
  <2> QED
    BY <2>2, <2>3
<1> HIDE DEF T
<1>6. T = SUBSET S
  BY <1>4, <1>5, SubsetInduction
<1> QED
  BY <1>2, <1>6 DEF T

(* A sum changes by what one of its terms changes by.                      *)
LEMMA SumChange ==
    ASSUME NEW S, IsFiniteSet(S), NEW f \in [S -> Int], NEW g \in [S -> Int],
           NEW x \in S, \A y \in S : y # x => g[y] = f[y]
    PROVE  SumOver(g) = SumOver(f) + (g[x] - f[x])
<1> DEFINE F == PartialSums(f)
           G == PartialSums(g)
           d == g[x] - f[x]
           Ok(s) == G[s] = F[s] + (IF x \in s THEN d ELSE 0)
           T == {s \in SUBSET S : Ok(s)}
<1>1. SumOver(f) = F[S] /\ F[{}] = 0 /\ \A s \in SUBSET S : F[s] \in Int
  BY SumFacts
<1>2. \A s \in SUBSET S : s # {} => F[s] = f[First(s)] + F[s \ {First(s)}]
  BY SumFacts
<1>3. SumOver(g) = G[S] /\ G[{}] = 0 /\ \A s \in SUBSET S : G[s] \in Int
  BY SumFacts
<1>4. \A s \in SUBSET S : s # {} => G[s] = g[First(s)] + G[s \ {First(s)}]
  BY SumFacts
<1> HIDE DEF F, G
<1>5. {} \in T /\ T \in SUBSET (SUBSET S)
  BY <1>1, <1>3
<1>6. ASSUME NEW s \in SUBSET S, s # {}, s \ {First(s)} \in T PROVE s \in T
  <2> DEFINE a == First(s)
             r == s \ {First(s)}
  <2>1. a \in S /\ a \in s /\ r \in SUBSET S
    BY <1>6, FirstElement
  <2>2. F[s] = f[a] + F[r] /\ G[s] = g[a] + G[r]
    BY <1>2, <1>4, <1>6
  <2>3. G[r] = F[r] + (IF x \in r THEN d ELSE 0)
    BY <1>6
  <2>4. F[r] \in Int /\ G[r] \in Int /\ f[a] \in Int /\ g[a] \in Int /\ d \in Int
    BY <1>1, <1>3, <2>1
  <2>5. CASE a = x
    <3>1. x \in s /\ x \notin r
      BY <2>1, <2>5
    <3>2. G[r] = F[r]
      BY <2>3, <3>1, <2>4
    <3>3. G[s] = F[s] + d
      BY <2>2, <3>2, <2>4, <2>5
    <3> QED
      BY <3>1, <3>3
  <2>6. CASE a # x
    <3>1. (x \in s) = (x \in r)
      BY <2>1, <2>6
    <3>2. g[a] = f[a]
      BY <2>1, <2>6
    <3> QED
      BY <2>2, <2>3, <2>4, <3>1, <3>2
  <2> QED
    BY <2>5, <2>6
<1> HIDE DEF T
<1>7. T = SUBSET S
  BY <1>5, <1>6, SubsetInduction
<1>8. Ok(S)
  BY <1>7 DEF T
<1> QED
  BY <1>1, <1>3, <1>8

(* A term of a sum of natural numbers is at most the sum.                  *)
LEMMA SumBound ==
    ASSUME NEW S, IsFiniteSet(S), NEW f \in [S -> Nat], NEW x \in S
    PROVE  f[x] \in 0..SumOver(f) /\ SumOver(f) \in Nat
<1> DEFINE g == [f EXCEPT ![x] = 0]
<1>1. g \in [S -> Nat] /\ g[x] = 0 /\ \A y \in S : y # x => g[y] = f[y]
  OBVIOUS
<1> HIDE DEF g
<1>2. f \in [S -> Int] /\ g \in [S -> Int] /\ f[x] \in Nat
  BY <1>1
<1>3. SumOver(g) \in Nat /\ SumOver(f) \in Nat
  BY <1>1, SumNat
<1>4. SumOver(g) = SumOver(f) + (g[x] - f[x])
  BY <1>1, <1>2, SumChange
<1> QED
  BY <1>1, <1>2, <1>3, <1>4

(* The sum of a function that is c on U and zero elsewhere.                *)
LEMMA SumConstant ==
    ASSUME NEW S, IsFiniteSet(S), NEW U \in SUBSET S, NEW c \in Nat,
           NEW f \in [S -> Int], \A x \in S : f[x] = IF x \in U THEN c ELSE 0
    PROVE  SumOver(f) = Cardinality(U) * c
<1> DEFINE F == PartialSums(f)
           Ok(s) == F[s] = Cardinality(s \cap U) * c
           T == {s \in SUBSET S : Ok(s)}
<1>1. f \in [S -> Int] /\ \A x \in S : f[x] = IF x \in U THEN c ELSE 0
  OBVIOUS
<1>2. SumOver(f) = F[S] /\ F[{}] = 0
  BY <1>1, SumFacts
<1>3. \A s \in SUBSET S : s # {} => F[s] = f[First(s)] + F[s \ {First(s)}]
  <2>1. SumsOf(F, f, S)
    BY SumsDefined
  <2> HIDE DEF F
  <2> QED
    BY <2>1 DEF SumsOf
<1> HIDE DEF F
<1>4. {} \in T /\ T \in SUBSET (SUBSET S)
  <2>1. {} \cap U = {} /\ Cardinality({}) = 0
    BY FS_EmptySet
  <2>2. Cardinality({} \cap U) = 0
    BY <2>1
  <2> QED
    BY <2>2, <1>2
<1>5. ASSUME NEW s \in SUBSET S, s # {}, s \ {First(s)} \in T PROVE s \in T
  <2> DEFINE a == First(s)
             r == s \ {First(s)}
  <2>1. a \in S /\ a \in s /\ r \in SUBSET S
    BY <1>5, FirstElement
  <2>2. F[s] = f[a] + F[r]
    BY <1>3, <1>5
  <2>3. F[r] = Cardinality(r \cap U) * c
    BY <1>5
  <2>4. IsFiniteSet(s \cap U)
    BY FS_Subset
  <2>5. CASE a \in U
    <3>1. r \cap U = (s \cap U) \ {a} /\ a \in s \cap U
      BY <2>1, <2>5
    <3>2. Cardinality(r \cap U) = Cardinality(s \cap U) - 1
      <4>1. Cardinality((s \cap U) \ {a}) = Cardinality(s \cap U) - 1
        BY <3>1, <2>4, FS_RemoveElement
      <4> QED
        BY <3>1, <4>1
    <3>3. Cardinality(s \cap U) \in Nat /\ Cardinality(r \cap U) \in Int
      BY <2>4, <3>2, FS_CardinalityType
    <3>4. \A m, n \in Int : m = n - 1 => c + m * c = n * c
      OBVIOUS
    <3>5. f[a] = c
      BY <1>1, <2>1, <2>5
    <3>6. c + Cardinality(r \cap U) * c = Cardinality(s \cap U) * c
      BY <3>2, <3>3, <3>4
    <3> QED
      BY <2>2, <2>3, <3>5, <3>6
  <2>6. CASE a \notin U
    <3>1. r \cap U = s \cap U
      BY <2>6
    <3>2. f[a] = 0
      BY <1>1, <2>1, <2>6
    <3>3. Cardinality(s \cap U) \in Nat
      BY <2>4, FS_CardinalityType
    <3>4. Cardinality(s \cap U) * c \in Int
      BY <3>3
    <3>5. F[r] = Cardinality(s \cap U) * c
      BY <2>3, <3>1
    <3>6. F[s] = Cardinality(s \cap U) * c
      BY <2>2, <3>2, <3>4, <3>5
    <3> QED
      BY <3>6
  <2> QED
    BY <2>5, <2>6
<1> HIDE DEF T
<1>6. T = SUBSET S
  BY <1>4, <1>5, SubsetInduction
<1>7. S \cap U = U /\ Ok(S)
  BY <1>6 DEF T
<1> QED
  BY <1>2, <1>7

----------------------------------------------------------------------------
(* Withdraw queues.                                                        *)

(* A queue of requests for more than dust, one for each account at most.   *)
QueueOK(q) ==
  /\ q \in Seq(Requests)
  /\ \A i \in 1..Len(q) : q[i].shares > Dust
  /\ \A i, j \in 1..Len(q) : i # j => q[i].user # q[j].user

(* QueuedShares, as a function of the queue.                               *)
QueuedIn(q, who) ==
  IF RequestsOf(q, who) = {} THEN 0 ELSE q[Min(RequestsOf(q, who))].shares

(* Requests that some account has in a queue.                              *)
Waiting(q, i, who) == i \in 1..Len(q) /\ q[i].user = who

(* The fields of a request.                                                *)
LEMMA RequestFields ==
    ASSUME NEW q, QueueOK(q), NEW i \in 1..Len(q)
    PROVE  /\ q[i] \in Requests /\ q[i].user \in Holders
           /\ q[i].shares \in Nat \ {0} /\ q[i].shares > Dust
           /\ q[i].age \in 0..MaxAge /\ Len(q) \in Nat /\ DOMAIN q = 1..Len(q)
<1>1. q \in Seq(Requests) /\ q[i].shares > Dust
  BY DEF QueueOK
<1>2. q[i] \in Requests /\ Len(q) \in Nat /\ DOMAIN q = 1..Len(q)
  BY <1>1
<1>3. q[i].user \in Holders /\ q[i].shares \in Nat /\ q[i].age \in 0..MaxAge
  BY <1>2 DEF Requests
<1> QED
  BY <1>1, <1>2, <1>3, PoolsAssumption

(* QueuedShares finds the one request of an account.                       *)
LEMMA QueuedFound ==
    ASSUME NEW q, QueueOK(q), NEW who
    PROVE  /\ \A i \in 1..Len(q) : q[i].user = who => QueuedIn(q, who) = q[i].shares
           /\ (\A i \in 1..Len(q) : q[i].user # who) => QueuedIn(q, who) = 0
           /\ QueuedIn(q, who) \in Nat
<1> DEFINE R == RequestsOf(q, who)
<1>1. q \in Seq(Requests) /\ Len(q) \in Nat /\ DOMAIN q = 1..Len(q)
  BY DEF QueueOK
<1>2. R = {i \in 1..Len(q) : q[i].user = who}
  BY <1>1 DEF RequestsOf
<1>3. ASSUME NEW i \in 1..Len(q), q[i].user = who
      PROVE  QueuedIn(q, who) = q[i].shares
  <2>1. R = {i}
    BY <1>2, <1>3 DEF QueueOK
  <2>2. Min(R) = i
    BY <2>1, <1>1 DEF Min
  <2> QED
    BY <2>1, <2>2 DEF QueuedIn
<1>4. ASSUME \A i \in 1..Len(q) : q[i].user # who
      PROVE  QueuedIn(q, who) = 0
  <2>1. R = {}
    BY <1>2, <1>4
  <2> QED
    BY <2>1 DEF QueuedIn
<1>5. QueuedIn(q, who) \in Nat
  <2>1. \A i \in 1..Len(q) : q[i].shares \in Nat
    BY RequestFields
  <2> QED
    BY <2>1, <1>3, <1>4
<1> QED
  BY <1>3, <1>4, <1>5

(* Two queues that hold the same requests of an account.                   *)
LEMMA QueuedSame ==
    ASSUME NEW q, QueueOK(q), NEW r, QueueOK(r), NEW who,
           \A i \in 1..Len(q) : q[i].user = who =>
             \E j \in 1..Len(r) : r[j].user = who /\ r[j].shares = q[i].shares,
           \A j \in 1..Len(r) : r[j].user = who =>
             \E i \in 1..Len(q) : q[i].user = who /\ r[j].shares = q[i].shares
    PROVE  QueuedIn(r, who) = QueuedIn(q, who)
<1>1. CASE \E i \in 1..Len(q) : q[i].user = who
  <2>1. PICK i \in 1..Len(q) : q[i].user = who
    BY <1>1
  <2>2. PICK j \in 1..Len(r) : r[j].user = who /\ r[j].shares = q[i].shares
    BY <2>1
  <2>3. QueuedIn(q, who) = q[i].shares
    BY <2>1, QueuedFound
  <2>4. QueuedIn(r, who) = r[j].shares
    BY SMTT(30), <2>2, QueuedFound
  <2> QED
    BY <2>2, <2>3, <2>4
<1>2. CASE \A i \in 1..Len(q) : q[i].user # who
  <2>1. \A j \in 1..Len(r) : r[j].user # who
    BY <1>2
  <2>2. QueuedIn(q, who) = 0
    BY <1>2, QueuedFound
  <2>3. QueuedIn(r, who) = 0
    BY <2>1, QueuedFound
  <2> QED
    BY <2>2, <2>3
<1> QED
  BY <1>1, <1>2

(* The first request leaves the queue.                                     *)
LEMMA QueueTail ==
    ASSUME NEW q, QueueOK(q), q # <<>>
    PROVE  /\ QueueOK(Tail(q))
           /\ QueuedIn(Tail(q), q[1].user) = 0
           /\ QueuedIn(q, q[1].user) = q[1].shares
           /\ \A h : h # q[1].user => QueuedIn(Tail(q), h) = QueuedIn(q, h)
<1> DEFINE r == Tail(q)
<1>1. q \in Seq(Requests)
  BY DEF QueueOK
<1>2. r \in Seq(Requests) /\ Len(r) = Len(q) - 1 /\ Len(q) \in Nat /\ Len(q) > 0
  BY <1>1
<1>3. \A i \in 1..Len(r) : r[i] = q[i + 1] /\ i + 1 \in 1..Len(q)
  BY <1>1, <1>2
<1>4. \A i \in 1..Len(q) : i # 1 => i - 1 \in 1..Len(r) /\ r[i - 1] = q[i]
  <2> SUFFICES ASSUME NEW i \in 1..Len(q), i # 1
               PROVE  i - 1 \in 1..Len(r) /\ r[i - 1] = q[i]
    OBVIOUS
  <2>1. i - 1 \in 1..Len(r) /\ (i - 1) + 1 = i
    BY <1>2
  <2> QED
    BY <2>1, <1>3
<1>5. 1 \in 1..Len(q)
  BY <1>2
<1> HIDE DEF r
<1>6. \A i \in 1..Len(r) : r[i].shares > Dust
  BY <1>3 DEF QueueOK
<1>7. ASSUME NEW i \in 1..Len(r), NEW j \in 1..Len(r), i # j
      PROVE  r[i].user # r[j].user
  <2>1. i + 1 # j + 1 /\ i + 1 \in 1..Len(q) /\ j + 1 \in 1..Len(q)
    BY <1>2, <1>3, <1>7
  <2> QED
    BY <2>1, <1>3 DEF QueueOK
<1>8. QueueOK(r)
  BY <1>2, <1>6, <1>7 DEF QueueOK
<1>9. ASSUME NEW i \in 1..Len(r) PROVE r[i].user # q[1].user
  <2>1. i + 1 # 1 /\ i + 1 \in 1..Len(q)
    BY <1>2, <1>3
  <2> QED
    BY <2>1, <1>3, <1>5 DEF QueueOK
<1>10. QueuedIn(r, q[1].user) = 0
  BY <1>8, <1>9, QueuedFound
<1>11. QueuedIn(q, q[1].user) = q[1].shares
  BY <1>5, QueuedFound
<1>12. ASSUME NEW h, h # q[1].user
       PROVE  QueuedIn(r, h) = QueuedIn(q, h)
  <2>1. ASSUME NEW i \in 1..Len(q), q[i].user = h
        PROVE  \E j \in 1..Len(r) : r[j].user = h /\ r[j].shares = q[i].shares
    <3>1. i # 1
      BY <1>12, <2>1
    <3> QED
      BY <3>1, <2>1, <1>4
  <2>2. \A j \in 1..Len(r) : r[j].user = h =>
           \E i \in 1..Len(q) : q[i].user = h /\ r[j].shares = q[i].shares
    BY <1>3
  <2> QED
    BY <2>1, <2>2, <1>8, QueuedSame
<1> QED
  BY <1>8, <1>10, <1>11, <1>12 DEF r

(* Some of the first request is paid.                                      *)
Cut(r, q, left) ==
  /\ r \in Seq(Requests) /\ Len(r) = Len(q) /\ r[1].shares = left
  /\ \A i \in 1..Len(q) : r[i].user = q[i].user /\ (i # 1 => r[i] = q[i])

(* A request of which some is left stays where it is.                      *)
LEMMA QueueCut ==
    ASSUME NEW q, QueueOK(q), q # <<>>, NEW left \in Nat, left > Dust,
           NEW r, Cut(r, q, left)
    PROVE  /\ QueueOK(r)
           /\ QueuedIn(r, q[1].user) = left
           /\ \A h : h # q[1].user => QueuedIn(r, h) = QueuedIn(q, h)
<1>1. q \in Seq(Requests)
  BY DEF QueueOK
<1>2. Len(q) \in Nat /\ 1 \in 1..Len(q) /\ DOMAIN q = 1..Len(q)
  BY <1>1
<1>7. r \in Seq(Requests) /\ Len(r) = Len(q)
  BY DEF Cut
<1>8. \A i \in 1..Len(q) : r[i].user = q[i].user /\ (i # 1 => r[i] = q[i])
  BY DEF Cut
<1>9. r[1].shares = left
  BY DEF Cut
<1>10. QueueOK(r)
  <2>1. \A i \in 1..Len(q) : r[i].shares > Dust
    BY <1>8, <1>9 DEF QueueOK
  <2>2. \A i, j \in 1..Len(q) : i # j => r[i].user # r[j].user
    BY <1>8 DEF QueueOK
  <2> QED
    BY <1>7, <2>1, <2>2 DEF QueueOK
<1>11. QueuedIn(r, q[1].user) = left
  BY <1>2, <1>7, <1>8, <1>9, <1>10, QueuedFound
<1>12. ASSUME NEW h, h # q[1].user
       PROVE  QueuedIn(r, h) = QueuedIn(q, h)
  <2>1. \A i \in 1..Len(q) : q[i].user = h =>
          \E j \in 1..Len(r) : r[j].user = h /\ r[j].shares = q[i].shares
    BY <1>12, <1>7, <1>8
  <2>2. \A j \in 1..Len(r) : r[j].user = h =>
          \E i \in 1..Len(q) : q[i].user = h /\ r[j].shares = q[i].shares
    BY <1>12, <1>7, <1>8
  <2> QED
    BY <2>1, <2>2, <1>10, QueuedSame
<1> QED
  BY <1>10, <1>11, <1>12

(* What ServeFront does to the shares of the first request.                *)
LEMMA CutFront ==
    ASSUME NEW q, QueueOK(q), q # <<>>, NEW left \in Nat
    PROVE  Cut([q EXCEPT ![1].shares = left], q, left)
<1> DEFINE r == [q EXCEPT ![1].shares = left]
<1>1. q \in Seq(Requests)
  BY DEF QueueOK
<1>2. Len(q) \in Nat /\ 1 \in 1..Len(q) /\ DOMAIN q = 1..Len(q)
  BY <1>1
<1>3. q[1] \in Requests
  BY <1>1, <1>2
<1>4. [q[1] EXCEPT !.shares = left] \in Requests
  BY <1>3 DEF Requests
<1>5. [q[1] EXCEPT !.shares = left].user = q[1].user
      /\ [q[1] EXCEPT !.shares = left].shares = left
  BY <1>3 DEF Requests
<1>6. r = [q EXCEPT ![1] = [q[1] EXCEPT !.shares = left]]
  OBVIOUS
<1>7. r \in Seq(Requests) /\ Len(r) = Len(q)
  BY <1>1, <1>2, <1>4, <1>6
<1>8. \A i \in 1..Len(q) : r[i].user = q[i].user /\ (i # 1 => r[i] = q[i])
  BY <1>2, <1>5, <1>6
<1>9. r[1].shares = left
  BY <1>2, <1>5, <1>6
<1> QED
  BY <1>7, <1>8, <1>9 DEF Cut

(* r holds the requests of others than who among the first k of q.         *)
Kept(r, q, who, k) ==
  /\ r \in Seq(Requests)
  /\ \A j \in 1..Len(r) : \E i \in 1..k : r[j] = q[i] /\ q[i].user # who
  /\ \A i \in 1..k : q[i].user # who => \E j \in 1..Len(r) : r[j] = q[i]
  /\ \A i, j \in 1..Len(r) : i # j => r[i].user # r[j].user

(* One more request of the queue is looked at.                             *)
KeptStep(r, q, who, i) == IF q[i].user = who THEN r ELSE Append(r, q[i])

(* A step of the recursion of WithoutRequests.                             *)
LEMMA KeptMore ==
    ASSUME NEW q, QueueOK(q), NEW who, NEW k \in 1..Len(q), NEW r, Kept(r, q, who, k - 1)
    PROVE  Kept(KeptStep(r, q, who, k), q, who, k)
<1>1. Len(q) \in Nat /\ q[k] \in Requests
  BY RequestFields
<1>2. r \in Seq(Requests) /\ Len(r) \in Nat
  BY DEF Kept
<1>3. \A i \in 1..k : i \in 1..(k - 1) \/ i = k
  BY <1>1
<1>4. CASE q[k].user = who
  <2>1. \A j \in 1..Len(r) : \E i \in 1..k : r[j] = q[i] /\ q[i].user # who
    BY <1>1 DEF Kept
  <2>2. \A i \in 1..k : q[i].user # who => \E j \in 1..Len(r) : r[j] = q[i]
    BY <1>3, <1>4 DEF Kept
  <2>3. Kept(r, q, who, k)
    BY <2>1, <2>2 DEF Kept
  <2> QED
    BY <1>4, <2>3 DEF KeptStep
<1>5. CASE q[k].user # who
  <2> DEFINE t == Append(r, q[k])
  <2>1. t \in Seq(Requests) /\ Len(t) = Len(r) + 1
    BY <1>1, <1>2
  <2>2. t[Len(r) + 1] = q[k] /\ \A j \in 1..Len(r) : t[j] = r[j]
    BY <1>1, <1>2
  <2> HIDE DEF t
  <2>3. \A j \in 1..Len(t) : j \in 1..Len(r) \/ j = Len(r) + 1
    BY <1>2, <2>1
  <2>4. ASSUME NEW j \in 1..Len(t)
        PROVE  \E i \in 1..k : t[j] = q[i] /\ q[i].user # who
    <3>1. CASE j \in 1..Len(r)
      <4>1. PICK i \in 1..(k - 1) : r[j] = q[i] /\ q[i].user # who
        BY <3>1 DEF Kept
      <4> QED
        BY <4>1, <3>1, <2>2, <1>1
    <3>2. CASE j = Len(r) + 1
      BY <3>2, <2>2, <1>5
    <3> QED
      BY <3>1, <3>2, <2>3
  <2>5. ASSUME NEW i \in 1..k, q[i].user # who
        PROVE  \E j \in 1..Len(t) : t[j] = q[i]
    <3>1. CASE i = k
      BY <3>1, <2>2, <2>1, <1>2
    <3>2. CASE i \in 1..(k - 1)
      <4>1. PICK j \in 1..Len(r) : r[j] = q[i]
        BY <3>2, <2>5 DEF Kept
      <4> QED
        BY <4>1, <2>2, <2>1, <1>2
    <3> QED
      BY <3>1, <3>2, <1>3
  <2>6. ASSUME NEW j \in 1..Len(r) PROVE r[j].user # q[k].user
    <3>1. PICK i \in 1..(k - 1) : r[j] = q[i]
      BY DEF Kept
    <3>2. i # k /\ i \in 1..Len(q)
      BY <1>1
    <3> QED
      BY <3>1, <3>2 DEF QueueOK
  <2>7. ASSUME NEW i \in 1..Len(t), NEW j \in 1..Len(t), i # j
        PROVE  t[i].user # t[j].user
    BY ZenonT(60), <2>2, <2>3, <2>6, <2>7 DEF Kept
  <2>8. Kept(t, q, who, k)
    BY <2>1, <2>4, <2>5, <2>7 DEF Kept
  <2> QED
    BY <1>5, <2>8 DEF KeptStep, t
<1> QED
  BY <1>4, <1>5

(* What WithoutRequests returns.                                           *)
LEMMA WithoutKept ==
    ASSUME NEW q, QueueOK(q), NEW who
    PROVE  Kept(WithoutRequests(q, who), q, who, Len(q))
<1> DEFINE N == Len(q)
           X == Seq(Requests)
           Rec(f) == [i \in 0..N |->
                        IF i = 0 THEN <<>>
                        ELSE IF q[i].user = who THEN f[i - 1]
                        ELSE Append(f[i - 1], q[i])]
           step == [i \in 1..N |-> [r \in X |-> KeptStep(r, q, who, i)]]
           rest == CHOOSE f : f = Rec(f)
<1>1. N \in Nat
  BY DEF QueueOK
<1>2. WithoutRequests(q, who) = rest[N]
  BY DEF WithoutRequests
<1> HIDE DEF N
<1>3. step \in [1..N -> [X -> X]]
  <2>1. ASSUME NEW i \in 1..N, NEW r \in X PROVE KeptStep(r, q, who, i) \in X
    <3>1. q[i] \in Requests
      BY RequestFields DEF N
    <3> QED
      BY <3>1 DEF KeptStep
  <2> HIDE DEF X
  <2> QED
    BY <2>1
<1>4. PICK g : Iterates(g, N, X, <<>>, step)
  <2>1. <<>> \in X
    OBVIOUS
  <2> HIDE DEF X, step
  <2> QED
    BY <1>1, <1>3, <2>1, IterationExists
<1>5. g = Rec(g)
  <2>1. ASSUME NEW i \in 0..N PROVE g[i] = Rec(g)[i]
    <3>1. CASE i = 0
      BY <3>1, <1>1, <1>4 DEF Iterates
    <3>2. CASE i # 0
      <4>1. i \in 1..N /\ g[i - 1] \in X
        BY <1>1, <1>4, <3>2 DEF Iterates
      <4>2. g[i] = step[i][g[i - 1]]
        BY <1>4, <4>1 DEF Iterates
      <4>3. g[i] = KeptStep(g[i - 1], q, who, i)
        BY <4>1, <4>2
      <4> QED
        BY <4>3, <3>2 DEF KeptStep
    <3> QED
      BY <3>1, <3>2
  <2>2. g = [i \in 0..N |-> g[i]]
    BY <1>4 DEF Iterates
  <2>3. Rec(g) = [i \in 0..N |-> Rec(g)[i]]
    OBVIOUS
  <2> HIDE DEF Rec
  <2> QED
    BY <2>1, <2>2, <2>3
<1>6. rest = Rec(rest)
  <2> HIDE DEF Rec
  <2> QED
    BY <1>5
<1> HIDE DEF rest
<1>7. rest[0] = <<>>
  BY <1>1, <1>6
<1>8. ASSUME NEW i \in 1..N PROVE rest[i] = KeptStep(rest[i - 1], q, who, i)
  <2>1. i \in 0..N /\ i # 0
    BY <1>1
  <2>2. Rec(rest)[i] = IF q[i].user = who THEN rest[i - 1] ELSE Append(rest[i - 1], q[i])
    BY <2>1
  <2> HIDE DEF Rec
  <2>3. rest[i] = Rec(rest)[i]
    BY <1>6
  <2> QED
    BY <2>2, <2>3 DEF KeptStep
<1> DEFINE P == {k \in 0..N : Kept(rest[k], q, who, k)}
<1>9. 0 \in P /\ P \in SUBSET (0..N)
  <2>1. Kept(<<>>, q, who, 0)
    BY DEF Kept
  <2> QED
    BY <2>1, <1>1, <1>7
<1>10. ASSUME NEW k \in 1..N, k - 1 \in P PROVE k \in P
  <2>1. Kept(rest[k - 1], q, who, k - 1) /\ k \in 0..N
    BY <1>1, <1>10
  <2>2. Kept(KeptStep(rest[k - 1], q, who, k), q, who, k)
    BY <2>1, KeptMore DEF N
  <2> QED
    BY <2>1, <2>2, <1>8
<1> HIDE DEF P
<1>11. P = 0..N
  BY <1>1, <1>9, <1>10, IntervalInduction
<1>12. Kept(rest[N], q, who, N)
  BY <1>1, <1>11 DEF P
<1> QED
  BY <1>2, <1>12 DEF N

(* A request of who for shares > Dust goes to the end of the queue.        *)
LEMMA QueuePush ==
    ASSUME NEW q, QueueOK(q), NEW who \in Holders, NEW request \in Requests,
           request.user = who, request.shares > Dust
    PROVE  /\ QueueOK(Append(WithoutRequests(q, who), request))
           /\ QueuedIn(Append(WithoutRequests(q, who), request), who) = request.shares
           /\ \A h : h # who =>
                QueuedIn(Append(WithoutRequests(q, who), request), h) = QueuedIn(q, h)
<1> DEFINE r == WithoutRequests(q, who)
           t == Append(r, request)
<1>1. Kept(r, q, who, Len(q))
  BY WithoutKept
<1>2. t = Append(r, request)
  OBVIOUS
<1> HIDE DEF r, t
<1>3. r \in Seq(Requests) /\ Len(r) \in Nat
  BY <1>1 DEF Kept
<1>4. t \in Seq(Requests) /\ Len(t) = Len(r) + 1 /\ Len(t) \in 1..Len(t)
  BY <1>2, <1>3
<1>5. t[Len(t)] = request /\ \A j \in 1..Len(r) : t[j] = r[j]
  BY <1>2, <1>3, <1>4
<1>6. \A j \in 1..Len(t) : j \in 1..Len(r) \/ j = Len(t)
  BY <1>3, <1>4
<1>7. \A j \in 1..Len(r) : r[j].user # who /\ r[j].shares > Dust
  BY <1>1 DEF Kept, QueueOK
<1>8. QueueOK(t)
  <2>1. \A j \in 1..Len(t) : t[j].shares > Dust
    BY <1>5, <1>6, <1>7
  <2>2. ASSUME NEW i \in 1..Len(t), NEW j \in 1..Len(t), i # j
        PROVE  t[i].user # t[j].user
    <3>1. \A k, l \in 1..Len(r) : k # l => r[k].user # r[l].user
      BY <1>1 DEF Kept
    <3> QED
      BY <3>1, <2>2, <1>5, <1>6, <1>7
  <2> QED
    BY <1>4, <2>1, <2>2 DEF QueueOK
<1>9. QueuedIn(t, who) = request.shares
  BY <1>4, <1>5, <1>8, QueuedFound
<1>10. ASSUME NEW h, h # who PROVE QueuedIn(t, h) = QueuedIn(q, h)
  <2>1. ASSUME NEW i \in 1..Len(q), q[i].user = h
        PROVE  \E j \in 1..Len(t) : t[j].user = h /\ t[j].shares = q[i].shares
    <3>1. PICK j \in 1..Len(r) : r[j] = q[i]
      BY <1>1, <1>10, <2>1 DEF Kept
    <3>2. j \in 1..Len(t) /\ t[j] = q[i]
      BY <3>1, <1>3, <1>4, <1>5
    <3> QED
      BY <3>2, <2>1
  <2>2. ASSUME NEW j \in 1..Len(t), t[j].user = h
        PROVE  \E i \in 1..Len(q) : q[i].user = h /\ t[j].shares = q[i].shares
    <3>1. j \in 1..Len(r)
      BY <1>5, <1>6, <1>10, <2>2
    <3>2. PICK i \in 1..Len(q) : r[j] = q[i]
      BY <1>1, <3>1 DEF Kept
    <3> QED
      BY <3>1, <3>2, <1>5, <2>2
  <2> QED
    BY <2>1, <2>2, <1>8, QueuedSame
<1> QED
  BY <1>8, <1>9, <1>10 DEF r, t

----------------------------------------------------------------------------
(* Prices and parts.                                                       *)

(* A product of natural numbers, divided, is a natural number.             *)
LEMMA QuotientNat ==
    ASSUME NEW x \in Nat, NEW y \in Nat, NEW z \in Nat \ {0}
    PROVE  (x * y) \div z \in Nat
<1>1. x * y \in Nat
  OBVIOUS
<1>2. \A m \in Nat : m \div z \in Nat
  OBVIOUS
<1> QED
  BY <1>1, <1>2

(* The price of a share, and what shares and amounts are worth at a price. *)
LEMMA PriceNat ==
    ASSUME NEW x \in Nat, NEW price \in Nat
    PROVE  /\ bmul(x, price) \in Nat
           /\ price # 0 => bdiv(x, price) \in Nat
           /\ \A b : b.value \in Nat /\ b.shares \in Nat \ {0} => SharePrice(b) \in Nat
<1>1. PriceScale \in Nat \ {0}
  BY PoolsAssumption
<1>2. bmul(x, price) \in Nat
  BY <1>1, QuotientNat DEF bmul
<1>3. price # 0 => bdiv(x, price) \in Nat
  BY <1>1, QuotientNat DEF bdiv
<1>4. \A b : b.value \in Nat /\ b.shares \in Nat \ {0} => SharePrice(b) \in Nat
  BY <1>1, QuotientNat DEF SharePrice
<1> QED
  BY <1>2, <1>3, <1>4

(* A percentage of an amount is at most the amount.                        *)
LEMMA PartBound ==
    ASSUME NEW c \in 0..100, NEW d \in Nat
    PROVE  Part(c, d) \in 0..d
<1>1. c * d \in Nat /\ c * d <= 100 * d
  <2>1. (100 - c) * d \in Nat
    OBVIOUS
  <2>2. (100 - c) * d = 100 * d - c * d
    OBVIOUS
  <2>3. c * d \in Nat
    OBVIOUS
  <2> QED
    BY <2>1, <2>2, <2>3
<1>2. \A m \in Nat : m <= 100 * d => (m + 49) \div 100 \in 0..d
  OBVIOUS
<1> QED
  BY <1>1, <1>2 DEF Part

(* The larger of two numbers.                                              *)
LEMMA MaxOfTwo ==
    ASSUME NEW x \in Int, NEW y \in Int
    PROVE  /\ Max({x, y}) \in {x, y}
           /\ Max({x, y}) >= x /\ Max({x, y}) >= y
<1>1. \E m \in {x, y} : \A n \in {x, y} : m >= n
  <2>1. CASE x >= y
    BY <2>1
  <2>2. CASE y >= x
    BY <2>2
  <2> QED
    BY <2>1, <2>2
<1> QED
  BY <1>1 DEF Max

(* Ages are bounded by a positive number.                                  *)
LEMMA MaxAgeNat == MaxAge \in Nat \ {0}
<1>1. 3 * GracePeriod \in Nat /\ VaultQueuePeriod \in Nat
  BY PoolsAssumption
<1>2. Max({3 * GracePeriod, VaultQueuePeriod}) \in Nat
  <2> DEFINE x == 3 * GracePeriod
             y == VaultQueuePeriod
  <2>1. x \in Nat /\ y \in Nat
    BY <1>1
  <2> HIDE DEF x, y
  <2>2. Max({x, y}) \in {x, y}
    BY <2>1, MaxOfTwo
  <2>3. Max({x, y}) \in Nat
    BY <2>1, <2>2
  <2> QED
    BY <2>3 DEF x, y
<1> QED
  BY <1>2 DEF MaxAge

(* The accounts are finitely many, and the named ones are no users.        *)
LEMMA AccountFacts ==
    /\ IsFiniteSet(Holders) /\ IsFiniteSet(Accounts) /\ IsFiniteSet(Pids)
    /\ Holders \subseteq Accounts /\ Pids \subseteq Accounts /\ Users \subseteq Holders
    /\ Vault \in Holders /\ LockAccount \in Accounts /\ OwnerReward \in Accounts
    /\ StakePool # Vault
    /\ \A h \in Holders : h # StakePool /\ h # LockAccount /\ h # OwnerReward
    /\ LockAccount \notin Pids /\ LockAccount # OwnerReward /\ OwnerReward \notin Pids
<1>1. IsFiniteSet(Users)
  BY PoolsAssumption
<1>2. IsFiniteSet(Users \cup {Vault})
  BY <1>1, FS_AddElement
<1>3. IsFiniteSet(Holders)
  BY <1>2 DEF Holders
<1>4. IsFiniteSet({StakePool, LockAccount, OwnerReward}) /\ IsFiniteSet({StakePool, Vault})
  <2>1. IsFiniteSet({} \cup {StakePool})
    BY FS_EmptySet, FS_AddElement
  <2>2. IsFiniteSet(({} \cup {StakePool}) \cup {LockAccount})
    BY <2>1, FS_AddElement
  <2>3. IsFiniteSet((({} \cup {StakePool}) \cup {LockAccount}) \cup {OwnerReward})
    BY <2>2, FS_AddElement
  <2>4. IsFiniteSet(({} \cup {StakePool}) \cup {Vault})
    BY <2>1, FS_AddElement
  <2>5. (({} \cup {StakePool}) \cup {LockAccount}) \cup {OwnerReward}
          = {StakePool, LockAccount, OwnerReward}
    OBVIOUS
  <2>6. ({} \cup {StakePool}) \cup {Vault} = {StakePool, Vault}
    OBVIOUS
  <2> QED
    BY <2>3, <2>4, <2>5, <2>6
<1>5. IsFiniteSet(Accounts)
  BY <1>3, <1>4, FS_Union DEF Accounts
<1>6. \A h \in Users : h # "stakepool" /\ h # "lock" /\ h # "reward"
  BY PoolsAssumption
<1>7. \A h \in Holders : h # StakePool /\ h # LockAccount /\ h # OwnerReward
  BY <1>6 DEF Holders, StakePool, LockAccount, OwnerReward, Vault
<1> QED
  BY <1>3, <1>4, <1>5, <1>7
     DEF Accounts, Holders, Pids, StakePool, Vault, LockAccount, OwnerReward

----------------------------------------------------------------------------
(* The books.                                                              *)

PoolBook == [shares : Nat, value : Nat, queue : Seq(Requests)]

BookSet == [pool : [Pids -> PoolBook], nft : [Pids -> [Holders -> Nat]],
            wpha : [Accounts -> Nat]]

(* The shares of an account in a pool, held or queued.                     *)
Held(s, p, h) == s.nft[p][h] + QueuedIn(s.pool[p].queue, h)

OwnerPart(p, n) == IF p = Vault THEN n ELSE 0

Covered(s) == s.pool[StakePool].value <= s.wpha[StakePool] + s.wpha[LockAccount]

(* The books when the vault keeps n shares for its owner.                  *)
Sound(s, n) ==
  /\ s \in BookSet
  /\ \A p \in Pids : QueueOK(s.pool[p].queue)
  /\ \A p \in Pids : s.pool[p].shares = Redeemable(s, p) + OwnerPart(p, n)
  /\ Covered(s)

(* No W-PHA is minted or burnt and the lock account is left alone.         *)
Conserves(s, t) ==
  /\ t.wpha[LockAccount] = s.wpha[LockAccount]
  /\ SumOver(t.wpha) = SumOver(s.wpha)

(* The types of the books.                                                 *)
LEMMA BookFields ==
    ASSUME NEW s \in BookSet, NEW p \in Pids
    PROVE  /\ s.pool \in [Pids -> PoolBook] /\ s.nft \in [Pids -> [Holders -> Nat]]
           /\ s.wpha \in [Accounts -> Nat]
           /\ s.pool[p] \in PoolBook /\ s.nft[p] \in [Holders -> Nat]
           /\ s.pool[p].shares \in Nat /\ s.pool[p].value \in Nat
           /\ s.pool[p].queue \in Seq(Requests) /\ Len(s.pool[p].queue) \in Nat
           /\ s = [pool |-> s.pool, nft |-> s.nft, wpha |-> s.wpha]
           /\ \A a \in Accounts : s.wpha[a] \in Nat
<1>1. s.pool \in [Pids -> PoolBook] /\ s.nft \in [Pids -> [Holders -> Nat]]
      /\ s.wpha \in [Accounts -> Nat]
  BY DEF BookSet
<1>2. s = [pool |-> s.pool, nft |-> s.nft, wpha |-> s.wpha]
  BY DEF BookSet
<1>3. s.pool[p] \in PoolBook /\ s.nft[p] \in [Holders -> Nat]
  BY <1>1
<1>4. s.pool[p].shares \in Nat /\ s.pool[p].value \in Nat
      /\ s.pool[p].queue \in Seq(Requests)
  BY <1>3 DEF PoolBook
<1> QED
  BY <1>1, <1>2, <1>3, <1>4

(* What the accounts hold, as a function that is summed.                   *)
LEMMA HeldNat ==
    ASSUME NEW s \in BookSet, NEW p \in Pids, QueueOK(s.pool[p].queue)
    PROVE  /\ \A h \in Holders : Held(s, p, h) \in Nat
           /\ [h \in Holders |-> Held(s, p, h)] \in [Holders -> Nat]
           /\ Redeemable(s, p) = SumOver([h \in Holders |-> Held(s, p, h)])
           /\ Redeemable(s, p) \in Nat
           /\ \A h \in Holders : Held(s, p, h) <= Redeemable(s, p)
           /\ \A h : QueuedShares(s.pool[p], h) = QueuedIn(s.pool[p].queue, h)
<1> DEFINE f == [h \in Holders |-> Held(s, p, h)]
<1>1. \A h \in Holders : s.nft[p][h] \in Nat
  BY BookFields
<1>2. \A h \in Holders : Held(s, p, h) \in Nat
  BY <1>1, QueuedFound DEF Held
<1>3. f \in [Holders -> Nat] /\ \A h \in Holders : f[h] = Held(s, p, h)
  BY <1>2
<1>4. \A h : QueuedShares(s.pool[p], h) = QueuedIn(s.pool[p].queue, h)
  BY DEF QueuedShares, QueuedIn
<1>5. Redeemable(s, p) = SumOver(f)
  BY <1>4 DEF Redeemable, Held
<1> HIDE DEF f
<1>6. SumOver(f) \in Nat
  BY <1>3, AccountFacts, SumNat
<1>7. ASSUME NEW h \in Holders PROVE Held(s, p, h) <= SumOver(f)
  <2>1. f[h] \in 0..SumOver(f)
    BY <1>3, AccountFacts, SumBound
  <2> QED
    BY <2>1, <1>3, <1>6
<1> QED
  BY <1>2, <1>3, <1>4, <1>5, <1>6, <1>7 DEF f

(* The holding of one account changes, and the others keep theirs.         *)
LEMMA RedeemableChange ==
    ASSUME NEW s \in BookSet, NEW t \in BookSet, NEW p \in Pids,
           QueueOK(s.pool[p].queue), QueueOK(t.pool[p].queue), NEW who \in Holders,
           \A h \in Holders : h # who => Held(t, p, h) = Held(s, p, h)
    PROVE  Redeemable(t, p) = Redeemable(s, p) + (Held(t, p, who) - Held(s, p, who))
<1> DEFINE f == [h \in Holders |-> Held(s, p, h)]
           g == [h \in Holders |-> Held(t, p, h)]
<1>1. f \in [Holders -> Nat] /\ Redeemable(s, p) = SumOver(f)
  BY HeldNat
<1>2. g \in [Holders -> Nat] /\ Redeemable(t, p) = SumOver(g)
  BY HeldNat
<1>3. \A h \in Holders : f[h] = Held(s, p, h) /\ g[h] = Held(t, p, h)
  OBVIOUS
<1> HIDE DEF f, g
<1>4. f \in [Holders -> Int] /\ g \in [Holders -> Int]
  BY <1>1, <1>2
<1>5. SumOver(g) = SumOver(f) + (g[who] - f[who])
  BY <1>3, <1>4, AccountFacts, SumChange
<1> QED
  BY <1>1, <1>2, <1>3, <1>5

(* Nobody's holding changes.                                               *)
LEMMA RedeemableSame ==
    ASSUME NEW s \in BookSet, NEW t \in BookSet, NEW p \in Pids,
           QueueOK(s.pool[p].queue), QueueOK(t.pool[p].queue),
           \A h \in Holders : Held(t, p, h) = Held(s, p, h)
    PROVE  Redeemable(t, p) = Redeemable(s, p)
<1>1. Redeemable(s, p) = SumOver([h \in Holders |-> Held(s, p, h)])
  BY HeldNat
<1>2. Redeemable(t, p) = SumOver([h \in Holders |-> Held(t, p, h)])
  BY HeldNat
<1>3. [h \in Holders |-> Held(t, p, h)] = [h \in Holders |-> Held(s, p, h)]
  OBVIOUS
<1> QED
  BY <1>1, <1>2, <1>3

(* t differs from s in pool p, in the holding of who there, and in the     *)
(* balances.                                                               *)
Touches(s, t, p, who) ==
  /\ t \in BookSet /\ QueueOK(t.pool[p].queue)
  /\ \A q \in Pids : q # p => t.pool[q] = s.pool[q] /\ t.nft[q] = s.nft[q]
  /\ \A h \in Holders : h # who => Held(t, p, h) = Held(s, p, h)

(* The total follows the holding that changes and the owner's shares.      *)
Follows(s, t, p, who, n, m) ==
  /\ t.pool[p].shares = s.pool[p].shares + (Held(t, p, who) - Held(s, p, who))
                          + (OwnerPart(p, m) - OwnerPart(p, n))
  /\ p # Vault => m = n

(* A change of one pool that keeps the books sound.                        *)
LEMMA SoundChange ==
    ASSUME NEW s, NEW t, NEW n \in Nat, NEW m \in Nat, NEW p \in Pids,
           NEW who \in Holders, Sound(s, n), Touches(s, t, p, who),
           Follows(s, t, p, who, n, m), Covered(t)
    PROVE  Sound(t, m)
<1>1. s \in BookSet /\ t \in BookSet
  BY DEF Sound, Touches
<1>2. \A q \in Pids : QueueOK(s.pool[q].queue)
  BY DEF Sound
<1>3. \A q \in Pids : QueueOK(t.pool[q].queue)
  BY <1>2 DEF Touches
<1>4. ASSUME NEW q \in Pids
      PROVE  t.pool[q].shares = Redeemable(t, q) + OwnerPart(q, m)
  <2>1. s.pool[q].shares = Redeemable(s, q) + OwnerPart(q, n)
    BY DEF Sound
  <2>2. CASE q = p
    <3>1. Redeemable(t, p) = Redeemable(s, p) + (Held(t, p, who) - Held(s, p, who))
      BY <1>1, <1>2, <1>3, RedeemableChange DEF Touches
    <3>2. Redeemable(s, p) \in Nat /\ Held(s, p, who) \in Nat
      BY <1>1, <1>2, HeldNat
    <3>3. Held(t, p, who) \in Nat
      BY <1>1, <1>3, HeldNat
    <3>4. OwnerPart(p, n) \in Nat /\ OwnerPart(p, m) \in Nat
      BY DEF OwnerPart
    <3>5. t.pool[p].shares = s.pool[p].shares + (Held(t, p, who) - Held(s, p, who))
                               + (OwnerPart(p, m) - OwnerPart(p, n))
      BY DEF Follows
    <3>6. s.pool[p].shares = Redeemable(s, p) + OwnerPart(p, n)
      BY <2>1, <2>2
    <3>7. t.pool[p].shares = Redeemable(t, p) + OwnerPart(p, m)
      BY <3>1, <3>2, <3>3, <3>4, <3>5, <3>6
    <3> QED
      BY <3>7, <2>2
  <2>3. CASE q # p
    <3>1. t.pool[q] = s.pool[q] /\ t.nft[q] = s.nft[q]
      BY <2>3 DEF Touches
    <3>2. \A h \in Holders : Held(t, q, h) = Held(s, q, h)
      BY <3>1 DEF Held
    <3>3. Redeemable(t, q) = Redeemable(s, q)
      BY <3>2, <1>1, <1>2, <1>3, RedeemableSame
    <3>4. OwnerPart(q, m) = OwnerPart(q, n)
      BY <2>3 DEF Follows, OwnerPart, Pids
    <3> QED
      BY <2>1, <3>1, <3>3, <3>4
  <2> QED
    BY <2>2, <2>3
<1> QED
  BY <1>1, <1>3, <1>4 DEF Sound

(* The balances after a transfer.                                          *)
Moved(v, w, from, to, amount) ==
  /\ v \in [Accounts -> Nat] /\ SumOver(v) = SumOver(w)
  /\ \A a \in Accounts : v[a] = w[a] - (IF a = from THEN amount ELSE 0)
                                     + (IF a = to THEN amount ELSE 0)

(* A transfer that the sender can pay conserves the sum of the balances.   *)
LEMMA TransferMoves ==
    ASSUME NEW s \in BookSet, NEW from \in Accounts, NEW to \in Accounts,
           NEW amount \in 0..s.wpha[from]
    PROVE  /\ Transfer(s, from, to, amount) \in BookSet
           /\ Transfer(s, from, to, amount).pool = s.pool
           /\ Transfer(s, from, to, amount).nft = s.nft
           /\ Moved(Transfer(s, from, to, amount).wpha, s.wpha, from, to, amount)
<1> DEFINE w == s.wpha
           v == [a \in Accounts |-> w[a] - (IF a = from THEN amount ELSE 0)
                                         + (IF a = to THEN amount ELSE 0)]
           u == [a \in Accounts |-> w[a] - (IF a = from THEN amount ELSE 0)]
<1>1. w \in [Accounts -> Nat] /\ s.pool \in [Pids -> PoolBook]
      /\ s.nft \in [Pids -> [Holders -> Nat]]
  BY DEF BookSet
<1>2. amount \in Nat /\ amount <= w[from]
  BY <1>1
<1>3. Transfer(s, from, to, amount) = [s EXCEPT !.wpha = v]
  BY DEF Transfer
<1>4. \A a \in Accounts : u[a] \in Nat /\ v[a] \in Nat
  BY <1>1, <1>2
<1>5. u \in [Accounts -> Nat] /\ v \in [Accounts -> Nat]
  BY <1>4
<1>6. \A a \in Accounts : v[a] = w[a] - (IF a = from THEN amount ELSE 0)
                                     + (IF a = to THEN amount ELSE 0)
  OBVIOUS
<1>7. \A a \in Accounts : a # from => u[a] = w[a]
  BY <1>1
<1>8. \A a \in Accounts : a # to => v[a] = u[a]
  BY <1>1, <1>4
<1>9. u[from] = w[from] - amount /\ v[to] = u[to] + amount
  OBVIOUS
<1>10. [s EXCEPT !.wpha = v].pool = s.pool /\ [s EXCEPT !.wpha = v].nft = s.nft
       /\ [s EXCEPT !.wpha = v].wpha = v
  BY DEF BookSet
<1>11. [s EXCEPT !.wpha = v] \in BookSet
  BY <1>5 DEF BookSet
<1>12. w \in [Accounts -> Int] /\ u \in [Accounts -> Int] /\ v \in [Accounts -> Int]
  BY <1>1, <1>5
<1> HIDE DEF u, v, w
<1>13. SumOver(u) = SumOver(w) + (u[from] - w[from])
  BY <1>7, <1>12, AccountFacts, SumChange
<1>14. SumOver(v) = SumOver(u) + (v[to] - u[to])
  BY <1>8, <1>12, AccountFacts, SumChange
<1>15. SumOver(u) \in Int /\ SumOver(w) \in Int
  BY <1>12, AccountFacts, SumFacts
<1>16. SumOver(v) = SumOver(w)
  <2>1. u[to] \in Nat /\ w[from] \in Nat
    BY <1>1, <1>5
  <2> QED
    BY <2>1, <1>2, <1>9, <1>13, <1>14, <1>15
<1>17. Moved(v, w, from, to, amount)
  BY <1>5, <1>6, <1>16 DEF Moved
<1> QED
  BY <1>3, <1>10, <1>11, <1>17 DEF w

(* The books with another account of pool p and other balances.            *)
Replaced(s, p, b, v) ==
  [pool |-> [s.pool EXCEPT ![p] = b], nft |-> s.nft, wpha |-> v]

(* Replacing the books of a pool and the balances.                         *)
LEMMA ReplacedFields ==
    ASSUME NEW s \in BookSet, NEW p \in Pids, NEW b \in PoolBook,
           NEW v \in [Accounts -> Nat]
    PROVE  /\ Replaced(s, p, b, v) \in BookSet
           /\ Replaced(s, p, b, v).pool[p] = b
           /\ \A q \in Pids : q # p => Replaced(s, p, b, v).pool[q] = s.pool[q]
           /\ Replaced(s, p, b, v).nft = s.nft
           /\ Replaced(s, p, b, v).wpha = v
<1>1. s.pool \in [Pids -> PoolBook] /\ s.nft \in [Pids -> [Holders -> Nat]]
  BY DEF BookSet
<1>2. [s.pool EXCEPT ![p] = b] \in [Pids -> PoolBook]
  BY <1>1
<1>3. [s.pool EXCEPT ![p] = b][p] = b
      /\ \A q \in Pids : q # p => [s.pool EXCEPT ![p] = b][q] = s.pool[q]
  BY <1>1
<1> QED
  BY <1>1, <1>2, <1>3 DEF Replaced, BookSet

(* A request leaves a pool together with its shares.                       *)
LEMMA BurntPool ==
    ASSUME NEW b, b = [shares |-> b.shares, value |-> b.value, queue |-> b.queue], NEW k
    PROVE  [b EXCEPT !.shares = @ - k, !.queue = Tail(@)] =
             [shares |-> b.shares - k, value |-> b.value, queue |-> Tail(b.queue)]
<1> DEFINE x == b.shares
           y == b.value
           z == b.queue
           d == x - k
           t == Tail(z)
           c == [b EXCEPT !.shares = d]
<1>1. b = [shares |-> x, value |-> y, queue |-> z]
  OBVIOUS
<1>2. [b EXCEPT !.shares = @ - k, !.queue = Tail(@)] = [b EXCEPT !.shares = d, !.queue = t]
  OBVIOUS
<1> HIDE DEF d, t, x, y, z
<1>3. [b EXCEPT !.shares = d, !.queue = t] = [c EXCEPT !.queue = t]
  OBVIOUS
<1>4. c = [shares |-> d, value |-> y, queue |-> z]
  BY <1>1
<1> HIDE DEF c
<1>5. [c EXCEPT !.queue = t] = [shares |-> d, value |-> y, queue |-> t]
  BY <1>4
<1> QED
  BY <1>2, <1>3, <1>5 DEF d, t, x, y, z

(* Updating the account of one pool in the books.                          *)
LEMMA ExceptPool ==
    ASSUME NEW s \in BookSet, NEW p \in Pids, NEW b
    PROVE  [s EXCEPT !.pool[p] = b] = Replaced(s, p, b, s.wpha)
<1>1. s = [pool |-> s.pool, nft |-> s.nft, wpha |-> s.wpha]
  BY DEF BookSet
<1> DEFINE P == s.pool
           F == s.nft
           W == s.wpha
<1>2. s = [pool |-> P, nft |-> F, wpha |-> W]
  BY <1>1
<1> HIDE DEF P, F, W
<1>3. [s EXCEPT !.pool[p] = b] = [pool |-> [P EXCEPT ![p] = b], nft |-> F, wpha |-> W]
  BY <1>2
<1> QED
  BY <1>3 DEF Replaced, P, F, W

(* The first request of pool p becomes one for the shares of its user in   *)
(* the queue of b, and the user is paid.                                   *)
FrontServed(s, p, b, v, paid) ==
  LET old == s.pool[p]
      who == old.queue[1].user
  IN /\ b \in PoolBook /\ QueueOK(b.queue)
     /\ \A h : h # who => QueuedIn(b.queue, h) = QueuedIn(old.queue, h)
     /\ b.shares = old.shares - (QueuedIn(old.queue, who) - QueuedIn(b.queue, who))
     /\ Moved(v, s.wpha, p, who, paid)
     /\ b.value = old.value - paid \/ b.value = 0

(* Serving the front keeps the books sound.                                *)
LEMMA FrontServedSound ==
    ASSUME NEW s, NEW n \in Nat, Sound(s, n), NEW p \in Pids, s.pool[p].queue # <<>>,
           NEW b, NEW v, NEW paid \in 0..s.wpha[p], FrontServed(s, p, b, v, paid)
    PROVE  Sound(Replaced(s, p, b, v), n) /\ Conserves(s, Replaced(s, p, b, v))
<1> DEFINE t == Replaced(s, p, b, v)
           q == s.pool[p].queue
           who == q[1].user
<1>1. s \in BookSet /\ QueueOK(q)
  BY DEF Sound
<1>2. 1 \in 1..Len(q) /\ who \in Holders
  <2>1. q \in Seq(Requests)
    BY <1>1 DEF QueueOK
  <2>2. 1 \in 1..Len(q)
    BY <2>1
  <2> QED
    BY <1>1, <2>2, RequestFields
<1>3. b \in PoolBook /\ QueueOK(b.queue)
  BY DEF FrontServed
<1>4. \A h : h # who => QueuedIn(b.queue, h) = QueuedIn(q, h)
  BY DEF FrontServed
<1>5. b.shares = s.pool[p].shares - (QueuedIn(q, who) - QueuedIn(b.queue, who))
  BY DEF FrontServed
<1>6. Moved(v, s.wpha, p, who, paid)
  BY DEF FrontServed
<1>7. b.value = s.pool[p].value - paid \/ b.value = 0
  BY DEF FrontServed
<1>8. v \in [Accounts -> Nat] /\ SumOver(v) = SumOver(s.wpha)
  BY <1>6 DEF Moved
<1>9. t \in BookSet /\ t.pool[p] = b /\ t.nft = s.nft /\ t.wpha = v
      /\ \A i \in Pids : i # p => t.pool[i] = s.pool[i]
  BY <1>1, <1>3, <1>8, ReplacedFields
<1> HIDE DEF t, who
<1>10. \A h : Held(t, p, h) = s.nft[p][h] + QueuedIn(b.queue, h)
  BY <1>9 DEF Held
<1>11. \A h : Held(s, p, h) = s.nft[p][h] + QueuedIn(q, h)
  BY DEF Held
<1>12. Touches(s, t, p, who)
  BY <1>3, <1>4, <1>9, <1>10, <1>11 DEF Touches
<1>13. Follows(s, t, p, who, n, n)
  <2>1. s.nft[p][who] \in Nat /\ s.pool[p].shares \in Nat
    BY <1>1, <1>2, BookFields
  <2>2. QueuedIn(q, who) \in Nat /\ QueuedIn(b.queue, who) \in Nat
    BY <1>1, <1>3, QueuedFound
  <2>3. OwnerPart(p, n) - OwnerPart(p, n) = 0
    BY DEF OwnerPart
  <2>4. Held(t, p, who) - Held(s, p, who) = QueuedIn(b.queue, who) - QueuedIn(q, who)
    BY <1>10, <1>11, <2>1, <2>2
  <2>5. t.pool[p].shares = s.pool[p].shares + (Held(t, p, who) - Held(s, p, who)) + 0
    BY <2>1, <2>2, <2>4, <1>5, <1>9
  <2> QED
    BY <2>3, <2>5 DEF Follows
<1>14. \A a \in Accounts : v[a] = s.wpha[a] - (IF a = p THEN paid ELSE 0)
                                            + (IF a = who THEN paid ELSE 0)
  BY <1>6 DEF Moved
<1>15. \A a \in Accounts : s.wpha[a] \in Nat
  BY <1>1, BookFields
<1>16. v[LockAccount] = s.wpha[LockAccount]
  BY <1>2, <1>14, <1>15, AccountFacts
<1>17. Covered(t)
  <2>1. Covered(s) /\ s.pool[StakePool].value \in Nat
    BY <1>1, BookFields DEF Sound, Pids
  <2>2. paid \in Nat /\ paid <= s.wpha[p]
    BY <1>15, AccountFacts
  <2>3. s.wpha[StakePool] \in Nat /\ s.wpha[LockAccount] \in Nat /\ v[StakePool] \in Nat
        /\ v[LockAccount] \in Nat
    BY <1>8, <1>15, AccountFacts DEF Pids
  <2>4. CASE p = StakePool
    <3>1. v[StakePool] = s.wpha[StakePool] - paid
      BY <2>4, <2>2, <2>3, <1>2, <1>14, AccountFacts
    <3>2. t.pool[StakePool].value = s.pool[StakePool].value - paid
          \/ t.pool[StakePool].value = 0
      BY <1>7, <1>9, <2>4
    <3>3. s.pool[StakePool].value <= s.wpha[StakePool] + s.wpha[LockAccount]
      BY <2>1 DEF Covered
    <3>4. paid <= s.wpha[StakePool]
      BY <2>2, <2>4
    <3> DEFINE x == t.pool[StakePool].value
               y == s.pool[StakePool].value
               free == s.wpha[StakePool]
               locked == s.wpha[LockAccount]
    <3>6. y \in Nat /\ free \in Nat /\ locked \in Nat /\ y <= free + locked
          /\ paid \in Nat /\ paid <= free /\ (x = y - paid \/ x = 0)
      BY <2>1, <2>2, <2>3, <3>2, <3>3, <3>4
    <3>7. v[StakePool] = free - paid /\ v[LockAccount] = locked
      BY <3>1, <1>16
    <3> HIDE DEF x, y, free, locked
    <3>8. x <= (free - paid) + locked
      BY <3>6
    <3>5. t.pool[StakePool].value <= v[StakePool] + v[LockAccount]
      BY <3>7, <3>8 DEF x
    <3> QED
      BY <3>5, <1>9 DEF Covered
  <2>5. CASE p # StakePool
    <3>1. t.pool[StakePool] = s.pool[StakePool]
      BY <1>9, <2>5 DEF Pids
    <3>2. v[StakePool] = s.wpha[StakePool]
      <4>1. StakePool \in Accounts /\ StakePool # who
        BY <1>2, AccountFacts DEF Pids
      <4>2. v[StakePool] = s.wpha[StakePool] - 0 + 0
        BY <4>1, <2>5, <1>14
      <4> QED
        BY <4>2, <2>3
    <3> QED
      BY <2>1, <3>1, <3>2, <1>9, <1>16 DEF Covered
  <2> QED
    BY <2>4, <2>5
<1>18. Sound(t, n)
  BY <1>2, <1>12, <1>13, <1>17, SoundChange
<1>19. Conserves(s, t)
  BY <1>8, <1>9, <1>16 DEF Conserves
<1> QED
  BY <1>18, <1>19 DEF t

(* What remains after dust is extracted.                                   *)
LEMMA DustFacts ==
    ASSUME NEW x \in Int
    PROVE  /\ ExtractDust(x) \in Nat
           /\ ExtractDust(x) = 0 \/ (ExtractDust(x) = x /\ x > Dust)
BY PoolsAssumption DEF ExtractDust, IsDust

(* One turn of the loop of try_process_withdraw_queue.                     *)
LEMMA ServeFrontSound ==
    ASSUME NEW s, NEW n \in Nat, Sound(s, n), NEW p \in Pids, s.pool[p].queue # <<>>,
           NEW price \in Nat
    PROVE  Sound(ServeFront(p, price, s), n) /\ Conserves(s, ServeFront(p, price, s))
<1> DEFINE b == s.pool[p]
           q == b.queue
           r == Head(q)
           shares == IF price = 0 THEN r.shares
                     ELSE Least(bdiv(s.wpha[p], price), r.shares)
           after == RemoveStakeFromNft(b, s.wpha[p], r, shares)
           paid == after.paid
           left == after.left
           v == Transfer(s, p, r.user, paid).wpha
<1>1. s \in BookSet /\ QueueOK(q)
  BY DEF Sound
<1>2. b \in PoolBook /\ q \in Seq(Requests) /\ b.shares \in Nat /\ b.value \in Nat
      /\ s.wpha[p] \in Nat /\ p \in Accounts
  BY <1>1, BookFields, AccountFacts
<1>3. 1 \in 1..Len(q) /\ r = q[1]
  BY <1>2
<1>4. r.user \in Holders /\ r.shares \in Nat \ {0} /\ r.shares > Dust
  BY <1>1, <1>3, RequestFields
<1>5. QueuedIn(q, r.user) = r.shares
  BY <1>1, <1>3, QueuedFound
<1>6. r.shares <= b.shares
  <2>1. Held(s, p, r.user) <= Redeemable(s, p) /\ Redeemable(s, p) \in Nat
    BY <1>1, <1>4, HeldNat
  <2>2. Held(s, p, r.user) = s.nft[p][r.user] + r.shares /\ s.nft[p][r.user] \in Nat
    BY <1>1, <1>4, <1>5, BookFields DEF Held
  <2>3. b.shares = Redeemable(s, p) + OwnerPart(p, n) /\ OwnerPart(p, n) \in Nat
    BY DEF Sound, OwnerPart
  <2> QED
    BY SMTT(30), <2>1, <2>2, <2>3, <1>4
<1>7. shares \in 0..r.shares
  <2>1. price # 0 => bdiv(s.wpha[p], price) \in Nat
    BY <1>2, PriceNat
  <2> QED
    BY <2>1, <1>4 DEF Least
<1>8. SharePrice(b) \in Nat
  <2>1. b.shares \in Nat \ {0}
    BY <1>2, <1>4, <1>6
  <2> QED
    BY <2>1, <1>2, PriceNat
<1> HIDE DEF shares
<1>9. paid = Least(bmul(shares, SharePrice(b)), s.wpha[p])
      /\ left = ExtractDust(r.shares - shares)
      /\ after.pool = [b EXCEPT !.shares = @ - (r.shares - left),
                                !.value = ExtractDust(@ - paid)]
  BY DEF RemoveStakeFromNft
<1>10. paid \in 0..s.wpha[p]
  <2>1. bmul(shares, SharePrice(b)) \in Nat
    <3>1. shares \in Nat
      BY <1>4, <1>7
    <3> QED
      BY <3>1, <1>8, PriceNat
  <2> QED
    BY <2>1, <1>2, <1>9 DEF Least
<1>11. left \in Nat /\ left <= r.shares /\ (left = 0 \/ left > Dust)
  <2>1. r.shares - shares \in Int /\ r.shares - shares <= r.shares
    BY <1>4, <1>7
  <2> QED
    BY <2>1, <1>4, <1>9, DustFacts
<1> DEFINE value == ExtractDust(b.value - paid)
<1>12. value \in Nat /\ (value = b.value - paid \/ value = 0)
  <2>1. b.value - paid \in Int
    BY <1>2, <1>10
  <2> QED
    BY <2>1, DustFacts
<1>13. after.pool = [shares |-> b.shares - (r.shares - left), value |-> value, queue |-> q]
  <2> HIDE DEF value, after, paid, left
  <2> QED
    BY <1>2, <1>9 DEF PoolBook, value
<1>14. r.user \in Accounts
  BY <1>4, AccountFacts
<1>15. Moved(v, s.wpha, p, r.user, paid) /\ Transfer(s, p, r.user, paid) \in BookSet
       /\ Transfer(s, p, r.user, paid).pool = s.pool /\ Transfer(s, p, r.user, paid).nft = s.nft
  BY <1>1, <1>2, <1>10, <1>14, TransferMoves
<1>16. ServeFront(p, price, s) =
         IF WorthDust(b, r.shares)
         THEN [s EXCEPT !.pool[p] = [b EXCEPT !.shares = @ - r.shares,
                                              !.queue = Tail(@)]]
         ELSE [Transfer(s, p, r.user, paid) EXCEPT !.pool[p] =
                 IF left = 0 \/ WorthDust(after.pool, left)
                 THEN [after.pool EXCEPT !.shares = @ - left,
                                         !.queue = Tail(@)]
                 ELSE [after.pool EXCEPT !.queue[1].shares = left]]
  BY DEF ServeFront, shares
<1> HIDE DEF after, paid, left, value, v
<1>17. q # <<>> /\ b = s.pool[p] /\ q = b.queue
  OBVIOUS
<1> HIDE DEF b, q, r
<1>18. QueueOK(Tail(q)) /\ QueuedIn(Tail(q), r.user) = 0
       /\ \A h : h # r.user => QueuedIn(Tail(q), h) = QueuedIn(q, h)
  <2>1. QueueOK(Tail(q)) /\ QueuedIn(Tail(q), q[1].user) = 0
        /\ \A h : h # q[1].user => QueuedIn(Tail(q), h) = QueuedIn(q, h)
    BY <1>1, <1>17, QueueTail
  <2> QED
    BY <2>1, <1>3
<1>19. Tail(q) \in Seq(Requests)
  BY <1>18 DEF QueueOK
<1>20. CASE WorthDust(b, r.shares)
  <2> DEFINE nb == [shares |-> b.shares - r.shares, value |-> b.value, queue |-> Tail(q)]
  <2>1. nb \in PoolBook
    BY <1>2, <1>4, <1>6, <1>19 DEF PoolBook
  <2>2. [b EXCEPT !.shares = @ - r.shares, !.queue = Tail(@)] = nb
    <3>1. b = [shares |-> b.shares, value |-> b.value, queue |-> b.queue]
      BY <1>2 DEF PoolBook
    <3>2. [b EXCEPT !.shares = @ - r.shares, !.queue = Tail(@)] =
            [shares |-> b.shares - r.shares, value |-> b.value, queue |-> Tail(b.queue)]
      BY <3>1, BurntPool
    <3> QED
      BY <3>2, <1>17
  <2>3. ServeFront(p, price, s) = [s EXCEPT !.pool[p] = nb]
    BY <1>16, <1>20, <2>2
  <2>4. nb.queue = Tail(q) /\ nb.value = b.value /\ nb.shares = b.shares - r.shares
    OBVIOUS
  <2> HIDE DEF nb
  <2>5. [s EXCEPT !.pool[p] = nb] = Replaced(s, p, nb, s.wpha)
    BY <1>1, ExceptPool
  <2>6. Moved(s.wpha, s.wpha, p, r.user, 0)
    <3>1. s.wpha \in [Accounts -> Nat]
      BY <1>1, BookFields
    <3>2. \A a \in Accounts : s.wpha[a] = s.wpha[a] - (IF a = p THEN 0 ELSE 0)
                                            + (IF a = r.user THEN 0 ELSE 0)
      BY <3>1
    <3> QED
      BY <3>1, <3>2 DEF Moved
  <2>7. FrontServed(s, p, nb, s.wpha, 0)
    <3>1. nb.value = b.value - 0
      BY <2>4, <1>2
    <3>2. nb.shares = b.shares - (QueuedIn(q, r.user) - QueuedIn(nb.queue, r.user))
      BY <2>4, <1>4, <1>5, <1>18
    <3> QED
      BY <2>1, <2>4, <2>6, <3>1, <3>2, <1>3, <1>17, <1>18 DEF FrontServed
  <2>8. 0 \in 0..s.wpha[p]
    BY <1>2
  <2> QED
    BY <2>3, <2>5, <2>7, <2>8, FrontServedSound
<1>21. ASSUME ~WorthDust(b, r.shares), NEW nb \in PoolBook, QueueOK(nb.queue),
              ServeFront(p, price, s) = [Transfer(s, p, r.user, paid) EXCEPT !.pool[p] = nb],
              nb.value = value,
              nb.shares = b.shares - (r.shares - QueuedIn(nb.queue, r.user)),
              \A h : h # r.user => QueuedIn(nb.queue, h) = QueuedIn(q, h)
       PROVE  Sound(ServeFront(p, price, s), n) /\ Conserves(s, ServeFront(p, price, s))
  <2> DEFINE u == Transfer(s, p, r.user, paid)
  <2>1. [u EXCEPT !.pool[p] = nb] = Replaced(s, p, nb, v)
    <3>1. u \in BookSet /\ u.pool = s.pool /\ u.nft = s.nft /\ u.wpha = v
      BY <1>15 DEF v
    <3> HIDE DEF u
    <3>2. [u EXCEPT !.pool[p] = nb] = Replaced(u, p, nb, u.wpha)
      BY <3>1, ExceptPool
    <3> QED
      BY <3>1, <3>2 DEF Replaced
  <2>2. FrontServed(s, p, nb, v, paid)
    <3>1. nb.value = b.value - paid \/ nb.value = 0
      BY <1>12, <1>21
    <3> QED
      BY <3>1, <1>3, <1>5, <1>15, <1>17, <1>21 DEF FrontServed
  <2>3. Sound(Replaced(s, p, nb, v), n) /\ Conserves(s, Replaced(s, p, nb, v))
    BY <2>2, <1>10, FrontServedSound
  <2> QED
    BY <2>1, <2>3, <1>21
<1>22. CASE ~WorthDust(b, r.shares) /\ (left = 0 \/ WorthDust(after.pool, left))
  <2> DEFINE nb == [shares |-> b.shares - r.shares, value |-> value, queue |-> Tail(q)]
  <2>1. nb \in PoolBook
    BY <1>2, <1>4, <1>6, <1>12, <1>19 DEF PoolBook
  <2>2. [after.pool EXCEPT !.shares = @ - left, !.queue = Tail(@)] = nb
    <3>1. (b.shares - (r.shares - left)) - left = b.shares - r.shares
      BY <1>2, <1>4, <1>11
    <3> DEFINE a == after.pool
    <3>2. a.shares = b.shares - (r.shares - left) /\ a.value = value /\ a.queue = q
      BY <1>13
    <3>3. a = [shares |-> a.shares, value |-> a.value, queue |-> a.queue]
      BY <1>13, <3>2
    <3> HIDE DEF a
    <3>4. [a EXCEPT !.shares = @ - left, !.queue = Tail(@)] =
             [shares |-> a.shares - left, value |-> a.value, queue |-> Tail(a.queue)]
      BY <3>3, BurntPool
    <3> QED
      BY <3>1, <3>2, <3>4 DEF a
  <2>3. ServeFront(p, price, s) = [Transfer(s, p, r.user, paid) EXCEPT !.pool[p] = nb]
    BY <1>16, <1>22, <2>2
  <2>4. nb.queue = Tail(q) /\ nb.value = value /\ nb.shares = b.shares - r.shares
    OBVIOUS
  <2> HIDE DEF nb
  <2>5. nb.shares = b.shares - (r.shares - QueuedIn(nb.queue, r.user))
    BY <2>4, <1>2, <1>4, <1>18
  <2> QED
    BY <2>1, <2>3, <2>4, <2>5, <1>18, <1>21, <1>22
<1>23. CASE ~WorthDust(b, r.shares) /\ ~(left = 0 \/ WorthDust(after.pool, left))
  <2> DEFINE c == [q EXCEPT ![1].shares = left]
             nb == [shares |-> b.shares - (r.shares - left), value |-> value, queue |-> c]
  <2>1. Cut(c, q, left)
    BY <1>1, <1>11, <1>17, CutFront
  <2>2. [after.pool EXCEPT !.queue[1].shares = left] = nb
    BY <1>13
  <2> HIDE DEF c
  <2>3. QueueOK(c) /\ QueuedIn(c, r.user) = left
        /\ \A h : h # r.user => QueuedIn(c, h) = QueuedIn(q, h)
    BY <2>1, <1>1, <1>3, <1>11, <1>17, <1>23, QueueCut
  <2>4. nb \in PoolBook
    <3>1. b.shares - (r.shares - left) \in Nat
      BY <1>2, <1>4, <1>6, <1>11
    <3>2. c \in Seq(Requests)
      BY <2>3 DEF QueueOK
    <3> QED
      BY <3>1, <3>2, <1>12 DEF PoolBook
  <2>5. ServeFront(p, price, s) = [Transfer(s, p, r.user, paid) EXCEPT !.pool[p] = nb]
    BY <1>16, <1>23, <2>2
  <2>6. nb.queue = c /\ nb.value = value /\ nb.shares = b.shares - (r.shares - left)
    OBVIOUS
  <2> HIDE DEF nb
  <2>7. nb.shares = b.shares - (r.shares - QueuedIn(nb.queue, r.user))
    BY <2>3, <2>6
  <2> QED
    BY <2>3, <2>4, <2>5, <2>6, <2>7, <1>21, <1>23
<1> QED
  BY <1>20, <1>22, <1>23

(* The books with another account of pool p and k shares of who there.     *)
Updated(u, p, b, who, k) == [u EXCEPT !.pool[p] = b, !.nft[p][who] = k]

(* Updating the account of a pool and one holding in it.                   *)
LEMMA BooksUpdate ==
    ASSUME NEW u \in BookSet, NEW p \in Pids, NEW b, NEW who \in Holders, NEW k
    PROVE  Updated(u, p, b, who, k) =
             [pool |-> [u.pool EXCEPT ![p] = b],
              nft |-> [u.nft EXCEPT ![p][who] = k], wpha |-> u.wpha]
<1>1. u = [pool |-> u.pool, nft |-> u.nft, wpha |-> u.wpha]
  BY DEF BookSet
<1> DEFINE P == u.pool
           F == u.nft
           W == u.wpha
           G == [F EXCEPT ![p][who] = k]
           c == [u EXCEPT !.pool[p] = b]
           t == Updated(u, p, b, who, k)
<1>2. t = [c EXCEPT !.nft[p][who] = k]
  BY DEF Updated
<1>3. c = [pool |-> [P EXCEPT ![p] = b], nft |-> F, wpha |-> W]
  BY ExceptPool DEF Replaced
<1> HIDE DEF P, F, W, c, t
<1>4. t = [pool |-> [P EXCEPT ![p] = b], nft |-> G, wpha |-> W]
  <2>1. c.nft = F
    BY <1>3
  <2>2. t = [c EXCEPT !.nft = G]
    BY <1>2, <2>1
  <2> HIDE DEF G
  <2> QED
    BY <2>2, <1>3
<1> QED
  BY <1>4 DEF P, F, W, t

(* A pool with k more shares and a more tokens.                            *)
LEMMA GrownPool ==
    ASSUME NEW b \in PoolBook, NEW k \in Nat, NEW a \in Nat
    PROVE  [b EXCEPT !.shares = @ + k, !.value = @ + a] =
             [shares |-> b.shares + k, value |-> b.value + a, queue |-> b.queue]
<1> DEFINE d == b.shares + k
           e == b.value + a
           c == [b EXCEPT !.shares = d]
<1>1. [b EXCEPT !.shares = @ + k, !.value = @ + a] = [b EXCEPT !.shares = d, !.value = e]
  OBVIOUS
<1> HIDE DEF d, e
<1>2. [b EXCEPT !.shares = d, !.value = e] = [c EXCEPT !.value = e]
  OBVIOUS
<1>3. c = [shares |-> d, value |-> b.value, queue |-> b.queue]
  BY DEF PoolBook
<1> HIDE DEF c
<1>4. [c EXCEPT !.value = e] = [shares |-> d, value |-> e, queue |-> b.queue]
  BY <1>3
<1> QED
  BY <1>1, <1>2, <1>4 DEF d, e

(* A turn of the loop, whether or not it serves a request.                 *)
LEMMA TurnSound ==
    ASSUME NEW s, NEW n \in Nat, Sound(s, n), NEW p \in Pids, NEW price \in Nat
    PROVE  Sound(Turn(p, price, s), n) /\ Conserves(s, Turn(p, price, s))
<1>1. Conserves(s, s)
  BY DEF Conserves
<1>2. CASE s.wpha[p] > MinBalance /\ s.pool[p].queue # <<>>
  BY <1>2, ServeFrontSound DEF Turn
<1>3. CASE ~(s.wpha[p] > MinBalance /\ s.pool[p].queue # <<>>)
  BY <1>1, <1>3 DEF Turn
<1> QED
  BY <1>2, <1>3

(* Serving the queue keeps the books sound, and pays out of the pool's     *)
(* free stake only.                                                        *)
LEMMA TryProcessSound ==
    ASSUME NEW s, NEW n \in Nat, Sound(s, n), NEW p \in Pids
    PROVE  /\ Sound(TryProcessWithdrawQueue(p, s), n)
           /\ Conserves(s, TryProcessWithdrawQueue(p, s))
<1> DEFINE price == SharePrice(s.pool[p])
           N == 2 * Len(s.pool[p].queue)
           X == {t \in BookSet : Sound(t, n) /\ Conserves(s, t)}
           Rec(f) == [i \in 0..N |-> IF i = 0 THEN s ELSE Turn(p, price, f[i - 1])]
           step == [i \in 1..N |-> [t \in X |-> Turn(p, price, t)]]
           after == CHOOSE f : f = Rec(f)
<1>1. s \in BookSet
  BY DEF Sound
<1>2. N \in Nat /\ s.pool[p].shares \in Nat /\ s.pool[p].value \in Nat
  BY <1>1, BookFields
<1>3. s \in X
  BY <1>1 DEF Conserves
<1>4. CASE s.pool[p].shares = 0
  <2>1. TryProcessWithdrawQueue(p, s) = s
    BY <1>4 DEF TryProcessWithdrawQueue
  <2> QED
    BY <2>1, <1>3
<1>5. CASE s.pool[p].shares # 0
  <2>1. TryProcessWithdrawQueue(p, s) = after[N]
    BY <1>5 DEF TryProcessWithdrawQueue
  <2>2. price \in Nat
    <3>1. s.pool[p].shares \in Nat \ {0}
      BY <1>2, <1>5
    <3> QED
      BY <3>1, <1>2, PriceNat
  <2> HIDE DEF price, N
  <2>3. ASSUME NEW t \in X PROVE Turn(p, price, t) \in X
    <3>1. Sound(t, n) /\ Conserves(s, t)
      OBVIOUS
    <3>2. Sound(Turn(p, price, t), n) /\ Conserves(t, Turn(p, price, t))
      BY <3>1, <2>2, TurnSound
    <3> QED
      BY <3>1, <3>2 DEF Conserves, Sound
  <2> HIDE DEF X
  <2>4. step \in [1..N -> [X -> X]]
    BY <2>3
  <2>5. PICK g : Iterates(g, N, X, s, step)
    <3> HIDE DEF step
    <3> QED
      BY <1>2, <1>3, <2>4, IterationExists
  <2>6. g = Rec(g)
    <3>1. ASSUME NEW i \in 0..N PROVE g[i] = Rec(g)[i]
      <4>1. CASE i = 0
        BY <4>1, <1>2, <2>5 DEF Iterates
      <4>2. CASE i # 0
        <5>1. i \in 1..N /\ g[i - 1] \in X
          BY <1>2, <2>5, <4>2 DEF Iterates
        <5>2. g[i] = step[i][g[i - 1]]
          BY <2>5, <5>1 DEF Iterates
        <5> QED
          BY <5>1, <5>2, <4>2
      <4> QED
        BY <4>1, <4>2
    <3>2. g = [i \in 0..N |-> g[i]]
      BY <2>5 DEF Iterates
    <3>3. Rec(g) = [i \in 0..N |-> Rec(g)[i]]
      OBVIOUS
    <3> HIDE DEF Rec
    <3> QED
      BY <3>1, <3>2, <3>3
  <2>7. after = Rec(after)
    <3> HIDE DEF Rec
    <3> QED
      BY <2>6
  <2> HIDE DEF after
  <2>8. after[0] = s
    BY <1>2, <2>7
  <2>9. ASSUME NEW i \in 1..N PROVE after[i] = Turn(p, price, after[i - 1])
    <3>1. i \in 0..N /\ i # 0
      BY <1>2
    <3>2. Rec(after)[i] = Turn(p, price, after[i - 1])
      BY <3>1
    <3> HIDE DEF Rec
    <3>3. after[i] = Rec(after)[i]
      BY <2>7
    <3> QED
      BY <3>2, <3>3
  <2> DEFINE P == {k \in 0..N : after[k] \in X}
  <2>10. 0 \in P /\ P \in SUBSET (0..N)
    BY <1>2, <1>3, <2>8
  <2>11. ASSUME NEW k \in 1..N, k - 1 \in P PROVE k \in P
    <3>1. after[k - 1] \in X /\ k \in 0..N
      BY <1>2, <2>11
    <3>2. Turn(p, price, after[k - 1]) \in X
      BY <3>1, <2>3
    <3> QED
      BY <3>1, <3>2, <2>9
  <2> HIDE DEF P
  <2>12. P = 0..N
    BY <1>2, <2>10, <2>11, IntervalInduction
  <2>13. after[N] \in X
    BY <1>2, <2>12 DEF P
  <2> QED
    BY <2>1, <2>13 DEF X
<1> QED
  BY <1>4, <1>5

(* The holding of an account in a pool, and the money of the stake pool,   *)
(* after a contribution.                                                   *)
LEMMA ContributeSound ==
    ASSUME NEW s, NEW n \in Nat, Sound(s, n), NEW p \in Pids, NEW who \in Holders,
           who # p, Operating(s.pool[p]), NEW amount \in 0..s.wpha[who]
    PROVE  /\ Sound(Contribute(p, who, amount, s), n)
           /\ Conserves(s, Contribute(p, who, amount, s))
<1> DEFINE b == s.pool[p]
           shares == IF b.shares = 0 \/ SharePrice(b) = 0 THEN amount
                     ELSE bdiv(amount, SharePrice(b))
           u == Transfer(s, who, p, amount)
           nb == [b EXCEPT !.shares = @ + shares, !.value = @ + amount]
           t == Contribute(p, who, amount, s)
<1>1. s \in BookSet /\ QueueOK(b.queue)
  BY DEF Sound
<1>2. who \in Accounts /\ p \in Accounts /\ s.wpha[who] \in Nat /\ amount \in Nat
      /\ b \in PoolBook /\ b.shares \in Nat /\ b.value \in Nat
      /\ s.nft[p] \in [Holders -> Nat] /\ s.nft \in [Pids -> [Holders -> Nat]]
  <2>1. who \in Accounts /\ p \in Accounts
    BY AccountFacts
  <2>2. s.wpha[who] \in Nat
    BY <1>1, <2>1, BookFields
  <2> QED
    BY <1>1, <2>1, <2>2, BookFields
<1>3. shares \in Nat
  <2>1. CASE b.shares = 0 \/ SharePrice(b) = 0
    BY <2>1, <1>2
  <2>2. CASE ~(b.shares = 0 \/ SharePrice(b) = 0)
    <3>1. SharePrice(b) \in Nat
      BY <2>2, <1>2, PriceNat
    <3>2. bdiv(amount, SharePrice(b)) \in Nat
      BY <3>1, <2>2, <1>2, PriceNat
    <3> QED
      BY <3>2, <2>2
  <2> QED
    BY <2>1, <2>2
<1>4. u \in BookSet /\ u.pool = s.pool /\ u.nft = s.nft
      /\ Moved(u.wpha, s.wpha, who, p, amount)
  BY <1>1, <1>2, TransferMoves
<1>5. t = [u EXCEPT !.pool[p] = nb, !.nft[p][who] = @ + shares]
  BY DEF Contribute
<1> HIDE DEF shares, u, t
<1>6. nb \in PoolBook /\ nb.shares = b.shares + shares /\ nb.value = b.value + amount
      /\ nb.queue = b.queue
  <2> HIDE DEF b
  <2>1. nb = [shares |-> b.shares + shares, value |-> b.value + amount, queue |-> b.queue]
    BY <1>2, <1>3, GrownPool
  <2>2. b.queue \in Seq(Requests)
    BY <1>2 DEF PoolBook
  <2> HIDE DEF nb
  <2> QED
    BY <2>1, <2>2, <1>2, <1>3 DEF PoolBook
<1>7. b = s.pool[p]
  OBVIOUS
<1> HIDE DEF b, nb
<1>8. t.pool = [s.pool EXCEPT ![p] = nb] /\ t.wpha = u.wpha
      /\ t.nft = [s.nft EXCEPT ![p][who] = s.nft[p][who] + shares]
      /\ t = [pool |-> t.pool, nft |-> t.nft, wpha |-> t.wpha]
  <2>1. t = Updated(u, p, nb, who, u.nft[p][who] + shares)
    BY <1>5 DEF Updated
  <2>2. t = [pool |-> [u.pool EXCEPT ![p] = nb],
             nft |-> [u.nft EXCEPT ![p][who] = u.nft[p][who] + shares], wpha |-> u.wpha]
    BY <2>1, <1>4, BooksUpdate
  <2>3. t = [pool |-> [s.pool EXCEPT ![p] = nb],
             nft |-> [s.nft EXCEPT ![p][who] = s.nft[p][who] + shares], wpha |-> u.wpha]
    BY <2>2, <1>4
  <2> QED
    BY <2>3
<1>9. t.nft[p] = [s.nft[p] EXCEPT ![who] = @ + shares]
      /\ \A q \in Pids : q # p => t.nft[q] = s.nft[q]
  BY <1>2, <1>8
<1>10. t.nft \in [Pids -> [Holders -> Nat]]
  BY <1>2, <1>3, <1>8
<1>11. t.pool[p] = nb /\ \A q \in Pids : q # p => t.pool[q] = s.pool[q]
  BY <1>1, <1>8, BookFields
<1>12. t \in BookSet
  <2>1. t.pool \in [Pids -> PoolBook]
    BY <1>1, <1>6, <1>8, BookFields
  <2>2. t.wpha \in [Accounts -> Nat]
    BY <1>4, <1>8 DEF Moved
  <2> QED
    BY <1>8, <1>10, <2>1, <2>2 DEF BookSet
<1>13. \A h : Held(t, p, h) = t.nft[p][h] + QueuedIn(b.queue, h)
  BY <1>6, <1>11 DEF Held
<1>14. \A h : Held(s, p, h) = s.nft[p][h] + QueuedIn(b.queue, h)
  BY <1>7 DEF Held
<1>15. \A h \in Holders : h # who => t.nft[p][h] = s.nft[p][h]
  BY <1>2, <1>9
<1>16. Touches(s, t, p, who)
  BY <1>1, <1>6, <1>9, <1>11, <1>12, <1>13, <1>14, <1>15 DEF Touches
<1>17. Follows(s, t, p, who, n, n)
  <2>1. t.nft[p][who] = s.nft[p][who] + shares /\ s.nft[p][who] \in Nat
    BY <1>2, <1>9
  <2>2. QueuedIn(b.queue, who) \in Nat
    BY <1>1, QueuedFound
  <2>3. Held(t, p, who) - Held(s, p, who) = shares
    BY <2>1, <2>2, <1>3, <1>13, <1>14
  <2>4. OwnerPart(p, n) - OwnerPart(p, n) = 0
    BY DEF OwnerPart
  <2>5. t.pool[p].shares = s.pool[p].shares + shares + 0
    BY <1>2, <1>3, <1>6, <1>7, <1>11
  <2> QED
    BY <2>3, <2>4, <2>5 DEF Follows
<1>18. \A a \in Accounts : t.wpha[a] = s.wpha[a] - (IF a = who THEN amount ELSE 0)
                                            + (IF a = p THEN amount ELSE 0)
  BY <1>4, <1>8 DEF Moved
<1>19. \A a \in Accounts : s.wpha[a] \in Nat
  BY <1>1, BookFields
<1>20. LockAccount \in Accounts /\ StakePool \in Accounts /\ LockAccount # who
       /\ StakePool # who /\ LockAccount # p
  BY AccountFacts DEF Pids
<1>21. t.wpha[LockAccount] = s.wpha[LockAccount]
  BY <1>18, <1>19, <1>20
<1>22. Covered(t)
  <2> DEFINE x == t.pool[StakePool].value
             y == s.pool[StakePool].value
             free == s.wpha[StakePool]
             locked == s.wpha[LockAccount]
  <2>1. y \in Nat /\ free \in Nat /\ locked \in Nat /\ y <= free + locked
    BY <1>1, <1>19, <1>20, BookFields DEF Sound, Covered, Pids
  <2>2. CASE p = StakePool
    <3>1. t.wpha[StakePool] = free - 0 + amount
      BY <2>2, <1>18, <1>20
    <3>2. x = y + amount
      BY <2>2, <1>6, <1>7, <1>11
    <3>3. x <= t.wpha[StakePool] + t.wpha[LockAccount]
      <4> HIDE DEF x, y
      <4> QED
        BY <2>1, <3>1, <3>2, <1>2, <1>21
    <3> QED
      BY <3>3 DEF Covered
  <2>3. CASE p # StakePool
    <3>1. t.wpha[StakePool] = free - 0 + 0
      BY <2>3, <1>18, <1>20
    <3>2. x = y
      BY <2>3, <1>11 DEF Pids
    <3> QED
      BY <2>1, <3>1, <3>2, <1>21 DEF Covered
  <2> QED
    BY <2>2, <2>3
<1>23. Sound(t, n)
  BY <1>16, <1>17, <1>22, SoundChange
<1>24. Conserves(s, t)
  BY <1>4, <1>8, <1>21 DEF Conserves, Moved
<1> QED
  BY <1>23, <1>24 DEF t

(* A request moves shares of the account into the queue, and the ones of   *)
(* the request that it replaces back.                                      *)
LEMMA PushSound ==
    ASSUME NEW s, NEW n \in Nat, Sound(s, n), NEW p \in Pids, NEW who \in Holders,
           NEW shares \in Nat, MayWithdraw(p, who, shares, s)
    PROVE  /\ Sound(PushWithdrawInQueue(p, who, shares, s), n)
           /\ Conserves(s, PushWithdrawInQueue(p, who, shares, s))
<1> DEFINE b == s.pool[p]
           q == b.queue
           request == [user |-> who, shares |-> shares, age |-> 0]
           nq == Append(WithoutRequests(q, who), request)
           nb == [b EXCEPT !.queue = nq]
           back == QueuedIn(q, who)
           k == s.nft[p][who] + back - shares
           t == PushWithdrawInQueue(p, who, shares, s)
<1>1. s \in BookSet /\ QueueOK(q)
  BY DEF Sound
<1>2. b \in PoolBook /\ b.shares \in Nat /\ b.value \in Nat
      /\ s.nft[p] \in [Holders -> Nat] /\ s.nft \in [Pids -> [Holders -> Nat]]
      /\ s.pool \in [Pids -> PoolBook] /\ s.wpha \in [Accounts -> Nat]
  BY <1>1, BookFields
<1>3. QueuedShares(b, who) = back /\ back \in Nat
  BY <1>1, HeldNat, QueuedFound
<1>4. shares > Dust /\ shares <= s.nft[p][who] + back
  BY <1>3, PoolsAssumption DEF MayWithdraw, IsDust
<1>5. k \in Nat
  BY <1>2, <1>3, <1>4
<1>6. request \in Requests /\ request.user = who /\ request.shares = shares
  BY MaxAgeNat DEF Requests
<1>7. t = [s EXCEPT !.pool[p].queue = nq,
                    !.nft[p][who] = @ + QueuedShares(b, who) - shares]
  BY DEF PushWithdrawInQueue
<1>8. t = Updated(s, p, nb, who, k)
  BY <1>3, <1>7 DEF Updated
<1>9. QueueOK(nq) /\ QueuedIn(nq, who) = shares
      /\ \A h : h # who => QueuedIn(nq, h) = QueuedIn(q, h)
  <2> HIDE DEF request
  <2> QED
    BY <1>1, <1>4, <1>6, QueuePush
<1>10. b = s.pool[p] /\ q = b.queue
  OBVIOUS
<1> HIDE DEF t, q, nq, b, back
<1>11. nb \in PoolBook /\ nb.shares = b.shares /\ nb.value = b.value /\ nb.queue = nq
  <2>1. nq \in Seq(Requests)
    BY <1>9 DEF QueueOK
  <2> QED
    BY <2>1, <1>2 DEF PoolBook
<1> HIDE DEF nb, k
<1>12. t = [pool |-> [s.pool EXCEPT ![p] = nb],
            nft |-> [s.nft EXCEPT ![p][who] = k], wpha |-> s.wpha]
  BY <1>1, <1>8, BooksUpdate
<1>13. t.pool = [s.pool EXCEPT ![p] = nb] /\ t.wpha = s.wpha
       /\ t.nft = [s.nft EXCEPT ![p][who] = k]
  BY <1>12
<1>14. t.nft[p][who] = k /\ (\A q1 \in Pids : q1 # p => t.nft[q1] = s.nft[q1])
       /\ \A h \in Holders : h # who => t.nft[p][h] = s.nft[p][h]
  BY <1>2, <1>13
<1>15. t.pool[p] = nb /\ \A q1 \in Pids : q1 # p => t.pool[q1] = s.pool[q1]
  BY <1>2, <1>13
<1>16. t \in BookSet
  <2>1. t.pool \in [Pids -> PoolBook]
    BY <1>2, <1>11, <1>13
  <2>2. t.nft \in [Pids -> [Holders -> Nat]]
    BY <1>2, <1>5, <1>13
  <2> QED
    BY <1>2, <1>12, <1>13, <2>1, <2>2 DEF BookSet
<1>17. \A h : Held(t, p, h) = t.nft[p][h] + QueuedIn(nq, h)
  BY <1>11, <1>15 DEF Held
<1>18. \A h : Held(s, p, h) = s.nft[p][h] + QueuedIn(q, h)
  BY <1>10 DEF Held
<1>19. Touches(s, t, p, who)
  BY <1>9, <1>11, <1>14, <1>15, <1>16, <1>17, <1>18 DEF Touches
<1>20. Follows(s, t, p, who, n, n)
  <2>1. Held(t, p, who) = k + shares
    BY <1>9, <1>14, <1>17
  <2>2. Held(s, p, who) = s.nft[p][who] + back
    BY <1>18 DEF back
  <2>3. s.nft[p][who] \in Nat
    BY <1>2
  <2>4. Held(t, p, who) - Held(s, p, who) = 0
    BY <2>1, <2>2, <2>3, <1>3 DEF k
  <2>5. OwnerPart(p, n) - OwnerPart(p, n) = 0
    BY DEF OwnerPart
  <2>6. t.pool[p].shares = s.pool[p].shares + 0 + 0
    BY <1>2, <1>10, <1>11, <1>15
  <2> QED
    BY <2>4, <2>5, <2>6 DEF Follows
<1>21. Covered(t)
  <2>1. t.pool[StakePool].value = s.pool[StakePool].value
    BY <1>10, <1>11, <1>15 DEF Pids
  <2> QED
    BY <2>1, <1>13 DEF Sound, Covered
<1>22. Sound(t, n)
  BY <1>19, <1>20, <1>21, SoundChange
<1> QED
  BY <1>13, <1>22 DEF Conserves, t

(* A withdrawal: the request is queued and the queue is served.            *)
LEMMA TryWithdrawSound ==
    ASSUME NEW s, NEW n \in Nat, Sound(s, n), NEW p \in Pids, NEW who \in Holders,
           NEW shares \in Nat, MayWithdraw(p, who, shares, s)
    PROVE  /\ Sound(TryWithdraw(p, who, shares, s), n)
           /\ Conserves(s, TryWithdraw(p, who, shares, s))
<1> DEFINE u == PushWithdrawInQueue(p, who, shares, s)
<1>1. Sound(u, n) /\ Conserves(s, u)
  BY PushSound
<1>2. TryWithdraw(p, who, shares, s) = TryProcessWithdrawQueue(p, u)
  BY DEF TryWithdraw
<1> HIDE DEF u
<1>3. Sound(TryProcessWithdrawQueue(p, u), n) /\ Conserves(u, TryProcessWithdrawQueue(p, u))
  BY <1>1, TryProcessSound
<1> QED
  BY <1>1, <1>2, <1>3 DEF Conserves

(* A contribution: the money arrives and the queue is served.              *)
LEMMA ContributeServedSound ==
    ASSUME NEW s, NEW n \in Nat, Sound(s, n), NEW p \in Pids, NEW who \in Holders,
           who # p, Operating(s.pool[p]), NEW amount \in 0..s.wpha[who]
    PROVE  /\ Sound(TryProcessWithdrawQueue(p, Contribute(p, who, amount, s)), n)
           /\ Conserves(s, TryProcessWithdrawQueue(p, Contribute(p, who, amount, s)))
<1> DEFINE u == Contribute(p, who, amount, s)
<1>1. Sound(u, n) /\ Conserves(s, u)
  BY ContributeSound
<1> HIDE DEF u
<1>2. Sound(TryProcessWithdrawQueue(p, u), n) /\ Conserves(u, TryProcessWithdrawQueue(p, u))
  BY <1>1, TryProcessSound
<1>3. Sound(TryProcessWithdrawQueue(p, u), n) /\ Conserves(s, TryProcessWithdrawQueue(p, u))
  BY <1>1, <1>2 DEF Conserves
<1> QED
  BY <1>3 DEF u

(* Neither totals nor holdings change, and the stake pool stays covered.   *)
LEMMA HoldingsSound ==
    ASSUME NEW s, NEW n \in Nat, Sound(s, n), NEW t \in BookSet, Covered(t),
           \A p \in Pids : /\ t.pool[p].shares = s.pool[p].shares
                           /\ QueueOK(t.pool[p].queue)
                           /\ \A h \in Holders : Held(t, p, h) = Held(s, p, h)
    PROVE  Sound(t, n)
<1>1. s \in BookSet /\ \A p \in Pids : QueueOK(s.pool[p].queue)
  BY DEF Sound
<1>2. ASSUME NEW p \in Pids PROVE Redeemable(t, p) = Redeemable(s, p)
  BY <1>1, RedeemableSame
<1>3. \A p \in Pids : s.pool[p].shares = Redeemable(s, p) + OwnerPart(p, n)
  BY DEF Sound
<1> QED
  BY <1>2, <1>3 DEF Sound

(* Only balances and values change, and the stake pool stays covered.      *)
LEMMA BalancesSound ==
    ASSUME NEW s, NEW n \in Nat, Sound(s, n), NEW t \in BookSet, t.nft = s.nft,
           \A p \in Pids : /\ t.pool[p].shares = s.pool[p].shares
                           /\ t.pool[p].queue = s.pool[p].queue,
           Covered(t)
    PROVE  Sound(t, n)
<1>1. \A p \in Pids : QueueOK(t.pool[p].queue)
  BY DEF Sound
<1>2. \A p \in Pids : \A h \in Holders : Held(t, p, h) = Held(s, p, h)
  BY DEF Held
<1> QED
  BY <1>1, <1>2, HoldingsSound

(* Stake moves between the stake pool and its lock account.                *)
LEMMA StakeMoveSound ==
    ASSUME NEW s, NEW n \in Nat, Sound(s, n), NEW from, NEW to,
           <<from, to>> \in {<<StakePool, LockAccount>>, <<LockAccount, StakePool>>},
           NEW amount \in 0..s.wpha[from]
    PROVE  /\ Sound(Transfer(s, from, to, amount), n)
           /\ SumOver(Transfer(s, from, to, amount).wpha) = SumOver(s.wpha)
           /\ Transfer(s, from, to, amount).pool = s.pool
           /\ Transfer(s, from, to, amount).wpha[from] = s.wpha[from] - amount
           /\ Transfer(s, from, to, amount).wpha[to] = s.wpha[to] + amount
<1> DEFINE t == Transfer(s, from, to, amount)
<1>1. s \in BookSet /\ from \in Accounts /\ to \in Accounts /\ from # to
  BY AccountFacts DEF Sound, Pids
<1>2. t \in BookSet /\ t.pool = s.pool /\ t.nft = s.nft /\ Moved(t.wpha, s.wpha, from, to, amount)
  BY <1>1, TransferMoves
<1> HIDE DEF t
<1>3. \A a \in Accounts : t.wpha[a] = s.wpha[a] - (IF a = from THEN amount ELSE 0)
                                            + (IF a = to THEN amount ELSE 0)
  BY <1>2 DEF Moved
<1>4. s.wpha[from] \in Nat /\ s.wpha[to] \in Nat /\ amount \in Nat
  <2>1. s.wpha[from] \in Nat /\ s.wpha[to] \in Nat
    BY <1>1, BookFields DEF Pids
  <2> QED
    BY <2>1
<1>5. t.wpha[from] = s.wpha[from] - amount /\ t.wpha[to] = s.wpha[to] + amount
  <2>1. t.wpha[from] = s.wpha[from] - amount + 0
    BY <1>1, <1>3
  <2>2. t.wpha[to] = s.wpha[to] - 0 + amount
    BY <1>1, <1>3
  <2> QED
    BY <2>1, <2>2, <1>4
<1>6. Covered(t)
  <2>1. s.pool[StakePool].value <= s.wpha[StakePool] + s.wpha[LockAccount]
    BY DEF Sound, Covered
  <2>2. t.wpha[StakePool] + t.wpha[LockAccount] = s.wpha[StakePool] + s.wpha[LockAccount]
    <3>1. CASE from = StakePool /\ to = LockAccount
      BY <3>1, <1>4, <1>5
    <3>2. CASE from = LockAccount /\ to = StakePool
      BY <3>2, <1>4, <1>5
    <3> QED
      BY <3>1, <3>2
  <2> QED
    BY <2>1, <2>2, <1>2 DEF Covered
<1>7. Sound(t, n)
  BY <1>2, <1>6, BalancesSound
<1>8. SumOver(t.wpha) = SumOver(s.wpha)
  BY <1>2 DEF Moved
<1> QED
  BY <1>2, <1>5, <1>7, <1>8 DEF t

(* Stake goes to the lock account.                                         *)
LEMMA StakeLockSound ==
    ASSUME NEW s, NEW n \in Nat, Sound(s, n), NEW amount \in 0..s.wpha[StakePool]
    PROVE  /\ Sound(Transfer(s, StakePool, LockAccount, amount), n)
           /\ SumOver(Transfer(s, StakePool, LockAccount, amount).wpha) = SumOver(s.wpha)
           /\ Transfer(s, StakePool, LockAccount, amount).wpha[LockAccount] =
                s.wpha[LockAccount] + amount
<1>1. <<StakePool, LockAccount>> \in {<<StakePool, LockAccount>>, <<LockAccount, StakePool>>}
  OBVIOUS
<1> QED
  BY <1>1, StakeMoveSound

(* Stake comes back from the lock account.                                 *)
LEMMA StakeUnlockSound ==
    ASSUME NEW s, NEW n \in Nat, Sound(s, n), NEW amount \in 0..s.wpha[LockAccount]
    PROVE  /\ Sound(Transfer(s, LockAccount, StakePool, amount), n)
           /\ SumOver(Transfer(s, LockAccount, StakePool, amount).wpha) = SumOver(s.wpha)
           /\ Transfer(s, LockAccount, StakePool, amount).wpha[LockAccount] =
                s.wpha[LockAccount] - amount
<1>1. <<LockAccount, StakePool>> \in {<<StakePool, LockAccount>>, <<LockAccount, StakePool>>}
  OBVIOUS
<1> QED
  BY <1>1, StakeMoveSound

(* What is minted of an amount.                                            *)
Paid(s, acc, amount) == IF Mintable(s, acc, amount) THEN amount ELSE 0

(* t are the books after an amount was minted for acc.                     *)
Minted(s, t, n, acc, paid) ==
  /\ Sound(t, n) /\ t.pool = s.pool /\ t.nft = s.nft
  /\ t.wpha[LockAccount] = s.wpha[LockAccount]
  /\ t.wpha[acc] = s.wpha[acc] + paid
  /\ SumOver(t.wpha) = SumOver(s.wpha) + paid

(* A balance grows by what is minted.                                      *)
LEMMA MintSound ==
    ASSUME NEW s, NEW n \in Nat, Sound(s, n), NEW acc \in Accounts, acc # LockAccount,
           NEW amount \in Nat
    PROVE  Minted(s, Mint(s, acc, amount), n, acc, Paid(s, acc, amount))
           /\ Paid(s, acc, amount) \in 0..amount
<1> SUFFICES
           /\ Sound(Mint(s, acc, amount), n)
           /\ Mint(s, acc, amount).pool = s.pool
           /\ Mint(s, acc, amount).nft = s.nft
           /\ Mint(s, acc, amount).wpha[LockAccount] = s.wpha[LockAccount]
           /\ Mint(s, acc, amount).wpha[acc] =
                s.wpha[acc] + (IF Mintable(s, acc, amount) THEN amount ELSE 0)
           /\ SumOver(Mint(s, acc, amount).wpha) =
                SumOver(s.wpha) + (IF Mintable(s, acc, amount) THEN amount ELSE 0)
  BY DEF Minted, Paid
<1> DEFINE t == Mint(s, acc, amount)
           w == [s.wpha EXCEPT ![acc] = @ + amount]
<1>1. s \in BookSet
  BY DEF Sound
<1>2. s.wpha \in [Accounts -> Nat] /\ s = [pool |-> s.pool, nft |-> s.nft, wpha |-> s.wpha]
      /\ s.pool \in [Pids -> PoolBook] /\ s.nft \in [Pids -> [Holders -> Nat]]
  BY <1>1 DEF BookSet
<1>3. SumOver(s.wpha) \in Nat /\ s.wpha[acc] \in Nat /\ LockAccount \in Accounts
  BY <1>2, AccountFacts, SumNat
<1>4. CASE ~Mintable(s, acc, amount)
  <2>1. t = s
    BY <1>4 DEF Mint
  <2> QED
    BY <2>1, <1>3, <1>4
<1>5. CASE Mintable(s, acc, amount)
  <2>1. t = [s EXCEPT !.wpha = w]
    BY <1>5 DEF Mint
  <2>2. w \in [Accounts -> Nat] /\ w[acc] = s.wpha[acc] + amount
        /\ \A a \in Accounts : a # acc => w[a] = s.wpha[a]
    BY <1>2
  <2> HIDE DEF w, t
  <2>3. t = [pool |-> s.pool, nft |-> s.nft, wpha |-> w]
    BY <1>2, <2>1
  <2>4. t.pool = s.pool /\ t.nft = s.nft /\ t.wpha = w
    BY <2>3
  <2>5. t \in BookSet
    BY <1>2, <2>2, <2>3 DEF BookSet
  <2>6. SumOver(w) = SumOver(s.wpha) + (w[acc] - s.wpha[acc])
    <3>1. w \in [Accounts -> Int] /\ s.wpha \in [Accounts -> Int]
      BY <1>2, <2>2
    <3> QED
      BY <3>1, <2>2, AccountFacts, SumChange
  <2>7. SumOver(w) = SumOver(s.wpha) + amount
    BY <2>2, <2>6, <1>3
  <2>8. w[LockAccount] = s.wpha[LockAccount]
    BY <2>2, <1>3
  <2>9. Covered(t)
    <3>1. s.pool[StakePool].value <= s.wpha[StakePool] + s.wpha[LockAccount]
      BY DEF Sound, Covered
    <3>2. w[StakePool] >= s.wpha[StakePool] /\ s.wpha[StakePool] \in Nat
          /\ w[StakePool] \in Nat /\ s.wpha[LockAccount] \in Nat
      <4>1. StakePool \in Accounts /\ LockAccount \in Accounts
        BY AccountFacts DEF Pids
      <4> QED
        BY <4>1, <1>2, <2>2
    <3>3. s.pool[StakePool].value \in Nat
      BY <1>1, BookFields DEF Pids
    <3>4. s.pool[StakePool].value <= w[StakePool] + w[LockAccount]
      BY <3>1, <3>2, <3>3, <2>8
    <3> QED
      BY <3>4, <2>4 DEF Covered
  <2>10. Sound(t, n)
    BY <2>4, <2>5, <2>9, BalancesSound
  <2> QED
    BY <2>2, <2>4, <2>7, <2>8, <2>10, <1>5 DEF t
<1> QED
  BY <1>4, <1>5

(* The value of a pool grows.                                              *)
LEMMA RewardedPool ==
    ASSUME NEW b \in PoolBook, NEW a \in Nat, NEW c, c = [b EXCEPT !.value = @ + a]
    PROVE  c \in PoolBook /\ c.value = b.value + a /\ c.shares = b.shares /\ c.queue = b.queue
BY DEF PoolBook

(* A reward is booked that the stake pool has received.                    *)
LEMMA DistributeSound ==
    ASSUME NEW s, NEW n \in Nat, Sound(s, n), NEW reward \in Nat,
           s.pool[StakePool].shares # 0,
           s.pool[StakePool].value + reward <= s.wpha[StakePool] + s.wpha[LockAccount]
    PROVE  Sound(DistributeReward(s, reward), n) /\ DistributeReward(s, reward).wpha = s.wpha
<1> DEFINE b == s.pool[StakePool]
           c == s.pool[Vault]
           held == s.nft[StakePool][Vault] + QueuedShares(b, Vault)
           ratio == (held * PriceScale) \div b.shares
           more == IF vault.subscribed THEN bmul(reward, ratio) ELSE 0
           t == DistributeReward(s, reward)
<1>1. s \in BookSet /\ QueueOK(b.queue) /\ StakePool \in Pids /\ Vault \in Pids
      /\ Vault \in Holders /\ StakePool # Vault
  BY AccountFacts DEF Sound, Pids
<1>2. b \in PoolBook /\ c \in PoolBook /\ b.shares \in Nat /\ b.value \in Nat /\ c.value \in Nat
      /\ s.nft[StakePool][Vault] \in Nat
  BY <1>1, BookFields
<1>3. s.pool \in [Pids -> PoolBook] /\ s.nft \in [Pids -> [Holders -> Nat]]
      /\ s.wpha \in [Accounts -> Nat] /\ s = [pool |-> s.pool, nft |-> s.nft, wpha |-> s.wpha]
  BY <1>1, BookFields
<1>4. more \in Nat
  <2>1. QueuedShares(b, Vault) \in Nat
    <3>1. QueuedShares(b, Vault) = QueuedIn(b.queue, Vault)
      BY <1>1, HeldNat
    <3>2. QueuedIn(b.queue, Vault) \in Nat
      BY <1>1, QueuedFound
    <3> QED
      BY <3>1, <3>2
  <2>2. held \in Nat
    BY <1>2, <2>1
  <2>3. ratio \in Nat
    <3> HIDE DEF held
    <3> QED
      BY <1>2, <2>2, PoolsAssumption, QuotientNat
  <2> HIDE DEF ratio
  <2>4. bmul(reward, ratio) \in Nat
    BY <2>3, PriceNat
  <2> QED
    BY <2>4
<1> DEFINE gain == [p \in Pids |-> IF p = StakePool THEN reward ELSE more]
           P == [p \in Pids |-> [s.pool[p] EXCEPT !.value = @ + gain[p]]]
<1>5. t = [s EXCEPT !.pool = P]
  BY DEF DistributeReward
<1> HIDE DEF more, t
<1>6. gain \in [Pids -> Nat] /\ gain[StakePool] = reward
  BY <1>1, <1>4
<1> HIDE DEF gain
<1>7. ASSUME NEW p \in Pids
      PROVE  P[p] \in PoolBook /\ P[p].value = s.pool[p].value + gain[p]
             /\ P[p].shares = s.pool[p].shares /\ P[p].queue = s.pool[p].queue
  <2>1. s.pool[p] \in PoolBook /\ gain[p] \in Nat
    BY <1>1, <1>6, BookFields
  <2>2. P[p] = [s.pool[p] EXCEPT !.value = @ + gain[p]]
    OBVIOUS
  <2> QED
    BY <2>1, <2>2, RewardedPool
<1>8. P \in [Pids -> PoolBook] /\ P[StakePool].value = b.value + reward
  <2>1. P = [p \in Pids |-> P[p]]
    OBVIOUS
  <2> HIDE DEF P
  <2> QED
    BY <1>1, <1>6, <1>7, <2>1
<1> HIDE DEF P
<1>9. t = [pool |-> P, nft |-> s.nft, wpha |-> s.wpha]
  BY <1>3, <1>5
<1>10. t.pool = P /\ t.nft = s.nft /\ t.wpha = s.wpha /\ t \in BookSet
  BY <1>3, <1>8, <1>9 DEF BookSet
<1>11. \A p \in Pids : t.pool[p].shares = s.pool[p].shares /\ t.pool[p].queue = s.pool[p].queue
  BY <1>7, <1>10
<1>12. Covered(t)
  BY <1>8, <1>10 DEF Covered
<1> QED
  BY <1>10, <1>11, <1>12, BalancesSound DEF t

VaultSet == [owner_shares : Nat, checkpoint : Nat, commission : 0..100,
             invests : BOOLEAN, locked : BOOLEAN, subscribed : BOOLEAN]

(* The shares the owner of the vault gains, and the new checkpoint.        *)
LEMMA GainNat ==
    ASSUME vault \in VaultSet, vault.checkpoint > 0, NEW b \in PoolBook
    PROVE  OwnerGain(b).shares \in Nat /\ OwnerGain(b).checkpoint \in Nat \ {0}
<1> DEFINE current == SharePrice(b)
           price == current - Part(vault.commission, current - vault.checkpoint)
           d == bdiv(b.value, price) - b.shares
           shares == Max({d, 0})
<1>1. vault.checkpoint \in Nat \ {0} /\ vault.commission \in 0..100
  BY DEF VaultSet
<1>2. b.shares \in Nat /\ b.value \in Nat
  BY DEF PoolBook
<1>3. CASE b.shares = 0 \/ current <= vault.checkpoint
  <2>1. OwnerGain(b) = [shares |-> 0, checkpoint |-> vault.checkpoint]
    BY <1>3 DEF OwnerGain
  <2> QED
    BY <2>1, <1>1
<1>4. CASE ~(b.shares = 0 \/ current <= vault.checkpoint)
  <2>1. OwnerGain(b) = [shares |-> shares, checkpoint |-> price]
    BY <1>4 DEF OwnerGain
  <2>2. current \in Nat
    BY <1>2, <1>4, PriceNat
  <2> HIDE DEF current
  <2>3. current - vault.checkpoint \in Nat
    BY <1>1, <1>4, <2>2
  <2>4. Part(vault.commission, current - vault.checkpoint) \in 0..(current - vault.checkpoint)
    BY <1>1, <2>3, PartBound
  <2>5. price \in Nat \ {0}
    BY <1>1, <2>2, <2>3, <2>4
  <2> HIDE DEF price
  <2>6. bdiv(b.value, price) \in Nat
    BY <1>2, <2>5, PriceNat
  <2>7. d \in Int
    BY <1>2, <2>6
  <2> HIDE DEF d
  <2>8. Max({d, 0}) \in {d, 0} /\ Max({d, 0}) >= 0
    BY <2>7, MaxOfTwo
  <2>9. shares \in Nat
    BY <2>7, <2>8
  <2> HIDE DEF shares
  <2> QED
    BY <2>1, <2>5, <2>9
<1> QED
  BY <1>3, <1>4

(* do_gain_owner_share adds to the total what the owner of the vault gets. *)
LEMMA GainSound ==
    ASSUME vault \in VaultSet, vault.checkpoint > 0, NEW s, NEW n \in Nat, Sound(s, n)
    PROVE  /\ Sound(GainOwnerShare(s), n + OwnerGain(s.pool[Vault]).shares)
           /\ GainOwnerShare(s).wpha = s.wpha
           /\ n + OwnerGain(s.pool[Vault]).shares \in Nat
<1> DEFINE b == s.pool[Vault]
           k == OwnerGain(b).shares
           t == GainOwnerShare(s)
           nb == [b EXCEPT !.shares = @ + k]
<1>1. s \in BookSet /\ Vault \in Pids /\ StakePool \in Pids /\ QueueOK(b.queue)
      /\ Vault \in Holders
  BY AccountFacts DEF Sound, Pids
<1>2. b \in PoolBook /\ b.shares \in Nat
  BY <1>1, BookFields
<1>3. k \in Nat
  BY <1>2, GainNat
<1>4. t = [s EXCEPT !.pool[Vault] = nb]
  BY DEF GainOwnerShare
<1>5. b = s.pool[Vault]
  OBVIOUS
<1> HIDE DEF b, k, t
<1>6. nb \in PoolBook /\ nb.shares = b.shares + k /\ nb.value = b.value /\ nb.queue = b.queue
  BY <1>2, <1>3 DEF PoolBook
<1> HIDE DEF nb
<1>7. t = Replaced(s, Vault, nb, s.wpha)
  BY <1>1, <1>4, ExceptPool
<1>8. t \in BookSet /\ t.pool[Vault] = nb /\ t.nft = s.nft /\ t.wpha = s.wpha
      /\ \A q \in Pids : q # Vault => t.pool[q] = s.pool[q]
  BY <1>1, <1>6, <1>7, ReplacedFields, BookFields
<1>9. \A h : Held(t, Vault, h) = Held(s, Vault, h)
  BY <1>5, <1>6, <1>8 DEF Held
<1>10. Touches(s, t, Vault, Vault)
  BY <1>1, <1>6, <1>8, <1>9 DEF Touches
<1>11. Follows(s, t, Vault, Vault, n, n + k)
  <2>1. Held(s, Vault, Vault) \in Nat
    BY <1>1, <1>5, HeldNat
  <2>2. OwnerPart(Vault, n + k) - OwnerPart(Vault, n) = k
    BY <1>3 DEF OwnerPart
  <2>3. t.pool[Vault].shares = s.pool[Vault].shares + 0 + k
    BY <1>2, <1>3, <1>5, <1>6, <1>8
  <2>4. Held(t, Vault, Vault) - Held(s, Vault, Vault) = 0
    BY <2>1, <1>9
  <2> QED
    BY <2>2, <2>3, <2>4 DEF Follows
<1>12. Covered(t)
  BY <1>1, <1>8, AccountFacts DEF Sound, Covered
<1>13. n + k \in Nat
  BY <1>3
<1>14. Sound(t, n + k)
  BY <1>1, <1>10, <1>11, <1>12, <1>13, SoundChange
<1> QED
  BY <1>8, <1>13, <1>14 DEF t, k, b

(* Shares the owner claims become the holding of an account.               *)
LEMMA ClaimSound ==
    ASSUME NEW s, NEW n \in Nat, Sound(s, n), NEW who \in Holders, NEW k \in 0..n
    PROVE  /\ Sound([s EXCEPT !.nft[Vault][who] = @ + k], n - k)
           /\ [s EXCEPT !.nft[Vault][who] = @ + k].wpha = s.wpha
           /\ n - k \in Nat
<1> DEFINE t == [s EXCEPT !.nft[Vault][who] = @ + k]
           F == [s.nft EXCEPT ![Vault][who] = @ + k]
<1>1. s \in BookSet /\ Vault \in Pids /\ QueueOK(s.pool[Vault].queue)
  BY DEF Sound, Pids
<1>2. s = [pool |-> s.pool, nft |-> s.nft, wpha |-> s.wpha] /\ s.pool[Vault].shares \in Nat
      /\ s.pool \in [Pids -> PoolBook] /\ s.nft \in [Pids -> [Holders -> Nat]]
      /\ s.wpha \in [Accounts -> Nat]
  BY <1>1, BookFields
<1>3. k \in Nat /\ n - k \in Nat
  OBVIOUS
<1>4. F \in [Pids -> [Holders -> Nat]] /\ F[Vault][who] = s.nft[Vault][who] + k
      /\ (\A h \in Holders : h # who => F[Vault][h] = s.nft[Vault][h])
      /\ \A p \in Pids : p # Vault => F[p] = s.nft[p]
  BY <1>1, <1>2, <1>3
<1>5. t = [s EXCEPT !.nft = F]
  OBVIOUS
<1> HIDE DEF F, t
<1>6. t = [pool |-> s.pool, nft |-> F, wpha |-> s.wpha]
  BY <1>2, <1>5
<1>7. t.pool = s.pool /\ t.nft = F /\ t.wpha = s.wpha /\ t \in BookSet
  BY <1>2, <1>4, <1>6 DEF BookSet
<1>8. Touches(s, t, Vault, who)
  BY <1>1, <1>4, <1>7 DEF Touches, Held
<1>9. Follows(s, t, Vault, who, n, n - k)
  <2>1. Held(s, Vault, who) = s.nft[Vault][who] + QueuedIn(s.pool[Vault].queue, who)
        /\ Held(t, Vault, who) = (s.nft[Vault][who] + k) + QueuedIn(s.pool[Vault].queue, who)
    BY <1>4, <1>7 DEF Held
  <2>2. QueuedIn(s.pool[Vault].queue, who) \in Nat /\ s.nft[Vault][who] \in Nat
    BY <1>1, <1>2, QueuedFound
  <2>3. Held(t, Vault, who) - Held(s, Vault, who) = k
    BY <2>1, <2>2, <1>3
  <2>4. OwnerPart(Vault, n - k) - OwnerPart(Vault, n) = 0 - k
    BY <1>3 DEF OwnerPart
  <2>5. t.pool[Vault].shares = s.pool[Vault].shares + k + (0 - k)
    BY <1>2, <1>3, <1>7
  <2> QED
    BY <2>3, <2>4, <2>5 DEF Follows
<1>10. Covered(t)
  BY <1>7 DEF Sound, Covered
<1> QED
  <2>1. Sound(t, n - k)
    BY <1>1, <1>3, <1>8, <1>9, <1>10, SoundChange
  <2> QED
    BY <2>1, <1>3, <1>7 DEF t

----------------------------------------------------------------------------
(* The invariant.                                                          *)

(* Workers; one that has no session has no stake.                          *)
WorkerSet ==
  {f \in [Workers -> [state : {"Ready", "Computing", "CoolingDown"}, stake : Nat]] :
     \A w \in Workers : f[w].state = "Ready" => f[w].stake = 0}

AccountSet == [Users -> [invest_pools : SUBSET Pids, locked : Nat]]

Stakes(f) == [w \in Workers |-> f[w].stake]

(* The types of what is not in the books.                                  *)
OtherTypes ==
  /\ vault \in VaultSet /\ commission \in 0..100 /\ worker \in WorkerSet
  /\ pha \in [Users -> Nat] /\ backing \in Nat /\ unmintable \in Nat
  /\ account \in AccountSet /\ votes \in [Referenda -> [Users -> Nat]]
  /\ ongoing \subseteq Referenda /\ calls \in 0..MaxCalls

(* The books are sound with the shares the vault keeps for its owner, the  *)
(* checkpoint of the vault is a price above zero, the lock account holds   *)
(* the stakes, and every W-PHA is backed.                                  *)
Inv ==
  /\ Sound(Books, vault.owner_shares)
  /\ OtherTypes
  /\ vault.checkpoint > 0
  /\ wpha[LockAccount] = SumOver(Stakes(worker))
  /\ SumOver(wpha) + unmintable = backing

(* The books are a record of the three variables.                          *)
LEMMA BooksFields ==
    /\ Books.pool = pool /\ Books.nft = nft /\ Books.wpha = wpha
    /\ Books \in BookSet <=> /\ pool \in [Pids -> PoolBook]
                             /\ nft \in [Pids -> [Holders -> Nat]]
                             /\ wpha \in [Accounts -> Nat]
BY DEF Books, BookSet

(* What the invariant says of the state.                                   *)
LEMMA InvFacts ==
    ASSUME Inv
    PROVE  /\ Books \in BookSet /\ Sound(Books, vault.owner_shares)
           /\ pool \in [Pids -> PoolBook] /\ nft \in [Pids -> [Holders -> Nat]]
           /\ wpha \in [Accounts -> Nat] /\ \A a \in Accounts : wpha[a] \in Nat
           /\ Books.pool = pool /\ Books.nft = nft /\ Books.wpha = wpha
           /\ vault \in VaultSet /\ vault.owner_shares \in Nat
           /\ vault.checkpoint > 0
<1>1. Books \in BookSet /\ Sound(Books, vault.owner_shares) /\ vault \in VaultSet
      /\ vault.checkpoint > 0
  BY DEF Inv, Sound, OtherTypes
<1>2. vault.owner_shares \in Nat
  BY <1>1 DEF VaultSet
<1>3. pool \in [Pids -> PoolBook] /\ nft \in [Pids -> [Holders -> Nat]]
      /\ wpha \in [Accounts -> Nat]
  BY <1>1, BooksFields
<1>4. Books.pool = pool /\ Books.nft = nft /\ Books.wpha = wpha
  BY BooksFields
<1> QED
  BY <1>1, <1>2, <1>3, <1>4

(* What SetBooks makes of the variables.                                   *)
LEMMA SetBooksFacts ==
    ASSUME NEW t \in BookSet, SetBooks(t)
    PROVE  Books' = t /\ pool' = t.pool /\ nft' = t.nft /\ wpha' = t.wpha
<1>1. pool' = t.pool /\ nft' = t.nft /\ wpha' = t.wpha
  BY DEF SetBooks
<1>2. t = [pool |-> t.pool, nft |-> t.nft, wpha |-> t.wpha]
  BY DEF BookSet
<1> QED
  BY <1>1, <1>2 DEF Books

(* A step that mints nothing and moves no stakes.                          *)
LEMMA ConservingStep ==
    ASSUME Inv, NEW t, SetBooks(t), Sound(t, vault'.owner_shares), Conserves(Books, t),
           OtherTypes', vault'.checkpoint > 0, Stakes(worker') = Stakes(worker),
           unmintable' = unmintable, backing' = backing
    PROVE  Inv'
<1>1. Books' = t /\ wpha' = t.wpha
  BY SetBooksFacts DEF Sound
<1>2. t.wpha[LockAccount] = wpha[LockAccount] /\ SumOver(t.wpha) = SumOver(wpha)
  BY BooksFields DEF Conserves
<1>3. wpha'[LockAccount] = SumOver(Stakes(worker'))
  BY <1>1, <1>2 DEF Inv
<1>4. SumOver(wpha') + unmintable' = backing'
  BY <1>1, <1>2 DEF Inv
<1>5. Sound(Books', vault'.owner_shares)
  BY <1>1
<1> QED
  BY <1>3, <1>4, <1>5 DEF Inv

(* A step that leaves the books and the stakes alone.                      *)
LEMMA QuietStep ==
    ASSUME Inv, UNCHANGED <<pool, nft, wpha, vault, unmintable, backing>>,
           OtherTypes', Stakes(worker') = Stakes(worker)
    PROVE  Inv'
<1>1. SetBooks(Books)
  BY BooksFields DEF SetBooks
<1>2. Conserves(Books, Books)
  BY DEF Conserves
<1>3. Sound(Books, vault'.owner_shares) /\ vault'.checkpoint > 0
  BY DEF Inv
<1> QED
  BY <1>1, <1>2, <1>3, ConservingStep

(* The invariant implies the properties.                                   *)
LEMMA InvImplies == Inv => TypeOK /\ SharesAccounted /\ FundsCovered
<1> SUFFICES ASSUME Inv PROVE TypeOK /\ SharesAccounted /\ FundsCovered
  OBVIOUS
<1>1. TypeOK
  BY InvFacts DEF TypeOK, Inv, OtherTypes, PoolBook, VaultSet, WorkerSet, AccountSet
<1>2. SharesAccounted
  <2>1. ASSUME NEW p \in Pids
        PROVE  /\ pool[p].shares = Redeemable(Books, p) + (IF p = Vault THEN vault.owner_shares ELSE 0)
               /\ QueueOK(pool[p].queue)
    BY BooksFields DEF Inv, Sound, OwnerPart
  <2>2. ASSUME NEW p \in Pids, NEW i \in DOMAIN pool[p].queue,
               NEW j \in DOMAIN pool[p].queue, i # j
        PROVE  pool[p].queue[i].user # pool[p].queue[j].user
    <3>1. QueueOK(pool[p].queue)
      BY <2>1
    <3>2. DOMAIN pool[p].queue = 1..Len(pool[p].queue)
      BY <3>1 DEF QueueOK
    <3> QED
      BY <3>1, <3>2, <2>2 DEF QueueOK
  <2> QED
    BY <2>1, <2>2 DEF SharesAccounted
<1>3. FundsCovered
  <2>1. pool[StakePool].value <= wpha[StakePool] + wpha[LockAccount]
    BY BooksFields DEF Inv, Sound, Covered
  <2>2. wpha[LockAccount] = SumOver([w \in Workers |-> worker[w].stake])
    BY DEF Inv, Stakes
  <2> QED
    BY <2>1, <2>2 DEF FundsCovered, Inv
<1> QED
  BY <1>1, <1>2, <1>3

(* The invariant holds at the start.                                       *)
LEMMA InvInit == Init => Inv
<1> SUFFICES ASSUME Init PROVE Inv
  OBVIOUS
<1>1. OtherTypes /\ vault.checkpoint > 0 /\ vault.owner_shares = 0
  <2>1. vault = [owner_shares |-> 0, checkpoint |-> PriceScale, commission |-> 0,
                 invests |-> FALSE, locked |-> FALSE, subscribed |-> FALSE]
    BY DEF Init
  <2>2. vault \in VaultSet /\ vault.checkpoint > 0 /\ vault.owner_shares = 0
    BY <2>1, PoolsAssumption DEF VaultSet
  <2>3. worker \in WorkerSet
    BY DEF Init, WorkerSet
  <2>4. account \in AccountSet
    BY DEF Init, AccountSet
  <2>5. Cardinality(Users) * InitialFree \in Nat
    BY PoolsAssumption, FS_CardinalityType
  <2> QED
    BY <2>2, <2>3, <2>4, <2>5, PoolsAssumption DEF Init, OtherTypes
<1>2. pool \in [Pids -> PoolBook] /\ \A p \in Pids : pool[p].shares = 0 /\ pool[p].value = 0
                                                     /\ pool[p].queue = <<>>
  <2>1. [shares |-> 0, value |-> 0, queue |-> <<>>] \in PoolBook
    BY DEF PoolBook
  <2> QED
    BY <2>1 DEF Init
<1>3. nft \in [Pids -> [Holders -> Nat]] /\ \A p \in Pids : \A h \in Holders : nft[p][h] = 0
  BY DEF Init
<1>4. wpha \in [Accounts -> Nat]
      /\ \A a \in Accounts : wpha[a] = IF a \in Users THEN InitialFree ELSE 0
  BY PoolsAssumption DEF Init
<1>5. Books \in BookSet
  BY <1>2, <1>3, <1>4, BooksFields
<1>6. QueueOK(<<>>)
  BY DEF QueueOK
<1>7. \A h : QueuedIn(<<>>, h) = 0
  BY <1>6, QueuedFound
<1>8. ASSUME NEW p \in Pids PROVE Redeemable(Books, p) = 0
  <2> DEFINE f == [h \in Holders |-> Held(Books, p, h)]
  <2>1. QueueOK(Books.pool[p].queue)
    BY <1>2, <1>6, BooksFields
  <2>2. Redeemable(Books, p) = SumOver(f)
    BY <1>5, <2>1, HeldNat
  <2>3. \A h \in Holders : Held(Books, p, h) = 0
    BY <1>2, <1>3, <1>7, BooksFields DEF Held
  <2>4. f \in [Holders -> Int] /\ \A h \in Holders : f[h] = IF h \in {} THEN 0 ELSE 0
    BY <2>3
  <2> HIDE DEF f
  <2>5. SumOver(f) = Cardinality({}) * 0
    <3>1. {} \in SUBSET Holders
      OBVIOUS
    <3> QED
      BY <2>4, <3>1, AccountFacts, SumConstant
  <2> QED
    BY <2>2, <2>5, FS_EmptySet
<1>9. Sound(Books, vault.owner_shares)
  <2>1. \A p \in Pids : QueueOK(Books.pool[p].queue)
    BY <1>2, <1>6, BooksFields
  <2>2. \A p \in Pids : Books.pool[p].shares = Redeemable(Books, p) + OwnerPart(p, 0)
    BY <1>2, <1>8, BooksFields DEF OwnerPart
  <2>3. Covered(Books)
    <3>1. wpha[StakePool] \in Nat /\ wpha[LockAccount] \in Nat /\ pool[StakePool].value = 0
      BY <1>2, <1>4, AccountFacts DEF Pids
    <3> QED
      BY <3>1, BooksFields DEF Covered
  <2> QED
    BY <1>1, <1>5, <2>1, <2>2, <2>3 DEF Sound
<1>10. wpha[LockAccount] = SumOver(Stakes(worker))
  <2> DEFINE f == Stakes(worker)
  <2>1. f \in [Workers -> Int] /\ \A w \in Workers : f[w] = IF w \in {} THEN 0 ELSE 0
    BY DEF Init, Stakes
  <2> HIDE DEF f
  <2>2. SumOver(f) = Cardinality({}) * 0
    <3>1. {} \in SUBSET Workers /\ IsFiniteSet(Workers)
      BY PoolsAssumption
    <3> QED
      BY <2>1, <3>1, SumConstant
  <2>3. SumOver(f) = 0
    BY <2>2, FS_EmptySet
  <2>4. LockAccount \notin Users /\ LockAccount \in Accounts
    BY AccountFacts
  <2>5. wpha[LockAccount] = 0
    BY <2>4, <1>4
  <2> QED
    BY <2>3, <2>5 DEF f
<1>11. SumOver(wpha) + unmintable = backing
  <2>1. wpha \in [Accounts -> Int] /\ Users \in SUBSET Accounts /\ InitialFree \in Nat
    BY <1>4, AccountFacts, PoolsAssumption
  <2>2. SumOver(wpha) = Cardinality(Users) * InitialFree
    BY <2>1, <1>4, AccountFacts, SumConstant
  <2>3. Cardinality(Users) * InitialFree \in Nat
    BY PoolsAssumption, FS_CardinalityType
  <2>4. unmintable = 0 /\ backing = Cardinality(Users) * InitialFree
    BY DEF Init
  <2> QED
    BY <2>2, <2>3, <2>4
<1> QED
  BY <1>1, <1>9, <1>10, <1>11 DEF Inv

----------------------------------------------------------------------------
(* The steps.                                                              *)

(* The constants that name amounts are natural numbers.                    *)
LEMMA AmountFacts ==
    /\ Amounts \subseteq Nat /\ Claims \subseteq Nat /\ Rewards \subseteq Nat
    /\ Commissions \subseteq 0..100 /\ StakePool \in Pids /\ Vault \in Pids
    /\ StakePool # Vault
BY PoolsAssumption, AccountFacts DEF Pids

(* A call is counted.                                                      *)
LEMMA CallType ==
    ASSUME OtherTypes, Call
    PROVE  calls' \in 0..MaxCalls
BY PoolsAssumption DEF OtherTypes, Call

(* An account is subscribed to a pool.                                     *)
LEMMA SubscribeType ==
    ASSUME OtherTypes, NEW u \in Users, NEW p \in Pids, Subscribe(u, p)
    PROVE  account' \in AccountSet
BY DEF OtherTypes, Subscribe, AccountSet

(* contribute to the stake pool.                                           *)
LEMMA StakePoolContributeInv ==
    ASSUME Inv, NEW u \in Users, NEW a \in Amounts, StakePoolContribute(u, a)
    PROVE  Inv'
<1> DEFINE t == TryProcessWithdrawQueue(StakePool, Contribute(StakePool, u, a, Books))
<1>1. SetBooks(t) /\ Call /\ Subscribe(u, StakePool)
      /\ UNCHANGED <<vault, commission, worker, wrapped, votes, ongoing>>
  BY DEF StakePoolContribute
<1>2. a \in 0..Books.wpha[u] /\ Operating(Books.pool[StakePool]) /\ u \in Holders /\ u # StakePool
  <2>1. wpha[u] >= a /\ a \in Nat /\ u \in Holders /\ u # StakePool /\ u \in Accounts
    BY AmountFacts, AccountFacts DEF StakePoolContribute
  <2>2. wpha[u] \in Nat
    BY <2>1, InvFacts
  <2> QED
    BY <2>1, <2>2, BooksFields DEF StakePoolContribute
<1>3. Sound(t, vault.owner_shares) /\ Conserves(Books, t)
  BY <1>2, InvFacts, AmountFacts, ContributeServedSound
<1> HIDE DEF t
<1>4. OtherTypes'
  <2>1. account' \in AccountSet /\ calls' \in 0..MaxCalls
    BY <1>1, AmountFacts, SubscribeType, CallType DEF Inv
  <2> QED
    BY <1>1, <2>1 DEF Inv, OtherTypes, wrapped
<1>5. vault' = vault /\ worker' = worker /\ unmintable' = unmintable /\ backing' = backing
  BY <1>1 DEF wrapped
<1> QED
  BY <1>1, <1>3, <1>4, <1>5, InvFacts, ConservingStep

(* contribute in the name of the vault.                                    *)
LEMMA StakePoolContributeAsVaultInv ==
    ASSUME Inv, NEW a \in Amounts, StakePoolContributeAsVault(a)
    PROVE  Inv'
<1> DEFINE t == TryProcessWithdrawQueue(StakePool, Contribute(StakePool, Vault, a, Books))
<1>1. SetBooks(t) /\ Call /\ UNCHANGED <<commission, worker, wrapped, ballots>>
      /\ vault' = [vault EXCEPT !.invests = TRUE, !.subscribed = TRUE]
  BY DEF StakePoolContributeAsVault
<1>2. a \in 0..Books.wpha[Vault] /\ Operating(Books.pool[StakePool]) /\ Vault \in Holders
      /\ Vault # StakePool
  <2>1. wpha[Vault] >= a /\ a \in Nat /\ Vault \in Holders /\ Vault # StakePool /\ Vault \in Accounts
    BY AmountFacts, AccountFacts DEF StakePoolContributeAsVault
  <2>2. wpha[Vault] \in Nat
    BY <2>1, InvFacts
  <2> QED
    BY <2>1, <2>2, BooksFields DEF StakePoolContributeAsVault
<1>3. Sound(t, vault.owner_shares) /\ Conserves(Books, t)
  BY <1>2, InvFacts, AmountFacts, ContributeServedSound
<1> HIDE DEF t
<1>4. vault' \in VaultSet /\ vault'.owner_shares = vault.owner_shares
      /\ vault'.checkpoint = vault.checkpoint
  <2> DEFINE x == [vault EXCEPT !.invests = TRUE]
  <2>1. vault' = [x EXCEPT !.subscribed = TRUE]
    BY <1>1
  <2>2. x \in VaultSet /\ x.owner_shares = vault.owner_shares /\ x.checkpoint = vault.checkpoint
    BY InvFacts DEF VaultSet
  <2> HIDE DEF x
  <2> QED
    BY <2>1, <2>2 DEF VaultSet
<1>5. OtherTypes'
  <2>1. calls' \in 0..MaxCalls
    BY <1>1, CallType DEF Inv
  <2> QED
    BY <1>1, <1>4, <2>1 DEF Inv, OtherTypes, wrapped, ballots
<1>6. worker' = worker /\ unmintable' = unmintable /\ backing' = backing
  BY <1>1 DEF wrapped
<1> QED
  BY <1>1, <1>3, <1>4, <1>5, <1>6, InvFacts, ConservingStep

(* withdraw from the stake pool.                                           *)
LEMMA StakePoolWithdrawInv ==
    ASSUME Inv, NEW h \in Holders, NEW a \in Amounts, StakePoolWithdraw(h, a)
    PROVE  Inv'
<1> DEFINE t == TryWithdraw(StakePool, h, a, Books)
<1>1. SetBooks(t) /\ Call /\ UNCHANGED <<vault, commission, worker, wrapped, ballots>>
      /\ MayWithdraw(StakePool, h, a, Books)
  BY DEF StakePoolWithdraw
<1>2. Sound(t, vault.owner_shares) /\ Conserves(Books, t)
  <2>1. a \in Nat
    BY AmountFacts
  <2> QED
    BY <1>1, <2>1, InvFacts, AmountFacts, TryWithdrawSound
<1> HIDE DEF t
<1>3. OtherTypes'
  <2>1. calls' \in 0..MaxCalls
    BY <1>1, CallType DEF Inv
  <2> QED
    BY <1>1, <2>1 DEF Inv, OtherTypes, wrapped, ballots
<1>4. vault' = vault /\ worker' = worker /\ unmintable' = unmintable /\ backing' = backing
  BY <1>1 DEF wrapped
<1> QED
  BY <1>1, <1>2, <1>3, <1>4, InvFacts, ConservingStep

(* The stake of one worker changes.                                        *)
LEMMA StakesChange ==
    ASSUME NEW f \in WorkerSet, NEW g \in WorkerSet, NEW w \in Workers,
           \A v \in Workers : v # w => g[v] = f[v]
    PROVE  SumOver(Stakes(g)) = SumOver(Stakes(f)) + (g[w].stake - f[w].stake)
<1>1. Stakes(f) \in [Workers -> Nat] /\ Stakes(g) \in [Workers -> Nat]
  BY DEF Stakes, WorkerSet
<1>2. \A v \in Workers : Stakes(f)[v] = f[v].stake /\ Stakes(g)[v] = g[v].stake
  BY DEF Stakes
<1> DEFINE x == Stakes(f)
           y == Stakes(g)
<1>3. x \in [Workers -> Int] /\ y \in [Workers -> Int] /\ \A v \in Workers : v # w => y[v] = x[v]
  BY <1>1, <1>2
<1> HIDE DEF x, y
<1>4. SumOver(y) = SumOver(x) + (y[w] - x[w])
  BY <1>3, PoolsAssumption, SumChange
<1> QED
  BY <1>2, <1>4 DEF x, y

(* The stake of a worker is in the lock account.                           *)
LEMMA StakeLocked ==
    ASSUME Inv, NEW w \in Workers
    PROVE  /\ worker \in WorkerSet /\ worker[w].stake \in Nat
           /\ worker[w].stake \in 0..wpha[LockAccount]
           /\ SumOver(Stakes(worker)) \in Nat /\ SumOver(wpha) \in Nat
<1>1. worker \in WorkerSet
  BY DEF Inv, OtherTypes
<1>2. worker[w].stake \in Nat
  BY <1>1 DEF WorkerSet
<1> DEFINE x == Stakes(worker)
<1>3. x \in [Workers -> Nat] /\ x[w] = worker[w].stake
  BY <1>1 DEF Stakes, WorkerSet
<1> HIDE DEF x
<1>4. x[w] \in 0..SumOver(x) /\ SumOver(x) \in Nat
  BY <1>3, PoolsAssumption, SumBound
<1>5. SumOver(wpha) \in Nat
  BY InvFacts, AccountFacts, SumNat
<1> QED
  BY <1>1, <1>2, <1>3, <1>4, <1>5 DEF x, Inv

(* A step that moves stakes between the pool and the lock account.         *)
LEMMA StakeStep ==
    ASSUME Inv, NEW t, SetBooks(t), Sound(t, vault.owner_shares), vault' = vault,
           OtherTypes', NEW w \in Workers, \A v \in Workers : v # w => worker'[v] = worker[v],
           t.wpha[LockAccount] = wpha[LockAccount] + (worker'[w].stake - worker[w].stake),
           SumOver(t.wpha) = SumOver(wpha), unmintable' = unmintable, backing' = backing
    PROVE  Inv'
<1>1. Books' = t /\ wpha' = t.wpha
  BY SetBooksFacts DEF Sound
<1>2. SumOver(Stakes(worker')) = SumOver(Stakes(worker)) + (worker'[w].stake - worker[w].stake)
  <2>1. worker \in WorkerSet /\ worker' \in WorkerSet
    BY DEF Inv, OtherTypes
  <2> QED
    BY <2>1, StakesChange
<1>3. wpha'[LockAccount] = SumOver(Stakes(worker'))
  BY <1>1, <1>2 DEF Inv
<1>4. SumOver(wpha') + unmintable' = backing'
  BY <1>1 DEF Inv
<1>5. Sound(Books', vault'.owner_shares) /\ vault'.checkpoint > 0
  BY <1>1 DEF Inv
<1> QED
  BY <1>3, <1>4, <1>5 DEF Inv

(* start_computing locks the stake of the worker.                          *)
LEMMA StartComputingInv ==
    ASSUME Inv, NEW w \in Workers, NEW a \in Amounts, StartComputing(w, a)
    PROVE  Inv'
<1> DEFINE t == Transfer(Books, StakePool, LockAccount, a)
<1>1. SetBooks(t) /\ Call /\ UNCHANGED <<vault, commission, wrapped, ballots>>
      /\ worker' = [worker EXCEPT ![w] = [state |-> "Computing", stake |-> a]]
      /\ wpha[StakePool] >= a /\ worker[w].state = "Ready"
  BY DEF StartComputing
<1>2. a \in Nat /\ wpha[StakePool] \in Nat /\ a \in 0..Books.wpha[StakePool]
      /\ wpha[LockAccount] \in Nat
  <2>1. a \in Nat /\ wpha[StakePool] \in Nat /\ wpha[LockAccount] \in Nat
    BY AmountFacts, InvFacts, AccountFacts
  <2> QED
    BY <1>1, <2>1, BooksFields
<1>3. Sound(t, vault.owner_shares) /\ SumOver(t.wpha) = SumOver(Books.wpha)
      /\ t.wpha[LockAccount] = Books.wpha[LockAccount] + a
  BY <1>2, InvFacts, StakeLockSound
<1> HIDE DEF t
<1>4. worker' \in WorkerSet /\ worker'[w].stake = a
      /\ \A v \in Workers : v # w => worker'[v] = worker[v]
  BY <1>1, <1>2, StakeLocked DEF WorkerSet
<1>5. worker[w].stake = 0
  BY <1>1, StakeLocked DEF WorkerSet
<1>6. OtherTypes'
  <2>1. calls' \in 0..MaxCalls
    BY <1>1, CallType DEF Inv
  <2> QED
    BY <1>1, <1>4, <2>1 DEF Inv, OtherTypes, wrapped, ballots
<1>7. unmintable' = unmintable /\ backing' = backing /\ vault' = vault
  BY <1>1 DEF wrapped
<1>8. t.wpha[LockAccount] = wpha[LockAccount] + (worker'[w].stake - worker[w].stake)
  BY <1>2, <1>3, <1>4, <1>5, BooksFields
<1>9. SumOver(t.wpha) = SumOver(wpha)
  BY <1>3, BooksFields
<1> QED
  BY <1>1, <1>3, <1>4, <1>6, <1>7, <1>8, <1>9, StakeStep

(* stop_computing changes the state of a session.                          *)
LEMMA StopComputingInv ==
    ASSUME Inv, NEW w \in Workers, StopComputing(w)
    PROVE  Inv'
<1>1. Call /\ worker[w].state = "Computing" /\ worker' = [worker EXCEPT ![w].state = "CoolingDown"]
      /\ UNCHANGED <<books, vault, commission, wrapped, ballots>>
  BY DEF StopComputing
<1>2. worker' \in WorkerSet /\ Stakes(worker') = Stakes(worker)
  BY <1>1, StakeLocked DEF WorkerSet, Stakes
<1>3. OtherTypes'
  <2>1. calls' \in 0..MaxCalls
    BY <1>1, CallType DEF Inv
  <2> QED
    BY <1>1, <1>2, <2>1 DEF Inv, OtherTypes, wrapped, ballots
<1> QED
  BY <1>1, <1>2, <1>3, QuietStep DEF books, wrapped

(* handle_reclaim returns the stake of a worker and serves the queue.      *)
LEMMA HandleReclaimSound ==
    ASSUME Inv, NEW w \in Workers
    PROVE  /\ Sound(HandleReclaim(w, Books), vault.owner_shares)
           /\ SumOver(HandleReclaim(w, Books).wpha) = SumOver(wpha)
           /\ HandleReclaim(w, Books).wpha[LockAccount] = wpha[LockAccount] - worker[w].stake
<1> DEFINE u == Transfer(Books, LockAccount, StakePool, worker[w].stake)
           t == TryProcessWithdrawQueue(StakePool, u)
<1>1. worker[w].stake \in 0..Books.wpha[LockAccount]
  BY StakeLocked, BooksFields
<1>2. Sound(u, vault.owner_shares) /\ SumOver(u.wpha) = SumOver(Books.wpha)
      /\ u.wpha[LockAccount] = Books.wpha[LockAccount] - worker[w].stake
  BY <1>1, InvFacts, StakeUnlockSound
<1>3. HandleReclaim(w, Books) = t
  BY DEF HandleReclaim
<1> HIDE DEF u
<1>4. Sound(t, vault.owner_shares) /\ Conserves(u, t)
  BY <1>2, InvFacts, AmountFacts, TryProcessSound
<1> HIDE DEF t
<1> QED
  BY <1>2, <1>3, <1>4, BooksFields DEF Conserves

(* reclaim_pool_worker.                                                    *)
LEMMA ReclaimPoolWorkerInv ==
    ASSUME Inv, NEW w \in Workers, ReclaimPoolWorker(w)
    PROVE  Inv'
<1> DEFINE t == HandleReclaim(w, Books)
<1>1. SetBooks(t) /\ UNCHANGED <<vault, commission, wrapped, ballots, calls>>
      /\ worker' = [worker EXCEPT ![w] = [state |-> "Ready", stake |-> 0]]
  BY DEF ReclaimPoolWorker
<1>2. Sound(t, vault.owner_shares) /\ SumOver(t.wpha) = SumOver(wpha)
      /\ t.wpha[LockAccount] = wpha[LockAccount] - worker[w].stake
  BY HandleReclaimSound
<1> HIDE DEF t
<1>3. worker' \in WorkerSet /\ worker'[w].stake = 0
      /\ \A v \in Workers : v # w => worker'[v] = worker[v]
  BY <1>1, StakeLocked DEF WorkerSet
<1>4. OtherTypes'
  BY <1>1, <1>3 DEF Inv, OtherTypes, wrapped, ballots
<1>5. unmintable' = unmintable /\ backing' = backing /\ vault' = vault
  BY <1>1 DEF wrapped
<1>6. t.wpha[LockAccount] = wpha[LockAccount] + (worker'[w].stake - worker[w].stake)
  <2>1. wpha[LockAccount] \in Nat /\ worker[w].stake \in Nat
    BY InvFacts, AccountFacts, StakeLocked
  <2> QED
    BY <1>2, <1>3, <2>1
<1> QED
  BY <1>1, <1>2, <1>3, <1>4, <1>5, <1>6, StakeStep

(* restart_computing returns a stake and locks a larger one.               *)
LEMMA RestartComputingInv ==
    ASSUME Inv, NEW w \in Workers, NEW a \in Amounts, RestartComputing(w, a)
    PROVE  Inv'
<1> DEFINE s == HandleReclaim(w, Books)
           t == Transfer(s, StakePool, LockAccount, a)
<1>1. SetBooks(t) /\ Call /\ UNCHANGED <<vault, commission, wrapped, ballots>>
      /\ worker' = [worker EXCEPT ![w].stake = a] /\ worker[w].state = "Computing"
      /\ s.wpha[StakePool] >= a
  BY DEF RestartComputing
<1>2. Sound(s, vault.owner_shares) /\ SumOver(s.wpha) = SumOver(wpha)
      /\ s.wpha[LockAccount] = wpha[LockAccount] - worker[w].stake
  BY HandleReclaimSound
<1> HIDE DEF s
<1>3. a \in Nat /\ a \in 0..s.wpha[StakePool]
  <2>1. s.wpha[StakePool] \in Nat /\ a \in Nat
    BY <1>2, AmountFacts, AccountFacts, BookFields DEF Sound
  <2> QED
    BY <2>1, <1>1
<1>4. Sound(t, vault.owner_shares) /\ SumOver(t.wpha) = SumOver(s.wpha)
      /\ t.wpha[LockAccount] = s.wpha[LockAccount] + a
  BY <1>2, <1>3, InvFacts, StakeLockSound
<1> HIDE DEF t
<1>5. worker' \in WorkerSet /\ worker'[w].stake = a
      /\ \A v \in Workers : v # w => worker'[v] = worker[v]
  BY <1>1, <1>3, StakeLocked DEF WorkerSet
<1>6. OtherTypes'
  <2>1. calls' \in 0..MaxCalls
    BY <1>1, CallType DEF Inv
  <2> QED
    BY <1>1, <1>5, <2>1 DEF Inv, OtherTypes, wrapped, ballots
<1>7. unmintable' = unmintable /\ backing' = backing /\ vault' = vault
  BY <1>1 DEF wrapped
<1>8. t.wpha[LockAccount] = wpha[LockAccount] + (worker'[w].stake - worker[w].stake)
  <2>1. wpha[LockAccount] \in Nat /\ worker[w].stake \in Nat
    BY InvFacts, AccountFacts, StakeLocked
  <2> QED
    BY <1>2, <1>3, <1>4, <1>5, <2>1
<1>9. SumOver(t.wpha) = SumOver(wpha)
  BY <1>2, <1>4
<1> QED
  BY <1>1, <1>4, <1>5, <1>6, <1>7, <1>8, <1>9, StakeStep

(* check_and_maybe_force_withdraw of the stake pool.                       *)
LEMMA StakePoolCheckInv ==
    ASSUME Inv, StakePoolCheckAndMaybeForceWithdraw
    PROVE  Inv'
<1> DEFINE t == TryProcessWithdrawQueue(StakePool, Books)
           expired == HasExpiredWithdrawal(StakePool, t, Releasing)
<1>1. SetBooks(t)
  BY DEF StakePoolCheckAndMaybeForceWithdraw, StakePoolChecked
<1>2. worker' = [w \in Workers |->
                   IF worker[w].state = "Computing" /\ expired
                   THEN [worker[w] EXCEPT !.state = "CoolingDown"] ELSE worker[w]]
  BY DEF StakePoolCheckAndMaybeForceWithdraw, StakePoolChecked
<1>3. UNCHANGED <<vault, commission, wrapped, ballots, calls>>
  BY DEF StakePoolCheckAndMaybeForceWithdraw
<1>4. Sound(t, vault.owner_shares) /\ Conserves(Books, t)
  BY InvFacts, AmountFacts, TryProcessSound
<1> HIDE DEF t, expired
<1>5. worker \in WorkerSet
  BY DEF Inv, OtherTypes
<1>6. ASSUME NEW w \in Workers
      PROVE  /\ worker'[w] \in [state : {"Ready", "Computing", "CoolingDown"}, stake : Nat]
             /\ worker'[w].stake = worker[w].stake
             /\ worker'[w].state = "Ready" => worker[w].state = "Ready"
  <2>1. worker[w] \in [state : {"Ready", "Computing", "CoolingDown"}, stake : Nat]
    BY <1>5 DEF WorkerSet
  <2>2. CASE worker[w].state = "Computing" /\ expired
    <3>1. worker'[w] = [worker[w] EXCEPT !.state = "CoolingDown"]
      BY <1>2, <2>2
    <3> QED
      BY <2>1, <3>1
  <2>3. CASE ~(worker[w].state = "Computing" /\ expired)
    <3>1. worker'[w] = worker[w]
      BY <1>2, <2>3
    <3> QED
      BY <2>1, <3>1
  <2> QED
    BY <2>2, <2>3
<1>7. worker' \in WorkerSet /\ Stakes(worker') = Stakes(worker)
  <2>1. worker' = [w \in Workers |-> worker'[w]]
    BY <1>2
  <2>2. worker' \in [Workers -> [state : {"Ready", "Computing", "CoolingDown"}, stake : Nat]]
    BY <1>6, <2>1
  <2> QED
    BY <1>5, <1>6, <2>2 DEF WorkerSet, Stakes
<1>8. OtherTypes'
  BY <1>3, <1>7 DEF Inv, OtherTypes, wrapped, ballots
<1>9. unmintable' = unmintable /\ backing' = backing /\ vault' = vault
  BY <1>3 DEF wrapped
<1> QED
  BY <1>1, <1>4, <1>7, <1>8, <1>9, InvFacts, ConservingStep

(* set_payout_pref of the stake pool.                                      *)
LEMMA SetPayoutPrefInv ==
    ASSUME Inv, NEW c \in Commissions, SetPayoutPref(c)
    PROVE  Inv'
<1>1. Call /\ commission' = c /\ UNCHANGED <<books, vault, worker, wrapped, ballots>>
  BY DEF SetPayoutPref
<1>2. OtherTypes'
  <2>1. calls' \in 0..MaxCalls /\ c \in 0..100
    BY <1>1, CallType, AmountFacts DEF Inv
  <2> QED
    BY <1>1, <2>1 DEF Inv, OtherTypes, wrapped, ballots
<1> QED
  BY <1>1, <1>2, QuietStep DEF books, wrapped

(* claim_owner_rewards pays out the reward account.                        *)
LEMMA ClaimOwnerRewardsInv ==
    ASSUME Inv, NEW u \in Users, ClaimOwnerRewards(u)
    PROVE  Inv'
<1> DEFINE n == wpha[OwnerReward]
           t == Transfer(Books, OwnerReward, u, n)
<1>1. SetBooks(t) /\ Call /\ UNCHANGED <<vault, commission, worker, wrapped, ballots>>
  BY DEF ClaimOwnerRewards
<1>2. OwnerReward \in Accounts /\ u \in Accounts /\ u # OwnerReward /\ StakePool \in Accounts
      /\ LockAccount \in Accounts /\ u # StakePool /\ u # LockAccount
      /\ OwnerReward # StakePool /\ OwnerReward # LockAccount
  BY AccountFacts DEF Pids
<1>3. n \in Nat /\ n \in 0..Books.wpha[OwnerReward]
  BY <1>2, InvFacts
<1>4. t \in BookSet /\ t.pool = pool /\ t.nft = nft /\ Moved(t.wpha, wpha, OwnerReward, u, n)
  BY <1>2, <1>3, InvFacts, TransferMoves
<1> HIDE DEF t, n
<1>5. t.wpha[StakePool] = wpha[StakePool] /\ t.wpha[LockAccount] = wpha[LockAccount]
  <2>1. t.wpha[StakePool] = wpha[StakePool] - 0 + 0
        /\ t.wpha[LockAccount] = wpha[LockAccount] - 0 + 0
    BY <1>2, <1>4 DEF Moved
  <2>2. wpha[StakePool] \in Nat /\ wpha[LockAccount] \in Nat
    BY <1>2, InvFacts
  <2> QED
    BY <2>1, <2>2
<1>6. Covered(t)
  BY <1>4, <1>5, InvFacts DEF Sound, Covered
<1>7. Sound(t, vault.owner_shares)
  <2>1. \A p \in Pids : t.pool[p].shares = Books.pool[p].shares
                        /\ t.pool[p].queue = Books.pool[p].queue
    BY <1>4, InvFacts
  <2> QED
    BY <2>1, <1>4, <1>6, InvFacts, BalancesSound
<1>8. Conserves(Books, t)
  BY <1>4, <1>5, InvFacts DEF Conserves, Moved
<1>9. OtherTypes'
  <2>1. calls' \in 0..MaxCalls
    BY <1>1, CallType DEF Inv
  <2> QED
    BY <1>1, <2>1 DEF Inv, OtherTypes, wrapped, ballots
<1>10. unmintable' = unmintable /\ backing' = backing /\ vault' = vault /\ worker' = worker
  BY <1>1 DEF wrapped
<1> QED
  BY <1>1, <1>7, <1>8, <1>9, <1>10, InvFacts, ConservingStep

(* on_reward mints what was moved from the subsidy pool, or keeps it as    *)
(* dust that cannot be minted.                                             *)
LEMMA OnRewardInv ==
    ASSUME Inv, NEW reward \in Rewards, OnReward(reward)
    PROVE  Inv'
<1> DEFINE toOwner == Part(commission, reward)
           toPool == reward - toOwner
           s1 == Mint(Books, OwnerReward, toOwner)
           s2 == Mint(s1, StakePool, toPool)
           ownerPaid == Mintable(Books, OwnerReward, toOwner)
           minted == Mintable(s1, StakePool, toPool)
           t == IF minted /\ ~IsDust(toPool) THEN DistributeReward(s2, toPool) ELSE s2
           n == vault.owner_shares
<1>1. Call /\ ~IsDust(reward) /\ ~IsDust(pool[StakePool].shares) /\ SetBooks(t)
      /\ backing' = backing + reward
      /\ unmintable' = unmintable + (IF ownerPaid THEN 0 ELSE toOwner)
                         + (IF minted THEN 0 ELSE toPool)
      /\ UNCHANGED <<vault, commission, worker, pha, ballots>>
  BY DEF OnReward
<1>2. reward \in Nat /\ toOwner \in Nat /\ toPool \in Nat /\ toOwner + toPool = reward
  <2>1. reward \in Nat /\ commission \in 0..100
    BY AmountFacts DEF Inv, OtherTypes
  <2>2. toOwner \in 0..reward
    BY <2>1, PartBound
  <2> HIDE DEF toOwner
  <2> QED
    BY <2>1, <2>2
<1>3. OwnerReward \in Accounts /\ StakePool \in Accounts /\ OwnerReward # LockAccount
      /\ StakePool # LockAccount
  BY AccountFacts DEF Pids
<1> HIDE DEF toOwner, toPool
<1>4. Sound(s1, n) /\ s1.pool = pool /\ s1.wpha[LockAccount] = wpha[LockAccount]
      /\ SumOver(s1.wpha) = SumOver(wpha) + (IF ownerPaid THEN toOwner ELSE 0)
  <2>1. Sound(Books, n) /\ n \in Nat /\ Books.pool = pool /\ Books.wpha = wpha
    BY InvFacts
  <2>2. Minted(Books, s1, n, OwnerReward, Paid(Books, OwnerReward, toOwner))
    <3> HIDE DEF n
    <3> QED
      BY <2>1, <1>2, <1>3, MintSound
  <2> HIDE DEF s1, n
  <2> QED
    BY <2>1, <2>2 DEF Minted, Paid
<1> HIDE DEF s1, ownerPaid
<1>5. Sound(s2, n) /\ s2.pool = s1.pool /\ s2.wpha[LockAccount] = s1.wpha[LockAccount]
      /\ s2.wpha[StakePool] = s1.wpha[StakePool] + (IF minted THEN toPool ELSE 0)
      /\ SumOver(s2.wpha) = SumOver(s1.wpha) + (IF minted THEN toPool ELSE 0)
  <2>1. n \in Nat
    BY InvFacts
  <2> HIDE DEF n
  <2>2. Minted(s1, s2, n, StakePool, Paid(s1, StakePool, toPool))
    BY <2>1, <1>2, <1>3, <1>4, MintSound
  <2> HIDE DEF s2
  <2> QED
    BY <2>2 DEF Minted, Paid
<1> HIDE DEF s2, minted
<1>6. Sound(t, n) /\ t.wpha = s2.wpha
  <2>1. CASE minted /\ ~IsDust(toPool)
    <3>1. s2.pool[StakePool].shares # 0
      <4>1. pool[StakePool].shares \in Nat /\ s2.pool = pool
        BY <1>4, <1>5, InvFacts, AmountFacts DEF PoolBook
      <4> QED
        BY <4>1, <1>1, PoolsAssumption DEF IsDust
    <3>2. s2.pool[StakePool].value + toPool <= s2.wpha[StakePool] + s2.wpha[LockAccount]
      <4> DEFINE v == s1.pool[StakePool].value
                 x == s1.wpha[StakePool]
                 y == s1.wpha[LockAccount]
      <4>1. v \in Nat /\ x \in Nat /\ y \in Nat /\ v <= x + y
        BY <1>3, <1>4, AmountFacts, AccountFacts, BookFields DEF Sound, Covered
      <4>2. s2.pool[StakePool].value = v /\ s2.wpha[StakePool] = x + toPool
            /\ s2.wpha[LockAccount] = y
        BY <1>5, <2>1
      <4> HIDE DEF v, x, y
      <4> QED
        BY <4>1, <4>2, <1>2
    <3>3. Sound(DistributeReward(s2, toPool), n)
          /\ DistributeReward(s2, toPool).wpha = s2.wpha
      BY <3>1, <3>2, <1>2, <1>5, InvFacts, DistributeSound
    <3> QED
      BY <2>1, <3>3
  <2>2. CASE ~(minted /\ ~IsDust(toPool))
    BY <2>2, <1>5
  <2> QED
    BY <2>1, <2>2
<1> HIDE DEF t, n
<1>7. Books' = t /\ wpha' = t.wpha
  BY <1>1, <1>6, SetBooksFacts DEF Sound
<1>8. unmintable \in Nat /\ backing \in Nat /\ SumOver(wpha) \in Nat
      /\ SumOver(wpha) + unmintable = backing
  BY InvFacts, AccountFacts, SumNat DEF Inv, OtherTypes
<1>9. SumOver(wpha') + unmintable' = backing'
  <2>1. SumOver(wpha') = SumOver(wpha) + (IF ownerPaid THEN toOwner ELSE 0)
                           + (IF minted THEN toPool ELSE 0)
    BY <1>4, <1>5, <1>6, <1>7
  <2> QED
    BY <2>1, <1>1, <1>2, <1>8
<1>10. backing' \in Nat /\ unmintable' \in Nat
  BY <1>1, <1>2, <1>8
<1>11. OtherTypes'
  <2>1. calls' \in 0..MaxCalls
    BY <1>1, CallType DEF Inv
  <2> QED
    BY <1>1, <1>10, <2>1 DEF Inv, OtherTypes, ballots
<1>12. wpha'[LockAccount] = SumOver(Stakes(worker'))
  BY <1>1, <1>4, <1>5, <1>6, <1>7 DEF Inv
<1>13. Sound(Books', vault'.owner_shares) /\ vault'.checkpoint > 0
  BY <1>1, <1>6, <1>7 DEF Inv, n
<1> QED
  BY <1>9, <1>11, <1>12, <1>13 DEF Inv

----------------------------------------------------------------------------
(* Steps of the vault.                                                     *)

(* The vault after do_gain_owner_share.                                    *)
LEMMA AfterGain ==
    ASSUME Inv
    PROVE  /\ VaultAfterGain \in VaultSet
           /\ VaultAfterGain.owner_shares \in Nat /\ VaultAfterGain.checkpoint > 0
           /\ Sound(GainOwnerShare(Books), VaultAfterGain.owner_shares)
           /\ GainOwnerShare(Books).wpha = wpha
           /\ Conserves(Books, GainOwnerShare(Books))
<1> DEFINE gain == OwnerGain(pool[Vault])
           n == vault.owner_shares
           x == [vault EXCEPT !.owner_shares = n + gain.shares]
<1>1. pool[Vault] \in PoolBook
  BY InvFacts, AmountFacts
<1>2. gain.shares \in Nat /\ gain.checkpoint \in Nat \ {0}
  BY <1>1, InvFacts, GainNat
<1>3. VaultAfterGain = [x EXCEPT !.checkpoint = gain.checkpoint]
  BY DEF VaultAfterGain
<1> HIDE DEF gain
<1>4. x \in VaultSet /\ x.owner_shares = n + gain.shares
  BY <1>2, InvFacts DEF VaultSet
<1> HIDE DEF x
<1>5. VaultAfterGain \in VaultSet /\ VaultAfterGain.owner_shares = n + gain.shares
      /\ VaultAfterGain.checkpoint = gain.checkpoint
  BY <1>2, <1>3, <1>4 DEF VaultSet
<1>6. Sound(GainOwnerShare(Books), n + OwnerGain(Books.pool[Vault]).shares)
      /\ GainOwnerShare(Books).wpha = Books.wpha
  BY InvFacts, GainSound
<1>7. Sound(GainOwnerShare(Books), n + gain.shares) /\ GainOwnerShare(Books).wpha = wpha
  BY <1>6, BooksFields DEF gain
<1>8. n \in Nat
  BY InvFacts
<1> QED
  BY <1>2, <1>5, <1>7, <1>8, BooksFields DEF Conserves

(* maybe_gain_owner_shares.                                                *)
LEMMA MaybeGainOwnerSharesInv ==
    ASSUME Inv, MaybeGainOwnerShares
    PROVE  Inv'
<1>1. SetBooks(GainOwnerShare(Books)) /\ vault' = VaultAfterGain
      /\ UNCHANGED <<commission, worker, wrapped, ballots, calls>>
  BY DEF MaybeGainOwnerShares
<1>2. OtherTypes'
  BY <1>1, AfterGain DEF Inv, OtherTypes, wrapped, ballots
<1>3. unmintable' = unmintable /\ backing' = backing /\ worker' = worker
  BY <1>1 DEF wrapped
<1> QED
  BY <1>1, <1>2, <1>3, AfterGain, ConservingStep

(* set_payout_pref of the vault.                                           *)
LEMMA VaultSetPayoutPrefInv ==
    ASSUME Inv, NEW c \in Commissions, VaultSetPayoutPref(c)
    PROVE  Inv'
<1> DEFINE x == VaultAfterGain
<1>1. SetBooks(GainOwnerShare(Books)) /\ vault' = [x EXCEPT !.commission = c] /\ Call
      /\ UNCHANGED <<commission, worker, wrapped, ballots>>
  BY DEF VaultSetPayoutPref
<1>2. c \in 0..100
  BY AmountFacts
<1>3. x \in VaultSet /\ x.checkpoint > 0 /\ Sound(GainOwnerShare(Books), x.owner_shares)
      /\ Conserves(Books, GainOwnerShare(Books))
  BY AfterGain
<1> HIDE DEF x
<1>4. vault' \in VaultSet /\ vault'.owner_shares = x.owner_shares
      /\ vault'.checkpoint = x.checkpoint
  BY <1>1, <1>2, <1>3 DEF VaultSet
<1>5. OtherTypes'
  <2>1. calls' \in 0..MaxCalls
    BY <1>1, CallType DEF Inv
  <2> QED
    BY <1>1, <1>4, <2>1 DEF Inv, OtherTypes, wrapped, ballots
<1>6. unmintable' = unmintable /\ backing' = backing /\ worker' = worker
  BY <1>1 DEF wrapped
<1> QED
  BY <1>1, <1>3, <1>4, <1>5, <1>6, ConservingStep

(* claim_owner_shares.                                                     *)
LEMMA ClaimOwnerSharesInv ==
    ASSUME Inv, NEW u \in Users, NEW k \in Claims, ClaimOwnerShares(u, k)
    PROVE  Inv'
<1> DEFINE t == [Books EXCEPT !.nft[Vault][u] = @ + k]
           n == vault.owner_shares
<1>1. SetBooks(t) /\ Call /\ Subscribe(Owner, Vault) /\ n >= k
      /\ vault' = [vault EXCEPT !.owner_shares = @ - k]
      /\ UNCHANGED <<commission, worker, wrapped, votes, ongoing>>
  BY DEF ClaimOwnerShares
<1>2. k \in 0..n /\ n \in Nat /\ u \in Holders
  BY <1>1, AmountFacts, AccountFacts, InvFacts
<1>3. Sound(t, n - k) /\ t.wpha = Books.wpha /\ n - k \in Nat
  BY <1>2, InvFacts, ClaimSound
<1> HIDE DEF t
<1>4. vault' \in VaultSet /\ vault'.owner_shares = n - k /\ vault'.checkpoint = vault.checkpoint
  BY <1>1, <1>3, InvFacts DEF VaultSet
<1>5. OtherTypes'
  <2>1. calls' \in 0..MaxCalls /\ account' \in AccountSet
    BY <1>1, CallType, SubscribeType, AmountFacts, PoolsAssumption DEF Inv
  <2> QED
    BY <1>1, <1>4, <2>1 DEF Inv, OtherTypes, wrapped
<1>6. unmintable' = unmintable /\ backing' = backing /\ worker' = worker
  BY <1>1 DEF wrapped
<1>7. Conserves(Books, t)
  BY <1>3 DEF Conserves
<1>8. Sound(t, vault'.owner_shares) /\ vault'.checkpoint > 0
  BY <1>3, <1>4, InvFacts
<1> QED
  BY <1>1, <1>5, <1>6, <1>7, <1>8, ConservingStep

(* contribute to the vault.                                                *)
LEMMA VaultContributeInv ==
    ASSUME Inv, NEW u \in Users, NEW a \in Amounts, VaultContribute(u, a)
    PROVE  Inv'
<1> DEFINE s == GainOwnerShare(Books)
           t == TryProcessWithdrawQueue(Vault, Contribute(Vault, u, a, s))
           n == VaultAfterGain.owner_shares
<1>1. SetBooks(t) /\ Call /\ Subscribe(u, Vault) /\ vault' = VaultAfterGain
      /\ wpha[u] >= a /\ Operating(s.pool[Vault])
      /\ UNCHANGED <<commission, worker, wrapped, votes, ongoing>>
  BY DEF VaultContribute
<1>2. Sound(s, n) /\ n \in Nat /\ s.wpha = wpha /\ Conserves(Books, s)
      /\ VaultAfterGain \in VaultSet /\ VaultAfterGain.checkpoint > 0
  BY AfterGain
<1>3. u \in Holders /\ u # Vault /\ a \in 0..s.wpha[u]
  <2>1. u \in Holders /\ u \in Accounts /\ u # Vault /\ a \in Nat
    BY AccountFacts, AmountFacts, PoolsAssumption DEF Vault
  <2>2. wpha[u] \in Nat
    BY <2>1, InvFacts
  <2> QED
    BY <1>1, <1>2, <2>1, <2>2
<1> HIDE DEF s, n
<1>4. Sound(t, n) /\ Conserves(s, t)
  BY <1>1, <1>2, <1>3, AmountFacts, ContributeServedSound
<1> HIDE DEF t
<1>5. Conserves(Books, t)
  BY <1>2, <1>4 DEF Conserves
<1>6. OtherTypes'
  <2>1. calls' \in 0..MaxCalls /\ account' \in AccountSet
    BY <1>1, CallType, SubscribeType, AmountFacts DEF Inv
  <2> QED
    BY <1>1, <1>2, <2>1 DEF Inv, OtherTypes, wrapped
<1>7. unmintable' = unmintable /\ backing' = backing /\ worker' = worker
  BY <1>1 DEF wrapped
<1>8. Sound(t, vault'.owner_shares) /\ vault'.checkpoint > 0
  BY <1>1, <1>2, <1>4 DEF n
<1> QED
  BY <1>1, <1>5, <1>6, <1>7, <1>8, ConservingStep

(* withdraw from the vault.                                                *)
LEMMA VaultWithdrawInv ==
    ASSUME Inv, NEW u \in Users, NEW a \in Amounts, VaultWithdraw(u, a)
    PROVE  Inv'
<1> DEFINE s == GainOwnerShare(Books)
           t == TryWithdraw(Vault, u, a, s)
           n == VaultAfterGain.owner_shares
<1>1. SetBooks(t) /\ Call /\ vault' = VaultAfterGain /\ MayWithdraw(Vault, u, a, s)
      /\ UNCHANGED <<commission, worker, wrapped, ballots>>
  BY DEF VaultWithdraw
<1>2. Sound(s, n) /\ n \in Nat /\ s.wpha = wpha /\ Conserves(Books, s)
      /\ VaultAfterGain \in VaultSet /\ VaultAfterGain.checkpoint > 0
  BY AfterGain
<1>3. u \in Holders /\ a \in Nat
  BY AccountFacts, AmountFacts
<1> HIDE DEF s, n
<1>4. Sound(t, n) /\ Conserves(s, t)
  BY <1>1, <1>2, <1>3, AmountFacts, TryWithdrawSound
<1> HIDE DEF t
<1>5. Conserves(Books, t)
  BY <1>2, <1>4 DEF Conserves
<1>6. OtherTypes'
  <2>1. calls' \in 0..MaxCalls
    BY <1>1, CallType DEF Inv
  <2> QED
    BY <1>1, <1>2, <2>1 DEF Inv, OtherTypes, wrapped, ballots
<1>7. unmintable' = unmintable /\ backing' = backing /\ worker' = worker
  BY <1>1 DEF wrapped
<1>8. Sound(t, vault'.owner_shares) /\ vault'.checkpoint > 0
  BY <1>1, <1>2, <1>4 DEF n
<1> QED
  BY <1>1, <1>5, <1>6, <1>7, <1>8, ConservingStep

(* check_and_maybe_force_withdraw of the vault.                            *)
LEMMA VaultCheckInv ==
    ASSUME Inv, VaultCheckAndMaybeForceWithdraw
    PROVE  Inv'
<1> DEFINE s == TryProcessWithdrawQueue(Vault, Books)
           b == s.pool[Vault]
           locked == vault.locked /\ b.queue # <<>>
           sp == s.pool[StakePool]
           queued == QueuedShares(sp, Vault)
           releasing == IF vault.invests /\ queued > 0
                        THEN bmul(queued, SharePrice(sp)) ELSE 0
           shutdown == /\ ~locked
                       /\ \/ b.queue # <<>> /\ Head(b.queue).age > 3 * GracePeriod
                          \/ HasExpiredWithdrawal(Vault, s, releasing)
           recall == vault.invests /\ ~IsDust(s.nft[StakePool][Vault])
           all == queued + s.nft[StakePool][Vault]
           t == IF shutdown /\ recall THEN TryWithdraw(StakePool, Vault, all, s) ELSE s
           n == vault.owner_shares
<1>1. SetBooks(t) /\ UNCHANGED <<commission, worker, wrapped, ballots, calls>>
  BY DEF VaultCheckAndMaybeForceWithdraw, VaultChecked
<1>2. vault' = [vault EXCEPT !.locked = locked \/ shutdown, !.invests = @ /\ (shutdown => recall)]
  BY DEF VaultCheckAndMaybeForceWithdraw, VaultChecked
<1>3. Sound(s, n) /\ Conserves(Books, s) /\ n \in Nat
  BY InvFacts, AmountFacts, TryProcessSound
<1> HIDE DEF s, n
<1>4. Sound(t, n) /\ Conserves(Books, t)
  <2>1. CASE shutdown /\ recall
    <3>1. s \in BookSet /\ QueueOK(sp.queue) /\ StakePool \in Pids /\ Vault \in Holders
      BY <1>3, AmountFacts, AccountFacts DEF Sound
    <3>2. queued \in Nat /\ s.nft[StakePool][Vault] \in Nat
      <4>1. QueuedShares(sp, Vault) = QueuedIn(sp.queue, Vault)
        BY <3>1, HeldNat
      <4>2. QueuedIn(sp.queue, Vault) \in Nat
        BY <3>1, QueuedFound
      <4>3. s.nft[StakePool][Vault] \in Nat
        BY <3>1, BookFields
      <4> QED
        BY <4>1, <4>2, <4>3
    <3>3. ~IsDust(s.nft[StakePool][Vault])
      BY <2>1
    <3>4. all \in Nat /\ MayWithdraw(StakePool, Vault, all, s)
      BY <3>2, <3>3, PoolsAssumption DEF MayWithdraw, IsDust
    <3> HIDE DEF all, shutdown, recall
    <3>5. Sound(TryWithdraw(StakePool, Vault, all, s), n)
          /\ Conserves(s, TryWithdraw(StakePool, Vault, all, s))
      BY <1>3, <3>1, <3>4, TryWithdrawSound
    <3>6. t = TryWithdraw(StakePool, Vault, all, s)
      BY <2>1
    <3> QED
      BY <3>5, <3>6, <1>3 DEF Conserves
  <2>2. CASE ~(shutdown /\ recall)
    <3> HIDE DEF shutdown, recall
    <3> QED
      BY <2>2, <1>3
  <2> QED
    BY <2>1, <2>2
<1>5. locked \in BOOLEAN /\ shutdown \in BOOLEAN /\ recall \in BOOLEAN
      /\ (locked \/ shutdown) \in BOOLEAN /\ (vault.invests /\ (shutdown => recall)) \in BOOLEAN
  BY Zenon
<1> DEFINE x == [vault EXCEPT !.locked = locked \/ shutdown]
           y == vault.invests /\ (shutdown => recall)
           z == locked \/ shutdown
<1>6. y \in BOOLEAN /\ z \in BOOLEAN /\ x = [vault EXCEPT !.locked = z]
  BY <1>5
<1>7. vault' = [x EXCEPT !.invests = y]
  <2> HIDE DEF locked, shutdown, recall
  <2> QED
    BY <1>2
<1> HIDE DEF t, y, z, x
<1>8. vault' \in VaultSet /\ vault'.owner_shares = n /\ vault'.checkpoint = vault.checkpoint
  <2>1. x \in VaultSet /\ x.owner_shares = vault.owner_shares /\ x.checkpoint = vault.checkpoint
    BY <1>6, InvFacts DEF VaultSet
  <2> QED
    BY <1>6, <1>7, <2>1 DEF VaultSet, n
<1>9. OtherTypes'
  BY <1>1, <1>8 DEF Inv, OtherTypes, wrapped, ballots
<1>10. unmintable' = unmintable /\ backing' = backing /\ worker' = worker
  BY <1>1 DEF wrapped
<1>11. Sound(t, vault'.owner_shares) /\ vault'.checkpoint > 0
  BY <1>4, <1>8, InvFacts
<1> QED
  BY <1>1, <1>4, <1>9, <1>10, <1>11, ConservingStep

----------------------------------------------------------------------------
(* Steps of the wrapped balances.                                          *)

(* A step that mints or releases W-PHA and moves no stake.                 *)
LEMMA BackingStep ==
    ASSUME Inv, NEW t, SetBooks(t), Sound(t, vault.owner_shares),
           t.wpha[LockAccount] = wpha[LockAccount],
           SumOver(t.wpha) + unmintable' = backing',
           OtherTypes', vault' = vault, worker' = worker
    PROVE  Inv'
<1>1. Books' = t /\ wpha' = t.wpha
  BY SetBooksFacts DEF Sound
<1>2. wpha'[LockAccount] = SumOver(Stakes(worker'))
  BY <1>1 DEF Inv
<1>3. Sound(Books', vault'.owner_shares) /\ vault'.checkpoint > 0
  BY <1>1 DEF Inv
<1> QED
  BY <1>1, <1>2, <1>3 DEF Inv

(* wrap mints what was paid in, or keeps it as dust.                       *)
LEMMA WrapInv ==
    ASSUME Inv, NEW u \in Users, NEW amount \in Amounts, Wrap(u, amount)
    PROVE  Inv'
<1> DEFINE t == Mint(Books, u, amount)
           paid == Paid(Books, u, amount)
           n == vault.owner_shares
<1>1. Call /\ amount <= pha[u] /\ pha' = [pha EXCEPT ![u] = @ - amount]
      /\ backing' = backing + amount /\ SetBooks(t)
      /\ unmintable' = unmintable + (IF Mintable(Books, u, amount) THEN 0 ELSE amount)
      /\ UNCHANGED <<vault, commission, worker, ballots>>
  BY DEF Wrap
<1>2. amount \in Nat /\ u \in Accounts /\ u # LockAccount
  BY AmountFacts, AccountFacts
<1>3. n \in Nat /\ Sound(Books, n) /\ Books.wpha = wpha /\ wpha \in [Accounts -> Nat]
  BY InvFacts
<1> HIDE DEF n
<1>4. Minted(Books, t, n, u, paid) /\ paid \in 0..amount
  BY <1>2, <1>3, MintSound
<1>5. unmintable' = unmintable + (amount - paid)
  BY <1>1, <1>2 DEF Paid
<1> HIDE DEF t, paid
<1>6. Sound(t, n) /\ t.wpha[LockAccount] = wpha[LockAccount]
      /\ SumOver(t.wpha) = SumOver(wpha) + paid
  BY <1>3, <1>4 DEF Minted
<1>7. unmintable \in Nat /\ backing \in Nat /\ SumOver(wpha) \in Nat
      /\ SumOver(wpha) + unmintable = backing /\ pha \in [Users -> Nat]
  BY <1>3, AccountFacts, SumNat DEF Inv, OtherTypes
<1>8. SumOver(t.wpha) + unmintable' = backing' /\ unmintable' \in Nat /\ backing' \in Nat
  BY <1>1, <1>2, <1>4, <1>5, <1>6, <1>7
<1>9. pha' \in [Users -> Nat]
  BY <1>1, <1>2, <1>7
<1>10. OtherTypes'
  <2>1. calls' \in 0..MaxCalls
    BY <1>1, CallType DEF Inv
  <2> QED
    BY <1>1, <1>8, <1>9, <2>1 DEF Inv, OtherTypes, ballots
<1> QED
  BY <1>1, <1>6, <1>8, <1>10, BackingStep DEF n

(* The books after some W-PHA of a user is burnt.                          *)
LEMMA BurnSound ==
    ASSUME NEW s, NEW n \in Nat, Sound(s, n), NEW u \in Users,
           NEW amount \in 0..s.wpha[u]
    PROVE  /\ Sound([s EXCEPT !.wpha[u] = @ - amount], n)
           /\ [s EXCEPT !.wpha[u] = @ - amount].wpha[LockAccount] = s.wpha[LockAccount]
           /\ SumOver([s EXCEPT !.wpha[u] = @ - amount].wpha) = SumOver(s.wpha) - amount
           /\ amount \in 0..SumOver(s.wpha)
<1> DEFINE t == [s EXCEPT !.wpha[u] = @ - amount]
           w == [s.wpha EXCEPT ![u] = @ - amount]
<1>1. s \in BookSet
  BY DEF Sound
<1>2. s.wpha \in [Accounts -> Nat] /\ s = [pool |-> s.pool, nft |-> s.nft, wpha |-> s.wpha]
      /\ s.pool \in [Pids -> PoolBook] /\ s.nft \in [Pids -> [Holders -> Nat]]
  BY <1>1 DEF BookSet
<1>3. u \in Accounts /\ LockAccount \in Accounts /\ StakePool \in Accounts
      /\ u # LockAccount /\ u # StakePool /\ IsFiniteSet(Accounts)
  BY AccountFacts DEF Pids
<1>4. s.wpha[u] \in 0..SumOver(s.wpha) /\ SumOver(s.wpha) \in Nat
  BY <1>2, <1>3, SumBound
<1>5. amount \in 0..SumOver(s.wpha) /\ amount \in Nat /\ s.wpha[u] \in Nat
  BY <1>4
<1>6. w \in [Accounts -> Nat] /\ w[u] = s.wpha[u] - amount
      /\ \A a \in Accounts : a # u => w[a] = s.wpha[a]
  BY <1>2, <1>3, <1>5
<1>7. t = [s EXCEPT !.wpha = w]
  OBVIOUS
<1> HIDE DEF w, t
<1>8. t = [pool |-> s.pool, nft |-> s.nft, wpha |-> w]
  BY <1>2, <1>7
<1>9. t.pool = s.pool /\ t.nft = s.nft /\ t.wpha = w
  BY <1>8
<1>10. t \in BookSet
  BY <1>2, <1>6, <1>8 DEF BookSet
<1>11. w \in [Accounts -> Int] /\ s.wpha \in [Accounts -> Int]
  BY <1>2, <1>6
<1>12. SumOver(w) = SumOver(s.wpha) + (w[u] - s.wpha[u])
  BY <1>3, <1>6, <1>11, SumChange
<1>13. SumOver(w) = SumOver(s.wpha) - amount
  BY <1>4, <1>5, <1>6, <1>12
<1>14. w[LockAccount] = s.wpha[LockAccount] /\ w[StakePool] = s.wpha[StakePool]
  BY <1>3, <1>6
<1>15. Covered(t)
  BY <1>9, <1>14 DEF Sound, Covered
<1>16. Sound(t, n)
  BY <1>9, <1>10, <1>15, BalancesSound
<1> QED
  BY <1>5, <1>9, <1>13, <1>14, <1>16 DEF t

(* Releasing native tokens burns as much W-PHA.                            *)
LEMMA ReleaseInv ==
    ASSUME Inv, Call, NEW u \in Users, NEW amount \in 0..wpha[u], Release(u, amount)
    PROVE  Inv'
<1> DEFINE t == [Books EXCEPT !.wpha[u] = @ - amount]
           n == vault.owner_shares
<1>1. pha' = [pha EXCEPT ![u] = @ + amount] /\ backing' = backing - amount /\ SetBooks(t)
      /\ UNCHANGED <<vault, commission, worker, unmintable, ballots>>
  BY DEF Release
<1>2. n \in Nat /\ Sound(Books, n) /\ Books.wpha = wpha /\ wpha \in [Accounts -> Nat]
      /\ amount \in 0..Books.wpha[u]
  BY InvFacts
<1> HIDE DEF n
<1>3. Sound(t, n) /\ t.wpha[LockAccount] = Books.wpha[LockAccount]
      /\ SumOver(t.wpha) = SumOver(Books.wpha) - amount /\ amount \in 0..SumOver(Books.wpha)
  BY <1>2, BurnSound
<1> HIDE DEF t
<1>4. unmintable \in Nat /\ backing \in Nat /\ SumOver(wpha) \in Nat
      /\ SumOver(wpha) + unmintable = backing /\ pha \in [Users -> Nat]
  BY <1>2, AccountFacts, SumNat DEF Inv, OtherTypes
<1>5. SumOver(t.wpha) = SumOver(wpha) - amount /\ amount \in 0..SumOver(wpha)
      /\ t.wpha[LockAccount] = wpha[LockAccount]
  BY <1>2, <1>3
<1>6. SumOver(t.wpha) + unmintable' = backing' /\ backing' \in Nat
  BY <1>1, <1>4, <1>5
<1>7. pha' \in [Users -> Nat]
  BY <1>1, <1>4, <1>5
<1>8. OtherTypes'
  <2>1. calls' \in 0..MaxCalls
    BY CallType DEF Inv
  <2> QED
    BY <1>1, <1>6, <1>7, <2>1 DEF Inv, OtherTypes, ballots
<1> QED
  BY <1>1, <1>3, <1>5, <1>6, <1>8, BackingStep DEF n

(* The net value of an account is a natural number.                        *)
LEMMA NetValueNat ==
    ASSUME Inv, NEW u \in Users
    PROVE  NetValue(u) \in Nat
<1> DEFINE S == {q \in account[u].invest_pools : pool[q].shares > 0}
           f == [p \in S |-> bmul(nft[p][u], SharePrice(pool[p]))]
<1>1. account[u].invest_pools \subseteq Pids
  BY DEF Inv, OtherTypes, AccountSet
<1>2. S \subseteq Pids /\ IsFiniteSet(Pids)
  BY <1>1, AccountFacts
<1>3. IsFiniteSet(S)
  BY <1>2, FS_Subset
<1>4. ASSUME NEW p \in S PROVE bmul(nft[p][u], SharePrice(pool[p])) \in Nat
  <2>1. p \in Pids /\ pool[p].shares > 0
    BY <1>2
  <2>2. pool[p] \in PoolBook /\ nft[p][u] \in Nat
    BY <2>1, InvFacts, AccountFacts
  <2>3. pool[p].shares \in Nat \ {0} /\ pool[p].value \in Nat
    BY <2>1, <2>2 DEF PoolBook
  <2>4. SharePrice(pool[p]) \in Nat
    BY <2>3, PriceNat, 0 \in Nat
  <2> QED
    BY <2>2, <2>4, PriceNat
<1>5. f \in [S -> Nat]
  BY <1>4
<1>6. NetValue(u) = wpha[u] + SumOver(f)
  BY DEF NetValue
<1> HIDE DEF f, S
<1>7. SumOver(f) \in Nat /\ wpha[u] \in Nat
  BY <1>3, <1>5, SumNat, InvFacts, AccountFacts
<1> QED
  BY <1>6, <1>7

(* unwrap.                                                                 *)
LEMMA UnwrapInv ==
    ASSUME Inv, NEW u \in Users, NEW amount \in Amounts, Unwrap(u, amount)
    PROVE  Inv'
<1>1. Call /\ amount <= wpha[u] /\ Release(u, amount)
  BY DEF Unwrap
<1>2. amount \in Nat /\ wpha[u] \in Nat
  BY AmountFacts, AccountFacts, InvFacts
<1>3. amount \in 0..wpha[u]
  BY <1>1, <1>2
<1> QED
  BY <1>1, <1>3, ReleaseInv

(* unwrap_all, whichever way its subtraction goes.                         *)
LEMMA UnwrapAllInv ==
    ASSUME Inv, NEW u \in Users, UnwrapAll(u)
    PROVE  Inv'
<1> DEFINE spare == NetValue(u) - account[u].locked
           amount == IF spare < 0 THEN wpha[u] ELSE Least(spare, wpha[u])
<1>1. Call /\ Release(u, amount)
  BY DEF UnwrapAll
<1>2. NetValue(u) \in Nat /\ wpha[u] \in Nat
  BY NetValueNat, AccountFacts, InvFacts
<1>3. account[u].locked \in Nat
  BY DEF Inv, OtherTypes, AccountSet
<1>4. spare \in Int
  BY <1>2, <1>3
<1> HIDE DEF spare
<1>5. amount \in 0..wpha[u]
  BY <1>2, <1>4 DEF Least
<1> HIDE DEF amount
<1> QED
  BY <1>1, <1>5, ReleaseInv
(* Natural numbers below a bound have a largest one.                       *)
LEMMA MaxFound ==
    ASSUME NEW T \in SUBSET Nat, T # {}, NEW B \in Nat, \A x \in T : x <= B
    PROVE  Max(T) \in T
<1> DEFINE U == {B - x : x \in T}
<1>1. U \in SUBSET Nat /\ U # {}
  <2>1. \A x \in T : x \in Nat /\ B - x \in Nat
    OBVIOUS
  <2> QED
    BY <2>1
<1>2. PICK m \in U : \A y \in U : m <= y
  BY <1>1, LeastNatural
<1>3. PICK x \in T : m = B - x
  OBVIOUS
<1>4. ASSUME NEW y \in T PROVE x >= y
  <2>1. B - y \in U
    OBVIOUS
  <2>2. m <= B - y
    BY <1>2, <2>1
  <2>3. x \in Nat /\ y \in Nat
    OBVIOUS
  <2> QED
    BY <1>3, <2>2, <2>3
<1> QED
  BY <1>4 DEF Max

(* The largest vote of a user is a natural number.                         *)
LEMMA LockedByNat ==
    ASSUME NEW v \in [Referenda -> [Users -> Nat]], NEW u \in Users
    PROVE  LockedBy(v, u) \in Nat
<1> DEFINE f == [r \in Referenda |-> v[r][u]]
           T == {v[r][u] : r \in Referenda} \cup {0}
           B == SumOver(f)
<1>1. f \in [Referenda -> Nat] /\ IsFiniteSet(Referenda)
  BY PoolsAssumption
<1>2. T \in SUBSET Nat /\ T # {}
  OBVIOUS
<1>3. LockedBy(v, u) = Max(T)
  BY DEF LockedBy
<1>4. \A r \in Referenda : v[r][u] = f[r]
  OBVIOUS
<1> HIDE DEF f
<1>5. B \in Nat /\ \A r \in Referenda : f[r] \in 0..B
  BY <1>1, SumNat, SumBound
<1> HIDE DEF B
<1>6. \A x \in T : x <= B
  BY <1>1, <1>4, <1>5
<1> HIDE DEF T
<1>7. Max(T) \in T
  BY <1>2, <1>5, <1>6, MaxFound
<1> QED
  BY <1>2, <1>3, <1>7

(* vote.                                                                   *)
LEMMA VoteInv ==
    ASSUME Inv, NEW u \in Users, NEW r \in Referenda, NEW amount \in Amounts,
           Vote(u, r, amount)
    PROVE  Inv'
<1>1. Call /\ votes' = [votes EXCEPT ![r][u] = amount]
      /\ account' = [account EXCEPT ![u].locked = LockedBy(votes', u)]
      /\ UNCHANGED <<books, vault, commission, worker, wrapped, ongoing>>
  BY DEF Vote
<1>2. votes' \in [Referenda -> [Users -> Nat]]
  BY <1>1, AmountFacts DEF Inv, OtherTypes
<1>3. account' \in AccountSet
  <2>1. LockedBy(votes', u) \in Nat
    BY <1>2, LockedByNat
  <2> QED
    BY <1>1, <2>1 DEF Inv, OtherTypes, AccountSet
<1>4. OtherTypes'
  <2>1. calls' \in 0..MaxCalls
    BY <1>1, CallType DEF Inv
  <2> QED
    BY <1>1, <1>2, <1>3, <2>1 DEF Inv, OtherTypes, wrapped
<1> QED
  BY <1>1, <1>4, QuietStep DEF books, wrapped

(* unlock.                                                                 *)
LEMMA UnlockInv ==
    ASSUME Inv, NEW r \in Referenda, NEW drained \in SUBSET Users, Unlock(r, drained)
    PROVE  Inv'
<1>1. /\ votes' = [votes EXCEPT ![r] = [u \in Users |-> IF u \in drained THEN 0 ELSE @[u]]]
      /\ account' = [u \in Users |-> IF u \in drained
                       THEN [account[u] EXCEPT !.locked = LockedBy(votes', u)]
                       ELSE account[u]]
      /\ UNCHANGED <<books, vault, commission, worker, wrapped, ongoing, calls>>
  BY DEF Unlock
<1>2. votes' \in [Referenda -> [Users -> Nat]]
  BY <1>1 DEF Inv, OtherTypes
<1>3. account' \in AccountSet
  <2>1. ASSUME NEW u \in Users
        PROVE  [account[u] EXCEPT !.locked = LockedBy(votes', u)] \in
                 [invest_pools : SUBSET Pids, locked : Nat]
    <3>1. LockedBy(votes', u) \in Nat
      BY <1>2, LockedByNat
    <3>2. account[u] \in [invest_pools : SUBSET Pids, locked : Nat]
      BY DEF Inv, OtherTypes, AccountSet
    <3> QED
      BY <3>1, <3>2
  <2>2. account \in [Users -> [invest_pools : SUBSET Pids, locked : Nat]]
    BY DEF Inv, OtherTypes, AccountSet
  <2> QED
    BY <1>1, <2>1, <2>2 DEF AccountSet
<1>4. OtherTypes'
  BY <1>1, <1>2, <1>3 DEF Inv, OtherTypes, wrapped
<1> QED
  BY <1>1, <1>4, QuietStep DEF books, wrapped

(* A referendum ends.                                                      *)
LEMMA EndReferendumInv ==
    ASSUME Inv, NEW r \in Referenda, EndReferendum(r)
    PROVE  Inv'
<1>1. ongoing' = ongoing \ {r}
      /\ UNCHANGED <<books, vault, commission, worker, wrapped, account, votes, calls>>
  BY DEF EndReferendum
<1>2. OtherTypes'
  BY <1>1 DEF Inv, OtherTypes, wrapped
<1> QED
  BY <1>1, <1>2, QuietStep DEF books, wrapped

(* Ageing changes no request but its age.                                  *)
LEMMA AgedQueue ==
    ASSUME NEW q, QueueOK(q)
    PROVE  QueueOK(Aged(q)) /\ \A h : QueuedIn(Aged(q), h) = QueuedIn(q, h)
<1> DEFINE a == Aged(q)
<1>1. q \in Seq(Requests) /\ Len(q) \in Nat /\ DOMAIN q = 1..Len(q)
  BY DEF QueueOK
<1>2. ASSUME NEW i \in 1..Len(q)
      PROVE  /\ [q[i] EXCEPT !.age = Least(@ + 1, MaxAge)] \in Requests
             /\ [q[i] EXCEPT !.age = Least(@ + 1, MaxAge)].user = q[i].user
             /\ [q[i] EXCEPT !.age = Least(@ + 1, MaxAge)].shares = q[i].shares
  <2> DEFINE k == Least(q[i].age + 1, MaxAge)
  <2>1. q[i] \in Requests /\ q[i].age \in 0..MaxAge
    BY RequestFields
  <2>2. k \in 0..MaxAge
    BY <2>1, MaxAgeNat DEF Least
  <2> HIDE DEF k
  <2>3. [q[i] EXCEPT !.age = k] \in Requests
        /\ [q[i] EXCEPT !.age = k].user = q[i].user
        /\ [q[i] EXCEPT !.age = k].shares = q[i].shares
    BY <2>1, <2>2 DEF Requests
  <2> QED
    BY <2>3 DEF k
<1>3. a = [i \in 1..Len(q) |-> [q[i] EXCEPT !.age = Least(@ + 1, MaxAge)]]
  BY <1>1 DEF Aged
<1>4. \A i \in 1..Len(q) : a[i] \in Requests /\ a[i].user = q[i].user
                           /\ a[i].shares = q[i].shares
  BY <1>2, <1>3
<1>5. a \in [1..Len(q) -> Requests]
  BY <1>2, <1>3
<1> HIDE DEF a
<1>6. a \in Seq(Requests) /\ Len(a) = Len(q)
  BY <1>1, <1>5
<1>7. QueueOK(a)
  BY <1>4, <1>6 DEF QueueOK
<1>8. ASSUME NEW h PROVE QueuedIn(a, h) = QueuedIn(q, h)
  BY <1>4, <1>6, <1>7, QueuedSame
<1> QED
  BY <1>7, <1>8 DEF a

(* Time passes.                                                            *)
LEMMA TickInv ==
    ASSUME Inv, Tick
    PROVE  Inv'
<1> DEFINE x == [p \in Pids |-> [pool[p] EXCEPT !.queue = Aged(@)]]
           t == [pool |-> x, nft |-> nft, wpha |-> wpha]
           n == vault.owner_shares
<1>1. pool' = x /\ UNCHANGED <<nft, wpha, vault, commission, worker, wrapped, ballots, calls>>
  BY DEF Tick
<1>2. \A p \in Pids : pool[p] \in PoolBook /\ QueueOK(pool[p].queue)
  BY InvFacts DEF Sound
<1>3. ASSUME NEW p \in Pids
      PROVE  /\ x[p] \in PoolBook /\ x[p].shares = pool[p].shares
             /\ x[p].value = pool[p].value /\ x[p].queue = Aged(pool[p].queue)
  <2>1. QueueOK(Aged(pool[p].queue)) /\ pool[p] \in PoolBook
    BY <1>2, AgedQueue
  <2>2. Aged(pool[p].queue) \in Seq(Requests)
    BY <2>1 DEF QueueOK
  <2>3. x[p] = [pool[p] EXCEPT !.queue = Aged(pool[p].queue)]
    OBVIOUS
  <2> HIDE DEF x
  <2> QED
    BY <2>1, <2>2, <2>3 DEF PoolBook
<1>4. x \in [Pids -> PoolBook]
  BY <1>3
<1> HIDE DEF x
<1>5. t.pool = x /\ t.nft = nft /\ t.wpha = wpha
  OBVIOUS
<1>6. t \in BookSet
  BY <1>4, InvFacts DEF BookSet
<1>7. SetBooks(t)
  BY <1>1, <1>5 DEF SetBooks
<1> HIDE DEF t
<1>8. Covered(t)
  BY <1>3, <1>5, InvFacts, AmountFacts DEF Sound, Covered
<1>9. Sound(t, n)
  <2>1. ASSUME NEW p \in Pids
        PROVE  /\ t.pool[p].shares = Books.pool[p].shares
               /\ QueueOK(t.pool[p].queue)
               /\ \A h \in Holders : Held(t, p, h) = Held(Books, p, h)
    <3>1. t.pool[p].shares = pool[p].shares /\ t.pool[p].queue = Aged(pool[p].queue)
      BY <1>3, <1>5
    <3>2. QueueOK(Aged(pool[p].queue))
          /\ \A h : QueuedIn(Aged(pool[p].queue), h) = QueuedIn(pool[p].queue, h)
      BY <1>2, AgedQueue
    <3> QED
      BY <3>1, <3>2, <1>5, BooksFields DEF Held
  <2>2. n \in Nat /\ Sound(Books, n)
    BY InvFacts
  <2> HIDE DEF n
  <2> QED
    BY <2>1, <2>2, <1>6, <1>8, HoldingsSound
<1>10. Conserves(Books, t)
  BY <1>5, BooksFields DEF Conserves
<1>11. OtherTypes'
  BY <1>1 DEF Inv, OtherTypes, wrapped, ballots
<1>12. unmintable' = unmintable /\ backing' = backing /\ vault' = vault /\ worker' = worker
  BY <1>1 DEF wrapped
<1> QED
  BY <1>7, <1>9, <1>10, <1>11, <1>12, InvFacts, ConservingStep

----------------------------------------------------------------------------
(* The theorems.                                                           *)

(* The steps of the stake pool keep the invariant.                         *)
LEMMA StakePoolNextInv ==
    ASSUME Inv, StakePoolNext
    PROVE  Inv'
BY StakePoolContributeInv, StakePoolContributeAsVaultInv, StakePoolWithdrawInv,
   StartComputingInv, StopComputingInv, ReclaimPoolWorkerInv, RestartComputingInv,
   StakePoolCheckInv, SetPayoutPrefInv, ClaimOwnerRewardsInv, OnRewardInv
   DEF StakePoolNext

(* The steps of the vault keep the invariant.                              *)
LEMMA VaultNextInv ==
    ASSUME Inv, VaultNext
    PROVE  Inv'
BY MaybeGainOwnerSharesInv, VaultSetPayoutPrefInv, ClaimOwnerSharesInv,
   VaultContributeInv, VaultWithdrawInv, VaultCheckInv DEF VaultNext

(* The steps of the wrapped balances keep the invariant.                   *)
LEMMA WrappedNextInv ==
    ASSUME Inv, WrappedNext
    PROVE  Inv'
BY WrapInv, UnwrapInv, UnwrapAllInv, VoteInv, UnlockInv, EndReferendumInv DEF WrappedNext

(* Every step keeps the invariant.                                         *)
LEMMA InvNext == Inv /\ [Next]_vars => Inv'
<1> SUFFICES ASSUME Inv, [Next]_vars PROVE Inv'
  OBVIOUS
<1>1. CASE Next
  BY <1>1, StakePoolNextInv, VaultNextInv, WrappedNextInv, TickInv DEF Next
<1>2. CASE UNCHANGED vars
  <2>1. UNCHANGED <<pool, nft, wpha, vault, commission, worker, pha, backing, unmintable,
                    account, votes, ongoing, calls>>
    BY <1>2 DEF vars, books, wrapped, ballots
  <2>2. OtherTypes'
    BY <2>1 DEF Inv, OtherTypes
  <2> QED
    BY <2>1, <2>2, QuietStep
<1> QED
  BY <1>1, <1>2

(* The inductive invariant: the books of both pools are sound, with one    *)
(* request of more than dust for each account in a withdraw queue, the     *)
(* stakes of the sessions are in the lock account, and every W-PHA has a   *)
(* native token behind it, whatever extrinsics follow each other.          *)
THEOREM Inductive == Spec => []Inv
BY InvInit, InvNext, PTL DEF Spec

(* Type correctness: no balance, total, stake or backing is ever negative, *)
(* although the extrinsics subtract from all of them.                      *)
THEOREM TypeCorrect == Spec => []TypeOK
BY Inductive, InvImplies, PTL

(* total_shares of a pool is what its delegators hold and have queued, and *)
(* for the vault what it keeps for its owner: no sequence of               *)
(* contributions, partial payments, burnt dust, rewards and claims loses a *)
(* share or makes one nobody holds, and nobody has two requests in a queue.*)
THEOREM SharesAlwaysAccounted == Spec => []SharesAccounted
BY Inductive, InvImplies, PTL

(* The lock account holds the stakes of the sessions, free and locked      *)
(* stake cover total_value of the stake pool, and wrapped tokens are       *)
(* backed one to one by native ones.                                       *)
THEOREM FundsAlwaysCovered == Spec => []FundsCovered
BY Inductive, InvImplies, PTL

=============================================================================
