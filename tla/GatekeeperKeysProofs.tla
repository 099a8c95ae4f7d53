------------------------ MODULE GatekeeperKeysProofs ------------------------
(***************************************************************************)
(* Proofs about GatekeeperKeys, for any number of pRuntimes, rotations,    *)
(* changes of gatekeepers, restarts and events in a block.                 *)
(***************************************************************************)
EXTENDS GatekeeperKeys, WellFoundedInduction, FiniteSetTheorems, TLAPS

-----------------------------------------------------------------------------
(* Induction on natural numbers.  The statements speak of sets where those *)
(* of the library speak of predicates, so that the provers can instantiate *)
(* them.                                                                   *)

(* A set of natural numbers has a least element.                          *)
LEMMA LeastNatural ==
    ASSUME NEW T \in SUBSET Nat, T # {}
    PROVE  \E x \in T : \A y \in T : x <= y
<1>1. PICK x \in T : \A y \in T : ~(<<y, x>> \in OpToRel(<, Nat))
  BY NatLessThanWellFounded, WFMin
<1>2. \A y \in T : ~(y < x)
  BY <1>1 DEF OpToRel
<1> QED
  BY <1>2

(* Induction up to N, stated with a set in place of a predicate.           *)
LEMMA IntervalInduction ==
    ASSUME NEW N \in Nat, NEW P \in SUBSET (0..N), 0 \in P,
           \A k \in 1..N : k - 1 \in P => k \in P
    PROVE  P = 0..N
<1> DEFINE T == (0..N) \ P
<1>1. ASSUME NEW k \in T, \A y \in T : k <= y PROVE FALSE
  <2>1. k \in 1..N /\ k - 1 \in 0..N /\ k - 1 \notin T
    BY <1>1
  <2> QED
    BY <2>1
<1>2. T \in SUBSET Nat
  OBVIOUS
<1> HIDE DEF T
<1>3. T = {}
  BY <1>1, <1>2, LeastNatural
<1> QED
  BY <1>3 DEF T

----------------------------------------------------------------------------
(* Sequences and histories of keys.                                        *)

Entry == [id : Nat, height : Nat, key : Nat]

AnySeq(q) == \E D : q \in Seq(D)

(* b goes on from a.                                                       *)
Extends(a, b) == Len(a) <= Len(b) /\ \A i \in 1..Len(a) : b[i] = a[i]

(* A history that holds the first keys of H.                               *)
Genuine(x, H) == x \in Seq(Entry) /\ Extends(x, H)

(* H: the keys of the gatekeepers in the order of the rotations.           *)
KeysOK(H, k) ==
  /\ H \in Seq(Entry)
  /\ \A i \in 1..Len(H) : H[i].key \in 1..k /\ H[i].id = i - 1
  /\ H # <<>> => H[1].height = 0

----------------------------------------------------------------------------
(* What the events of the chain make of a gatekeeper that has followed it  *)
(* from the start: on and launched as in the code, idx the number of the   *)
(* key it works with, stream what it has pushed.  Of the chain it knows    *)
(* the last rotation asked for, the gatekeepers, the workers that must     *)
(* have the keys, and where in the stream the key is shared with each.     *)

Start == [on |-> FALSE, launched |-> FALSE, idx |-> 0, req |-> 0, gks |-> {},
          keyed |-> {}, at |-> [w \in Workers |-> 0], stream |-> <<>>]

(* The message that an event makes a gatekeeper push, and its signer.      *)
Answer(c, e) ==
  [kind |-> IF e.type = "Registered" THEN "MasterKeyHistory"
            ELSE IF e.type = "RotateMasterKey" THEN "MasterKeyRotation"
            ELSE "RotatedMasterPubkey",
   of |-> e, idx |-> c.idx]

Answered(c, e) ==
  c.on /\ e.type \in {"Registered", "RotateMasterKey", "MasterKeyRotation"}

Streamed(c, e) == IF Answered(c, e) THEN Append(c.stream, Answer(c, e)) ELSE c.stream

Follow(c, e) ==
  [on |-> c.on \/ e.type = "FirstGatekeeper",
   launched |-> c.launched \/ e.type = "MasterPubkeyOnChain",
   idx |-> IF e.type = "MasterKeyRotation" THEN e.id ELSE c.idx,
   req |-> IF e.type = "RotateMasterKey" THEN e.id ELSE c.req,
   gks |-> IF e.type \in {"FirstGatekeeper", "Registered"} THEN c.gks \cup {e.gk}
           ELSE IF e.type = "Unregistered" THEN c.gks \ {e.gk}
           ELSE c.gks,
   keyed |-> IF e.type = "FirstGatekeeper" THEN c.keyed \cup {e.gk}
             ELSE IF e.type = "MasterKeyHistory" THEN c.keyed \cup {e.dest}
             ELSE IF e.type = "MasterKeyRotation" THEN c.keyed \cap e.dests
             ELSE c.keyed,
   at |-> IF e.type = "Registered" THEN [c.at EXCEPT ![e.gk] = Len(c.stream) + 1]
          ELSE c.at,
   stream |-> Streamed(c, e)]

(* What it pushes at the end of a block.                                   *)
Pushed(c, kind) == Append(c.stream, [kind |-> kind, of |-> Settle, idx |-> c.idx])

WithStream(c, q) ==
  [on |-> c.on, launched |-> c.launched, idx |-> c.idx, req |-> c.req, gks |-> c.gks,
   keyed |-> c.keyed, at |-> c.at, stream |-> q]

AfterReport(c, b) ==
  WithStream(c, IF c.on /\ c.launched /\ Settle \in Range(b.events) THEN Pushed(c, "Report")
                ELSE c.stream)
AfterRandom(c, h) ==
  WithStream(c, IF c.on /\ h \in RandomBlocks THEN Pushed(c, "NewRandomNumber") ELSE c.stream)
AfterBlock(c, b, h) == AfterRandom(AfterReport(c, b), h)

(* The key that signs message n + 1 of a stream.                           *)
Signing(q, n) ==
  IF n = 0 THEN 0 ELSE IF q[n].kind = "RotatedMasterPubkey" THEN q[n].of.id ELSE q[n].idx

Descriptors == {"MasterKeyHistory", "MasterKeyRotation", "RotatedMasterPubkey", "Report",
                "NewRandomNumber"}

DescriptorOK(d) ==
  /\ d.kind \in Descriptors /\ d.idx \in Nat
  /\ d.kind = "MasterKeyHistory" => d.of.gk \in Workers
  /\ d.kind \in {"MasterKeyRotation", "RotatedMasterPubkey"} => d.of.id = d.idx + 1

(* A stream in which keys change one by one, where they are announced.     *)
StreamOK(q) ==
  /\ AnySeq(q)
  /\ \A n \in 1..Len(q) : DescriptorOK(q[n]) /\ q[n].idx = Signing(q, n - 1)
  /\ \A n \in 0..Len(q) : Signing(q, n) \in Nat /\ Signing(q, n) <= Signing(q, Len(q))
  /\ \A n, m \in 1..Len(q) :
       n < m /\ q[n].kind = "MasterKeyRotation" /\ q[m].kind = "MasterKeyRotation"
         => q[n].of.id < q[m].of.id

CanonType(c) ==
  /\ c.on \in BOOLEAN /\ c.launched \in BOOLEAN
  /\ c.idx \in Nat /\ c.req \in Nat /\ c.gks \subseteq Workers /\ c.keyed \subseteq Workers
  /\ c.at \in [Workers -> 0..Len(c.stream)]

(* Where the stream shares the key with a worker.                          *)
SharesOK(c) ==
  \A w \in Workers : c.at[w] > 0 =>
    c.stream[c.at[w]].kind = "MasterKeyHistory" /\ c.stream[c.at[w]].of.gk = w

(* The proposals for the rotation under way are for the gatekeepers there  *)
(* are, and come after the key was shared with them.                       *)
ProposalsOK(c) ==
  \A n \in 1..Len(c.stream) : c.stream[n].kind = "MasterKeyRotation" =>
    /\ c.stream[n].of.id <= c.req
    /\ c.stream[n].of.id = c.req /\ c.req = c.idx + 1 =>
         c.stream[n].of.gks = c.gks /\ \A g \in c.gks : c.at[g] < n

CanonOK(c) ==
  /\ CanonType(c)
  /\ StreamOK(c.stream) /\ c.idx = Signing(c.stream, Len(c.stream))
  /\ c.on => c.req \in {c.idx, c.idx + 1}
  /\ ~c.on => ~c.launched /\ c.idx = 0 /\ c.gks = {} /\ c.keyed = {} /\ c.stream = <<>>
  /\ SharesOK(c) /\ ProposalsOK(c)

(* The events that the chain may emit when the gatekeepers have come to c. *)
EventOK(c, e, h, H) ==
  \/ /\ \E g \in Workers : e = FirstGatekeeper(g)
     /\ ~c.on /\ c.req = 0
  \/ /\ c.on /\ c.idx = 0 /\ H # <<>> /\ e = MasterPubkeyOnChain(H[1].key)
  \/ /\ \E g \in Workers : e = Registered(g)
     /\ c.on /\ c.req = c.idx
  \/ /\ \E g \in Workers : e = Unregistered(g)
     /\ c.on /\ c.req = c.idx
  \/ /\ e = RotateMasterKey(c.req + 1, c.gks)
     /\ c.on => c.req = c.idx
  \/ /\ e.type = "MasterKeyHistory" /\ c.on
     /\ e.dest \in Workers /\ e = MasterKeyHistory(e.dest, e.history)
     /\ Genuine(e.history, H) /\ e.history # <<>>
  \/ /\ e.type = "MasterKeyRotation" /\ c.on /\ c.req = c.idx + 1
     /\ e = MasterKeyRotation(c.req, e.key, c.gks, e.sender)
     /\ c.req < Len(H) /\ H[c.req + 1] = RotatedKey(c.req, h, e.key)
     /\ c.gks \subseteq c.keyed
  \/ e.type \in {"NewRandomNumber", "Settle"}

----------------------------------------------------------------------------
(* The invariant.  st[h] is the gatekeeper after h blocks, ev[j] after j   *)
(* events of a block, first the first gatekeeper.                          *)

StepsOK(ev, b, before, h, H) ==
  /\ AnySeq(b.events)
  /\ ev[0] = before
  /\ \A j \in 1..Len(b.events) :
       EventOK(ev[j - 1], b.events[j], h, H) /\ ev[j] = Follow(ev[j - 1], b.events[j])
  /\ \A j \in 0..Len(b.events) : CanonOK(ev[j])
  /\ \A i, j \in 0..Len(b.events) :
       i <= j => Extends(ev[i].stream, ev[j].stream) /\ ev[i].idx <= ev[j].idx

BlockOK(b, before, after, h, H) ==
  \E ev : /\ StepsOK(ev, b, before, h, H)
          /\ after = AfterBlock(ev[Len(b.events)], b, h)
          /\ b.gatekeepers = after.gks

WalkOK(st, H) ==
  /\ AnySeq(blocks)
  /\ st[0] = Start
  /\ \A h \in 1..Len(blocks) : BlockOK(blocks[h], st[h - 1], st[h], h, H)
  /\ \A h \in 0..Len(blocks) : CanonOK(st[h])
  /\ \A g, h \in 0..Len(blocks) :
       g <= h => Extends(st[g].stream, st[h].stream) /\ st[g].idx <= st[h].idx

(* The sender of an accepted proposal is a gatekeeper after the block.     *)
SendersOK ==
  \A h \in 1..Len(blocks) : \A j \in 1..Len(blocks[h].events) :
    blocks[h].events[j].type = "MasterKeyRotation" =>
      blocks[h].events[j].sender \in blocks[h].gatekeepers

(* A pRuntime of which the gatekeepers have come to c.                     *)
NodeOK(r, n, c, H) ==
  /\ n.seq \in Nat /\ n.dummy \in BOOLEAN
  /\ r \in c.keyed => n.gk # NoGatekeeper
  /\ ~c.on => n.gk = NoGatekeeper /\ n.seq = 0
  /\ \/ n.gk = NoGatekeeper
     \/ /\ n.gk \in Gk /\ Genuine(n.gk.history, H) /\ c.idx < Len(n.gk.history)
        /\ n.gk.key = H[c.idx + 1].key /\ n.gk.reporter = H[1].key
        /\ n.gk.launched = c.launched /\ n.seq = Len(c.stream)
        /\ n.dummy <=> r \notin c.gks

(* A message p that is what d says.                                        *)
Tells(p, d, H, k) ==
  /\ p.type = d.kind
  /\ d.kind = "MasterKeyHistory" =>
       p = MasterKeyHistory(d.of.gk, p.history) /\ Genuine(p.history, H) /\ p.history # <<>>
  /\ d.kind = "MasterKeyRotation" =>
       /\ p = MasterKeyRotation(d.of.id, p.key, d.of.gks, p.sender)
       /\ p.key \in 1..k /\ p.sender \in d.of.gks
  /\ d.kind = "RotatedMasterPubkey" =>
       d.of.id < Len(H) /\ p = RotatedMasterPubkey(d.of.id, H[d.of.id + 1].key)
  /\ d.kind = "Report" => p = Report

(* The key that signs it.                                                  *)
SignerIdx(d) == IF d.kind = "Report" THEN 0 ELSE d.idx

(* A message that a stream has at its place.                               *)
Fits(m, q, H, k) ==
  /\ m.seq \in Nat /\ m.seq < Len(q)
  /\ Tells(m.payload, q[m.seq + 1], H, k)
  /\ SignerIdx(q[m.seq + 1]) < Len(H) /\ m.signer = H[SignerIdx(q[m.seq + 1]) + 1].key

BadPanics == {"master key mismatch", "master key history corrupted",
              "Batch rotate master key to a normal worker"}

(* A function of the pRuntimes, and the record of one.                     *)
OfWorkers(f) == f = [w \in Workers |-> f[w]]
IsNode(n) == \E X : n \in [height : X, gk : X, seq : X, dummy : X, panic : X]

(* A pRuntime, or a checkpoint of it, that has handled at most top blocks. *)
WorkerOK(r, n, st, H, top) ==
  IsNode(n) /\ n.height \in 0..top /\ NodeOK(r, n, st[n.height], H)

NodesOK(st, H) ==
  \A r \in Workers :
    /\ WorkerOK(r, node[r], st, H, final) /\ WorkerOK(r, ckpt[r], st, H, final)
    /\ node[r].panic \notin BadPanics /\ ckpt[r].panic = "none"
    /\ Genuine(seal[r], H)

(* Who was registered as the first gatekeeper.                             *)
Firsts ==
  {w \in Workers : \E h \in 1..Len(blocks) : \E j \in 1..Len(blocks[h].events) :
                     blocks[h].events[j] = FirstGatekeeper(w)}

(* There is one at most, and it keeps the key that it has generated.       *)
FirstOK(st, H, first) ==
  /\ \A w \in Firsts : w = first /\ st[Len(blocks)].on
  /\ H # <<>> => first \in Firsts /\ seal[first] # <<>>

(* How far the chain has come with the stream, and what it knows of the    *)
(* rotation under way.                                                     *)
ChainOK(E, S, H) ==
  /\ gatekeepers = E.gks /\ (gatekeepers = {} <=> ~E.on)
  /\ rotations = E.req /\ lock \in {0, rotations} /\ (~E.on => lock = rotations)
  /\ ingress \in 0..Len(S)
  /\ lock = 0 /\ E.on => E.idx = rotations /\ Signing(S, ingress) = rotations
  /\ lock # 0 /\ E.on => Signing(S, ingress) = rotations - 1
  /\ IF H = <<>> THEN E.idx = 0 ELSE E.on /\ Len(H) = E.idx + 1
  /\ IF master = 0 THEN ingress = 0 /\ E.idx = 0
     ELSE H # <<>> /\ Signing(S, ingress) < Len(H) /\ master = H[Signing(S, ingress) + 1].key
  /\ \A g \in gatekeepers : g \in E.keyed \/ E.at[g] > ingress
  /\ E.idx = Signing(S, ingress) + 1 =>
       \E n \in 1..ingress : S[n].kind = "MasterKeyRotation" /\ S[n].of.id = E.idx

TransitOK(S, H) ==
  /\ \A m \in pool : Fits(m, S, H, keys)
  /\ \A k \in uploads : H # <<>> /\ k = H[1].key

IInv(st, H, first) ==
  /\ final \in 0..Len(blocks) /\ keys \in Nat /\ KeysOK(H, keys)
  /\ OfWorkers(node) /\ OfWorkers(ckpt) /\ OfWorkers(seal)
  /\ WalkOK(st, H) /\ SendersOK /\ NodesOK(st, H) /\ FirstOK(st, H, first)
  /\ ChainOK(st[Len(blocks)], st[final].stream, H) /\ TransitOK(st[final].stream, H)

(* There is an account of the blocks that explains the state.              *)
Inv == \E st, H, first : IInv(st, H, first)

----------------------------------------------------------------------------
(* Sequences, and the account of a stream.                                 *)

(* Append keeps what there was and puts its argument at the end.           *)
LEMMA AppendFacts ==
  ASSUME NEW q, NEW x, AnySeq(q)
  PROVE  /\ AnySeq(Append(q, x)) /\ Len(q) \in Nat /\ Len(Append(q, x)) = Len(q) + 1
         /\ \A i \in 1..Len(q) : Append(q, x)[i] = q[i]
         /\ Append(q, x)[Len(q) + 1] = x
         /\ Extends(q, Append(q, x)) /\ Append(q, x) # <<>>
<1>1. PICK D : q \in Seq(D)
  BY DEF AnySeq
<1>2. q \in Seq(D \cup {x})
  BY <1>1
<1>3. Append(q, x) \in Seq(D \cup {x})
  BY <1>2
<1>4. AnySeq(Append(q, x))
  BY <1>3 DEF AnySeq
<1>5. Len(q) \in Nat /\ Len(Append(q, x)) = Len(q) + 1 /\ Append(q, x)[Len(q) + 1] = x
  BY <1>2
<1>6. \A i \in 1..Len(q) : Append(q, x)[i] = q[i]
  BY <1>2
<1>7. Append(q, x) # <<>>
  BY <1>2, <1>5
<1> QED
  BY <1>4, <1>5, <1>6, <1>7 DEF Extends

(* A sequence goes on from itself, and from what it goes on from.          *)
LEMMA ExtendsFacts ==
  ASSUME NEW a, NEW b, NEW c, AnySeq(a), AnySeq(b), AnySeq(c)
  PROVE  /\ Extends(a, a)
         /\ Extends(a, b) /\ Extends(b, c) => Extends(a, c)
         /\ Extends(<<>>, a)
BY DEF AnySeq, Extends

(* Histories are sequences.                                                *)
LEMMA SeqIsAny ==
  ASSUME NEW D, NEW q \in Seq(D)
  PROVE  AnySeq(q) /\ Len(q) \in Nat /\ (q = <<>> <=> Len(q) = 0)
BY DEF AnySeq

(* A history that holds the first keys of H holds the first keys of what   *)
(* goes on from H.                                                         *)
LEMMA GenuineExtends ==
  ASSUME NEW H \in Seq(Entry), NEW G \in Seq(Entry), Extends(H, G), NEW x, Genuine(x, H)
  PROVE  Genuine(x, G)
<1> QED
  BY SeqIsAny, ExtendsFacts DEF Genuine

(* A stream stays one when the next message is signed with the key that    *)
(* is due and proposes for a later rotation.                               *)
LEMMA StreamAppend ==
  ASSUME NEW q, NEW d, StreamOK(q), DescriptorOK(d), d.idx = Signing(q, Len(q)),
         d.kind = "MasterKeyRotation" =>
           \A n \in 1..Len(q) : q[n].kind = "MasterKeyRotation" => q[n].of.id < d.of.id
  PROVE  /\ StreamOK(Append(q, d))
         /\ Signing(Append(q, d), Len(Append(q, d))) =
              IF d.kind = "RotatedMasterPubkey" THEN d.of.id ELSE d.idx
<1> DEFINE p == Append(q, d)
<1>1. /\ AnySeq(p) /\ Len(q) \in Nat /\ Len(p) = Len(q) + 1
      /\ \A i \in 1..Len(q) : p[i] = q[i]
      /\ p[Len(q) + 1] = d
  BY AppendFacts DEF StreamOK
<1> HIDE DEF p
<1>2. \A n \in 0..Len(q) : Signing(p, n) = Signing(q, n)
  BY <1>1 DEF Signing
<1>3. Signing(p, Len(p)) = IF d.kind = "RotatedMasterPubkey" THEN d.of.id ELSE d.idx
  BY <1>1 DEF Signing
<1>4. Signing(p, Len(p)) \in Nat /\ Signing(q, Len(q)) <= Signing(p, Len(p))
  BY <1>3 DEF DescriptorOK
<1>5. \A n \in 0..Len(p) : Signing(p, n) \in Nat /\ Signing(p, n) <= Signing(p, Len(p))
  <2> SUFFICES ASSUME NEW n \in 0..Len(p)
               PROVE  Signing(p, n) \in Nat /\ Signing(p, n) <= Signing(p, Len(p))
    OBVIOUS
  <2>1. CASE n = Len(p)
    BY <2>1, <1>4
  <2>2. CASE n # Len(p)
    <3>1. n \in 0..Len(q)
      BY <2>2, <1>1
    <3> QED
      BY <3>1, <1>1, <1>2, <1>4 DEF StreamOK
  <2> QED
    BY <2>1, <2>2
<1>6. \A n \in 1..Len(p) : DescriptorOK(p[n]) /\ p[n].idx = Signing(p, n - 1)
  <2> SUFFICES ASSUME NEW n \in 1..Len(p)
               PROVE  DescriptorOK(p[n]) /\ p[n].idx = Signing(p, n - 1)
    OBVIOUS
  <2>1. CASE n = Len(p)
    BY <2>1, <1>1, <1>2
  <2>2. CASE n # Len(p)
    <3>1. n \in 1..Len(q) /\ n - 1 \in 0..Len(q)
      BY <2>2, <1>1
    <3> QED
      BY <3>1, <1>1, <1>2 DEF StreamOK
  <2> QED
    BY <2>1, <2>2
<1>7. \A n, m \in 1..Len(p) :
         n < m /\ p[n].kind = "MasterKeyRotation" /\ p[m].kind = "MasterKeyRotation"
           => p[n].of.id < p[m].of.id
  <2> SUFFICES ASSUME NEW n \in 1..Len(p), NEW m \in 1..Len(p), n < m,
                      p[n].kind = "MasterKeyRotation", p[m].kind = "MasterKeyRotation"
               PROVE  p[n].of.id < p[m].of.id
    OBVIOUS
  <2>1. n \in 1..Len(q) /\ p[n] = q[n]
    BY <1>1
  <2>2. CASE m = Len(p)
    BY <2>1, <2>2, <1>1
  <2>3. CASE m # Len(p)
    <3>1. m \in 1..Len(q) /\ p[m] = q[m]
      BY <2>3, <1>1
    <3> QED
      BY <3>1, <2>1 DEF StreamOK
  <2> QED
    BY <2>2, <2>3
<1>8. StreamOK(p)
  BY <1>1, <1>5, <1>6, <1>7 DEF StreamOK
<1> QED
  BY <1>3, <1>8 DEF p

(* The account of a gatekeeper stays sound through an event that adds      *)
(* nothing to the stream.                                                  *)
LEMMA FollowQuietly ==
  ASSUME NEW c, NEW e, NEW h, NEW H, CanonOK(c), EventOK(c, e, h, H), ~Answered(c, e)
  PROVE  CanonOK(Follow(c, e))
<1>0. PICK f : f = Follow(c, e)
  OBVIOUS
<1> SUFFICES CanonOK(f)
  BY <1>0
<1>b. f.on \in BOOLEAN /\ f.launched \in BOOLEAN
  BY <1>0 DEF Follow
<1>1. f.stream = c.stream
  BY <1>0 DEF Follow, Streamed
<1>2. e.type \notin {"Registered", "MasterKeyRotation"}
  BY DEF Answered, EventOK, FirstGatekeeper, MasterPubkeyOnChain, Registered, Unregistered,
         RotateMasterKey, MasterKeyHistory, MasterKeyRotation
<1>3. f.idx = c.idx /\ f.at = c.at
  BY <1>0, <1>2 DEF Follow
<1>4. CASE e.type = "FirstGatekeeper"
  <2>1. PICK g \in Workers : e = FirstGatekeeper(g) /\ ~c.on /\ c.req = 0
    BY <1>4 DEF EventOK, MasterPubkeyOnChain, Registered, Unregistered,
         RotateMasterKey, MasterKeyHistory, MasterKeyRotation
  <2>2. /\ f.on /\ (f.launched <=> c.launched) /\ f.req = 0
        /\ f.gks = c.gks \cup {g} /\ f.keyed = c.keyed \cup {g}
    BY <1>0, <2>1, <1>4 DEF Follow, FirstGatekeeper, CanonOK, CanonType
  <2>3. c.stream = <<>> /\ c.idx = 0 /\ CanonType(f)
    BY <2>1, <2>2, <1>b, <1>1, <1>3 DEF CanonOK, CanonType
  <2>4. SharesOK(f) /\ ProposalsOK(f)
    BY <2>3, <1>b, <1>1, <1>3 DEF CanonOK, SharesOK, ProposalsOK
  <2> QED
    BY <2>2, <2>3, <2>4, <1>b, <1>1, <1>3 DEF CanonOK
<1>5. CASE e.type = "RotateMasterKey"
  <2>1. ~c.on /\ e = RotateMasterKey(c.req + 1, c.gks)
    BY <1>5 DEF EventOK, MasterPubkeyOnChain, Registered, Unregistered,
         FirstGatekeeper, MasterKeyHistory, MasterKeyRotation, Answered
  <2>2. /\ ~f.on /\ (f.launched <=> c.launched) /\ f.req = c.req + 1
        /\ f.gks = c.gks /\ f.keyed = c.keyed
    BY <1>0, <2>1, <1>5 DEF Follow, RotateMasterKey, CanonOK, CanonType
  <2>3. c.stream = <<>> /\ CanonType(f)
    BY <2>1, <2>2, <1>b, <1>1, <1>3 DEF CanonOK, CanonType
  <2>4. SharesOK(f) /\ ProposalsOK(f)
    BY <2>3, <1>b, <1>1, <1>3 DEF CanonOK, SharesOK, ProposalsOK
  <2> QED
    BY <2>1, <2>2, <2>3, <2>4, <1>b, <1>1, <1>3 DEF CanonOK
<1>6. CASE e.type \notin {"FirstGatekeeper", "RotateMasterKey"}
  <2>1. (f.on <=> c.on) /\ f.req = c.req
    BY <1>0, <1>6 DEF Follow, CanonOK, CanonType
  <2>2. /\ f.launched <=> (c.launched \/ e.type = "MasterPubkeyOnChain")
        /\ f.gks = IF e.type = "Unregistered" THEN c.gks \ {e.gk} ELSE c.gks
        /\ f.keyed = IF e.type = "MasterKeyHistory" THEN c.keyed \cup {e.dest} ELSE c.keyed
    BY <1>0, <1>2, <1>6 DEF Follow
  <2>3. /\ e.type = "MasterPubkeyOnChain" => c.on
        /\ e.type = "MasterKeyHistory" => c.on /\ e.dest \in Workers
        /\ e.type = "Unregistered" => c.on /\ c.req = c.idx
    BY DEF EventOK, MasterPubkeyOnChain, Registered, Unregistered, FirstGatekeeper,
           RotateMasterKey
  <2>4. CanonType(f)
    BY <2>1, <2>2, <2>3, <1>b, <1>1, <1>3 DEF CanonOK, CanonType
  <2>5. SharesOK(f)
    BY <1>b, <1>1, <1>3 DEF CanonOK, SharesOK
  <2>6. ProposalsOK(f)
    BY <2>1, <2>2, <2>3, <1>b, <1>1, <1>3 DEF CanonOK, CanonType, ProposalsOK
  <2> QED
    BY <2>1, <2>2, <2>3, <2>4, <2>5, <2>6, <1>b, <1>1, <1>3 DEF CanonOK
<1> QED
  BY <1>4, <1>5, <1>6

(* The account of a gatekeeper stays sound through an event that it        *)
(* answers with a message.                                                 *)
LEMMA FollowAnswering ==
  ASSUME NEW c, NEW e, NEW h, NEW H, CanonOK(c), EventOK(c, e, h, H), Answered(c, e)
  PROVE  CanonOK(Follow(c, e)) /\ c.idx <= Follow(c, e).idx
<1>0. PICK f : f = Follow(c, e)
  OBVIOUS
<1>d. PICK d : d = Answer(c, e)
  OBVIOUS
<1> SUFFICES CanonOK(f) /\ c.idx <= f.idx
  BY <1>0
<1>b. /\ f.on \in BOOLEAN /\ f.launched \in BOOLEAN
      /\ c.on /\ f.on /\ (f.launched <=> c.launched)
      /\ e.type \in {"Registered", "RotateMasterKey", "MasterKeyRotation"}
  BY <1>0 DEF Follow, Answered
<1>1. f.stream = Append(c.stream, d) /\ d.of = e /\ d.idx = c.idx
  BY <1>0, <1>d DEF Follow, Streamed, Answer
<1>q. PICK q : q = c.stream
  OBVIOUS
<1>p. PICK p : p = f.stream
  OBVIOUS
<1>2. /\ AnySeq(p) /\ Len(q) \in Nat /\ Len(p) = Len(q) + 1
      /\ \A i \in 1..Len(q) : p[i] = q[i]
      /\ p[Len(q) + 1] = d
  BY <1>q, <1>p, <1>1, AppendFacts DEF CanonOK, StreamOK
<1>3. ASSUME DescriptorOK(d),
             d.kind = "MasterKeyRotation" =>
               \A n \in 1..Len(q) : q[n].kind = "MasterKeyRotation" => q[n].of.id < d.of.id
      PROVE  /\ StreamOK(p)
             /\ Signing(p, Len(p)) = IF d.kind = "RotatedMasterPubkey" THEN d.of.id ELSE d.idx
  BY <1>3, <1>1, <1>q, <1>p, StreamAppend DEF CanonOK
<1>4. CASE e.type = "Registered"
  <2>1. PICK g \in Workers : e = Registered(g) /\ c.req = c.idx
    BY <1>4 DEF EventOK, MasterPubkeyOnChain, FirstGatekeeper, Unregistered,
         RotateMasterKey, MasterKeyHistory, MasterKeyRotation
  <2>2. e.gk = g
    BY <2>1 DEF Registered
  <2>3. /\ f.idx = c.idx /\ f.req = c.req /\ f.gks = c.gks \cup {g} /\ f.keyed = c.keyed
        /\ f.at = [c.at EXCEPT ![g] = Len(q) + 1]
    BY <2>2, <1>0, <1>4, <1>q DEF Follow
  <2>4. d.kind = "MasterKeyHistory"
    BY <1>4, <1>d DEF Answer
  <2>5. DescriptorOK(d)
    BY <2>2, <2>4, <1>1 DEF DescriptorOK, Descriptors, CanonOK, CanonType
  <2>6. StreamOK(p) /\ Signing(p, Len(p)) = c.idx
    BY <2>4, <2>5, <1>1, <1>3
  <2>7. c.at \in [Workers -> 0..Len(q)]
    BY <1>q DEF CanonOK, CanonType
  <2>8. f.at \in [Workers -> 0..Len(p)] /\ f.at[g] = Len(q) + 1
        /\ \A w \in Workers \ {g} : f.at[w] = c.at[w]
    BY <2>3, <2>7, <1>2
  <2>9. CanonType(f)
    BY <2>3, <2>8, <1>p, <1>b DEF CanonOK, CanonType
  <2>10. SharesOK(f)
    <3> SUFFICES ASSUME NEW w \in Workers, f.at[w] > 0
                 PROVE  p[f.at[w]].kind = "MasterKeyHistory" /\ p[f.at[w]].of.gk = w
      BY <1>p DEF SharesOK
    <3>1. CASE w = g
      BY <3>1, <2>2, <2>4, <2>8, <1>1, <1>2
    <3>2. CASE w # g
      <4>1. c.at[w] \in 1..Len(q) /\ f.at[w] = c.at[w]
        BY <3>2, <2>7, <2>8, <1>2
      <4> QED
        BY <4>1, <1>2, <1>q DEF CanonOK, SharesOK
    <3> QED
      BY <3>1, <3>2
  <2>11. ProposalsOK(f)
    <3> SUFFICES ASSUME NEW n \in 1..Len(p), p[n].kind = "MasterKeyRotation"
                 PROVE  p[n].of.id <= c.req
      BY <2>1, <2>3, <1>p DEF ProposalsOK, CanonOK, CanonType
    <3>1. n \in 1..Len(q)
      BY <2>4, <1>2
    <3> QED
      BY <3>1, <1>2, <1>q DEF CanonOK, ProposalsOK
  <2> QED
    BY <2>1, <2>3, <2>6, <2>9, <2>10, <2>11, <1>b, <1>p DEF CanonOK, CanonType
<1>5. CASE e.type = "RotateMasterKey"
  <2>1. e = RotateMasterKey(c.req + 1, c.gks) /\ c.req = c.idx
    BY <1>b, <1>5 DEF EventOK, MasterPubkeyOnChain, FirstGatekeeper, Unregistered,
         Registered, MasterKeyHistory, MasterKeyRotation
  <2>2. e.id = c.req + 1 /\ e.gks = c.gks
    BY <2>1 DEF RotateMasterKey
  <2>3. /\ f.idx = c.idx /\ f.req = c.req + 1 /\ f.gks = c.gks /\ f.keyed = c.keyed
        /\ f.at = c.at
    BY <2>2, <1>0, <1>5 DEF Follow
  <2>4. d.kind = "MasterKeyRotation"
    BY <1>5, <1>d DEF Answer
  <2>t. c.req \in Nat /\ c.idx \in Nat /\ c.at \in [Workers -> 0..Len(q)]
        /\ c.gks \subseteq Workers
    BY <1>q DEF CanonOK, CanonType
  <2>5. DescriptorOK(d)
    BY <2>1, <2>2, <2>4, <2>t, <1>1 DEF DescriptorOK, Descriptors
  <2>6. ASSUME NEW n \in 1..Len(q), q[n].kind = "MasterKeyRotation"
        PROVE  q[n].of.id <= c.req /\ q[n].of.id \in Nat
    <3>1. q[n].of.id <= c.req
      BY <2>6, <1>q DEF CanonOK, ProposalsOK
    <3>2. DescriptorOK(q[n])
      BY <1>q DEF CanonOK, StreamOK
    <3> QED
      BY <3>1, <3>2, <2>6 DEF DescriptorOK
  <2>7. StreamOK(p) /\ Signing(p, Len(p)) = c.idx
    <3>1. \A n \in 1..Len(q) : q[n].kind = "MasterKeyRotation" => q[n].of.id < d.of.id
      BY <2>2, <2>6, <2>t, <1>1
    <3> QED
      BY <3>1, <2>4, <2>5, <1>1, <1>3
  <2>8. CanonType(f)
    <3>1. f.at \in [Workers -> 0..Len(p)]
      BY <2>3, <2>t, <1>2
    <3> QED
      BY <3>1, <2>3, <1>p, <1>b DEF CanonOK, CanonType
  <2>9. SharesOK(f)
    <3> SUFFICES ASSUME NEW w \in Workers, f.at[w] > 0
                 PROVE  p[f.at[w]].kind = "MasterKeyHistory" /\ p[f.at[w]].of.gk = w
      BY <1>p DEF SharesOK
    <3>1. c.at[w] \in 1..Len(q) /\ f.at[w] = c.at[w]
      BY <2>t, <2>3, <1>2
    <3> QED
      BY <3>1, <1>2, <1>q DEF CanonOK, SharesOK
  <2>10. ProposalsOK(f)
    <3> SUFFICES ASSUME NEW n \in 1..Len(p), p[n].kind = "MasterKeyRotation"
                 PROVE  /\ p[n].of.id <= c.req + 1
                        /\ p[n].of.id = c.req + 1 =>
                             p[n].of.gks = c.gks /\ \A g \in c.gks : c.at[g] < n
      BY <2>3, <1>p DEF ProposalsOK
    <3>1. CASE n = Len(p)
      <4>1. p[n] = d /\ d.of.gks = c.gks /\ d.of.id = c.req + 1
        BY <3>1, <2>2, <1>1, <1>2
      <4>2. \A g \in c.gks : c.at[g] < n
        BY <3>1, <2>t, <1>2
      <4> QED
        BY <4>1, <4>2, <2>t
    <3>2. CASE n # Len(p)
      BY <3>2, <2>6, <2>t, <1>2
    <3> QED
      BY <3>1, <3>2
  <2> QED
    BY <2>1, <2>3, <2>t, <2>7, <2>8, <2>9, <2>10, <1>b, <1>p DEF CanonOK
<1>6. CASE e.type = "MasterKeyRotation"
  <2>1. e.id = c.req /\ e.dests = c.gks /\ c.req = c.idx + 1
    BY <1>6 DEF EventOK, MasterPubkeyOnChain, FirstGatekeeper, Unregistered,
         Registered, MasterKeyHistory, MasterKeyRotation, RotateMasterKey
  <2>3. /\ f.idx = c.req /\ f.req = c.req /\ f.gks = c.gks /\ f.keyed = c.keyed \cap c.gks
        /\ f.at = c.at
    BY <2>1, <1>0, <1>6 DEF Follow
  <2>4. d.kind = "RotatedMasterPubkey"
    BY <1>6, <1>d DEF Answer
  <2>t. c.req \in Nat /\ c.idx \in Nat /\ c.at \in [Workers -> 0..Len(q)]
        /\ c.gks \subseteq Workers
    BY <1>q DEF CanonOK, CanonType
  <2>5. DescriptorOK(d)
    BY <2>1, <2>4, <2>t, <1>1 DEF DescriptorOK, Descriptors
  <2>7. StreamOK(p) /\ Signing(p, Len(p)) = c.req
    BY <2>1, <2>4, <2>5, <1>1, <1>3
  <2>8. CanonType(f)
    <3>1. f.at \in [Workers -> 0..Len(p)]
      BY <2>3, <2>t, <1>2
    <3> QED
      BY <3>1, <2>3, <1>p, <1>b DEF CanonOK, CanonType
  <2>9. SharesOK(f)
    <3> SUFFICES ASSUME NEW w \in Workers, f.at[w] > 0
                 PROVE  p[f.at[w]].kind = "MasterKeyHistory" /\ p[f.at[w]].of.gk = w
      BY <1>p DEF SharesOK
    <3>1. c.at[w] \in 1..Len(q) /\ f.at[w] = c.at[w]
      BY <2>t, <2>3, <1>2
    <3> QED
      BY <3>1, <1>2, <1>q DEF CanonOK, SharesOK
  <2>10. ProposalsOK(f)
    <3> SUFFICES ASSUME NEW n \in 1..Len(p), p[n].kind = "MasterKeyRotation"
                 PROVE  p[n].of.id <= c.req
      BY <2>t, <2>3, <1>p DEF ProposalsOK
    <3>1. n \in 1..Len(q)
      BY <2>4, <1>2
    <3> QED
      BY <3>1, <1>2, <1>q DEF CanonOK, ProposalsOK
  <2> QED
    BY <2>1, <2>3, <2>t, <2>7, <2>8, <2>9, <2>10, <1>b, <1>p DEF CanonOK
<1> QED
  BY <1>b, <1>4, <1>5, <1>6

(* The account of a gatekeeper stays sound through every event, it only    *)
(* adds to the stream, and the keys never go back.                         *)
LEMMA FollowCanon ==
  ASSUME NEW c, NEW e, NEW h, NEW H, CanonOK(c), EventOK(c, e, h, H)
  PROVE  /\ CanonOK(Follow(c, e)) /\ c.idx <= Follow(c, e).idx
         /\ Extends(c.stream, Follow(c, e).stream)
<1>1. Extends(c.stream, Follow(c, e).stream)
  <2>1. AnySeq(c.stream)
    BY DEF CanonOK, StreamOK
  <2>2. Follow(c, e).stream = Streamed(c, e)
    BY DEF Follow
  <2> QED
    BY <2>1, <2>2, AppendFacts, ExtendsFacts DEF Streamed
<1>2. CASE Answered(c, e)
  BY <1>1, <1>2, FollowAnswering
<1>3. CASE ~Answered(c, e)
  <2>1. e.type # "MasterKeyRotation"
    BY <1>3 DEF Answered, EventOK, FirstGatekeeper, MasterPubkeyOnChain, Registered,
         Unregistered, RotateMasterKey, MasterKeyHistory, MasterKeyRotation
  <2>2. Follow(c, e).idx = c.idx /\ c.idx \in Nat
    BY <2>1 DEF Follow, CanonOK, CanonType
  <2> QED
    BY <2>2, <1>1, <1>3, FollowQuietly
<1> QED
  BY <1>2, <1>3

(* Two accounts that differ in the stream only.                            *)
SameChain(c, f) ==
  /\ (f.on <=> c.on) /\ (f.launched <=> c.launched) /\ f.idx = c.idx /\ f.req = c.req
  /\ f.gks = c.gks /\ f.keyed = c.keyed /\ f.at = c.at

(* A report or a random number leaves the account sound.                   *)
LEMMA PushedCanon ==
  ASSUME NEW c, CanonOK(c), c.on, NEW kind \in {"Report", "NewRandomNumber"}
  PROVE  CanonOK(WithStream(c, Pushed(c, kind)))
<1>0. PICK f : f = WithStream(c, Pushed(c, kind))
  OBVIOUS
<1>d. PICK d : d = [kind |-> kind, of |-> Settle, idx |-> c.idx]
  OBVIOUS
<1>q. PICK q : q = c.stream
  OBVIOUS
<1>p. PICK p : p = f.stream
  OBVIOUS
<1> SUFFICES CanonOK(f)
  BY <1>0
<1>1. p = Append(q, d) /\ SameChain(c, f)
  BY <1>0, <1>d, <1>q, <1>p DEF WithStream, Pushed, SameChain
<1>2. /\ AnySeq(p) /\ Len(q) \in Nat /\ Len(p) = Len(q) + 1
      /\ \A i \in 1..Len(q) : p[i] = q[i]
      /\ p[Len(q) + 1] = d
  BY <1>q, <1>1, AppendFacts DEF CanonOK, StreamOK
<1>3. d.kind = kind /\ d.idx = c.idx /\ c.idx \in Nat
  BY <1>d DEF CanonOK, CanonType
<1>4. DescriptorOK(d)
  BY <1>3 DEF DescriptorOK, Descriptors
<1>5. StreamOK(p) /\ Signing(p, Len(p)) = c.idx
  BY <1>1, <1>3, <1>4, <1>q, StreamAppend DEF CanonOK
<1>6. f.at \in [Workers -> 0..Len(p)] /\ c.at \in [Workers -> 0..Len(q)]
  BY <1>1, <1>2, <1>q DEF CanonOK, CanonType, SameChain
<1>7. CanonType(f)
  <2>1. f.on \in BOOLEAN /\ f.launched \in BOOLEAN
    BY <1>0 DEF WithStream, CanonOK, CanonType
  <2> QED
    BY <2>1, <1>1, <1>6, <1>p DEF CanonOK, CanonType, SameChain
<1>8. SharesOK(f)
  <2> SUFFICES ASSUME NEW w \in Workers, f.at[w] > 0
               PROVE  p[f.at[w]].kind = "MasterKeyHistory" /\ p[f.at[w]].of.gk = w
    BY <1>p DEF SharesOK
  <2>1. c.at[w] \in 1..Len(q) /\ f.at[w] = c.at[w]
    BY <1>1, <1>2, <1>6 DEF SameChain
  <2> QED
    BY <2>1, <1>2, <1>q DEF CanonOK, SharesOK
<1>9. ProposalsOK(f)
  <2> SUFFICES ASSUME NEW n \in 1..Len(p), p[n].kind = "MasterKeyRotation"
               PROVE  /\ p[n].of.id <= c.req
                      /\ p[n].of.id = c.req /\ c.req = c.idx + 1 =>
                           p[n].of.gks = c.gks /\ \A g \in c.gks : c.at[g] < n
    BY <1>1, <1>p DEF ProposalsOK, SameChain
  <2>1. n \in 1..Len(q)
    BY <1>2, <1>3
  <2> QED
    BY <2>1, <1>2, <1>q DEF CanonOK, ProposalsOK
<1> QED
  BY <1>1, <1>5, <1>7, <1>8, <1>9, <1>p DEF CanonOK, SameChain

(* A gatekeeper account is the record of its fields.                       *)
LEMMA WithOwnStream ==
  ASSUME NEW c, CanonOK(c)
  PROVE  CanonOK(WithStream(c, c.stream)) /\ SameChain(c, WithStream(c, c.stream))
         /\ WithStream(c, c.stream).stream = c.stream
<1>0. PICK f : f = WithStream(c, c.stream)
  OBVIOUS
<1>1. SameChain(c, f) /\ f.stream = c.stream /\ f.on \in BOOLEAN /\ f.launched \in BOOLEAN
  BY <1>0 DEF WithStream, SameChain, CanonOK, CanonType
<1>2. CanonType(f) /\ SharesOK(f) /\ ProposalsOK(f)
  BY <1>1 DEF CanonOK, CanonType, SharesOK, ProposalsOK, SameChain
<1>3. CanonOK(f)
  BY <1>1, <1>2 DEF CanonOK, SameChain
<1> QED
  BY <1>0, <1>1, <1>3

(* The account after the report of a block.                                *)
LEMMA AfterReportCanon ==
  ASSUME NEW c, NEW b, CanonOK(c)
  PROVE  /\ CanonOK(AfterReport(c, b)) /\ SameChain(c, AfterReport(c, b))
         /\ Extends(c.stream, AfterReport(c, b).stream)
<1>1. AnySeq(c.stream)
  BY DEF CanonOK, StreamOK
<1>2. CASE c.on /\ c.launched /\ Settle \in Range(b.events)
  <2>1. AfterReport(c, b) = WithStream(c, Pushed(c, "Report"))
    BY <1>2 DEF AfterReport
  <2>2. SameChain(c, WithStream(c, Pushed(c, "Report")))
        /\ WithStream(c, Pushed(c, "Report")).stream = Pushed(c, "Report")
    BY DEF SameChain, WithStream, CanonOK, CanonType
  <2>3. Extends(c.stream, Pushed(c, "Report"))
    BY <1>1, AppendFacts DEF Pushed
  <2> QED
    BY <2>1, <2>2, <2>3, <1>2, PushedCanon
<1>3. CASE ~(c.on /\ c.launched /\ Settle \in Range(b.events))
  <2>1. AfterReport(c, b) = WithStream(c, c.stream)
    BY <1>3 DEF AfterReport
  <2> QED
    BY <2>1, <1>1, WithOwnStream, ExtendsFacts
<1> QED
  BY <1>2, <1>3

(* The account after the random number of a block.                         *)
LEMMA AfterRandomCanon ==
  ASSUME NEW c, NEW h, CanonOK(c)
  PROVE  /\ CanonOK(AfterRandom(c, h)) /\ SameChain(c, AfterRandom(c, h))
         /\ Extends(c.stream, AfterRandom(c, h).stream)
<1>1. AnySeq(c.stream)
  BY DEF CanonOK, StreamOK
<1>2. CASE c.on /\ h \in RandomBlocks
  <2>1. AfterRandom(c, h) = WithStream(c, Pushed(c, "NewRandomNumber"))
    BY <1>2 DEF AfterRandom
  <2>2. SameChain(c, WithStream(c, Pushed(c, "NewRandomNumber")))
        /\ WithStream(c, Pushed(c, "NewRandomNumber")).stream = Pushed(c, "NewRandomNumber")
    BY DEF SameChain, WithStream, CanonOK, CanonType
  <2>3. Extends(c.stream, Pushed(c, "NewRandomNumber"))
    BY <1>1, AppendFacts DEF Pushed
  <2> QED
    BY <2>1, <2>2, <2>3, <1>2, PushedCanon
<1>3. CASE ~(c.on /\ h \in RandomBlocks)
  <2>1. AfterRandom(c, h) = WithStream(c, c.stream)
    BY <1>3 DEF AfterRandom
  <2> QED
    BY <2>1, <1>1, WithOwnStream, ExtendsFacts
<1> QED
  BY <1>2, <1>3

(* The end of a block leaves the account sound and adds to the stream.     *)
LEMMA AfterCanon ==
  ASSUME NEW c, NEW b, NEW h, CanonOK(c)
  PROVE  /\ CanonOK(AfterBlock(c, b, h)) /\ SameChain(c, AfterBlock(c, b, h))
         /\ Extends(c.stream, AfterBlock(c, b, h).stream)
<1>0. PICK d : d = AfterReport(c, b)
  OBVIOUS
<1>1. CanonOK(d) /\ SameChain(c, d) /\ Extends(c.stream, d.stream)
  BY <1>0, AfterReportCanon
<1>2. PICK f : f = AfterRandom(d, h)
  OBVIOUS
<1>3. CanonOK(f) /\ SameChain(d, f) /\ Extends(d.stream, f.stream)
  BY <1>1, <1>2, AfterRandomCanon
<1>4. AnySeq(c.stream) /\ AnySeq(d.stream) /\ AnySeq(f.stream)
  BY <1>1, <1>3 DEF CanonOK, StreamOK
<1>5. Extends(c.stream, f.stream)
  BY <1>1, <1>3, <1>4, ExtendsFacts
<1>6. SameChain(c, f)
  BY <1>1, <1>3 DEF SameChain
<1> QED
  BY <1>0, <1>2, <1>3, <1>5, <1>6 DEF AfterBlock

(* The account of a pRuntime that has handled nothing.                     *)
LEMMA StartCanon ==
  CanonOK(Start) /\ Start.stream = <<>> /\ ~Start.on /\ Start.req = 0 /\ Start.idx = 0
  /\ Start.gks = {} /\ Start.keyed = {}
<1>1. /\ Start.stream = <<>> /\ Start.on = FALSE /\ Start.launched = FALSE
      /\ Start.req = 0 /\ Start.idx = 0 /\ Start.gks = {} /\ Start.keyed = {}
      /\ Start.at = [w \in Workers |-> 0]
  BY DEF Start
<1>2. AnySeq(<<>>) /\ Len(<<>>) = 0
  <2>1. <<>> \in Seq({})
    OBVIOUS
  <2> QED
    BY <2>1 DEF AnySeq
<1>3. Signing(<<>>, 0) = 0
  BY DEF Signing
<1>4. StreamOK(<<>>)
  <2>1. \A n \in 0..Len(<<>>) : n = 0
    BY <1>2
  <2>2. 1..Len(<<>>) = {}
    BY <1>2
  <2> QED
    BY <1>2, <1>3, <2>1, <2>2 DEF StreamOK
<1>5. CanonType(Start) /\ SharesOK(Start) /\ ProposalsOK(Start)
  <2>1. Start.at \in [Workers -> 0..0] /\ \A w \in Workers : Start.at[w] = 0
    BY <1>1
  <2>2. CanonType(Start)
    <3>0. PICK c : c = Start
      OBVIOUS
    <3>1. c.on \in BOOLEAN /\ c.launched \in BOOLEAN
      BY <3>0, <1>1
    <3>2. c.at \in [Workers -> 0..Len(c.stream)]
      BY <3>0, <1>1, <1>2, <2>1
    <3>3. CanonType(c)
      BY <3>0, <3>1, <3>2, <1>1 DEF CanonType
    <3> QED
      BY <3>0, <3>3
  <2> QED
    BY <1>1, <1>2, <2>1, <2>2 DEF SharesOK, ProposalsOK
<1> QED
  BY <1>1, <1>2, <1>3, <1>4, <1>5 DEF CanonOK

----------------------------------------------------------------------------
(* The handlers.                                                           *)

(* The state of a pRuntime within a block.                                 *)
RunSet(X) == [gk : X, seq : X, dummy : X, seal : X, keys : X, out : X, up : X, panic : X]
IsRun(s) == \E X : s \in RunSet(X)

OutOK(o, q, H, k) == \A m \in o : Fits(m, q, H, k)
UpOK(u, H) == \A k \in u : H # <<>> /\ k = H[1].key

(* What holds within a block, whether or not a handler has panicked.       *)
RunSafe(s, H) ==
  /\ IsRun(s) /\ s.keys \in Nat /\ KeysOK(H, s.keys)
  /\ Genuine(s.seal, H) /\ s.panic \notin BadPanics

RunOK(r, s, c, H) ==
  NodeOK(r, s, c, H) /\ OutOK(s.out, c.stream, H, s.keys) /\ UpOK(s.up, H)

(* What a handler that takes s to t keeps; f is the account after it.      *)
Kept(r, s, t, f, H) ==
  /\ RunSafe(t, H) /\ s.keys <= t.keys /\ (s.seal # <<>> => t.seal # <<>>)
  /\ t.panic = "none" => RunOK(r, t, f, H)

(* A message keeps its place while the stream, the keys and the number of  *)
(* keys grow.                                                              *)
LEMMA FitsExtends ==
  ASSUME NEW m, NEW q, NEW p, NEW H \in Seq(Entry), NEW G \in Seq(Entry),
         NEW k \in Nat, NEW l \in Nat, StreamOK(q), AnySeq(p),
         Extends(q, p), Extends(H, G), k <= l, Fits(m, q, H, k)
  PROVE  Fits(m, p, G, l)
<1>0. PICK d : d = q[m.seq + 1]
  OBVIOUS
<1>1. /\ m.seq \in Nat /\ m.seq < Len(q) /\ Tells(m.payload, d, H, k)
      /\ SignerIdx(d) < Len(H) /\ m.signer = H[SignerIdx(d) + 1].key
  BY <1>0 DEF Fits
<1>2. Len(q) \in Nat /\ Len(p) \in Nat /\ Len(H) \in Nat /\ Len(G) \in Nat
  BY DEF StreamOK, AnySeq
<1>3. m.seq + 1 \in 1..Len(q)
  BY <1>1, <1>2
<1>4. p[m.seq + 1] = d /\ m.seq < Len(p)
  BY <1>0, <1>1, <1>2, <1>3 DEF Extends
<1>5. DescriptorOK(d)
  BY <1>0, <1>3 DEF StreamOK
<1>6. SignerIdx(d) \in Nat
  BY <1>5 DEF DescriptorOK, SignerIdx
<1>7. SignerIdx(d) < Len(G) /\ G[SignerIdx(d) + 1] = H[SignerIdx(d) + 1]
  BY SMTT(30), <1>1, <1>2, <1>6 DEF Extends
<1>8. Tells(m.payload, d, G, l)
  <2>1. m.payload.type = d.kind
    BY <1>1 DEF Tells
  <2>2. CASE d.kind = "MasterKeyHistory"
    BY <1>1, <2>2, GenuineExtends DEF Tells
  <2>3. CASE d.kind = "MasterKeyRotation"
    BY <1>1, <2>3 DEF Tells
  <2>4. CASE d.kind = "RotatedMasterPubkey"
    <3>1. d.of.id \in Nat
      BY <1>5, <2>4 DEF DescriptorOK
    <3>2. d.of.id < Len(H) /\ m.payload = RotatedMasterPubkey(d.of.id, H[d.of.id + 1].key)
      BY <1>1, <2>4 DEF Tells
    <3>3. d.of.id < Len(G) /\ G[d.of.id + 1] = H[d.of.id + 1]
      <4>1. d.of.id + 1 \in 1..Len(H) /\ Len(H) <= Len(G)
        BY <1>2, <3>1, <3>2 DEF Extends
      <4>2. G[d.of.id + 1] = H[d.of.id + 1]
        BY <4>1 DEF Extends
      <4> QED
        BY <4>1, <4>2, <1>2, <3>1
    <3> QED
      BY <2>1, <2>4, <3>2, <3>3 DEF Tells
  <2>5. CASE d.kind \notin {"MasterKeyHistory", "MasterKeyRotation", "RotatedMasterPubkey"}
    BY <1>1, <2>1, <2>5 DEF Tells
  <2> QED
    BY <2>2, <2>3, <2>4, <2>5
<1> QED
  BY <1>1, <1>4, <1>7, <1>8 DEF Fits

(* The same for all the messages of a set.                                 *)
LEMMA OutExtends ==
  ASSUME NEW o, NEW q, NEW p, NEW H \in Seq(Entry), NEW G \in Seq(Entry),
         NEW k \in Nat, NEW l \in Nat, StreamOK(q), AnySeq(p),
         Extends(q, p), Extends(H, G), k <= l, OutOK(o, q, H, k)
  PROVE  OutOK(o, p, G, l)
BY FitsExtends DEF OutOK

(* A pRuntime is as its account says also for what goes on from the keys.  *)
LEMMA NodeExtends ==
  ASSUME NEW r, NEW n, NEW c, NEW H \in Seq(Entry), NEW G \in Seq(Entry), Extends(H, G),
         CanonType(c), NodeOK(r, n, c, H)
  PROVE  NodeOK(r, n, c, G)
<1>1. CASE n.gk = NoGatekeeper
  BY <1>1 DEF NodeOK
<1>2. CASE n.gk # NoGatekeeper
  <2>1. Genuine(n.gk.history, H) /\ c.idx < Len(n.gk.history)
        /\ n.gk.key = H[c.idx + 1].key /\ n.gk.reporter = H[1].key
    BY <1>2 DEF NodeOK
  <2>2. Genuine(n.gk.history, G)
    BY <2>1, GenuineExtends
  <2>3. Len(n.gk.history) \in Nat /\ Len(H) \in Nat /\ Len(n.gk.history) <= Len(H)
        /\ c.idx \in Nat
    BY <2>1 DEF Genuine, Extends, CanonType
  <2>4. c.idx + 1 \in 1..Len(H) /\ 1 \in 1..Len(H)
    BY <2>1, <2>3
  <2>5. G[c.idx + 1] = H[c.idx + 1] /\ G[1] = H[1]
    BY <2>4 DEF Extends
  <2> QED
    BY <1>2, <2>1, <2>2, <2>5 DEF NodeOK
<1> QED
  BY <1>1, <1>2

(* More keys were generated.                                               *)
LEMMA KeysMore ==
  ASSUME NEW H, NEW k \in Nat, NEW l \in Nat, k <= l, KeysOK(H, k)
  PROVE  KeysOK(H, l)
BY DEF KeysOK

(* A gatekeeper is on, a pRuntime that is none is off.                     *)
LEMMA OnOrOff ==
  ASSUME NEW r, NEW n, NEW c, NEW H, NodeOK(r, n, c, H)
  PROVE  /\ n.gk.on <=> n.gk # NoGatekeeper
         /\ n.gk.on => n.gk \in Gk /\ c.on
<1>1. CASE n.gk = NoGatekeeper
  BY <1>1 DEF NoGatekeeper
<1>2. CASE n.gk # NoGatekeeper
  <2>1. n.gk \in Gk /\ c.on
    BY <1>2 DEF NodeOK
  <2>2. n.gk.on
    BY <2>1 DEF Gk
  <2> QED
    BY <1>2, <2>1, <2>2
<1> QED
  BY <1>1, <1>2

(* The message that push_message makes.                                    *)
Message(s, payload, signer) == [seq |-> s.seq, payload |-> payload, signer |-> signer]

Pushes(s, payload, signer, t) ==
  /\ IsRun(t) /\ t.gk = s.gk /\ t.seq = s.seq + 1 /\ t.dummy = s.dummy
  /\ t.seal = s.seal /\ t.keys = s.keys /\ t.up = s.up /\ t.panic = s.panic
  /\ t.out = IF s.dummy THEN s.out ELSE s.out \cup {Message(s, payload, signer)}

(* push_message adds a message at the next place of the stream.            *)
LEMMA PushFacts ==
  ASSUME NEW s, NEW payload, NEW signer, IsRun(s)
  PROVE  Pushes(s, payload, signer, Push(s, payload, signer))
<1>0. PICK t : t = Push(s, payload, signer)
  OBVIOUS
<1>m. PICK m : m = Message(s, payload, signer)
  OBVIOUS
<1>1. PICK X : s \in RunSet(X)
  BY DEF IsRun
<1>2. t = [s EXCEPT !.seq = s.seq + 1, !.out = IF s.dummy THEN s.out ELSE s.out \cup {m}]
  BY <1>0, <1>m DEF Push, Message
<1>3. t \in RunSet(X \cup {s.seq + 1, s.out, s.out \cup {m}})
  BY <1>1, <1>2 DEF RunSet
<1>4. /\ t.gk = s.gk /\ t.seq = s.seq + 1 /\ t.dummy = s.dummy
      /\ t.seal = s.seal /\ t.keys = s.keys /\ t.up = s.up /\ t.panic = s.panic
      /\ t.out = IF s.dummy THEN s.out ELSE s.out \cup {m}
  BY <1>1, <1>2 DEF RunSet
<1>5. Pushes(s, payload, signer, t)
  BY <1>m, <1>3, <1>4 DEF IsRun, Pushes
<1> QED
  BY <1>0, <1>5

(* A pRuntime within a block, at an event the account has come to.         *)
RunIn(r, s, c, H) ==
  RunSafe(s, H) /\ s.panic = "none" /\ RunOK(r, s, c, H) /\ CanonOK(c)

(* One field of the state changes.                                         *)
LEMMA SetPanic ==
  ASSUME NEW s, NEW x, IsRun(s)
  PROVE  LET t == [s EXCEPT !.panic = x] IN
         /\ IsRun(t) /\ t.gk = s.gk /\ t.seq = s.seq /\ t.dummy = s.dummy
         /\ t.seal = s.seal /\ t.keys = s.keys /\ t.up = s.up /\ t.out = s.out
         /\ t.panic = x
<1> DEFINE t == [s EXCEPT !.panic = x]
<1>1. PICK X : s \in RunSet(X)
  BY DEF IsRun
<1>2. t \in RunSet(X \cup {x})
  BY <1>1 DEF RunSet
<1>3. /\ t.gk = s.gk /\ t.seq = s.seq /\ t.dummy = s.dummy /\ t.seal = s.seal
      /\ t.keys = s.keys /\ t.up = s.up /\ t.out = s.out /\ t.panic = x
  BY <1>1 DEF RunSet
<1> QED
  BY <1>2, <1>3 DEF IsRun

(* One field of the state changes.                                         *)
LEMMA SetGk ==
  ASSUME NEW s, NEW x, IsRun(s)
  PROVE  LET t == [s EXCEPT !.gk = x] IN
         /\ IsRun(t) /\ t.gk = x /\ t.seq = s.seq /\ t.dummy = s.dummy
         /\ t.seal = s.seal /\ t.keys = s.keys /\ t.up = s.up /\ t.out = s.out
         /\ t.panic = s.panic
<1> DEFINE t == [s EXCEPT !.gk = x]
<1>1. PICK X : s \in RunSet(X)
  BY DEF IsRun
<1>2. t \in RunSet(X \cup {x})
  BY <1>1 DEF RunSet
<1>3. /\ t.gk = x /\ t.seq = s.seq /\ t.dummy = s.dummy /\ t.seal = s.seal
      /\ t.keys = s.keys /\ t.up = s.up /\ t.out = s.out /\ t.panic = s.panic
  BY <1>1 DEF RunSet
<1> QED
  BY <1>2, <1>3 DEF IsRun

(* One field of the state changes.                                         *)
LEMMA SetDummy ==
  ASSUME NEW s, NEW x, IsRun(s)
  PROVE  LET t == [s EXCEPT !.dummy = x] IN
         /\ IsRun(t) /\ t.gk = s.gk /\ t.seq = s.seq /\ t.dummy = x
         /\ t.seal = s.seal /\ t.keys = s.keys /\ t.up = s.up /\ t.out = s.out
         /\ t.panic = s.panic
<1> DEFINE t == [s EXCEPT !.dummy = x]
<1>1. PICK X : s \in RunSet(X)
  BY DEF IsRun
<1>2. t \in RunSet(X \cup {x})
  BY <1>1 DEF RunSet
<1>3. /\ t.gk = s.gk /\ t.seq = s.seq /\ t.dummy = x /\ t.seal = s.seal
      /\ t.keys = s.keys /\ t.up = s.up /\ t.out = s.out /\ t.panic = s.panic
  BY <1>1 DEF RunSet
<1> QED
  BY <1>2, <1>3 DEF IsRun

(* One field of the state changes.                                         *)
LEMMA SetSeal ==
  ASSUME NEW s, NEW x, IsRun(s)
  PROVE  LET t == [s EXCEPT !.seal = x] IN
         /\ IsRun(t) /\ t.gk = s.gk /\ t.seq = s.seq /\ t.dummy = s.dummy
         /\ t.seal = x /\ t.keys = s.keys /\ t.up = s.up /\ t.out = s.out
         /\ t.panic = s.panic
<1> DEFINE t == [s EXCEPT !.seal = x]
<1>1. PICK X : s \in RunSet(X)
  BY DEF IsRun
<1>2. t \in RunSet(X \cup {x})
  BY <1>1 DEF RunSet
<1>3. /\ t.gk = s.gk /\ t.seq = s.seq /\ t.dummy = s.dummy /\ t.seal = x
      /\ t.keys = s.keys /\ t.up = s.up /\ t.out = s.out /\ t.panic = s.panic
  BY <1>1 DEF RunSet
<1> QED
  BY <1>2, <1>3 DEF IsRun

(* A panic that is not about the keys is allowed.                          *)
LEMMA PanicKept ==
  ASSUME NEW r, NEW s, NEW f, NEW H, RunSafe(s, H), NEW x, x \notin BadPanics, x # "none"
  PROVE  Kept(r, s, Panic(s, x), f, H)
<1>0. PICK t : t = [s EXCEPT !.panic = x]
  OBVIOUS
<1>1. t = Panic(s, x)
  BY <1>0 DEF Panic
<1>2. IsRun(t) /\ t.seal = s.seal /\ t.keys = s.keys /\ t.panic = x
  BY <1>0, SetPanic DEF RunSafe
<1>3. RunSafe(t, H)
  BY <1>2 DEF RunSafe
<1>4. s.keys \in Nat
  BY DEF RunSafe
<1>6. t.keys = s.keys
  BY <1>2
<1>7. s.keys <= s.keys
  BY <1>4
<1>5. s.keys <= t.keys
  BY <1>6, <1>7
<1> QED
  BY <1>1, <1>2, <1>3, <1>5 DEF Kept

(* What is pushed still fits the stream after the event.                   *)
LEMMA OutFollows ==
  ASSUME NEW r, NEW s, NEW c, NEW H, RunIn(r, s, c, H), NEW e, NEW h, EventOK(c, e, h, H)
  PROVE  OutOK(s.out, Follow(c, e).stream, H, s.keys) /\ CanonOK(Follow(c, e))
         /\ Extends(c.stream, Follow(c, e).stream)
<1>1. CanonOK(Follow(c, e)) /\ Extends(c.stream, Follow(c, e).stream)
  BY FollowCanon DEF RunIn
<1>2. StreamOK(c.stream) /\ AnySeq(Follow(c, e).stream)
  BY <1>1 DEF RunIn, CanonOK, StreamOK
<1>3. H \in Seq(Entry) /\ s.keys \in Nat
  BY DEF RunIn, RunSafe, KeysOK
<1>5. Extends(H, H) /\ s.keys <= s.keys
  BY <1>3, SeqIsAny, ExtendsFacts
<1>4. OutOK(s.out, c.stream, H, s.keys)
  BY DEF RunIn, RunOK
<1> QED
  BY <1>1, <1>2, <1>3, <1>4, <1>5, OutExtends

(* A pRuntime that is no gatekeeper and ignores an event.                  *)
LEMMA StaysOff ==
  ASSUME NEW r, NEW s, NEW c, NEW H, RunIn(r, s, c, H), NEW e, NEW h, EventOK(c, e, h, H),
         ~s.gk.on, r \in Follow(c, e).keyed => r \in c.keyed
  PROVE  Kept(r, s, s, Follow(c, e), H)
<1>0. PICK f : f = Follow(c, e)
  OBVIOUS
<1>1. OutOK(s.out, f.stream, H, s.keys)
  BY <1>0, OutFollows
<1>2. NodeOK(r, s, c, H)
  BY DEF RunIn, RunOK
<1>3. s.gk = NoGatekeeper
  BY <1>2, OnOrOff
<1>4. ~f.on => ~c.on
  BY <1>0 DEF Follow
<1>5. NodeOK(r, s, f, H)
  BY <1>0, <1>2, <1>3, <1>4 DEF NodeOK
<1>6. s.keys \in Nat
  BY DEF RunIn, RunSafe
<1>7. s.keys <= s.keys
  BY <1>6
<1> QED
  BY <1>0, <1>1, <1>5, <1>7 DEF RunIn, RunOK, Kept

(* A gatekeeper that ignores an event.                                     *)
LEMMA StaysOn ==
  ASSUME NEW r, NEW s, NEW c, NEW H, RunIn(r, s, c, H), NEW e, NEW h, EventOK(c, e, h, H),
         s.gk.on, ~Answered(c, e), e.type # "MasterPubkeyOnChain",
         r \in Follow(c, e).gks <=> r \in c.gks
  PROVE  Kept(r, s, s, Follow(c, e), H)
<1>0. PICK f : f = Follow(c, e)
  OBVIOUS
<1>1. OutOK(s.out, f.stream, H, s.keys)
  BY <1>0, OutFollows
<1>2. NodeOK(r, s, c, H)
  BY DEF RunIn, RunOK
<1>3. s.gk # NoGatekeeper /\ c.on
  BY <1>2, OnOrOff
<1>4. f.on /\ f.launched = c.launched /\ f.stream = c.stream /\ f.idx = c.idx
  BY <1>0, <1>3 DEF Follow, Streamed, Answered, RunIn, CanonOK, CanonType
<1>5. NodeOK(r, s, f, H)
  BY <1>0, <1>2, <1>3, <1>4 DEF NodeOK
<1>6. s.keys \in Nat
  BY DEF RunIn, RunSafe
<1>7. s.keys <= s.keys
  BY <1>6
<1> QED
  BY <1>0, <1>1, <1>5, <1>7 DEF RunIn, RunOK, Kept

(* The message that is due.                                                *)
IsDue(s, q, d, H, payload, signer, k) ==
  /\ k \in Nat /\ IsRun(s) /\ s.keys \in Nat /\ s.keys <= k /\ H \in Seq(Entry)
  /\ StreamOK(q) /\ s.seq = Len(q) /\ OutOK(s.out, q, H, s.keys)
  /\ ~s.dummy => Tells(payload, d, H, k)
  /\ SignerIdx(d) < Len(H) /\ signer = H[SignerIdx(d) + 1].key

(* Pushing the message that is due.                                        *)
LEMMA Pushing ==
  ASSUME NEW s, NEW q, NEW d, NEW H, NEW payload, NEW signer, NEW k,
         IsDue(s, q, d, H, payload, signer, k)
  PROVE  /\ OutOK(Push(s, payload, signer).out, Append(q, d), H, k)
         /\ Push(s, payload, signer).seq = Len(Append(q, d))
<1> USE DEF IsDue
<1>0. PICK t : t = Push(s, payload, signer)
  OBVIOUS
<1>p. PICK p : p = Append(q, d)
  OBVIOUS
<1>m. PICK m : m = Message(s, payload, signer)
  OBVIOUS
<1>7. Pushes(s, payload, signer, t)
  BY <1>0, PushFacts
<1>1. t.out = IF s.dummy THEN s.out ELSE s.out \cup {m}
  BY <1>7, <1>m DEF Pushes
<1>6. t.seq = s.seq + 1
  BY <1>7 DEF Pushes
<1>2. /\ AnySeq(p) /\ Len(q) \in Nat /\ Len(p) = Len(q) + 1 /\ Extends(q, p)
      /\ p[Len(q) + 1] = d
  BY <1>p, AppendFacts DEF StreamOK
<1>3. OutOK(s.out, p, H, k)
  <2>1. Extends(H, H)
    BY SeqIsAny, ExtendsFacts
  <2> QED
    BY <2>1, <1>2, OutExtends
<1>4. ~s.dummy => Fits(m, p, H, k)
  <2>1. m.seq = Len(q) /\ m.payload = payload /\ m.signer = signer
    BY <1>m DEF Message
  <2> QED
    BY <2>1, <1>2 DEF Fits
<1>5. OutOK(t.out, p, H, k)
  BY <1>1, <1>3, <1>4 DEF OutOK
<1> QED
  BY <1>0, <1>p, <1>6, <1>2, <1>5

(* Facts about a gatekeeper within a block.                                *)
LEMMA OnFacts ==
  ASSUME NEW r, NEW s, NEW c, NEW H, RunIn(r, s, c, H), s.gk.on
  PROVE  /\ IsRun(s) /\ s.keys \in Nat /\ KeysOK(H, s.keys) /\ H \in Seq(Entry)
         /\ Genuine(s.seal, H) /\ s.panic = "none"
         /\ OutOK(s.out, c.stream, H, s.keys) /\ UpOK(s.up, H)
         /\ s.gk \in Gk /\ s.gk # NoGatekeeper /\ c.on /\ Genuine(s.gk.history, H)
         /\ c.idx \in Nat /\ c.idx < Len(s.gk.history) /\ Len(s.gk.history) \in Nat
         /\ Len(H) \in Nat /\ Len(s.gk.history) <= Len(H)
         /\ s.gk.key = H[c.idx + 1].key /\ s.gk.reporter = H[1].key
         /\ s.gk.launched = c.launched /\ s.seq = Len(c.stream) /\ s.dummy \in BOOLEAN
         /\ (s.dummy <=> r \notin c.gks) /\ StreamOK(c.stream)
<1>1. NodeOK(r, s, c, H)
  BY DEF RunIn, RunOK
<1>2. s.gk \in Gk /\ s.gk # NoGatekeeper /\ c.on
  BY <1>1, OnOrOff
<1>3. /\ Genuine(s.gk.history, H) /\ c.idx < Len(s.gk.history)
      /\ s.gk.key = H[c.idx + 1].key /\ s.gk.reporter = H[1].key
      /\ s.gk.launched = c.launched /\ s.seq = Len(c.stream) /\ s.dummy \in BOOLEAN
      /\ (s.dummy <=> r \notin c.gks)
  BY <1>1, <1>2 DEF NodeOK
<1>4. /\ IsRun(s) /\ s.keys \in Nat /\ KeysOK(H, s.keys) /\ H \in Seq(Entry)
      /\ Genuine(s.seal, H) /\ s.panic = "none"
      /\ OutOK(s.out, c.stream, H, s.keys) /\ UpOK(s.up, H)
      /\ c.idx \in Nat /\ StreamOK(c.stream)
  BY DEF RunIn, RunSafe, RunOK, KeysOK, CanonOK, CanonType
<1>5. Len(s.gk.history) \in Nat /\ Len(H) \in Nat /\ Len(s.gk.history) <= Len(H)
  BY <1>3, <1>4 DEF Genuine, Extends
<1> QED
  BY <1>2, <1>3, <1>4, <1>5

(* The key on chain is the first key of every gatekeeper.                  *)
LEMMA MasterPubkeyKept ==
  ASSUME NEW r, NEW s, NEW c, NEW H, RunIn(r, s, c, H), NEW e, NEW h, EventOK(c, e, h, H),
         e.type = "MasterPubkeyOnChain"
  PROVE  Kept(r, s, OnMasterPubkeyOnChain(s, e), Follow(c, e), H)
<1>0. PICK f : f = Follow(c, e)
  OBVIOUS
<1>1. c.on /\ c.idx = 0 /\ H # <<>> /\ e.key = H[1].key
  BY DEF EventOK, MasterPubkeyOnChain, Registered, Unregistered, FirstGatekeeper,
         RotateMasterKey
<1>2. /\ f.on /\ f.launched = TRUE /\ f.idx = c.idx /\ f.gks = c.gks /\ f.keyed = c.keyed
      /\ f.stream = c.stream
  BY <1>0, <1>1 DEF Follow, Streamed, Answered
<1>3. CASE ~s.gk.on
  <2>1. OnMasterPubkeyOnChain(s, e) = s
    BY <1>3 DEF OnMasterPubkeyOnChain
  <2> QED
    BY <2>1, <1>0, <1>2, <1>3, StaysOff
<1>4. CASE s.gk.on
  <2> DEFINE g == [s.gk EXCEPT !.launched = TRUE]
  <2>1. PICK t : t = [s EXCEPT !.gk = g]
    OBVIOUS
  <2>2. /\ s.gk.key = e.key /\ s.gk \in Gk /\ IsRun(s) /\ s.keys \in Nat
        /\ Genuine(s.gk.history, H) /\ s.gk # NoGatekeeper
    BY <1>1, <1>4, OnFacts
  <2>3. OnMasterPubkeyOnChain(s, e) = t
    BY <1>4, <2>1, <2>2 DEF OnMasterPubkeyOnChain
  <2>4. /\ g \in Gk /\ g.key = s.gk.key /\ g.history = s.gk.history /\ g.on
        /\ g.reporter = s.gk.reporter /\ g.launched = TRUE
    BY <2>2 DEF Gk
  <2> HIDE DEF g
  <2>5. /\ IsRun(t) /\ t.gk = g /\ t.seq = s.seq /\ t.dummy = s.dummy /\ t.seal = s.seal
        /\ t.keys = s.keys /\ t.up = s.up /\ t.out = s.out /\ t.panic = s.panic
    BY <2>1, <2>2, SetGk
  <2>6. g # NoGatekeeper
    BY <2>4 DEF NoGatekeeper
  <2>7. NodeOK(r, s, c, H)
    BY DEF RunIn, RunOK
  <2>8. NodeOK(r, t, f, H)
    BY <2>2, <2>4, <2>5, <2>6, <2>7, <1>2 DEF NodeOK
  <2>9. OutOK(t.out, f.stream, H, t.keys) /\ UpOK(t.up, H)
    BY <2>5, <1>2 DEF RunIn, RunOK
  <2>10. RunSafe(t, H)
    BY <2>5 DEF RunIn, RunSafe
  <2>11. s.keys <= t.keys
    BY <2>2, <2>5
  <2> QED
    BY <1>0, <2>3, <2>5, <2>8, <2>9, <2>10, <2>11 DEF Kept, RunOK
<1> QED
  BY <1>3, <1>4

(* unregister: a gatekeeper falls silent.                                  *)
LEMMA UnregisteredKept ==
  ASSUME NEW r, NEW s, NEW c, NEW H, RunIn(r, s, c, H), NEW e, NEW h, EventOK(c, e, h, H),
         e.type = "Unregistered"
  PROVE  Kept(r, s, OnUnregistered(r, s, e), Follow(c, e), H)
<1>0. PICK f : f = Follow(c, e)
  OBVIOUS
<1>1. c.on
  BY DEF EventOK, MasterPubkeyOnChain, Registered, Unregistered, FirstGatekeeper,
         RotateMasterKey
<1>2. /\ f.on /\ f.launched = c.launched /\ f.idx = c.idx /\ f.gks = c.gks \ {e.gk}
      /\ f.keyed = c.keyed /\ f.stream = c.stream /\ ~Answered(c, e)
  BY <1>0, <1>1 DEF Follow, Streamed, Answered, RunIn, CanonOK, CanonType
<1>3. CASE ~s.gk.on
  <2>1. OnUnregistered(r, s, e) = s
    BY <1>3 DEF OnUnregistered
  <2> QED
    BY <2>1, <1>0, <1>2, <1>3, StaysOff
<1>4. CASE s.gk.on /\ r # e.gk
  <2>1. OnUnregistered(r, s, e) = s
    BY <1>4 DEF OnUnregistered
  <2> QED
    BY <2>1, <1>0, <1>2, <1>4, StaysOn
<1>5. CASE s.gk.on /\ r = e.gk
  <2>1. PICK t : t = [s EXCEPT !.dummy = TRUE]
    OBVIOUS
  <2>2. IsRun(s) /\ s.keys \in Nat /\ s.gk # NoGatekeeper
    BY <1>5, OnFacts
  <2>3. OnUnregistered(r, s, e) = t
    BY <1>5, <2>1 DEF OnUnregistered
  <2>5. /\ IsRun(t) /\ t.gk = s.gk /\ t.seq = s.seq /\ t.dummy = TRUE /\ t.seal = s.seal
        /\ t.keys = s.keys /\ t.up = s.up /\ t.out = s.out /\ t.panic = s.panic
    BY <2>1, <2>2, SetDummy
  <2>7. NodeOK(r, s, c, H)
    BY DEF RunIn, RunOK
  <2>8. NodeOK(r, t, f, H)
    BY <2>2, <2>5, <2>7, <1>2, <1>5 DEF NodeOK
  <2>9. OutOK(t.out, f.stream, H, t.keys) /\ UpOK(t.up, H)
    BY <2>5, <1>2 DEF RunIn, RunOK
  <2>10. RunSafe(t, H)
    BY <2>5 DEF RunIn, RunSafe
  <2>11. s.keys <= t.keys
    BY <2>2, <2>5
  <2> QED
    BY <1>0, <2>3, <2>5, <2>8, <2>9, <2>10, <2>11 DEF Kept, RunOK
<1> QED
  BY <1>3, <1>4, <1>5

(* A random number ends a gatekeeper at most.                              *)
LEMMA RandomKept ==
  ASSUME NEW r, NEW s, NEW c, NEW H, RunIn(r, s, c, H), NEW e, NEW h, EventOK(c, e, h, H),
         e.type \in {"NewRandomNumber", "Settle"}, NEW t,
         t = s \/ t = Panic(s, "GK state poisoned")
  PROVE  Kept(r, s, t, Follow(c, e), H)
<1>0. PICK f : f = Follow(c, e)
  OBVIOUS
<1>2. f.gks = c.gks /\ f.keyed = c.keyed /\ ~Answered(c, e) /\ e.type # "MasterPubkeyOnChain"
  BY <1>0 DEF Follow, Answered
<1>3. CASE t = Panic(s, "GK state poisoned")
  BY <1>0, <1>3, PanicKept DEF BadPanics, RunIn
<1>4. CASE t = s /\ s.gk.on
  BY <1>0, <1>2, <1>4, StaysOn
<1>5. CASE t = s /\ ~s.gk.on
  BY <1>0, <1>2, <1>5, StaysOff
<1> QED
  BY <1>3, <1>4, <1>5

(* A gatekeeper takes over a longer history and seals it.                  *)
Adopted(s, x) == [s EXCEPT !.gk.history = x, !.seal = x]

(* Only the history and the seal change.                                   *)
LEMMA AdoptedFacts ==
  ASSUME NEW s, NEW x, IsRun(s), s.gk \in Gk, x \in Seq(Entry), NEW t, t = Adopted(s, x)
  PROVE  /\ IsRun(t) /\ t.seq = s.seq /\ t.dummy = s.dummy /\ t.seal = x
         /\ t.keys = s.keys /\ t.up = s.up /\ t.out = s.out /\ t.panic = s.panic
         /\ t.gk \in Gk /\ t.gk.on /\ t.gk.history = x /\ t.gk.key = s.gk.key
         /\ t.gk.reporter = s.gk.reporter /\ t.gk.launched = s.gk.launched
         /\ t.gk # NoGatekeeper
<1> DEFINE g == [s.gk EXCEPT !.history = x]
<1>1. t = [s EXCEPT !.gk = g, !.seal = x]
  BY DEF Adopted
<1>2. /\ g \in Gk /\ g.on /\ g.history = x /\ g.key = s.gk.key
      /\ g.reporter = s.gk.reporter /\ g.launched = s.gk.launched
  BY DEF Gk, Entry
<1> HIDE DEF g
<1>3. g # NoGatekeeper
  BY <1>2 DEF NoGatekeeper
<1>4. PICK X : s \in RunSet(X)
  BY DEF IsRun
<1>5. t \in RunSet(X \cup {x, g})
  BY <1>1, <1>4 DEF RunSet
<1>6. /\ t.gk = g /\ t.seq = s.seq /\ t.dummy = s.dummy /\ t.seal = x
      /\ t.keys = s.keys /\ t.up = s.up /\ t.out = s.out /\ t.panic = s.panic
  BY <1>1, <1>4 DEF RunSet
<1>7. IsRun(t)
  BY <1>5 DEF IsRun
<1> QED
  BY <1>2, <1>3, <1>6, <1>7

(* set_master_key_history: the keys shared are those of the gatekeepers.   *)
LEMMA HistoryKept ==
  ASSUME NEW r, NEW s, NEW c, NEW H, RunIn(r, s, c, H), NEW e, NEW h, EventOK(c, e, h, H),
         e.type = "MasterKeyHistory"
  PROVE  Kept(r, s, OnMasterKeyHistory(r, s, e), Follow(c, e), H)
<1>0. PICK f : f = Follow(c, e)
  OBVIOUS
<1>1. c.on /\ Genuine(e.history, H) /\ e.history # <<>>
  BY DEF EventOK, MasterPubkeyOnChain, Registered, Unregistered, FirstGatekeeper,
         RotateMasterKey
<1>2. /\ f.on /\ f.launched = c.launched /\ f.idx = c.idx /\ f.gks = c.gks
      /\ f.keyed = c.keyed \cup {e.dest} /\ f.stream = c.stream /\ ~Answered(c, e)
      /\ e.type # "MasterPubkeyOnChain"
  BY <1>0, <1>1 DEF Follow, Streamed, Answered, RunIn, CanonOK, CanonType
<1>3. CASE r # e.dest
  <2>1. OnMasterKeyHistory(r, s, e) = s
    BY <1>3 DEF OnMasterKeyHistory
  <2>2. CASE s.gk.on
    BY <2>1, <2>2, <1>0, <1>2, StaysOn
  <2>3. CASE ~s.gk.on
    BY <2>1, <2>3, <1>0, <1>2, <1>3, StaysOff
  <2> QED
    BY <2>2, <2>3
<1>4. CASE r = e.dest /\ ~s.gk.on
  <2>1. PICK u : u = [s EXCEPT !.seal = e.history]
    OBVIOUS
  <2>2. PICK t : t = Panic(u, "Received master key")
    OBVIOUS
  <2>3. OnMasterKeyHistory(r, s, e) = t
    BY <1>4, <2>1, <2>2 DEF OnMasterKeyHistory
  <2>4. IsRun(u) /\ u.seal = e.history /\ u.keys = s.keys /\ u.panic = s.panic
    BY <2>1, SetSeal DEF RunIn, RunSafe
  <2>5. RunSafe(u, H)
    BY <2>4, <1>1 DEF RunIn, RunSafe
  <2>6. Kept(r, u, t, f, H)
    BY <2>2, <2>5, PanicKept DEF BadPanics
  <2>7. Kept(r, s, t, f, H)
    BY <2>4, <2>6, <1>1 DEF Kept
  <2> QED
    BY <1>0, <2>3, <2>7
<1>5. CASE r = e.dest /\ s.gk.on /\ Len(e.history) <= Len(s.gk.history)
  <2>1. OnMasterKeyHistory(r, s, e) = s
    BY <1>5 DEF OnMasterKeyHistory
  <2> QED
    BY <2>1, <1>0, <1>2, <1>5, StaysOn
<1>6. CASE r = e.dest /\ s.gk.on /\ ~(Len(e.history) <= Len(s.gk.history))
  <2>1. PICK t : t = Adopted(s, e.history)
    OBVIOUS
  <2>2. OnMasterKeyHistory(r, s, e) = t
    BY <1>6, <2>1 DEF OnMasterKeyHistory, Adopted
  <2>3. /\ IsRun(s) /\ s.gk \in Gk /\ s.keys \in Nat /\ c.idx \in Nat
        /\ Len(s.gk.history) \in Nat /\ c.idx < Len(s.gk.history) /\ s.gk # NoGatekeeper
    BY <1>6, OnFacts
  <2>4. e.history \in Seq(Entry) /\ Len(e.history) \in Nat
    BY <1>1 DEF Genuine
  <2>5. /\ IsRun(t) /\ t.seq = s.seq /\ t.dummy = s.dummy /\ t.seal = e.history
        /\ t.keys = s.keys /\ t.up = s.up /\ t.out = s.out /\ t.panic = s.panic
        /\ t.gk \in Gk /\ t.gk.history = e.history /\ t.gk.key = s.gk.key
        /\ t.gk.reporter = s.gk.reporter /\ t.gk.launched = s.gk.launched
        /\ t.gk # NoGatekeeper
    BY <2>1, <2>3, <2>4, AdoptedFacts
  <2>6. c.idx < Len(e.history)
    BY <2>3, <2>4, <1>6
  <2>7. NodeOK(r, s, c, H)
    BY DEF RunIn, RunOK
  <2>8. NodeOK(r, t, f, H)
    BY <2>3, <2>5, <2>6, <2>7, <1>1, <1>2 DEF NodeOK
  <2>9. OutOK(t.out, f.stream, H, t.keys) /\ UpOK(t.up, H)
    BY <2>5, <1>2 DEF RunIn, RunOK
  <2>10. RunSafe(t, H)
    BY <2>5, <1>1 DEF RunIn, RunSafe
  <2>11. s.keys <= t.keys
    BY <2>3, <2>5
  <2> QED
    BY <1>0, <1>1, <2>2, <2>5, <2>8, <2>9, <2>10, <2>11 DEF Kept, RunOK
<1> QED
  BY <1>3, <1>4, <1>5, <1>6

(* process_new_gatekeeper_event: the key is shared at the place of the     *)
(* stream that the account gives it.                                       *)
LEMMA RegisteredKept ==
  ASSUME NEW r, NEW b, NEW s, NEW c, NEW H, RunIn(r, s, c, H), NEW e, NEW h,
         EventOK(c, e, h, H), e.type = "Registered"
  PROVE  Kept(r, s, OnRegistered(r, b, s, e), Follow(c, e), H)
<1>0. PICK f : f = Follow(c, e)
  OBVIOUS
<1>d. PICK d : d = Answer(c, e)
  OBVIOUS
<1>1. c.on
  BY DEF EventOK, MasterPubkeyOnChain, Registered, Unregistered, FirstGatekeeper,
         RotateMasterKey
<1>2. /\ f.on /\ f.launched = c.launched /\ f.idx = c.idx /\ f.gks = c.gks \cup {e.gk}
      /\ f.keyed = c.keyed /\ f.stream = Append(c.stream, d)
  BY <1>0, <1>d, <1>1 DEF Follow, Streamed, Answered, RunIn, CanonOK, CanonType
<1>3. d.kind = "MasterKeyHistory" /\ d.of = e /\ d.idx = c.idx
  BY <1>d DEF Answer
<1>4. CASE e.gk \notin b.gatekeepers
  <2>1. OnRegistered(r, b, s, e) = Panic(s, "System state poisoned")
    BY <1>4 DEF OnRegistered
  <2> QED
    BY <2>1, PanicKept DEF BadPanics, RunIn
<1>5. CASE e.gk \in b.gatekeepers /\ ~s.gk.on
  <2>1. OnRegistered(r, b, s, e) = s
    BY <1>5 DEF OnRegistered
  <2> QED
    BY <2>1, <1>0, <1>2, <1>5, StaysOff
<1>6. CASE e.gk \in b.gatekeepers /\ s.gk.on
  <2> DEFINE x == IF Len(s.gk.history) > 1 THEN s.gk.history
                  ELSE <<RotatedKey(0, 0, s.gk.key)>>
             p == MasterKeyHistory(e.gk, x)
  <2>1. PICK u : u = Push(s, p, s.gk.key)
    OBVIOUS
  <2>2. PICK t : t = IF r = e.gk THEN [u EXCEPT !.dummy = FALSE] ELSE u
    OBVIOUS
  <2>3. OnRegistered(r, b, s, e) = t
    BY <2>1, <2>2, <1>6 DEF OnRegistered
  <2>4. /\ IsRun(s) /\ s.keys \in Nat /\ KeysOK(H, s.keys) /\ H \in Seq(Entry)
        /\ s.panic = "none" /\ OutOK(s.out, c.stream, H, s.keys) /\ UpOK(s.up, H)
        /\ s.gk \in Gk /\ s.gk # NoGatekeeper /\ Genuine(s.gk.history, H)
        /\ c.idx \in Nat /\ c.idx < Len(s.gk.history) /\ Len(s.gk.history) \in Nat
        /\ Len(H) \in Nat /\ Len(s.gk.history) <= Len(H)
        /\ s.gk.key = H[c.idx + 1].key /\ s.gk.reporter = H[1].key
        /\ s.gk.launched = c.launched /\ s.seq = Len(c.stream) /\ s.dummy \in BOOLEAN
        /\ (s.dummy <=> r \notin c.gks) /\ StreamOK(c.stream)
    BY <1>6, OnFacts
  <2>5. Genuine(x, H) /\ x # <<>>
    <3>1. CASE Len(s.gk.history) > 1
      <4>1. x = s.gk.history /\ x \in Seq(Entry)
        BY <3>1, <2>4 DEF Genuine
      <4> QED
        BY <4>1, <3>1, <2>4, SeqIsAny
    <3>2. CASE ~(Len(s.gk.history) > 1)
      <4>1. c.idx = 0 /\ Len(H) >= 1
        BY <3>2, <2>4
      <4>2. H[1] \in Entry /\ H[1].id = 0 /\ H[1].height = 0
        BY <4>1, <2>4 DEF KeysOK
      <4>3. H[1] = RotatedKey(0, 0, s.gk.key)
        BY <4>1, <4>2, <2>4 DEF Entry, RotatedKey
      <4>4. x = <<H[1]>>
        BY <3>2, <4>3
      <4> HIDE DEF x
      <4> QED
        BY <4>1, <4>2, <4>4, <2>4 DEF Genuine, Extends
    <3> QED
      BY <3>1, <3>2
  <2> HIDE DEF x
  <2>6. Tells(p, d, H, s.keys)
    <3>1. p.type = "MasterKeyHistory" /\ p.history = x /\ p = MasterKeyHistory(e.gk, p.history)
      BY DEF MasterKeyHistory
    <3> HIDE DEF p
    <3> QED
      BY <3>1, <1>3, <2>5 DEF Tells
  <2>7. SignerIdx(d) = c.idx
    BY <1>3 DEF SignerIdx
  <2> HIDE DEF p
  <2>8. OutOK(u.out, Append(c.stream, d), H, s.keys) /\ u.seq = Len(Append(c.stream, d))
    <3>1. s.keys <= s.keys /\ SignerIdx(d) < Len(H) /\ s.gk.key = H[SignerIdx(d) + 1].key
      BY <2>4, <2>7
    <3>2. /\ OutOK(Push(s, p, s.gk.key).out, Append(c.stream, d), H, s.keys)
          /\ Push(s, p, s.gk.key).seq = Len(Append(c.stream, d))
      <4>1. /\ s.keys \in Nat /\ IsRun(s) /\ H \in Seq(Entry) /\ StreamOK(c.stream)
            /\ s.seq = Len(c.stream) /\ OutOK(s.out, c.stream, H, s.keys)
        BY <2>4
      <4>2. IsDue(s, c.stream, d, H, p, s.gk.key, s.keys)
        BY <3>1, <4>1, <2>6 DEF IsDue
      <4> QED
        BY <4>2, Pushing
    <3> QED
      BY <3>2, <2>1
  <2>9. Pushes(s, p, s.gk.key, u)
    BY <2>1, <2>4, PushFacts
  <2>10. /\ IsRun(t) /\ t.gk = s.gk /\ t.seq = u.seq /\ t.seal = s.seal /\ t.keys = s.keys
         /\ t.up = s.up /\ t.out = u.out /\ t.panic = s.panic
         /\ t.dummy = IF r = e.gk THEN FALSE ELSE s.dummy
    <3>1. CASE r = e.gk
      <4>1. t = [u EXCEPT !.dummy = FALSE] /\ IsRun(u)
        BY <2>2, <2>9, <3>1 DEF Pushes
      <4>2. /\ IsRun(t) /\ t.gk = u.gk /\ t.seq = u.seq /\ t.dummy = FALSE
            /\ t.seal = u.seal /\ t.keys = u.keys /\ t.up = u.up /\ t.out = u.out
            /\ t.panic = u.panic
        BY <4>1, SetDummy
      <4> QED
        BY <4>2, <3>1, <2>9 DEF Pushes
    <3>2. CASE r # e.gk
      BY <2>2, <2>9, <3>2 DEF Pushes
    <3> QED
      BY <3>1, <3>2
  <2>11. NodeOK(r, s, c, H) /\ t.seq \in Nat /\ t.dummy \in BOOLEAN
         /\ (t.dummy <=> r \notin f.gks)
    <3>1. s.seq \in Nat /\ NodeOK(r, s, c, H)
      BY DEF RunIn, RunOK, NodeOK
    <3>2. t.seq = s.seq + 1
      BY <2>9, <2>10 DEF Pushes
    <3>3. t.dummy \in BOOLEAN /\ (t.dummy <=> r \notin f.gks)
      <4>1. CASE r = e.gk
        BY <4>1, <2>10, <1>2
      <4>2. CASE r # e.gk
        <5>1. t.dummy = s.dummy
          BY <4>2, <2>10
        <5> QED
          BY <5>1, <4>2, <2>4, <1>2
      <4> QED
        BY <4>1, <4>2
    <3>4. t.seq \in Nat
      BY <3>1, <3>2
    <3> QED
      BY <3>1, <3>3, <3>4
  <2>12. NodeOK(r, t, f, H)
    BY <2>4, <2>8, <2>10, <2>11, <1>2 DEF NodeOK
  <2>13. OutOK(t.out, f.stream, H, t.keys) /\ UpOK(t.up, H)
    BY <2>4, <2>8, <2>10, <1>2
  <2>14. RunSafe(t, H)
    BY <2>10 DEF RunIn, RunSafe
  <2>15. s.keys <= t.keys
    BY <2>4, <2>10
  <2> QED
    BY <1>0, <2>3, <2>10, <2>12, <2>13, <2>14, <2>15 DEF Kept, RunOK
<1> QED
  BY <1>4, <1>5, <1>6

(* process_master_key_rotation: every registered gatekeeper proposes a     *)
(* key at the same place of the stream.                                    *)
LEMMA RotateKept ==
  ASSUME NEW r, NEW s, NEW c, NEW H, RunIn(r, s, c, H), NEW e, NEW h,
         EventOK(c, e, h, H), e.type = "RotateMasterKey"
  PROVE  Kept(r, s, OnRotateMasterKey(r, s, e), Follow(c, e), H)
<1>0. PICK f : f = Follow(c, e)
  OBVIOUS
<1>d. PICK d : d = Answer(c, e)
  OBVIOUS
<1>1. e.gks = c.gks
  BY DEF EventOK, MasterPubkeyOnChain, Registered, Unregistered, FirstGatekeeper,
         RotateMasterKey
<1>3. d.kind = "MasterKeyRotation" /\ d.of = e /\ d.idx = c.idx
  BY <1>d DEF Answer
<1>5. CASE ~s.gk.on
  <2>1. OnRotateMasterKey(r, s, e) = s
    BY <1>5 DEF OnRotateMasterKey
  <2>2. Follow(c, e).keyed = c.keyed
    BY DEF Follow
  <2> QED
    BY <2>1, <2>2, <1>5, StaysOff
<1>6. CASE s.gk.on
  <2> DEFINE p == MasterKeyRotation(e.id, s.keys + 1, e.gks, r)
  <2>1. PICK u : u = Push(s, p, s.gk.key)
    OBVIOUS
  <2>k. PICK k : k = IF s.dummy THEN s.keys ELSE s.keys + 1
    OBVIOUS
  <2>4. /\ IsRun(s) /\ s.keys \in Nat /\ KeysOK(H, s.keys) /\ H \in Seq(Entry)
        /\ s.panic = "none" /\ OutOK(s.out, c.stream, H, s.keys) /\ UpOK(s.up, H)
        /\ s.gk \in Gk /\ s.gk # NoGatekeeper /\ c.on /\ Genuine(s.gk.history, H)
        /\ c.idx \in Nat /\ c.idx < Len(s.gk.history) /\ Len(s.gk.history) \in Nat
        /\ Len(H) \in Nat /\ Len(s.gk.history) <= Len(H)
        /\ s.gk.key = H[c.idx + 1].key /\ s.gk.reporter = H[1].key
        /\ s.gk.launched = c.launched /\ s.seq = Len(c.stream) /\ s.dummy \in BOOLEAN
        /\ (s.dummy <=> r \notin c.gks) /\ StreamOK(c.stream)
    BY <1>6, OnFacts
  <2>2. k \in Nat /\ s.keys <= k /\ (~s.dummy => k = s.keys + 1)
    BY <2>k, <2>4
  <2>9. Pushes(s, p, s.gk.key, u)
    BY <2>1, <2>4, PushFacts
  <2>3. PICK t : t = [u EXCEPT !.keys = k]
    OBVIOUS
  <2>5. OnRotateMasterKey(r, s, e) = t
    <3>1. u.keys = s.keys
      BY <2>9 DEF Pushes
    <3>2. t = [u EXCEPT !.keys = IF s.dummy THEN @ ELSE @ + 1]
      BY <3>1, <2>3, <2>k
    <3> QED
      BY <3>2, <2>1, <1>6 DEF OnRotateMasterKey
  <2>f. /\ f.on /\ f.launched = c.launched /\ f.idx = c.idx /\ f.gks = c.gks
        /\ f.keyed = c.keyed /\ f.stream = Append(c.stream, d)
    BY <2>4, <1>0, <1>d DEF Follow, Streamed, Answered, RunIn, CanonOK, CanonType
  <2>6. ~s.dummy => Tells(p, d, H, k)
    <3> SUFFICES ASSUME ~s.dummy PROVE Tells(p, d, H, k)
      OBVIOUS
    <3>1. /\ p.type = "MasterKeyRotation" /\ p.key = s.keys + 1 /\ p.sender = r
          /\ p = MasterKeyRotation(e.id, p.key, e.gks, p.sender)
      BY DEF MasterKeyRotation
    <3>2. s.keys + 1 \in 1..k /\ r \in e.gks
      BY <2>2, <2>4, <1>1
    <3> HIDE DEF p
    <3> QED
      BY <3>1, <3>2, <1>3 DEF Tells
  <2>7. SignerIdx(d) = c.idx
    BY <1>3 DEF SignerIdx
  <2> HIDE DEF p
  <2>8. OutOK(u.out, Append(c.stream, d), H, k) /\ u.seq = Len(Append(c.stream, d))
    <3>1. SignerIdx(d) < Len(H) /\ s.gk.key = H[SignerIdx(d) + 1].key
      BY <2>4, <2>7
    <3>2. IsDue(s, c.stream, d, H, p, s.gk.key, k)
      BY <3>1, <2>2, <2>4, <2>6 DEF IsDue
    <3> QED
      BY <3>2, <2>1, Pushing
  <2>10. /\ IsRun(t) /\ t.gk = s.gk /\ t.seq = u.seq /\ t.seal = s.seal /\ t.keys = k
         /\ t.up = s.up /\ t.out = u.out /\ t.panic = s.panic /\ t.dummy = s.dummy
    <3>1. PICK X : u \in RunSet(X)
      BY <2>9 DEF Pushes, IsRun
    <3>2. t \in RunSet(X \cup {k})
      BY <3>1, <2>3 DEF RunSet
    <3>3. /\ t.gk = u.gk /\ t.seq = u.seq /\ t.dummy = u.dummy /\ t.seal = u.seal
          /\ t.keys = k /\ t.up = u.up /\ t.out = u.out /\ t.panic = u.panic
      BY <3>1, <2>3 DEF RunSet
    <3> QED
      BY <3>2, <3>3, <2>9 DEF IsRun, Pushes
  <2>11. NodeOK(r, s, c, H) /\ t.seq \in Nat
    <3>1. s.seq \in Nat /\ NodeOK(r, s, c, H)
      BY DEF RunIn, RunOK, NodeOK
    <3>2. t.seq = s.seq + 1
      BY <2>9, <2>10 DEF Pushes
    <3>3. t.seq \in Nat
      BY <3>1, <3>2
    <3> QED
      BY <3>1, <3>3
  <2>12. NodeOK(r, t, f, H)
    BY <2>f, <2>4, <2>8, <2>10, <2>11 DEF NodeOK
  <2>13. OutOK(t.out, f.stream, H, t.keys) /\ UpOK(t.up, H)
    BY <2>f, <2>4, <2>8, <2>10
  <2>14. KeysOK(H, k)
    BY <2>2, <2>4, KeysMore
  <2>15. RunSafe(t, H)
    BY <2>2, <2>10, <2>14 DEF RunIn, RunSafe
  <2>16. s.keys <= t.keys
    BY <2>2, <2>10
  <2> QED
    BY <1>0, <2>5, <2>10, <2>12, <2>13, <2>15, <2>16 DEF Kept, RunOK
<1> QED
  BY <1>5, <1>6

(* append_master_key: what is appended is the next key.  The gatekeeper    *)
(* has it afterwards, and its assertion holds.                             *)
LEMMA AppendKept ==
  ASSUME NEW r, NEW s, NEW c, NEW H, RunIn(r, s, c, H), s.gk.on, NEW entry,
         c.idx + 1 < Len(H), H[c.idx + 2] = entry
  PROVE  LET v == AppendMasterKey(s, entry) IN
         /\ RunIn(r, v, c, H) /\ v.gk.on /\ v.keys = s.keys
         /\ (s.seal # <<>> => v.seal # <<>>) /\ c.idx + 1 < Len(v.gk.history)
<1>0. PICK v : v = AppendMasterKey(s, entry)
  OBVIOUS
<1>1. /\ IsRun(s) /\ s.keys \in Nat /\ KeysOK(H, s.keys) /\ H \in Seq(Entry)
      /\ s.gk \in Gk /\ s.gk # NoGatekeeper /\ Genuine(s.gk.history, H)
      /\ c.idx \in Nat /\ c.idx < Len(s.gk.history) /\ Len(s.gk.history) \in Nat
      /\ Len(H) \in Nat /\ Len(s.gk.history) <= Len(H)
  BY OnFacts
<1>x. PICK x : x = s.gk.history
  OBVIOUS
<1>2. x \in Seq(Entry) /\ Len(x) \in Nat /\ Extends(x, H)
  BY <1>1, <1>x DEF Genuine
<1>i. c.idx + 2 \in 1..Len(H)
  BY <1>1
<1>3. entry \in Entry /\ entry.id = c.idx + 1
  BY <1>1, <1>i DEF KeysOK
<1>4. \A j \in 1..Len(x) : x[j].id = j - 1
  <2> SUFFICES ASSUME NEW j \in 1..Len(x) PROVE x[j].id = j - 1
    OBVIOUS
  <2>1. x[j] = H[j] /\ j \in 1..Len(H)
    BY SMTT(30), <1>1, <1>2, <1>x DEF Extends
  <2> QED
    BY <2>1, <1>1 DEF KeysOK
<1>5. CASE entry \in Range(x)
  <2>1. v = s
    BY <1>0, <1>5, <1>x DEF AppendMasterKey
  <2>2. PICK j \in 1..Len(x) : x[j] = entry
    BY <1>2, <1>5 DEF Range
  <2>3. j - 1 = c.idx + 1
    BY <2>2, <1>3, <1>4
  <2>4. c.idx + 1 < Len(x)
    BY <2>3, <1>1, <1>2
  <2> QED
    BY <2>1, <2>4, <1>0, <1>x
<1>6. CASE entry \notin Range(x)
  <2>1. Len(x) = c.idx + 1
    <3> SUFFICES ASSUME Len(x) # c.idx + 1 PROVE FALSE
      OBVIOUS
    <3>1. c.idx + 2 \in 1..Len(x)
      BY <1>1, <1>2, <1>x
    <3>2. x[c.idx + 2] = entry
      BY <3>1, <1>2 DEF Extends
    <3> QED
      BY <3>1, <3>2, <1>2, <1>6 DEF Range
  <2> DEFINE y == Append(x, entry)
  <2>2. v = Adopted(s, y)
    BY <2>1, <1>0, <1>3, <1>6, <1>x DEF AppendMasterKey, Adopted
  <2>3. y \in Seq(Entry) /\ Len(y) = c.idx + 2 /\ y # <<>>
    BY SMTT(30), <2>1, <1>2, <1>3, <1>1
  <2>4. \A j \in 1..Len(y) : H[j] = y[j]
    <3> SUFFICES ASSUME NEW j \in 1..Len(y) PROVE H[j] = y[j]
      OBVIOUS
    <3>1. CASE j = c.idx + 2
      BY <3>1, <2>1, <1>2, <1>3, <1>1
    <3>2. CASE j # c.idx + 2
      <4>1. j \in 1..Len(x)
        BY <3>2, <2>1, <2>3, <1>1
      <4> QED
        BY <4>1, <1>2, <1>3 DEF Extends
    <3> QED
      BY <3>1, <3>2
  <2> HIDE DEF y
  <2>5. Genuine(y, H)
    BY <2>3, <2>4, <1>1 DEF Genuine, Extends
  <2>6. /\ IsRun(v) /\ v.seq = s.seq /\ v.dummy = s.dummy /\ v.seal = y
        /\ v.keys = s.keys /\ v.up = s.up /\ v.out = s.out /\ v.panic = s.panic
        /\ v.gk \in Gk /\ v.gk.on /\ v.gk.history = y /\ v.gk.key = s.gk.key
        /\ v.gk.reporter = s.gk.reporter /\ v.gk.launched = s.gk.launched
        /\ v.gk # NoGatekeeper
    BY <2>2, <2>3, <1>1, AdoptedFacts
  <2>7. c.idx + 1 < Len(y) /\ c.idx < Len(y)
    BY <2>3, <1>1
  <2>8. NodeOK(r, s, c, H)
    BY DEF RunIn, RunOK
  <2>9. NodeOK(r, v, c, H)
    BY <2>5, <2>6, <2>7, <2>8, <1>1 DEF NodeOK
  <2>10. RunIn(r, v, c, H)
    BY <2>5, <2>6, <2>9 DEF RunIn, RunOK, RunSafe
  <2> QED
    BY <2>3, <2>6, <2>7, <2>10, <1>0
<1> QED
  BY <1>5, <1>6

(* switch_master_key: a gatekeeper that has the key announces it, signed   *)
(* with the old one, and works with it; another one ceases to be one.      *)
LEMMA SwitchKept ==
  ASSUME NEW r, NEW s, NEW c, NEW H, RunIn(r, s, c, H), s.gk.on, NEW e, NEW h,
         EventOK(c, e, h, H), e.type = "MasterKeyRotation",
         r \in c.gks => c.idx + 1 < Len(s.gk.history)
  PROVE  Kept(r, s, SwitchMasterKey(s, e.id, h), Follow(c, e), H)
<1>0. PICK f : f = Follow(c, e)
  OBVIOUS
<1>d. PICK d : d = Answer(c, e)
  OBVIOUS
<1>1. /\ e.dests = c.gks /\ e.id = c.req /\ c.req = c.idx + 1 /\ c.on
      /\ c.req < Len(H) /\ H[c.req + 1] = RotatedKey(c.req, h, e.key)
  BY DEF EventOK, MasterPubkeyOnChain, Registered, Unregistered, FirstGatekeeper,
         RotateMasterKey, MasterKeyRotation
<1>2. /\ f.on /\ f.launched = c.launched /\ f.idx = c.idx + 1 /\ f.gks = c.gks
      /\ f.keyed = c.keyed \cap c.gks /\ f.stream = Append(c.stream, d)
  BY <1>0, <1>d, <1>1 DEF Follow, Streamed, Answered, RunIn, CanonOK, CanonType
<1>3. d.kind = "RotatedMasterPubkey" /\ d.of = e /\ d.idx = c.idx
  BY <1>d DEF Answer
<1>4. /\ IsRun(s) /\ s.keys \in Nat /\ KeysOK(H, s.keys) /\ H \in Seq(Entry)
      /\ s.panic = "none" /\ OutOK(s.out, c.stream, H, s.keys) /\ UpOK(s.up, H)
      /\ s.gk \in Gk /\ s.gk # NoGatekeeper /\ Genuine(s.gk.history, H)
      /\ c.idx \in Nat /\ c.idx < Len(s.gk.history) /\ Len(s.gk.history) \in Nat
      /\ Len(H) \in Nat /\ Len(s.gk.history) <= Len(H)
      /\ s.gk.key = H[c.idx + 1].key /\ s.gk.reporter = H[1].key
      /\ s.gk.launched = c.launched /\ s.seq = Len(c.stream) /\ s.dummy \in BOOLEAN
      /\ (s.dummy <=> r \notin c.gks) /\ StreamOK(c.stream)
  BY OnFacts
<1>5. s.seq \in Nat
  BY DEF RunIn, RunOK, NodeOK
<1>6. CASE e.id >= Len(s.gk.history)
  <2>1. PICK t : t = [s EXCEPT !.gk = NoGatekeeper]
    OBVIOUS
  <2>2. SwitchMasterKey(s, e.id, h) = t
    BY <2>1, <1>4, <1>6 DEF SwitchMasterKey
  <2>3. /\ IsRun(t) /\ t.gk = NoGatekeeper /\ t.seq = s.seq /\ t.dummy = s.dummy
        /\ t.seal = s.seal /\ t.keys = s.keys /\ t.up = s.up /\ t.out = s.out
        /\ t.panic = s.panic
    BY SMTT(30), <2>1, <1>4, SetGk
  <2>4. r \notin f.keyed
    BY <1>1, <1>2, <1>4, <1>6
  <2>5. NodeOK(r, t, f, H)
    BY <2>3, <2>4, <1>2, <1>4, <1>5 DEF NodeOK
  <2>6. OutOK(s.out, f.stream, H, s.keys)
    BY <1>0, OutFollows
  <2>7. RunSafe(t, H)
    BY <2>3 DEF RunIn, RunSafe
  <2>8. s.keys <= t.keys
    BY <2>3, <1>4
  <2> QED
    BY <1>0, <1>4, <2>2, <2>3, <2>5, <2>6, <2>7, <2>8 DEF Kept, RunOK
<1>7. CASE ~(e.id >= Len(s.gk.history))
  <2>i. c.idx + 2 \in 1..Len(s.gk.history) /\ e.id = c.idx + 1 /\ c.req + 1 = c.idx + 2
        /\ e.id + 1 = c.idx + 2
    BY <1>1, <1>4, <1>7
  <2>1. s.gk.history[e.id + 1] = H[e.id + 1]
    BY <2>i, <1>4 DEF Genuine, Extends
  <2>2. PICK n : n = s.gk.history[e.id + 1]
    OBVIOUS
  <2>3. n.id = e.id /\ n.height = h /\ n = H[c.idx + 2] /\ n \in Entry
    <3>1. n = RotatedKey(c.req, h, e.key)
      BY <2>1, <2>2, <1>1
    <3>2. n.id = e.id /\ n.height = h
      BY <3>1, <1>1 DEF RotatedKey
    <3>3. n = H[c.idx + 2] /\ c.idx + 2 \in 1..Len(H)
      BY <2>1, <2>2, <2>i, <1>4
    <3> QED
      BY <3>2, <3>3, <1>4
  <2> DEFINE p == RotatedMasterPubkey(e.id, n.key)
  <2>4. PICK u : u = Push(s, p, s.gk.key)
    OBVIOUS
  <2>5. Pushes(s, p, s.gk.key, u)
    BY <2>4, <1>4, PushFacts
  <2>6. PICK t : t = [u EXCEPT !.gk.key = n.key]
    OBVIOUS
  <2>7. SwitchMasterKey(s, e.id, h) = t
    BY <2>2, <2>3, <2>4, <2>6, <1>4, <1>7 DEF SwitchMasterKey
  <2>8. Tells(p, d, H, s.keys)
    <3>1. p.type = "RotatedMasterPubkey" /\ p = RotatedMasterPubkey(e.id, H[e.id + 1].key)
      BY <2>1, <2>2 DEF RotatedMasterPubkey
    <3>2. e.id < Len(H)
      BY <1>1
    <3> HIDE DEF p
    <3> QED
      BY <3>1, <3>2, <1>3 DEF Tells
  <2>9. SignerIdx(d) = c.idx
    BY <1>3 DEF SignerIdx
  <2> HIDE DEF p
  <2>10. OutOK(u.out, Append(c.stream, d), H, s.keys) /\ u.seq = Len(Append(c.stream, d))
    <3>1. s.keys <= s.keys /\ SignerIdx(d) < Len(H) /\ s.gk.key = H[SignerIdx(d) + 1].key
      BY <2>9, <1>4
    <3>2. IsDue(s, c.stream, d, H, p, s.gk.key, s.keys)
      BY <3>1, <2>8, <1>4 DEF IsDue
    <3> QED
      BY <3>2, <2>4, Pushing
  <2> DEFINE g == [s.gk EXCEPT !.key = n.key]
  <2>11. /\ g \in Gk /\ g.history = s.gk.history /\ g.key = n.key /\ g.on
         /\ g.reporter = s.gk.reporter /\ g.launched = s.gk.launched
    BY <2>3, <1>4 DEF Gk, Entry
  <2>12. t = [u EXCEPT !.gk = g]
    BY <2>5, <2>6 DEF Pushes
  <2> HIDE DEF g
  <2>13. g # NoGatekeeper
    BY <2>11 DEF NoGatekeeper
  <2>14. /\ IsRun(t) /\ t.gk = g /\ t.seq = u.seq /\ t.dummy = u.dummy
         /\ t.seal = u.seal /\ t.keys = u.keys /\ t.up = u.up /\ t.out = u.out
         /\ t.panic = u.panic
    <3>1. IsRun(u)
      BY <2>5 DEF Pushes
    <3> QED
      BY <3>1, <2>12, SetGk
  <2>15. /\ t.seq = s.seq + 1 /\ t.dummy = s.dummy /\ t.seal = s.seal /\ t.keys = s.keys
         /\ t.up = s.up /\ t.panic = s.panic
    BY <2>5, <2>14 DEF Pushes
  <2>16. t.seq \in Nat /\ c.idx + 1 < Len(s.gk.history)
    BY SMTT(30), <2>15, <1>5, <2>i, <1>4
  <2>17. NodeOK(r, s, c, H)
    BY DEF RunIn, RunOK
  <2>18. g.key = H[f.idx + 1].key /\ f.idx < Len(g.history)
    <3>1. f.idx + 1 = c.idx + 2
      BY <1>2, <1>4
    <3> QED
      BY <3>1, <2>3, <2>11, <2>16, <1>2
  <2>19. NodeOK(r, t, f, H)
    BY <2>10, <2>11, <2>13, <2>14, <2>15, <2>16, <2>17, <2>18, <1>2, <1>4 DEF NodeOK
  <2>20. OutOK(t.out, f.stream, H, t.keys) /\ UpOK(t.up, H)
    BY <2>10, <2>14, <2>15, <1>2, <1>4
  <2>21. RunSafe(t, H)
    BY <2>14, <2>15 DEF RunIn, RunSafe
  <2>22. s.keys <= t.keys
    BY <2>15, <1>4
  <2> QED
    BY <1>0, <2>7, <2>15, <2>19, <2>20, <2>21, <2>22 DEF Kept, RunOK
<1> QED
  BY <1>6, <1>7

(* process_batch_rotate_master_key: none of its assertions fails.          *)
LEMMA MasterKeyRotationKept ==
  ASSUME NEW r, NEW b, NEW s, NEW c, NEW H, RunIn(r, s, c, H), NEW e, NEW h,
         EventOK(c, e, h, H), e.type = "MasterKeyRotation", e.sender \in b.gatekeepers
  PROVE  Kept(r, s, OnMasterKeyRotation(r, b, h, s, e), Follow(c, e), H)
<1>1. /\ e.dests = c.gks /\ e.id = c.req /\ c.req = c.idx + 1 /\ c.on
      /\ c.req < Len(H) /\ H[c.req + 1] = RotatedKey(e.id, h, e.key) /\ c.gks \subseteq c.keyed
  BY DEF EventOK, MasterPubkeyOnChain, Registered, Unregistered, FirstGatekeeper,
         RotateMasterKey, MasterKeyRotation
<1>2. CASE ~s.gk.on
  <2>1. r \notin e.dests
    <3>1. NodeOK(r, s, c, H)
      BY DEF RunIn, RunOK
    <3>2. s.gk = NoGatekeeper
      BY <3>1, <1>2, OnOrOff
    <3> QED
      BY <3>1, <3>2, <1>1 DEF NodeOK
  <2>2. OnMasterKeyRotation(r, b, h, s, e) = s
    BY <2>1, <1>2 DEF OnMasterKeyRotation
  <2>3. Follow(c, e).keyed = c.keyed \cap e.dests
    BY DEF Follow
  <2> QED
    BY <2>2, <2>3, <1>2, StaysOff
<1>3. CASE s.gk.on /\ r \in e.dests
  <2> DEFINE n == RotatedKey(e.id, h, e.key)
  <2>1. PICK v : v = AppendMasterKey(s, n)
    OBVIOUS
  <2>2. OnMasterKeyRotation(r, b, h, s, e) = SwitchMasterKey(v, e.id, h)
    BY <2>1, <1>3 DEF OnMasterKeyRotation
  <2> HIDE DEF n
  <2>3. c.idx \in Nat /\ c.idx + 1 < Len(H) /\ H[c.idx + 2] = n
    <3>1. c.idx \in Nat
      BY DEF RunIn, CanonOK, CanonType
    <3> QED
      BY <3>1, <1>1 DEF n
  <2>4. /\ RunIn(r, v, c, H) /\ v.gk.on /\ v.keys = s.keys
        /\ (s.seal # <<>> => v.seal # <<>>) /\ c.idx + 1 < Len(v.gk.history)
    BY <2>1, <2>3, <1>3, AppendKept
  <2>5. Kept(r, v, SwitchMasterKey(v, e.id, h), Follow(c, e), H)
    BY <2>4, SwitchKept
  <2> QED
    BY <2>2, <2>4, <2>5 DEF Kept
<1>4. CASE s.gk.on /\ r \notin e.dests
  <2>1. OnMasterKeyRotation(r, b, h, s, e) = SwitchMasterKey(s, e.id, h)
    BY <1>4 DEF OnMasterKeyRotation
  <2> QED
    BY <2>1, <1>1, <1>4, SwitchKept
<1> QED
  BY <1>2, <1>3, <1>4

(* The keys have not changed, or the first one was generated.              *)
Grown(H, G) == G \in Seq(Entry) /\ (G = H \/ (H = <<>> /\ Len(G) = 1))

(* A pRuntime that starts as a gatekeeper.                                 *)
Launch(r, s, e, x) ==
  LET sealed == [s EXCEPT !.seal = x,
                          !.keys = IF x = s.seal THEN @ ELSE @ + 1,
                          !.up = IF r = e.gk THEN @ \cup {x[1].key} ELSE @]
  IN  [sealed EXCEPT !.gk = NewGatekeeper(x), !.dummy = r # e.gk]

Launches(r, s, e, x, t) ==
  /\ IsRun(t) /\ t.gk = NewGatekeeper(x) /\ t.dummy = (r # e.gk) /\ t.seq = s.seq
  /\ t.seal = x /\ t.out = s.out /\ t.panic = s.panic
  /\ t.keys = (IF x = s.seal THEN s.keys ELSE s.keys + 1)
  /\ t.up = (IF r = e.gk THEN s.up \cup {x[1].key} ELSE s.up)

(* What it consists of.                                                    *)
LEMMA LaunchFacts ==
  ASSUME NEW r, NEW s, NEW e, NEW x, IsRun(s)
  PROVE  Launches(r, s, e, x, Launch(r, s, e, x))
<1>0. PICK t : t = Launch(r, s, e, x)
  OBVIOUS
<1> DEFINE k == IF x = s.seal THEN s.keys ELSE s.keys + 1
           w == IF r = e.gk THEN s.up \cup {x[1].key} ELSE s.up
           g == NewGatekeeper(x)
           d == r # e.gk
           u == [s EXCEPT !.seal = x, !.keys = k, !.up = w]
<1>1. t = [u EXCEPT !.gk = g, !.dummy = d]
  BY <1>0 DEF Launch
<1>2. PICK X : s \in RunSet(X)
  BY DEF IsRun
<1> HIDE DEF k, w, g, d
<1>3. u \in RunSet(X \cup {x, k, w})
  BY <1>2 DEF RunSet
<1>4. /\ u.gk = s.gk /\ u.seq = s.seq /\ u.dummy = s.dummy /\ u.seal = x
      /\ u.keys = k /\ u.up = w /\ u.out = s.out /\ u.panic = s.panic
  BY <1>2 DEF RunSet
<1> HIDE DEF u
<1>5. t \in RunSet((X \cup {x, k, w}) \cup {g, d})
  BY <1>1, <1>3 DEF RunSet
<1>6. /\ t.gk = g /\ t.seq = u.seq /\ t.dummy = d /\ t.seal = u.seal
      /\ t.keys = u.keys /\ t.up = u.up /\ t.out = u.out /\ t.panic = u.panic
  BY <1>1, <1>3 DEF RunSet
<1>7. Launches(r, s, e, x, t)
  BY <1>4, <1>5, <1>6 DEF IsRun, Launches, k, w, g, d
<1> QED
  BY <1>0, <1>7

(* A pRuntime that starts as a gatekeeper with the keys of G is one.       *)
LEMMA LaunchKept ==
  ASSUME NEW r, NEW s, NEW c, NEW H, RunIn(r, s, c, H), NEW e, NEW h, EventOK(c, e, h, H),
         e.type = "FirstGatekeeper", NEW G, NEW x, Genuine(x, G), x # <<>>,
         Grown(H, G), KeysOK(G, IF x = s.seal THEN s.keys ELSE s.keys + 1)
  PROVE  Kept(r, s, Launch(r, s, e, x), Follow(c, e), G) /\ Launch(r, s, e, x).seal = x
<1>0. PICK f : f = Follow(c, e)
  OBVIOUS
<1>t. PICK t : t = Launch(r, s, e, x)
  OBVIOUS
<1>1. ~c.on
  BY DEF EventOK, MasterPubkeyOnChain, Registered, Unregistered, FirstGatekeeper,
         RotateMasterKey
<1>2. c.stream = <<>> /\ c.idx = 0 /\ c.gks = {} /\ ~c.launched /\ c.launched \in BOOLEAN
  BY <1>1 DEF RunIn, CanonOK, CanonType
<1>3. /\ f.on /\ f.launched = FALSE /\ f.idx = 0 /\ f.gks = {e.gk} /\ f.stream = c.stream
  BY <1>0, <1>1, <1>2 DEF Follow, Streamed, Answered
<1>4. IsRun(s) /\ s.keys \in Nat /\ s.panic = "none" /\ H \in Seq(Entry)
  BY DEF RunIn, RunSafe, KeysOK
<1>5. /\ IsRun(t) /\ t.gk = NewGatekeeper(x) /\ t.dummy = (r # e.gk) /\ t.seq = s.seq
      /\ t.seal = x /\ t.out = s.out /\ t.panic = s.panic
      /\ t.keys = (IF x = s.seal THEN s.keys ELSE s.keys + 1)
      /\ t.up = (IF r = e.gk THEN s.up \cup {x[1].key} ELSE s.up)
  <2>1. Launches(r, s, e, x, t)
    BY <1>t, <1>4, LaunchFacts
  <2> QED
    BY <2>1 DEF Launches
<1>6. t.keys \in Nat /\ s.keys <= t.keys /\ KeysOK(G, t.keys)
  BY <1>4, <1>5
<1>7. x \in Seq(Entry) /\ Len(x) \in Nat /\ Len(x) > 0 /\ G \in Seq(Entry) /\ Len(G) \in Nat
      /\ Len(x) <= Len(G) /\ x[1] = G[1] /\ x[1] \in Entry /\ G # <<>>
  BY DEF Genuine, Extends, Grown
<1>8. Extends(H, G)
  <2>1. Extends(G, G) /\ Extends(<<>>, G)
    BY <1>7, SeqIsAny, ExtendsFacts
  <2> QED
    BY <2>1 DEF Grown
<1>9. OutOK(t.out, f.stream, G, t.keys)
  <2>1. StreamOK(c.stream) /\ AnySeq(c.stream) /\ OutOK(s.out, c.stream, H, s.keys)
    BY DEF RunIn, RunOK, CanonOK, StreamOK
  <2>2. Extends(c.stream, c.stream)
    BY <2>1, ExtendsFacts
  <2>3. OutOK(s.out, c.stream, G, t.keys)
    BY <2>1, <2>2, <1>4, <1>6, <1>7, <1>8, OutExtends
  <2> QED
    BY <2>3, <1>3, <1>5
<1>10. UpOK(t.up, G)
  <2>1. UpOK(s.up, G)
    <3>1. UpOK(s.up, H)
      BY DEF RunIn, RunOK
    <3> QED
      BY <3>1, <1>7 DEF UpOK, Grown
  <2> QED
    BY <2>1, <1>5, <1>7 DEF UpOK
<1>g. PICK g : g = NewGatekeeper(x)
  OBVIOUS
<1>11. /\ g \in Gk /\ g.history = x /\ g.key = G[1].key /\ g.reporter = G[1].key
       /\ g.launched = FALSE /\ g.on
  <2>1. x[1].key \in Nat
    BY <1>7 DEF Entry
  <2> QED
    BY <2>1, <1>g, <1>7 DEF NewGatekeeper, Gk, Entry
<1>12. g # NoGatekeeper
  BY <1>11 DEF NoGatekeeper
<1>13. t.seq = 0 /\ Len(f.stream) = 0
  <2>1. s.seq = 0
    BY <1>1 DEF RunIn, RunOK, NodeOK
  <2> QED
    BY <2>1, <1>2, <1>3, <1>5
<1>14. t.dummy \in BOOLEAN /\ (t.dummy <=> r \notin f.gks)
  BY <1>3, <1>5
<1>15. NodeOK(r, t, f, G)
  <2>1. t.gk = g /\ 0 < Len(x) /\ f.idx + 1 = 1
    BY <1>g, <1>3, <1>5, <1>7
  <2>2. t.gk # NoGatekeeper /\ t.gk \in Gk /\ t.gk.history = x
        /\ t.gk.key = G[f.idx + 1].key /\ t.gk.reporter = G[1].key
        /\ t.gk.launched = f.launched /\ f.idx < Len(t.gk.history)
    BY <2>1, <1>3, <1>11, <1>12
  <2>3. t.seq \in Nat /\ t.seq = Len(f.stream)
    BY <1>13
  <2> QED
    BY <2>2, <2>3, <1>3, <1>14 DEF NodeOK
<1>16. RunSafe(t, G)
  BY <1>4, <1>5, <1>6 DEF RunSafe, BadPanics
<1> QED
  BY <1>0, <1>t, <1>5, <1>6, <1>9, <1>10, <1>15, <1>16 DEF Kept, RunOK

(* init_gatekeeper: the first gatekeeper generates the first key, once.    *)
LEMMA FirstKept ==
  ASSUME NEW r, NEW b, NEW s, NEW c, NEW H, RunIn(r, s, c, H), NEW e, NEW h,
         EventOK(c, e, h, H), e.type = "FirstGatekeeper",
         r = e.gk /\ H # <<>> => s.seal # <<>>
  PROVE  \E G : /\ Grown(H, G)
                /\ Kept(r, s, OnFirstGatekeeper(r, b, s, e), Follow(c, e), G)
                /\ H = <<>> /\ G # <<>> =>
                     r = e.gk /\ OnFirstGatekeeper(r, b, s, e).seal # <<>>
<1>1. s.keys \in Nat /\ H \in Seq(Entry) /\ KeysOK(H, s.keys) /\ Genuine(s.seal, H)
      /\ RunSafe(s, H)
  BY DEF RunIn, RunSafe, KeysOK
<1>2. Grown(H, H)
  BY <1>1 DEF Grown
<1>3. CASE e.gk \notin b.gatekeepers
  <2>1. OnFirstGatekeeper(r, b, s, e) = Panic(s, "System state poisoned")
    BY <1>3 DEF OnFirstGatekeeper
  <2>2. Kept(r, s, Panic(s, "System state poisoned"), Follow(c, e), H)
    BY <1>1, PanicKept DEF BadPanics
  <2> QED
    BY <2>1, <2>2, <1>2
<1>4. CASE e.gk \in b.gatekeepers /\ s.seal # <<>>
  <2>1. OnFirstGatekeeper(r, b, s, e) = Launch(r, s, e, s.seal)
    BY <1>4 DEF OnFirstGatekeeper, Launch
  <2>2. Kept(r, s, Launch(r, s, e, s.seal), Follow(c, e), H)
    BY <1>1, <1>2, <1>4, LaunchKept
  <2>3. H # <<>>
    BY <1>1, <1>4 DEF Genuine, Extends
  <2> QED
    BY <2>1, <2>2, <2>3, <1>2
<1>5. CASE e.gk \in b.gatekeepers /\ s.seal = <<>> /\ r # e.gk
  <2>1. OnFirstGatekeeper(r, b, s, e) = s
    BY <1>5 DEF OnFirstGatekeeper
  <2>2. ~c.on
    BY DEF EventOK, MasterPubkeyOnChain, Registered, Unregistered, FirstGatekeeper,
           RotateMasterKey
  <2>3. ~s.gk.on
    <3>1. NodeOK(r, s, c, H)
      BY DEF RunIn, RunOK
    <3> QED
      BY <3>1, <2>2, OnOrOff
  <2>4. Follow(c, e).keyed = c.keyed \cup {e.gk}
    BY DEF Follow
  <2>5. Kept(r, s, s, Follow(c, e), H)
    BY <2>3, <2>4, <1>5, StaysOff
  <2> QED
    BY <2>1, <2>5, <1>2
<1>6. CASE e.gk \in b.gatekeepers /\ s.seal = <<>> /\ r = e.gk
  <2>n. PICK n : n = RotatedKey(0, 0, s.keys + 1)
    OBVIOUS
  <2>x. PICK x : x = <<n>>
    OBVIOUS
  <2>1. n \in Entry /\ n.key = s.keys + 1 /\ n.id = 0 /\ n.height = 0
    BY <2>n, <1>1 DEF RotatedKey, Entry
  <2>2. x \in Seq(Entry) /\ Len(x) = 1 /\ x[1] = n /\ x # <<>>
    BY <2>x, <2>1
  <2>3. OnFirstGatekeeper(r, b, s, e) = Launch(r, s, e, x)
    BY <1>6, <2>n, <2>x, <2>2 DEF OnFirstGatekeeper, Launch
  <2>4. Genuine(x, x) /\ H = <<>>
    BY <2>2, <1>6, SeqIsAny, ExtendsFacts DEF Genuine
  <2>5. KeysOK(x, IF x = s.seal THEN s.keys ELSE s.keys + 1)
    BY <2>1, <2>2, <1>1, <1>6 DEF KeysOK
  <2>6. Grown(H, x)
    BY <2>2, <2>4 DEF Grown
  <2>7. Kept(r, s, Launch(r, s, e, x), Follow(c, e), x) /\ Launch(r, s, e, x).seal = x
    BY <2>2, <2>4, <2>5, <2>6, LaunchKept
  <2> QED
    BY <2>2, <2>3, <2>6, <2>7, <1>6
<1> QED
  BY <1>3, <1>4, <1>5, <1>6

(* Events stay possible when the keys go on.                               *)
LEMMA EventExtends ==
  ASSUME NEW c, NEW e, NEW h, NEW H \in Seq(Entry), NEW G \in Seq(Entry), Extends(H, G),
         c.req \in Nat, EventOK(c, e, h, H)
  PROVE  EventOK(c, e, h, G)
<1>0. Len(H) \in Nat /\ Len(G) \in Nat /\ Len(H) <= Len(G)
  BY DEF Extends
<1>1. CASE H # <<>> /\ e = MasterPubkeyOnChain(H[1].key) /\ c.on /\ c.idx = 0
  <2>1. 1 \in 1..Len(H)
    BY <1>0, <1>1
  <2>2. H[1] = G[1] /\ G # <<>>
    BY <2>1, <1>0 DEF Extends
  <2> QED
    BY <2>2, <1>1 DEF EventOK
<1>2. CASE e.type = "MasterKeyHistory"
  <2>1. /\ c.on /\ e.dest \in Workers /\ e = MasterKeyHistory(e.dest, e.history)
        /\ Genuine(e.history, H) /\ e.history # <<>>
    BY <1>2 DEF EventOK, MasterPubkeyOnChain, Registered, Unregistered, FirstGatekeeper,
         RotateMasterKey
  <2>2. Genuine(e.history, G)
    BY <2>1, GenuineExtends
  <2> QED
    BY <2>1, <2>2, <1>2 DEF EventOK
<1>3. CASE e.type = "MasterKeyRotation"
  <2>1. /\ c.on /\ c.req = c.idx + 1
        /\ e = MasterKeyRotation(c.req, e.key, c.gks, e.sender)
        /\ c.req < Len(H) /\ H[c.req + 1] = RotatedKey(c.req, h, e.key)
        /\ c.gks \subseteq c.keyed
    BY <1>3 DEF EventOK, MasterPubkeyOnChain, Registered, Unregistered, FirstGatekeeper,
         RotateMasterKey
  <2>2. c.req + 1 \in 1..Len(H)
    BY <2>1, <1>0
  <2>3. G[c.req + 1] = H[c.req + 1] /\ c.req < Len(G)
    BY <2>1, <2>2, <1>0 DEF Extends
  <2> QED
    BY <2>1, <2>3, <1>3 DEF EventOK
<1>4. CASE /\ e.type \notin {"MasterKeyHistory", "MasterKeyRotation"}
           /\ ~(H # <<>> /\ e = MasterPubkeyOnChain(H[1].key) /\ c.on /\ c.idx = 0)
  BY <1>4 DEF EventOK
<1> QED
  BY <1>1, <1>2, <1>3, <1>4

Meets(r, b, s, c, H, e, h) ==
  /\ RunSafe(s, H) /\ (s.panic = "none" => RunOK(r, s, c, H)) /\ CanonOK(c)
  /\ EventOK(c, e, h, H)
  /\ e.type = "MasterKeyRotation" => e.sender \in b.gatekeepers
  /\ e.type = "FirstGatekeeper" /\ r = e.gk /\ H # <<>> => s.seal # <<>>

(* System::process_messages keeps a pRuntime as its account says.          *)
LEMMA EventKept ==
  ASSUME NEW r, NEW b, NEW s, NEW c, NEW H, NEW e, NEW h, Meets(r, b, s, c, H, e, h)
  PROVE  \E G : /\ Grown(H, G)
                /\ Kept(r, s, SystemEvent(r, b, h, s, e), Follow(c, e), G)
                /\ H = <<>> /\ G # <<>> =>
                     /\ e.type = "FirstGatekeeper" /\ r = e.gk
                     /\ SystemEvent(r, b, h, s, e).seal # <<>>
<1> USE DEF Meets
<1>1. Grown(H, H)
  BY DEF RunSafe, KeysOK, Grown
<1>2. CASE s.panic # "none"
  <2>1. SystemEvent(r, b, h, s, e) = s
    BY <1>2 DEF SystemEvent
  <2>2. s.keys \in Nat
    BY DEF RunSafe
  <2>3. s.keys <= s.keys
    BY <2>2
  <2> QED
    BY <2>1, <2>3, <1>1, <1>2 DEF Kept
<1>3. CASE s.panic = "none"
  <2>0. RunIn(r, s, c, H)
    BY <1>3 DEF RunIn
  <2> SUFFICES ASSUME e.type # "FirstGatekeeper"
               PROVE  Kept(r, s, SystemEvent(r, b, h, s, e), Follow(c, e), H)
    <3>1. CASE e.type = "FirstGatekeeper"
      <4>1. SystemEvent(r, b, h, s, e) = OnFirstGatekeeper(r, b, s, e)
        BY <3>1, <1>3 DEF SystemEvent
      <4> QED
        BY <4>1, <3>1, <2>0, FirstKept
    <3> QED
      BY <3>1, <1>1
  <2>1. CASE e.type = "MasterPubkeyOnChain"
    <3>1. SystemEvent(r, b, h, s, e) = OnMasterPubkeyOnChain(s, e)
      BY <2>1, <1>3 DEF SystemEvent
    <3> QED
      BY <3>1, <2>0, <2>1, MasterPubkeyKept
  <2>2. CASE e.type = "Registered"
    <3>1. SystemEvent(r, b, h, s, e) = OnRegistered(r, b, s, e)
      BY <2>2, <1>3 DEF SystemEvent
    <3> QED
      BY <3>1, <2>0, <2>2, RegisteredKept
  <2>3. CASE e.type = "Unregistered"
    <3>1. SystemEvent(r, b, h, s, e) = OnUnregistered(r, s, e)
      BY <2>3, <1>3 DEF SystemEvent
    <3> QED
      BY <3>1, <2>0, <2>3, UnregisteredKept
  <2>4. CASE e.type = "RotateMasterKey"
    <3>1. SystemEvent(r, b, h, s, e) = OnRotateMasterKey(r, s, e)
      BY <2>4, <1>3 DEF SystemEvent
    <3> QED
      BY <3>1, <2>0, <2>4, RotateKept
  <2>5. CASE e.type = "MasterKeyHistory"
    <3>1. SystemEvent(r, b, h, s, e) = OnMasterKeyHistory(r, s, e)
      BY <2>5, <1>3 DEF SystemEvent
    <3> QED
      BY <3>1, <2>0, <2>5, HistoryKept
  <2>6. CASE e.type = "MasterKeyRotation"
    <3>1. SystemEvent(r, b, h, s, e) = OnMasterKeyRotation(r, b, h, s, e)
      BY <2>6, <1>3 DEF SystemEvent
    <3> QED
      BY <3>1, <2>0, <2>6, MasterKeyRotationKept
  <2>7. CASE e.type = "NewRandomNumber"
    <3>1. SystemEvent(r, b, h, s, e) = OnNewRandomNumber(s, e)
      BY <2>7, <1>3 DEF SystemEvent
    <3>2. OnNewRandomNumber(s, e) = s \/ OnNewRandomNumber(s, e) = Panic(s, "GK state poisoned")
      BY DEF OnNewRandomNumber
    <3> QED
      BY <3>1, <3>2, <2>0, <2>7, RandomKept
  <2>8. CASE e.type = "Settle"
    <3>1. SystemEvent(r, b, h, s, e) = s
      BY <2>8, <1>3 DEF SystemEvent
    <3> QED
      BY <3>1, <2>0, <2>8, RandomKept
  <2>9. e.type \in {"FirstGatekeeper", "MasterPubkeyOnChain", "Registered", "Unregistered",
                    "RotateMasterKey", "MasterKeyHistory", "MasterKeyRotation",
                    "NewRandomNumber", "Settle"}
    BY DEF EventOK, MasterPubkeyOnChain, Registered, Unregistered, FirstGatekeeper,
           RotateMasterKey
  <2> QED
    BY <2>1, <2>2, <2>3, <2>4, <2>5, <2>6, <2>7, <2>8, <2>9
<1> QED
  BY <1>2, <1>3

EndsWith(r, s, c, f, H, p, d, signer) ==
  /\ RunIn(r, s, c, H) /\ s.gk.on /\ CanonOK(f) /\ SameChain(c, f)
  /\ f.stream = Append(c.stream, d) /\ Tells(p, d, H, s.keys)
  /\ SignerIdx(d) < Len(H) /\ signer = H[SignerIdx(d) + 1].key

(* A message at the end of a block.                                        *)
LEMMA PushedRun ==
  ASSUME NEW r, NEW s, NEW c, NEW f, NEW H, NEW p, NEW d, NEW signer,
         EndsWith(r, s, c, f, H, p, d, signer)
  PROVE  /\ RunIn(r, Push(s, p, signer), f, H)
         /\ Push(s, p, signer).gk = s.gk /\ Push(s, p, signer).keys = s.keys
         /\ Push(s, p, signer).seal = s.seal
<1> USE DEF EndsWith
<1>1. /\ IsRun(s) /\ s.keys \in Nat /\ KeysOK(H, s.keys) /\ H \in Seq(Entry)
      /\ s.panic = "none" /\ OutOK(s.out, c.stream, H, s.keys) /\ UpOK(s.up, H)
      /\ s.gk # NoGatekeeper /\ s.seq = Len(c.stream) /\ StreamOK(c.stream) /\ c.on
  BY OnFacts
<1>2. PICK u : u = Push(s, p, signer)
  OBVIOUS
<1>3. Pushes(s, p, signer, u)
  BY <1>1, <1>2, PushFacts
<1>4. s.keys <= s.keys
  BY <1>1
<1>5. IsDue(s, c.stream, d, H, p, signer, s.keys)
  BY <1>1, <1>4 DEF IsDue
<1>6. OutOK(u.out, f.stream, H, s.keys) /\ u.seq = Len(f.stream)
  BY <1>2, <1>5, Pushing
<1>7. u.seq \in Nat
  <2>1. s.seq \in Nat
    BY DEF RunIn, RunOK, NodeOK
  <2>2. u.seq = s.seq + 1
    BY <1>3 DEF Pushes
  <2> QED
    BY <2>1, <2>2
<1>8. f.launched = c.launched /\ f.on
  <2>1. f.launched \in BOOLEAN /\ c.launched \in BOOLEAN /\ (f.launched <=> c.launched)
    BY DEF RunIn, CanonOK, CanonType, SameChain
  <2> QED
    BY <2>1, <1>1 DEF SameChain
<1>9. u.gk = s.gk /\ u.dummy = s.dummy
  BY <1>3 DEF Pushes
<1>10. NodeOK(r, u, f, H)
  <2>1. NodeOK(r, s, c, H)
    BY DEF RunIn, RunOK
  <2> QED
    BY <2>1, <1>1, <1>6, <1>7, <1>8, <1>9 DEF NodeOK, SameChain
<1>11. RunIn(r, u, f, H)
  BY <1>1, <1>3, <1>6, <1>10 DEF RunIn, RunSafe, RunOK, Pushes
<1> QED
  BY <1>2, <1>3, <1>11 DEF Pushes

(* The same when nothing is pushed.                                        *)
LEMMA UnpushedRun ==
  ASSUME NEW r, NEW s, NEW c, NEW f, NEW H, RunIn(r, s, c, H), CanonOK(f), SameChain(c, f),
         Extends(c.stream, f.stream), s.gk.on => f.stream = c.stream
  PROVE  RunIn(r, s, f, H)
<1>1. StreamOK(c.stream) /\ AnySeq(f.stream) /\ H \in Seq(Entry) /\ s.keys \in Nat
      /\ OutOK(s.out, c.stream, H, s.keys)
  BY DEF RunIn, RunOK, RunSafe, KeysOK, CanonOK, StreamOK
<1>2. s.keys <= s.keys /\ Extends(H, H)
  BY <1>1, SeqIsAny, ExtendsFacts
<1>3. OutOK(s.out, f.stream, H, s.keys)
  BY <1>1, <1>2, OutExtends
<1>4. f.launched = c.launched
  <2>1. f.launched \in BOOLEAN /\ c.launched \in BOOLEAN /\ (f.launched <=> c.launched)
    BY DEF RunIn, CanonOK, CanonType, SameChain
  <2> QED
    BY <2>1
<1>5. NodeOK(r, s, c, H)
  BY DEF RunIn, RunOK
<1>6. NodeOK(r, s, f, H)
  <2>1. CASE s.gk = NoGatekeeper
    BY <2>1, <1>5 DEF NodeOK, SameChain
  <2>2. CASE s.gk # NoGatekeeper
    <3>1. f.stream = c.stream /\ c.on
      BY <2>2, <1>5, OnOrOff
    <3> QED
      BY <3>1, <2>2, <1>4, <1>5 DEF NodeOK, SameChain
  <2> QED
    BY <2>1, <2>2
<1> QED
  BY <1>3, <1>6 DEF RunIn, RunOK

(* Gatekeeper::did_process_block pushes what the account says.             *)
LEMMA DidKept ==
  ASSUME NEW r, NEW b, NEW h, NEW s, NEW c, NEW H,
         RunSafe(s, H), s.panic = "none" => RunOK(r, s, c, H), CanonOK(c)
  PROVE  Kept(r, s, DidProcessBlock(b, h, s), AfterBlock(c, b, h), H)
<1>0. s.keys \in Nat
  BY DEF RunSafe
<1>1. s.keys <= s.keys
  BY <1>0
<1>c. PICK d : d = AfterReport(c, b)
  OBVIOUS
<1>f. PICK f : f = AfterRandom(d, h)
  OBVIOUS
<1>2. CanonOK(d) /\ SameChain(c, d) /\ Extends(c.stream, d.stream)
  BY <1>c, AfterReportCanon
<1>3. CanonOK(f) /\ SameChain(d, f) /\ Extends(d.stream, f.stream)
  BY <1>2, <1>f, AfterRandomCanon
<1>4. AfterBlock(c, b, h) = f
  BY <1>c, <1>f DEF AfterBlock
<1>5. CASE s.panic # "none"
  <2>1. DidProcessBlock(b, h, s) = s
    BY <1>5 DEF DidProcessBlock
  <2> QED
    BY <2>1, <1>1, <1>5 DEF Kept
<1>6. CASE s.panic = "none" /\ ~s.gk.on
  <2>1. DidProcessBlock(b, h, s) = s
    BY <1>6 DEF DidProcessBlock
  <2>2. RunIn(r, s, c, H)
    BY <1>6 DEF RunIn
  <2>3. RunIn(r, s, d, H)
    BY <2>2, <1>2, <1>6, UnpushedRun
  <2>4. RunIn(r, s, f, H)
    BY <2>3, <1>3, <1>6, UnpushedRun
  <2> QED
    BY <2>1, <2>4, <1>1, <1>4 DEF Kept, RunIn
<1>7. CASE s.panic = "none" /\ s.gk.on
  <2> DEFINE due == s.gk.launched /\ Settle \in Range(b.events)
  <2>1. PICK u : u = IF due THEN Push(s, Report, s.gk.reporter) ELSE s
    OBVIOUS
  <2>2. PICK t : t = IF h \in RandomBlocks
                     THEN Push(u, NewRandomNumber(h, s.gk.key), s.gk.key) ELSE u
    OBVIOUS
  <2>3. DidProcessBlock(b, h, s) = t
    BY <2>1, <2>2, <1>7 DEF DidProcessBlock
  <2>4. RunIn(r, s, c, H)
    BY <1>7 DEF RunIn
  <2>5. /\ c.on /\ s.gk.launched = c.launched /\ c.idx \in Nat
        /\ c.idx < Len(s.gk.history) /\ Len(s.gk.history) \in Nat
        /\ Len(H) \in Nat /\ Len(s.gk.history) <= Len(H)
        /\ s.gk.key = H[c.idx + 1].key /\ s.gk.reporter = H[1].key
    BY <2>4, <1>7, OnFacts
  <2>6. RunIn(r, u, d, H) /\ u.gk = s.gk /\ u.keys = s.keys /\ u.seal = s.seal
    <3>1. CASE due
      <4>1. d = WithStream(c, Pushed(c, "Report"))
        BY <3>1, <2>5, <1>c DEF AfterReport
      <4>2. PICK x : x = [kind |-> "Report", of |-> Settle, idx |-> c.idx]
        OBVIOUS
      <4>3. d.stream = Append(c.stream, x) /\ x.kind = "Report"
        BY <4>1, <4>2 DEF WithStream, Pushed
      <4>4. Tells(Report, x, H, s.keys) /\ SignerIdx(x) = 0
        BY <4>3 DEF Tells, Report, SignerIdx
      <4>5. SignerIdx(x) < Len(H) /\ s.gk.reporter = H[SignerIdx(x) + 1].key
        BY <4>4, <2>5
      <4>6. /\ RunIn(r, Push(s, Report, s.gk.reporter), d, H)
            /\ Push(s, Report, s.gk.reporter).gk = s.gk
            /\ Push(s, Report, s.gk.reporter).keys = s.keys
            /\ Push(s, Report, s.gk.reporter).seal = s.seal
        <5>1. EndsWith(r, s, c, d, H, Report, x, s.gk.reporter)
          BY <4>3, <4>4, <4>5, <2>4, <1>2, <1>7 DEF EndsWith
        <5> QED
          BY <5>1, PushedRun
      <4>7. u = Push(s, Report, s.gk.reporter)
        BY <3>1, <2>1
      <4> QED
        BY <4>6, <4>7
    <3>2. CASE ~due
      <4>1. d = WithStream(c, c.stream)
        BY <3>2, <2>5, <1>c DEF AfterReport
      <4>2. d.stream = c.stream
        BY <4>1 DEF WithStream
      <4>3. RunIn(r, s, d, H)
        BY <4>2, <2>4, <1>2, UnpushedRun
      <4> QED
        BY <4>3, <3>2, <2>1
    <3> QED
      BY <3>1, <3>2
  <2>7. d.on /\ d.idx = c.idx
    BY <2>5, <1>2 DEF SameChain
  <2>8. RunIn(r, t, f, H) /\ t.keys = u.keys /\ t.seal = u.seal
    <3>1. CASE h \in RandomBlocks
      <4>1. f = WithStream(d, Pushed(d, "NewRandomNumber"))
        BY <3>1, <2>7, <1>f DEF AfterRandom
      <4>2. PICK x : x = [kind |-> "NewRandomNumber", of |-> Settle, idx |-> d.idx]
        OBVIOUS
      <4>3. f.stream = Append(d.stream, x) /\ x.kind = "NewRandomNumber" /\ x.idx = c.idx
        BY <4>1, <4>2, <2>7 DEF WithStream, Pushed
      <4>p. PICK p : p = NewRandomNumber(h, s.gk.key)
        OBVIOUS
      <4>4. Tells(p, x, H, u.keys) /\ SignerIdx(x) = c.idx
        BY <4>3, <4>p DEF Tells, NewRandomNumber, SignerIdx
      <4>5. SignerIdx(x) < Len(H) /\ s.gk.key = H[SignerIdx(x) + 1].key
        BY <4>4, <2>5
      <4>6. /\ RunIn(r, Push(u, p, s.gk.key), f, H)
            /\ Push(u, p, s.gk.key).keys = u.keys
            /\ Push(u, p, s.gk.key).seal = u.seal
        <5>1. EndsWith(r, u, d, f, H, p, x, s.gk.key)
          BY <4>3, <4>4, <4>5, <2>6, <1>3, <1>7 DEF EndsWith
        <5> QED
          BY <5>1, PushedRun
      <4>7. t = Push(u, p, s.gk.key)
        BY <4>p, <3>1, <2>2
      <4> QED
        BY <4>6, <4>7
    <3>2. CASE h \notin RandomBlocks
      <4>1. f = WithStream(d, d.stream)
        BY <3>2, <1>f DEF AfterRandom
      <4>2. f.stream = d.stream
        BY <4>1 DEF WithStream
      <4>3. RunIn(r, u, f, H)
        BY <4>2, <2>6, <1>3, UnpushedRun
      <4> QED
        BY <4>3, <3>2, <2>2
    <3> QED
      BY <3>1, <3>2
  <2> QED
    BY <2>3, <2>6, <2>8, <1>1, <1>4 DEF Kept, RunIn
<1> QED
  BY <1>5, <1>6, <1>7

----------------------------------------------------------------------------
(* The handling of a block.                                                *)

HandlingStart(r) ==
  [gk |-> node[r].gk, seq |-> node[r].seq, dummy |-> node[r].dummy, seal |-> seal[r],
   keys |-> keys, out |-> {}, up |-> {}, panic |-> "none"]

(* The states a pRuntime goes through.                                     *)
Handles(g, n, r, b, h, s) ==
  g = [i \in 0..n |-> IF i = 0 THEN s ELSE SystemEvent(r, b, h, g[i - 1], b.events[i])]

(* The events of a block can be handled one after the other.               *)
LEMMA HandlesExists ==
  ASSUME NEW n \in Nat, NEW r, NEW b, NEW h, NEW s
  PROVE  \E g : Handles(g, n, r, b, h, s)
<1> DEFINE P == {k \in 0..n : \E g : Handles(g, k, r, b, h, s)}
<1>1. 0 \in P
  <2> DEFINE g == [i \in 0..0 |-> s]
  <2>1. Handles(g, 0, r, b, h, s)
    BY DEF Handles
  <2> HIDE DEF g
  <2> QED
    BY <2>1
<1>2. ASSUME NEW k \in 1..n, k - 1 \in P
      PROVE  k \in P
  <2>1. PICK f : Handles(f, k - 1, r, b, h, s)
    BY <1>2
  <2> DEFINE g == [i \in 0..k |-> IF i = k THEN SystemEvent(r, b, h, f[k - 1], b.events[k])
                                   ELSE f[i]]
  <2>2. /\ f[0] = s
        /\ \A i \in 1..(k - 1) : f[i] = SystemEvent(r, b, h, f[i - 1], b.events[i])
    BY <2>1 DEF Handles
  <2>3. \A i \in 0..k : g[i] = IF i = 0 THEN s ELSE SystemEvent(r, b, h, g[i - 1], b.events[i])
    <3> SUFFICES ASSUME NEW i \in 0..k
                 PROVE  g[i] = IF i = 0 THEN s ELSE SystemEvent(r, b, h, g[i - 1], b.events[i])
      OBVIOUS
    <3>1. CASE i = 0
      BY <3>1, <2>2
    <3>2. CASE i = k
      <4>1. g[i] = SystemEvent(r, b, h, f[k - 1], b.events[k]) /\ g[k - 1] = f[k - 1]
        BY <3>2
      <4> QED
        BY <4>1, <3>2
    <3>3. CASE i # 0 /\ i # k
      <4>1. g[i] = f[i] /\ g[i - 1] = f[i - 1] /\ i \in 1..(k - 1)
        BY <3>3
      <4> QED
        BY <4>1, <3>3, <2>2
    <3> QED
      BY <3>1, <3>2, <3>3
  <2>4. g = [i \in 0..k |-> g[i]]
    OBVIOUS
  <2> HIDE DEF g
  <2>5. Handles(g, k, r, b, h, s)
    BY <2>3, <2>4 DEF Handles
  <2> QED
    BY <2>5
<1>3. P \in SUBSET (0..n)
  OBVIOUS
<1> HIDE DEF P
<1>4. P = 0..n
  BY <1>1, <1>2, <1>3, IntervalInduction
<1> QED
  BY <1>4 DEF P

(* handle_inbound_messages is one handler after the other.                 *)
LEMMA HandleBlockSteps ==
  ASSUME NEW r, NEW h, AnySeq(blocks[h].events), NEW s \in HandleBlock(r, h)
  PROVE  \E g : /\ g[0] = HandlingStart(r)
                /\ \A i \in 1..Len(blocks[h].events) :
                     g[i] = SystemEvent(r, blocks[h], h, g[i - 1], blocks[h].events[i])
                /\ s = DidProcessBlock(blocks[h], h, g[Len(blocks[h].events)])
<1> DEFINE b == blocks[h]
           n == Len(b.events)
           g == CHOOSE f : Handles(f, n, r, b, h, HandlingStart(r))
<1>1. n \in Nat
  BY DEF AnySeq
<1>2. Handles(g, n, r, b, h, HandlingStart(r))
  BY <1>1, HandlesExists
<1>3. s = DidProcessBlock(b, h, g[n])
  BY DEF HandleBlock, Handles, HandlingStart
<1> HIDE DEF g
<1>4. g[0] = HandlingStart(r)
  BY <1>1, <1>2 DEF Handles
<1>5. \A i \in 1..n : g[i] = SystemEvent(r, b, h, g[i - 1], b.events[i])
  BY <1>1, <1>2 DEF Handles
<1> QED
  BY <1>3, <1>4, <1>5

(* What pRuntime r has come to within a block that it began with the keys  *)
(* of H, the sealed history x and k keys generated.                        *)
Reached(r, s, c, H, G, firsts, x, k) ==
  /\ Grown(H, G) /\ RunSafe(s, G) /\ k <= s.keys /\ (x # <<>> => s.seal # <<>>)
  /\ H = <<>> /\ G # <<>> => r \in firsts /\ s.seal # <<>>
  /\ s.panic = "none" => RunOK(r, s, c, G)

(* What a handler keeps goes on from what was reached.                     *)
LEMMA ReachedKept ==
  ASSUME NEW r, NEW s, NEW t, NEW c, NEW f, NEW H, NEW G, NEW F, NEW firsts, NEW x,
         NEW k \in Nat, H \in Seq(Entry),
         Reached(r, s, c, H, G, firsts, x, k), Grown(G, F), Kept(r, s, t, f, F),
         G = <<>> /\ F # <<>> => r \in firsts /\ t.seal # <<>>
  PROVE  Reached(r, t, f, H, F, firsts, x, k)
<1>1. s.keys \in Nat /\ t.keys \in Nat /\ k <= s.keys /\ s.keys <= t.keys
  BY DEF Reached, Kept, RunSafe
<1>2. k <= t.keys
  BY <1>1
<1>3. Grown(H, F)
  BY DEF Reached, Grown
<1>4. H = <<>> /\ F # <<>> => r \in firsts /\ t.seal # <<>>
  BY DEF Reached, Kept
<1> QED
  BY <1>2, <1>3, <1>4 DEF Reached, Kept

(* One event of a block.                                                   *)
LEMMA ReachedEvent ==
  ASSUME NEW r, NEW b, NEW s, NEW c, NEW H, NEW G, NEW e, NEW h, NEW firsts, NEW x,
         NEW k \in Nat, H \in Seq(Entry),
         Reached(r, s, c, H, G, firsts, x, k), CanonOK(c), EventOK(c, e, h, H),
         e.type = "MasterKeyRotation" => e.sender \in b.gatekeepers,
         e.type = "FirstGatekeeper" => e.gk \in firsts,
         H # <<>> /\ r \in firsts => x # <<>>
  PROVE  \E F : Reached(r, SystemEvent(r, b, h, s, e), Follow(c, e), H, F, firsts, x, k)
<1>1. G \in Seq(Entry) /\ Grown(H, G)
  BY DEF Reached, Grown
<1>2. Extends(H, G)
  <2>1. Extends(G, G) /\ Extends(<<>>, G)
    BY <1>1, SeqIsAny, ExtendsFacts
  <2> QED
    BY <2>1, <1>1 DEF Grown
<1>3. EventOK(c, e, h, G)
  BY <1>1, <1>2, EventExtends DEF CanonOK, CanonType
<1>4. RunSafe(s, G) /\ (s.panic = "none" => RunOK(r, s, c, G))
  BY DEF Reached
<1>5. e.type = "FirstGatekeeper" /\ r = e.gk /\ G # <<>> => s.seal # <<>>
  BY DEF Reached
<1>6. PICK F : /\ Grown(G, F)
               /\ Kept(r, s, SystemEvent(r, b, h, s, e), Follow(c, e), F)
               /\ G = <<>> /\ F # <<>> =>
                    /\ e.type = "FirstGatekeeper" /\ r = e.gk
                    /\ SystemEvent(r, b, h, s, e).seal # <<>>
  <2>1. Meets(r, b, s, c, G, e, h)
    BY <1>3, <1>4, <1>5 DEF Meets
  <2> QED
    BY <2>1, EventKept
<1>7. Reached(r, SystemEvent(r, b, h, s, e), Follow(c, e), H, F, firsts, x, k)
  BY <1>6, ReachedKept
<1> QED
  BY <1>7

(* A whole block: the pRuntime is as the account says after it, unless a   *)
(* handler has panicked.                                                   *)
LEMMA BlockHandled ==
  ASSUME NEW st, NEW H, NEW first, IInv(st, H, first), NEW r \in Workers, NEW h,
         node[r].height < Len(blocks), h = node[r].height + 1, NEW s \in HandleBlock(r, h)
  PROVE  /\ \E G : Reached(r, s, st[h], H, G, Firsts, seal[r], keys)
         /\ h \in 1..Len(blocks)
<1>1. /\ final \in 0..Len(blocks) /\ keys \in Nat /\ KeysOK(H, keys) /\ H \in Seq(Entry)
      /\ WalkOK(st, H) /\ SendersOK /\ NodesOK(st, H) /\ FirstOK(st, H, first)
  BY DEF IInv, KeysOK
<1>2. Len(blocks) \in Nat
  BY <1>1 DEF WalkOK, AnySeq
<1>3. /\ node[r].height \in 0..final /\ NodeOK(r, node[r], st[node[r].height], H)
      /\ Genuine(seal[r], H)
  BY <1>1 DEF NodesOK, WorkerOK
<1>4. h \in 1..Len(blocks) /\ h - 1 = node[r].height
  BY <1>1, <1>2, <1>3
<1>5. BlockOK(blocks[h], st[h - 1], st[h], h, H)
  BY SMTT(30), <1>1, <1>4 DEF WalkOK
<1>b. PICK b : b = blocks[h]
  OBVIOUS
<1>6. PICK ev : StepsOK(ev, b, st[h - 1], h, H) /\ st[h] = AfterBlock(ev[Len(b.events)], b, h)
  BY <1>b, <1>5 DEF BlockOK
<1>7. /\ AnySeq(b.events) /\ ev[0] = st[h - 1]
      /\ \A j \in 1..Len(b.events) :
           EventOK(ev[j - 1], b.events[j], h, H) /\ ev[j] = Follow(ev[j - 1], b.events[j])
      /\ \A j \in 0..Len(b.events) : CanonOK(ev[j])
  BY <1>6 DEF StepsOK
<1>n. PICK n : n = Len(b.events)
  OBVIOUS
<1>8. n \in Nat
  BY <1>7, <1>n DEF AnySeq
<1>9. PICK g : /\ g[0] = HandlingStart(r)
               /\ \A i \in 1..n : g[i] = SystemEvent(r, b, h, g[i - 1], b.events[i])
               /\ s = DidProcessBlock(b, h, g[n])
  <2>1. AnySeq(blocks[h].events)
    BY <1>b, <1>7
  <2>2. \E g : /\ g[0] = HandlingStart(r)
               /\ \A i \in 1..Len(blocks[h].events) :
                    g[i] = SystemEvent(r, blocks[h], h, g[i - 1], blocks[h].events[i])
               /\ s = DidProcessBlock(blocks[h], h, g[Len(blocks[h].events)])
    BY <2>1, HandleBlockSteps
  <2> QED
    BY <2>2, <1>b, <1>n
<1> DEFINE P == {i \in 0..n : \E G : Reached(r, g[i], ev[i], H, G, Firsts, seal[r], keys)}
<1>10. 0 \in P
  <2>1. PICK z : z = HandlingStart(r)
    OBVIOUS
  <2>2. /\ z.gk = node[r].gk /\ z.seq = node[r].seq /\ z.dummy = node[r].dummy
        /\ z.seal = seal[r] /\ z.keys = keys /\ z.out = {} /\ z.up = {} /\ z.panic = "none"
    BY <2>1 DEF HandlingStart
  <2>3. IsRun(z)
    <3> DEFINE X == {node[r].gk, node[r].seq, node[r].dummy, seal[r], keys, {}, "none"}
    <3>1. z \in RunSet(X)
      BY <2>1 DEF HandlingStart, RunSet
    <3> QED
      BY <3>1 DEF IsRun
  <2>4. RunSafe(z, H)
    BY <2>2, <2>3, <1>1, <1>3 DEF RunSafe, BadPanics
  <2>5. NodeOK(r, z, ev[0], H)
    BY <2>2, <1>3, <1>4, <1>7 DEF NodeOK
  <2>6. OutOK(z.out, ev[0].stream, H, z.keys) /\ UpOK(z.up, H)
    BY <2>2 DEF OutOK, UpOK
  <2>7. Grown(H, H) /\ keys <= z.keys
    BY <2>2, <1>1 DEF Grown
  <2>8. Reached(r, z, ev[0], H, H, Firsts, seal[r], keys)
    BY <2>2, <2>4, <2>5, <2>6, <2>7 DEF Reached, RunOK
  <2> QED
    BY <2>1, <2>8, <1>8, <1>9
<1>11. ASSUME NEW i \in 1..n, i - 1 \in P
       PROVE  i \in P
  <2>1. PICK G : Reached(r, g[i - 1], ev[i - 1], H, G, Firsts, seal[r], keys)
    BY <1>11
  <2>2. PICK e : e = b.events[i]
    OBVIOUS
  <2>3. /\ EventOK(ev[i - 1], e, h, H) /\ ev[i] = Follow(ev[i - 1], e)
        /\ CanonOK(ev[i - 1]) /\ g[i] = SystemEvent(r, b, h, g[i - 1], e)
    <3>1. i \in 1..Len(b.events) /\ i - 1 \in 0..Len(b.events)
      BY <1>n, <1>8
    <3> QED
      BY <3>1, <2>2, <1>7, <1>9
  <2>4. e.type = "MasterKeyRotation" => e.sender \in b.gatekeepers
    BY <2>2, <1>1, <1>4, <1>b, <1>n DEF SendersOK
  <2>5. e.type = "FirstGatekeeper" => e.gk \in Firsts
    <3>1. e.type = "FirstGatekeeper" => e.gk \in Workers /\ e = FirstGatekeeper(e.gk)
      BY <2>3 DEF EventOK, FirstGatekeeper, MasterPubkeyOnChain, Registered, Unregistered,
           RotateMasterKey, MasterKeyHistory, MasterKeyRotation
    <3> QED
      BY <3>1, <2>2, <1>4, <1>b, <1>n DEF Firsts
  <2>6. H # <<>> /\ r \in Firsts => seal[r] # <<>>
    BY <1>1 DEF FirstOK
  <2>7. \E F : Reached(r, g[i], ev[i], H, F, Firsts, seal[r], keys)
    BY <2>1, <2>3, <2>4, <2>5, <2>6, <1>1, ReachedEvent
  <2> QED
    BY <2>7, <1>8
<1>12. P \in SUBSET (0..n)
  OBVIOUS
<1> HIDE DEF P
<1>13. P = 0..n
  BY <1>8, <1>10, <1>11, <1>12, IntervalInduction
<1>14. n \in P
  BY <1>8, <1>13
<1>15. PICK G : Reached(r, g[n], ev[n], H, G, Firsts, seal[r], keys)
  BY <1>14 DEF P
<1>16. RunSafe(g[n], G) /\ (g[n].panic = "none" => RunOK(r, g[n], ev[n], G)) /\ CanonOK(ev[n])
  BY <1>7, <1>8, <1>n, <1>15 DEF Reached
<1>17. Kept(r, g[n], s, st[h], G)
  BY <1>6, <1>9, <1>n, <1>16, DidKept
<1>18. Grown(G, G)
  BY <1>15 DEF Reached, Grown
<1>19. Reached(r, s, st[h], H, G, Firsts, seal[r], keys)
  BY <1>1, <1>15, <1>17, <1>18, ReachedKept
<1> QED
  BY <1>4, <1>19

----------------------------------------------------------------------------
(* The steps of a pRuntime.                                                *)

(* The account of a block stays one when the keys go on.                   *)
LEMMA BlockExtends ==
  ASSUME NEW b, NEW before, NEW after, NEW h, NEW H \in Seq(Entry), NEW G \in Seq(Entry),
         Extends(H, G), BlockOK(b, before, after, h, H)
  PROVE  BlockOK(b, before, after, h, G)
<1>1. PICK ev : /\ StepsOK(ev, b, before, h, H)
                /\ after = AfterBlock(ev[Len(b.events)], b, h) /\ b.gatekeepers = after.gks
  BY DEF BlockOK
<1>2. ASSUME NEW j \in 1..Len(b.events)
      PROVE  EventOK(ev[j - 1], b.events[j], h, G)
  <2>0. Len(b.events) \in Nat
    BY <1>1 DEF StepsOK, AnySeq
  <2>1. j - 1 \in 0..Len(b.events)
    BY <2>0
  <2>2. CanonOK(ev[j - 1]) /\ EventOK(ev[j - 1], b.events[j], h, H)
    BY <2>1, <1>1 DEF StepsOK
  <2>3. ev[j - 1].req \in Nat
    BY <2>2 DEF CanonOK, CanonType
  <2> QED
    BY <2>2, <2>3, EventExtends
<1>3. StepsOK(ev, b, before, h, G)
  BY <1>1, <1>2 DEF StepsOK
<1> QED
  BY <1>1, <1>3 DEF BlockOK

(* So does the account of all blocks.                                      *)
LEMMA WalkExtends ==
  ASSUME NEW st, NEW H \in Seq(Entry), NEW G \in Seq(Entry), Extends(H, G), WalkOK(st, H)
  PROVE  WalkOK(st, G)
<1>1. \A h \in 1..Len(blocks) : BlockOK(blocks[h], st[h - 1], st[h], h, G)
  BY BlockExtends DEF WalkOK
<1> QED
  BY <1>1 DEF WalkOK

(* What was accepted of a stream does not change when more is handled.     *)
LEMMA SigningExtends ==
  ASSUME NEW p, NEW q, AnySeq(p), AnySeq(q), Extends(p, q), NEW n \in 0..Len(p)
  PROVE  Signing(q, n) = Signing(p, n)
<1>1. CASE n = 0
  BY <1>1 DEF Signing
<1>2. CASE n # 0
  <2>1. n \in 1..Len(p)
    BY <1>2 DEF AnySeq
  <2>2. q[n] = p[n]
    BY <2>1 DEF Extends
  <2> QED
    BY <2>2 DEF Signing
<1> QED
  BY <1>1, <1>2

(* The chain is not concerned when a pRuntime handles a block.             *)
LEMMA ChainMoves ==
  ASSUME NEW E, NEW S, NEW T, NEW H, NEW G, ChainOK(E, S, H), H \in Seq(Entry), Grown(H, G),
         StreamOK(S), AnySeq(T), Extends(S, T), H = <<>> /\ G # <<>> => E.on
  PROVE  ChainOK(E, T, G)
<1>1. AnySeq(S) /\ Len(S) \in Nat /\ Len(T) \in Nat /\ Len(S) <= Len(T)
  BY DEF StreamOK, AnySeq, Extends
<1>2. ingress \in 0..Len(S)
  BY DEF ChainOK
<1>3. ingress \in 0..Len(T) /\ Signing(T, ingress) = Signing(S, ingress)
  BY <1>1, <1>2, SigningExtends
<1>4. \A n \in 1..ingress : T[n] = S[n]
  BY <1>1, <1>2 DEF Extends
<1>5. CASE G = H
  BY <1>3, <1>4, <1>5 DEF ChainOK
<1>6. CASE G # H
  <2>1. H = <<>> /\ Len(G) = 1 /\ G # <<>> /\ E.on
    BY <1>6 DEF Grown
  <2>2. E.idx = 0 /\ master = 0
    BY <2>1 DEF ChainOK
  <2> QED
    BY <2>1, <2>2, <1>3, <1>4 DEF ChainOK
<1> QED
  BY <1>5, <1>6

(* g is f with x for pRuntime r.                                           *)
Changed(f, g, r, x) == OfWorkers(g) /\ g[r] = x /\ \A q \in Workers : q # r => g[q] = f[q]

(* A function of the pRuntimes changes at one of them.                     *)
LEMMA ExceptWorker ==
  ASSUME NEW f, NEW r \in Workers, NEW x, OfWorkers(f)
  PROVE  Changed(f, [f EXCEPT ![r] = x], r, x)
<1>1. PICK g : g = [f EXCEPT ![r] = x]
  OBVIOUS
<1>2. g = [w \in Workers |-> IF w = r THEN x ELSE f[w]]
  BY <1>1 DEF OfWorkers
<1>3. Changed(f, g, r, x)
  BY <1>2 DEF Changed, OfWorkers
<1> QED
  BY <1>1, <1>3

(* A pRuntime stays as its account says while others go on.                *)
LEMMA WorkerExtends ==
  ASSUME NEW st, NEW H \in Seq(Entry), NEW G \in Seq(Entry), Extends(H, G), WalkOK(st, H),
         NEW top \in 0..Len(blocks), NEW new \in 0..Len(blocks), top <= new,
         NEW r, NEW n, WorkerOK(r, n, st, H, top)
  PROVE  WorkerOK(r, n, st, G, new)
<1>0. Len(blocks) \in Nat
  BY DEF WalkOK, AnySeq
<1>1. n.height \in 0..Len(blocks) /\ n.height \in 0..new
  BY <1>0 DEF WorkerOK
<1>2. CanonType(st[n.height])
  BY <1>1 DEF WalkOK, CanonOK
<1>3. NodeOK(r, n, st[n.height], G)
  BY <1>2, NodeExtends DEF WorkerOK
<1> QED
  BY <1>1, <1>3 DEF WorkerOK

(* A pRuntime that starts from nothing.                                    *)
LEMMA BootOK ==
  ASSUME NEW st, NEW H, st[0] = Start, NEW top \in Nat, NEW r
  PROVE  WorkerOK(r, Boot, st, H, top) /\ Boot.panic = "none"
<1>0. PICK n : n = Boot
  OBVIOUS
<1>1. /\ n.height = 0 /\ n.gk = NoGatekeeper /\ n.seq = 0 /\ n.dummy = FALSE
      /\ n.panic = "none"
  BY <1>0 DEF Boot
<1>2. IsNode(n)
  <2> DEFINE X == {0, NoGatekeeper, FALSE, "none"}
  <2>1. n \in [height : X, gk : X, seq : X, dummy : X, panic : X]
    BY <1>0 DEF Boot
  <2> QED
    BY <2>1 DEF IsNode
<1>c. PICK c : c = Start
  OBVIOUS
<1>b. c.keyed = {} /\ n.dummy \in BOOLEAN /\ n.seq \in Nat
  <2>1. c.keyed = {}
    BY <1>c, StartCanon
  <2>2. n.dummy \in BOOLEAN
    BY <1>1
  <2>3. n.seq \in Nat
    BY <1>1
  <2> QED
    BY <2>1, <2>2, <2>3
<1>3. NodeOK(r, n, c, H)
  BY <1>1, <1>b DEF NodeOK
<1> QED
  BY <1>0, <1>1, <1>2, <1>3, <1>c DEF WorkerOK

(* dispatch_blocks keeps the account, with the first key in it when it was *)
(* generated.                                                              *)
LEMMA DispatchInv ==
  ASSUME NEW st, NEW H, NEW first, IInv(st, H, first), NEW r \in Workers, DispatchBlock(r)
  PROVE  \E G : IInv(st, G, first)'
<1>h. PICK h : h = node[r].height + 1
  OBVIOUS
<1>1. PICK s \in HandleBlock(r, h) :
        LET done == [height |-> h, gk |-> s.gk, seq |-> s.seq, dummy |-> s.dummy,
                     panic |-> "none"]
        IN  /\ final' = IF h > final THEN h ELSE final
            /\ seal' = [seal EXCEPT ![r] = s.seal]
            /\ keys' = s.keys
            /\ \/ /\ s.panic = "none"
                  /\ node' = [node EXCEPT ![r] = done]
                  /\ ckpt' \in {ckpt, [ckpt EXCEPT ![r] = done]}
                  /\ pool' = pool \cup {m \in s.out : m.seq >= ingress}
                  /\ uploads' = uploads \cup s.up
               \/ /\ s.panic # "none"
                  /\ node' = [node EXCEPT ![r].panic = s.panic]
                  /\ ckpt' = [ckpt EXCEPT ![r] = KeptCheckpoint(r, s.panic)]
                  /\ UNCHANGED <<pool, uploads>>
  BY <1>h DEF DispatchBlock
<1>2. /\ node[r].height < Len(blocks)
      /\ UNCHANGED <<blocks, gatekeepers, master, lock, rotations, ingress, bounds>>
  BY DEF DispatchBlock, chainVars
<1>3. /\ final \in 0..Len(blocks) /\ keys \in Nat /\ KeysOK(H, keys) /\ H \in Seq(Entry)
      /\ OfWorkers(node) /\ OfWorkers(ckpt) /\ OfWorkers(seal)
      /\ WalkOK(st, H) /\ SendersOK /\ NodesOK(st, H) /\ FirstOK(st, H, first)
      /\ ChainOK(st[Len(blocks)], st[final].stream, H) /\ TransitOK(st[final].stream, H)
  BY DEF IInv, KeysOK
<1>4. PICK G : Reached(r, s, st[h], H, G, Firsts, seal[r], keys)
  BY <1>h, <1>2, BlockHandled
<1>5. h \in 1..Len(blocks) /\ Len(blocks) \in Nat
  <2>1. h \in 1..Len(blocks)
    BY <1>h, <1>1, <1>2, BlockHandled
  <2>2. Len(blocks) \in Nat
    BY <1>3 DEF WalkOK, AnySeq
  <2> QED
    BY <2>1, <2>2
<1>6. /\ Grown(H, G) /\ G \in Seq(Entry) /\ RunSafe(s, G) /\ keys <= s.keys
      /\ (seal[r] # <<>> => s.seal # <<>>)
      /\ (H = <<>> /\ G # <<>> => r \in Firsts /\ s.seal # <<>>)
      /\ (s.panic = "none" => RunOK(r, s, st[h], G))
      /\ s.keys \in Nat /\ KeysOK(G, s.keys) /\ Genuine(s.seal, G) /\ s.panic \notin BadPanics
  BY <1>4 DEF Reached, Grown, RunSafe
<1>7. Extends(H, G)
  <2>1. Extends(G, G) /\ Extends(<<>>, G)
    BY <1>6, SeqIsAny, ExtendsFacts
  <2> QED
    BY <2>1, <1>6 DEF Grown
<1>n. PICK new : new = IF h > final THEN h ELSE final
  OBVIOUS
<1>8. /\ final' = new /\ new \in 0..Len(blocks) /\ final <= new /\ h \in 0..new
      /\ h \in 0..Len(blocks)
  BY <1>1, <1>3, <1>5, <1>n
<1>S. PICK S : S = st[final].stream
  OBVIOUS
<1>T. PICK T : T = st[new].stream
  OBVIOUS
<1>9. /\ StreamOK(S) /\ AnySeq(T) /\ Extends(S, T)
      /\ StreamOK(st[h].stream) /\ Extends(st[h].stream, T)
  <2>1. CanonOK(st[final]) /\ CanonOK(st[new]) /\ CanonOK(st[h])
    BY <1>3, <1>8 DEF WalkOK
  <2>2. h <= new /\ Extends(st[final].stream, st[new].stream)
    BY <1>3, <1>5, <1>8 DEF WalkOK
  <2>3. Extends(st[h].stream, st[new].stream)
    BY <2>2, <1>3, <1>8 DEF WalkOK
  <2> QED
    BY <2>1, <2>2, <2>3, <1>S, <1>T DEF CanonOK, StreamOK
<1>10. /\ seal' = [seal EXCEPT ![r] = s.seal] /\ keys' = s.keys
  BY <1>1
<1>11. OfWorkers(seal') /\ seal'[r] = s.seal /\ \A q \in Workers : q # r => seal'[q] = seal[q]
  <2>1. Changed(seal, [seal EXCEPT ![r] = s.seal], r, s.seal)
    BY <1>3, ExceptWorker
  <2> QED
    BY <2>1, <1>10 DEF Changed
<1>12. /\ OfWorkers(node') /\ OfWorkers(ckpt')
       /\ \A q \in Workers : q # r => node'[q] = node[q] /\ ckpt'[q] = ckpt[q]
       /\ WorkerOK(r, node'[r], st, G, new) /\ WorkerOK(r, ckpt'[r], st, G, new)
       /\ node'[r].panic \notin BadPanics /\ ckpt'[r].panic = "none"
  <2>1. /\ WorkerOK(r, node[r], st, G, new) /\ WorkerOK(r, ckpt[r], st, G, new)
        /\ ckpt[r].panic = "none"
    BY <1>3, <1>6, <1>7, <1>8, WorkerExtends DEF NodesOK
  <2>2. CASE s.panic = "none"
    <3>1. PICK n : n = [height |-> h, gk |-> s.gk, seq |-> s.seq, dummy |-> s.dummy,
                        panic |-> "none"]
      OBVIOUS
    <3>2. node' = [node EXCEPT ![r] = n] /\ ckpt' \in {ckpt, [ckpt EXCEPT ![r] = n]}
      BY <1>1, <2>2, <3>1
    <3>3. /\ n.height = h /\ n.gk = s.gk /\ n.seq = s.seq /\ n.dummy = s.dummy
          /\ n.panic = "none"
      BY <3>1
    <3>4. IsNode(n)
      <4> DEFINE X == {h, s.gk, s.seq, s.dummy, "none"}
      <4>1. n \in [height : X, gk : X, seq : X, dummy : X, panic : X]
        BY <3>1
      <4> QED
        BY <4>1 DEF IsNode
    <3>5. NodeOK(r, n, st[h], G)
      BY <1>6, <2>2, <3>3 DEF RunOK, NodeOK
    <3>6. WorkerOK(r, n, st, G, new)
      BY <1>8, <3>3, <3>4, <3>5 DEF WorkerOK
    <3>7. OfWorkers(node') /\ node'[r] = n /\ \A q \in Workers : q # r => node'[q] = node[q]
      <4>1. Changed(node, [node EXCEPT ![r] = n], r, n)
        BY <1>3, ExceptWorker
      <4> QED
        BY <4>1, <3>2 DEF Changed
    <3>8. CASE ckpt' = ckpt
      BY <1>3, <2>1, <3>3, <3>6, <3>7, <3>8 DEF BadPanics
    <3>9. CASE ckpt' = [ckpt EXCEPT ![r] = n]
      <4>1. OfWorkers(ckpt') /\ ckpt'[r] = n /\ \A q \in Workers : q # r => ckpt'[q] = ckpt[q]
        <5>1. Changed(ckpt, [ckpt EXCEPT ![r] = n], r, n)
          BY <1>3, ExceptWorker
        <5> QED
          BY <5>1, <3>9 DEF Changed
      <4> QED
        BY <4>1, <3>3, <3>6, <3>7 DEF BadPanics
    <3> QED
      BY <3>2, <3>8, <3>9
  <2>3. CASE s.panic # "none"
    <3>1. PICK n : n = [node[r] EXCEPT !.panic = s.panic]
      OBVIOUS
    <3>2. node' = [node EXCEPT ![r] = n]
          /\ ckpt' = [ckpt EXCEPT ![r] = KeptCheckpoint(r, s.panic)]
      BY <1>1, <2>3, <3>1
    <3>x. PICK X : node[r] \in [height : X, gk : X, seq : X, dummy : X, panic : X]
      BY <2>1 DEF WorkerOK, IsNode
    <3>3. /\ n.height = node[r].height /\ n.gk = node[r].gk /\ n.seq = node[r].seq
          /\ n.dummy = node[r].dummy /\ n.panic = s.panic
      BY <3>1, <3>x
    <3>4. IsNode(n)
      <4> DEFINE Y == X \cup {s.panic}
      <4>1. n \in [height : Y, gk : Y, seq : Y, dummy : Y, panic : Y]
        BY <3>1, <3>x
      <4> QED
        BY <4>1 DEF IsNode
    <3>5. WorkerOK(r, n, st, G, new)
      BY <2>1, <3>3, <3>4 DEF WorkerOK, NodeOK
    <3>7. OfWorkers(node') /\ node'[r] = n /\ \A q \in Workers : q # r => node'[q] = node[q]
      <4>1. Changed(node, [node EXCEPT ![r] = n], r, n)
        BY <1>3, ExceptWorker
      <4> QED
        BY <4>1, <3>2 DEF Changed
    <3>8. /\ OfWorkers(ckpt') /\ ckpt'[r] = KeptCheckpoint(r, s.panic)
          /\ \A q \in Workers : q # r => ckpt'[q] = ckpt[q]
      <4>1. PICK x : x = KeptCheckpoint(r, s.panic)
        OBVIOUS
      <4>2. Changed(ckpt, [ckpt EXCEPT ![r] = x], r, x)
        BY <1>3, ExceptWorker
      <4> QED
        BY <4>1, <4>2, <3>2 DEF Changed
    <3>9. st[0] = Start /\ new \in Nat
      BY <1>3, <1>5, <1>8 DEF WalkOK
    <3>10. WorkerOK(r, ckpt'[r], st, G, new) /\ ckpt'[r].panic = "none"
      <4>1. WorkerOK(r, Boot, st, G, new) /\ Boot.panic = "none"
        BY <3>9, BootOK
      <4> QED
        BY <4>1, <2>1, <3>8 DEF KeptCheckpoint
    <3> QED
      BY <1>6, <3>3, <3>5, <3>7, <3>8, <3>10
  <2> QED
    BY <2>2, <2>3
<1>13. NodesOK(st, G)'
  <2> SUFFICES ASSUME NEW q \in Workers
               PROVE  /\ WorkerOK(q, node'[q], st, G, new) /\ WorkerOK(q, ckpt'[q], st, G, new)
                      /\ node'[q].panic \notin BadPanics /\ ckpt'[q].panic = "none"
                      /\ Genuine(seal'[q], G)
    BY <1>8 DEF NodesOK
  <2>1. CASE q = r
    BY <2>1, <1>6, <1>11, <1>12
  <2>2. CASE q # r
    <3>1. /\ WorkerOK(q, node[q], st, G, new) /\ WorkerOK(q, ckpt[q], st, G, new)
          /\ node[q].panic \notin BadPanics /\ ckpt[q].panic = "none" /\ Genuine(seal[q], G)
      BY <1>3, <1>6, <1>7, <1>8, WorkerExtends, GenuineExtends DEF NodesOK
    <3> QED
      BY <3>1, <2>2, <1>11, <1>12
  <2> QED
    BY <2>1, <2>2
<1>14. WalkOK(st, G)' /\ SendersOK'
  <2>1. WalkOK(st, G)
    BY <1>3, <1>6, <1>7, WalkExtends
  <2> QED
    BY <2>1, <1>2, <1>3 DEF WalkOK, SendersOK
<1>15. FirstOK(st, G, first)'
  <2>1. G # <<>> => first \in Firsts /\ seal'[first] # <<>>
    <3>0. Firsts \subseteq Workers
      BY DEF Firsts
    <3>1. CASE H # <<>>
      <4>1. first \in Firsts /\ seal[first] # <<>>
        BY <3>1, <1>3 DEF FirstOK
      <4> QED
        BY <3>0, <4>1, <1>6, <1>11
    <3>2. CASE H = <<>>
      BY <3>2, <1>3, <1>6, <1>11 DEF FirstOK
    <3> QED
      BY <3>1, <3>2
  <2>2. Firsts' = Firsts
    BY <1>2 DEF Firsts
  <2> QED
    BY <2>1, <2>2, <1>2, <1>3 DEF FirstOK
<1>16. ChainOK(st[Len(blocks)], T, G)'
  <2>1. ChainOK(st[Len(blocks)], T, G)
    <3>1. H = <<>> /\ G # <<>> => st[Len(blocks)].on
      BY <1>3, <1>6 DEF FirstOK
    <3> QED
      BY <3>1, <1>3, <1>6, <1>9, <1>S, ChainMoves
  <2> QED
    BY <2>1, <1>2 DEF ChainOK
<1>17. TransitOK(T, G)'
  <2>1. \A m \in pool : Fits(m, T, G, s.keys)
    BY <1>3, <1>6, <1>7, <1>9, <1>S, FitsExtends DEF TransitOK
  <2>2. \A k \in uploads : G # <<>> /\ k = G[1].key
    BY <1>3, <1>6 DEF TransitOK, Grown
  <2>3. CASE s.panic = "none"
    <3>1. pool' = pool \cup {m \in s.out : m.seq >= ingress} /\ uploads' = uploads \cup s.up
      BY <1>1, <2>3
    <3>2. OutOK(s.out, st[h].stream, G, s.keys) /\ UpOK(s.up, G)
      BY <1>6, <2>3 DEF RunOK
    <3>3. Extends(G, G) /\ s.keys <= s.keys
      BY <1>6, SeqIsAny, ExtendsFacts
    <3>4. OutOK(s.out, T, G, s.keys)
      BY <1>6, <1>9, <3>2, <3>3, OutExtends
    <3> QED
      BY <1>10, <2>1, <2>2, <3>1, <3>2, <3>4 DEF TransitOK, OutOK, UpOK
  <2>4. CASE s.panic # "none"
    <3>1. pool' = pool /\ uploads' = uploads
      BY <1>1, <2>4
    <3> QED
      BY <1>10, <2>1, <2>2, <3>1 DEF TransitOK
  <2> QED
    BY <2>3, <2>4
<1>18. final' \in 0..Len(blocks') /\ keys' \in Nat /\ KeysOK(G, keys')
  BY <1>2, <1>6, <1>8, <1>10
<1>19. st[Len(blocks)]' = st[Len(blocks')] /\ st[final].stream' = T
  BY <1>8, <1>T
<1>20. IInv(st, G, first)'
  BY <1>8, <1>11, <1>12, <1>13, <1>14, <1>15, <1>16, <1>17, <1>18, <1>T DEF IInv
<1> QED
  BY <1>20

(* A restart that lost the sealed key is not one of the first gatekeeper.  *)
LEMMA BlankIsNotFirst ==
  ASSUME NEW st, NEW H, WalkOK(st, H), NEW r \in Workers,
         \A i \in 1..Len(blocks) : FirstGatekeeper(r) \notin Range(blocks[i].events)
  PROVE  r \notin Firsts
<1> SUFFICES ASSUME NEW h \in 1..Len(blocks), NEW j \in 1..Len(blocks[h].events),
                    blocks[h].events[j] = FirstGatekeeper(r)
             PROVE  FALSE
  BY DEF Firsts
<1>1. AnySeq(blocks[h].events)
  BY DEF WalkOK, BlockOK, StepsOK
<1>2. j \in DOMAIN blocks[h].events
  BY <1>1 DEF AnySeq
<1>3. FirstGatekeeper(r) \in Range(blocks[h].events)
  BY <1>2 DEF Range
<1> QED
  BY <1>3

(* Restarts keep the account: a pRuntime goes back to a checkpoint of it,  *)
(* or to the start.                                                        *)
LEMMA RestartInv ==
  ASSUME NEW st, NEW H, NEW first, IInv(st, H, first), NEW r \in Workers,
         RestartAsGatekeeper(r) \/ Restart(r) \/ RestartBlank(r)
  PROVE  IInv(st, H, first)'
<1>1. /\ UNCHANGED <<blocks, final, gatekeepers, master, lock, rotations, ingress, pool,
                     uploads, keys>>
      /\ ckpt' = ckpt \/ ckpt' = [ckpt EXCEPT ![r] = Boot]
      /\ node' = [node EXCEPT ![r] = ckpt'[r]]
  <2>1. CASE RestartAsGatekeeper(r)
    BY <2>1 DEF RestartAsGatekeeper, chainVars
  <2>2. CASE Restart(r)
    BY <2>2 DEF Restart, chainVars
  <2>3. CASE RestartBlank(r)
    <3>1. /\ UNCHANGED <<blocks, final, gatekeepers, master, lock, rotations, ingress, pool,
                         uploads, keys>>
          /\ ckpt' = [ckpt EXCEPT ![r] = Boot] /\ node' = [node EXCEPT ![r] = Boot]
      BY <2>3 DEF RestartBlank, chainVars
    <3>2. Changed(ckpt, [ckpt EXCEPT ![r] = Boot], r, Boot)
      BY ExceptWorker DEF IInv
    <3>3. ckpt'[r] = Boot
      BY <3>1, <3>2 DEF Changed
    <3> QED
      BY <3>1, <3>3
  <2> QED
    BY <2>1, <2>2, <2>3
<1>2. /\ final \in 0..Len(blocks) /\ keys \in Nat /\ KeysOK(H, keys) /\ H \in Seq(Entry)
      /\ OfWorkers(node) /\ OfWorkers(ckpt) /\ OfWorkers(seal)
      /\ WalkOK(st, H) /\ SendersOK /\ NodesOK(st, H) /\ FirstOK(st, H, first)
      /\ ChainOK(st[Len(blocks)], st[final].stream, H) /\ TransitOK(st[final].stream, H)
  BY DEF IInv, KeysOK
<1>3. /\ OfWorkers(ckpt') /\ ckpt'[r] \in {ckpt[r], Boot}
      /\ \A q \in Workers : q # r => ckpt'[q] = ckpt[q]
  <2>1. Changed(ckpt, [ckpt EXCEPT ![r] = Boot], r, Boot)
    BY <1>2, ExceptWorker
  <2>2. CASE ckpt' = ckpt
    BY <1>2, <2>2
  <2>3. CASE ckpt' = [ckpt EXCEPT ![r] = Boot]
    BY <2>1, <2>3 DEF Changed
  <2> QED
    BY <1>1, <2>2, <2>3
<1>4. OfWorkers(node') /\ node'[r] = ckpt'[r] /\ \A q \in Workers : q # r => node'[q] = node[q]
  <2>1. PICK n : n = ckpt'[r]
    OBVIOUS
  <2>2. Changed(node, [node EXCEPT ![r] = n], r, n)
    BY <1>2, ExceptWorker
  <2> QED
    BY <1>1, <2>1, <2>2 DEF Changed
<1>5. /\ OfWorkers(seal')
      /\ \A q \in Workers : seal'[q] = seal[q] \/ (seal'[q] = <<>> /\ q \notin Firsts)
  <2>1. CASE seal' = seal
    BY <1>2, <2>1
  <2>2. CASE RestartBlank(r)
    <3>1. seal' = [seal EXCEPT ![r] = <<>>] /\ r \notin Firsts
      BY <1>2, <2>2, BlankIsNotFirst DEF RestartBlank
    <3>2. Changed(seal, [seal EXCEPT ![r] = <<>>], r, <<>>)
      BY <1>2, ExceptWorker
    <3> QED
      BY <3>1, <3>2 DEF Changed
  <2> QED
    BY <2>1, <2>2 DEF RestartAsGatekeeper, Restart
<1>6. Genuine(<<>>, H)
  <2>1. <<>> \in Seq(Entry) /\ AnySeq(H)
    BY <1>2, SeqIsAny
  <2>2. Extends(<<>>, H)
    BY <2>1, ExtendsFacts
  <2> QED
    BY <2>1, <2>2 DEF Genuine
<1>7. NodesOK(st, H)'
  <2> SUFFICES ASSUME NEW q \in Workers
               PROVE  /\ WorkerOK(q, node'[q], st, H, final)
                      /\ WorkerOK(q, ckpt'[q], st, H, final)
                      /\ node'[q].panic \notin BadPanics /\ ckpt'[q].panic = "none"
                      /\ Genuine(seal'[q], H)
    BY <1>1 DEF NodesOK
  <2>1. /\ WorkerOK(q, node[q], st, H, final) /\ WorkerOK(q, ckpt[q], st, H, final)
        /\ node[q].panic \notin BadPanics /\ ckpt[q].panic = "none" /\ Genuine(seal[q], H)
    BY <1>2 DEF NodesOK
  <2>2. Genuine(seal'[q], H)
    BY <2>1, <1>5, <1>6
  <2>3. CASE q # r
    BY <2>1, <2>2, <2>3, <1>3, <1>4
  <2>4. CASE q = r
    <3>1. st[0] = Start /\ final \in Nat
      BY <1>2 DEF WalkOK
    <3>2. WorkerOK(r, Boot, st, H, final) /\ Boot.panic = "none"
      BY <3>1, BootOK
    <3>3. WorkerOK(r, ckpt'[r], st, H, final) /\ ckpt'[r].panic = "none"
      BY <3>2, <2>1, <2>4, <1>3
    <3> QED
      BY <3>3, <2>2, <2>4, <1>4 DEF BadPanics
  <2> QED
    BY <2>3, <2>4
<1>8. FirstOK(st, H, first)'
  <2>1. Firsts' = Firsts /\ Firsts \subseteq Workers
    BY <1>1 DEF Firsts
  <2> QED
    BY <2>1, <1>1, <1>2, <1>5 DEF FirstOK
<1>9. WalkOK(st, H)' /\ SendersOK'
  BY <1>1, <1>2 DEF WalkOK, SendersOK
<1>10. ChainOK(st[Len(blocks)], st[final].stream, H)' /\ TransitOK(st[final].stream, H)'
  BY <1>1, <1>2 DEF ChainOK, TransitOK
<1> QED
  BY <1>1, <1>2, <1>3, <1>4, <1>5, <1>7, <1>8, <1>9, <1>10 DEF IInv

----------------------------------------------------------------------------
(* The steps of the chain.                                                 *)

(* The event e goes to block h, after the events q of it, when the         *)
(* gatekeepers have come to c.                                             *)
Tip(c, h, q, e, gks, st, H) ==
  /\ h \in Nat \ {0} /\ final <= h - 1
  /\ \/ q = <<>> /\ h = Len(blocks) + 1
     \/ h = Len(blocks) /\ q = blocks[h].events
  /\ AnySeq(blocks') /\ Len(blocks') = h /\ \A i \in 1..(h - 1) : blocks'[i] = blocks[i]
  /\ AnySeq(q) /\ blocks'[h].events = Append(q, e) /\ blocks'[h].gatekeepers = gks
  /\ \E ev : StepsOK(ev, [events |-> q], st[h - 1], h, H) /\ c = ev[Len(q)]
  /\ CanonOK(c) /\ SameChain(c, st[Len(blocks)]) /\ Extends(st[final].stream, c.stream)

(* Steps in a block are steps of its events.                               *)
LEMMA StepsOfEvents ==
  ASSUME NEW ev, NEW b, NEW before, NEW h, NEW H, NEW q, q = b.events
  PROVE  StepsOK(ev, b, before, h, H) <=> StepsOK(ev, [events |-> q], before, h, H)
<1>1. PICK d : d = [events |-> q]
  OBVIOUS
<1>2. d.events = b.events
  BY <1>1
<1>3. StepsOK(ev, b, before, h, H) <=> StepsOK(ev, d, before, h, H)
  BY <1>2 DEF StepsOK
<1> QED
  BY <1>1, <1>3

(* An event in a new block.                                                *)
LEMMA NewBlockTip ==
  ASSUME NEW st, NEW H, WalkOK(st, H), final \in 0..Len(blocks), NEW e, NEW gks,
         blocks' = Append(blocks, [events |-> <<e>>, gatekeepers |-> gks])
  PROVE  Tip(st[Len(blocks)], Len(blocks) + 1, <<>>, e, gks, st, H)
<1>n. PICK n : n = Len(blocks)
  OBVIOUS
<1>b. PICK b : b = [events |-> <<e>>, gatekeepers |-> gks]
  OBVIOUS
<1>1. n \in Nat /\ AnySeq(blocks)
  BY <1>n DEF WalkOK, AnySeq
<1>2. /\ AnySeq(blocks') /\ Len(blocks') = n + 1 /\ \A i \in 1..n : blocks'[i] = blocks[i]
      /\ blocks'[n + 1] = b
  BY <1>1, <1>n, <1>b, AppendFacts
<1>3. b.events = Append(<<>>, e) /\ b.gatekeepers = gks
  BY <1>b
<1>c. PICK c : c = st[n]
  OBVIOUS
<1>4. CanonOK(c)
  BY <1>1, <1>n, <1>c DEF WalkOK
<1>5. SameChain(c, st[n])
  BY <1>c DEF SameChain
<1>6. Extends(st[final].stream, c.stream) /\ final <= n
  BY <1>1, <1>n, <1>c DEF WalkOK
<1>7. AnySeq(<<>>) /\ Len(<<>>) = 0
  <2>1. <<>> \in Seq({})
    OBVIOUS
  <2> QED
    BY <2>1 DEF AnySeq
<1>8. \E ev : StepsOK(ev, [events |-> <<>>], c, n + 1, H) /\ c = ev[0]
  <2>1. PICK d : d = [events |-> <<>>]
    OBVIOUS
  <2>2. PICK ev : ev = [j \in {0} |-> c]
    OBVIOUS
  <2>3. d.events = <<>> /\ ev[0] = c
    BY <2>1, <2>2
  <2>4. Extends(c.stream, c.stream) /\ c.idx <= c.idx
    <3>1. AnySeq(c.stream) /\ c.idx \in Nat
      BY <1>4 DEF CanonOK, CanonType, StreamOK
    <3> QED
      BY <3>1, ExtendsFacts
  <2>5. StepsOK(ev, d, c, n + 1, H)
    BY <1>4, <1>7, <2>3, <2>4 DEF StepsOK
  <2> QED
    BY <2>1, <2>3, <2>5
<1>9. Tip(c, n + 1, <<>>, e, gks, st, H)
  <2>1. n + 1 \in Nat \ {0} /\ (n + 1) - 1 = n
    BY <1>1
  <2> QED
    BY <2>1, <1>n, <1>c, <1>2, <1>3, <1>4, <1>5, <1>6, <1>7, <1>8 DEF Tip
<1> QED
  BY <1>9, <1>c, <1>n

(* An event in the last block, which nobody has handled yet.               *)
LEMMA OpenBlockTip ==
  ASSUME NEW st, NEW H, WalkOK(st, H), final \in 0..Len(blocks), NEW e, NEW gks,
         Len(blocks) > final,
         blocks' = [blocks EXCEPT ![Len(blocks)] =
                      [events |-> Append(@.events, e), gatekeepers |-> gks]]
  PROVE  \E c : Tip(c, Len(blocks), blocks[Len(blocks)].events, e, gks, st, H)
<1>n. PICK n : n = Len(blocks)
  OBVIOUS
<1>q. PICK q : q = blocks[n].events
  OBVIOUS
<1>b. PICK b : b = [events |-> Append(q, e), gatekeepers |-> gks]
  OBVIOUS
<1>1. n \in Nat \ {0} /\ AnySeq(blocks) /\ final \in 0..(n - 1) /\ n - 1 \in 0..n
  BY <1>n DEF WalkOK, AnySeq
<1>2. /\ AnySeq(blocks') /\ Len(blocks') = n /\ \A i \in 1..(n - 1) : blocks'[i] = blocks[i]
      /\ blocks'[n] = b
  <2>1. PICK D : blocks \in Seq(D)
    BY <1>1 DEF AnySeq
  <2>2. blocks \in Seq(D \cup {b})
    BY <2>1
  <2>3. blocks' = [blocks EXCEPT ![n] = b]
    BY <1>n, <1>q, <1>b
  <2>4. blocks' \in Seq(D \cup {b}) /\ Len(blocks') = n
    BY <1>1, <1>n, <2>2, <2>3
  <2>5. blocks'[n] = b /\ \A i \in 1..(n - 1) : blocks'[i] = blocks[i]
    BY <1>1, <1>n, <2>2, <2>3
  <2> QED
    BY <2>4, <2>5 DEF AnySeq
<1>3. b.events = Append(q, e) /\ b.gatekeepers = gks
  BY <1>b
<1>4. BlockOK(blocks[n], st[n - 1], st[n], n, H)
  BY <1>1, <1>n DEF WalkOK
<1>5. PICK ev : /\ StepsOK(ev, blocks[n], st[n - 1], n, H)
                /\ st[n] = AfterBlock(ev[Len(blocks[n].events)], blocks[n], n)
  BY <1>4 DEF BlockOK
<1>6. StepsOK(ev, [events |-> q], st[n - 1], n, H)
  BY <1>5, <1>q, StepsOfEvents
<1>c. PICK c : c = ev[Len(q)]
  OBVIOUS
<1>7. /\ AnySeq(q) /\ Len(q) \in Nat /\ CanonOK(c) /\ CanonOK(ev[0]) /\ ev[0] = st[n - 1]
      /\ Extends(ev[0].stream, c.stream)
  <2>1. AnySeq(q) /\ Len(q) \in Nat
    BY <1>5, <1>q DEF StepsOK, AnySeq
  <2>2. 0 \in 0..Len(q) /\ Len(q) \in 0..Len(q) /\ 0 <= Len(q)
    BY <2>1
  <2> QED
    BY <2>1, <2>2, <1>5, <1>q, <1>c DEF StepsOK
<1>8. SameChain(c, st[n])
  BY <1>5, <1>7, <1>q, <1>c, AfterCanon
<1>9. Extends(st[final].stream, c.stream)
  <2>1. CanonOK(st[final]) /\ Extends(st[final].stream, st[n - 1].stream)
    BY <1>1, <1>n DEF WalkOK
  <2>2. AnySeq(st[final].stream) /\ AnySeq(ev[0].stream) /\ AnySeq(c.stream)
    BY SMTT(30), <2>1, <1>7 DEF CanonOK, StreamOK
  <2> QED
    BY <2>1, <2>2, <1>7, ExtendsFacts
<1>10. Tip(c, n, q, e, gks, st, H)
  <2>1. final <= n - 1
    BY <1>1
  <2> QED
    BY <2>1, <1>n, <1>q, <1>c, <1>1, <1>2, <1>3, <1>6, <1>7, <1>8, <1>9 DEF Tip
<1> QED
  BY <1>10, <1>n, <1>q

(* Wherever an event goes, there is an account of what came before it.     *)
LEMMA EmitTip ==
  ASSUME NEW st, NEW H, WalkOK(st, H), final \in 0..Len(blocks), NEW e, NEW gks, Emit(e, gks)
  PROVE  \E c, h, q : Tip(c, h, q, e, gks, st, H)
<1>1. CASE blocks' = Append(blocks, [events |-> <<e>>, gatekeepers |-> gks])
  BY <1>1, NewBlockTip
<1>2. CASE /\ Len(blocks) > final
           /\ blocks' = [blocks EXCEPT ![Len(blocks)] =
                           [events |-> Append(@.events, e), gatekeepers |-> gks]]
  BY <1>2, OpenBlockTip
<1> QED
  BY <1>1, <1>2 DEF Emit

(* a comes before b on the way of a gatekeeper.                            *)
Before(a, b) == Extends(a.stream, b.stream) /\ a.idx <= b.idx

(* That is an order.                                                       *)
LEMMA BeforeFacts ==
  ASSUME NEW a, NEW b, NEW c, CanonOK(a), CanonOK(b), CanonOK(c)
  PROVE  Before(a, a) /\ (Before(a, b) /\ Before(b, c) => Before(a, c))
<1>1. /\ AnySeq(a.stream) /\ AnySeq(b.stream) /\ AnySeq(c.stream)
      /\ a.idx \in Nat /\ b.idx \in Nat /\ c.idx \in Nat
  BY DEF CanonOK, CanonType, StreamOK
<1>2. /\ Extends(a.stream, a.stream)
      /\ Extends(a.stream, b.stream) /\ Extends(b.stream, c.stream)
           => Extends(a.stream, c.stream)
  BY <1>1, ExtendsFacts
<1>3. a.idx <= a.idx /\ (a.idx <= b.idx /\ b.idx <= c.idx => a.idx <= c.idx)
  BY <1>1
<1> QED
  BY <1>2, <1>3 DEF Before

(* Block b has one event more than q, and leads to f.                      *)
OneMore(ev, q, before, h, H, G, e, b, f) ==
  /\ H \in Seq(Entry) /\ G \in Seq(Entry) /\ Extends(H, G)
  /\ StepsOK(ev, [events |-> q], before, h, H) /\ EventOK(ev[Len(q)], e, h, G)
  /\ b.events = Append(q, e) /\ f = Follow(ev[Len(q)], e)

(* One more event in a block.                                              *)
LEMMA StepsGrow ==
  ASSUME NEW ev, NEW q, NEW before, NEW h, NEW H, NEW G, NEW e, NEW b, NEW f,
         OneMore(ev, q, before, h, H, G, e, b, f)
  PROVE  /\ \E w : StepsOK(w, b, before, h, G) /\ w[Len(b.events)] = f
         /\ CanonOK(f) /\ Before(before, f)
<1> USE DEF OneMore
<1>n. PICK n : n = Len(q)
  OBVIOUS
<1>d. PICK d : d = [events |-> q]
  OBVIOUS
<1>0. d.events = q /\ StepsOK(ev, d, before, h, H)
  BY <1>d
<1>1. /\ AnySeq(q) /\ n \in Nat /\ ev[0] = before
      /\ \A j \in 1..n : EventOK(ev[j - 1], q[j], h, H) /\ ev[j] = Follow(ev[j - 1], q[j])
      /\ \A j \in 0..n : CanonOK(ev[j])
      /\ \A i, j \in 0..n : i <= j => Before(ev[i], ev[j])
  BY <1>0, <1>n DEF StepsOK, AnySeq, Before
<1>2. CanonOK(ev[n]) /\ EventOK(ev[n], e, h, G) /\ f = Follow(ev[n], e)
  BY <1>1, <1>n
<1>3. CanonOK(f) /\ Before(ev[n], f)
  BY <1>2, FollowCanon DEF Before
<1>4. /\ AnySeq(b.events) /\ Len(b.events) = n + 1 /\ \A i \in 1..n : b.events[i] = q[i]
      /\ b.events[n + 1] = e
  BY <1>1, <1>n, AppendFacts
<1>w. PICK w : w = [j \in 0..(n + 1) |-> IF j = n + 1 THEN f ELSE ev[j]]
  OBVIOUS
<1>5. w[n + 1] = f /\ \A j \in 0..n : w[j] = ev[j]
  BY <1>1, <1>w
<1>6. ASSUME NEW j \in 1..(n + 1)
      PROVE  EventOK(w[j - 1], b.events[j], h, G) /\ w[j] = Follow(w[j - 1], b.events[j])
  <2>1. CASE j = n + 1
    <3>1. w[j - 1] = ev[n] /\ b.events[j] = e /\ w[j] = f
      BY <2>1, <1>1, <1>4, <1>5
    <3> QED
      BY <3>1, <1>2
  <2>2. CASE j # n + 1
    <3>1. j \in 1..n /\ j - 1 \in 0..n
      BY <2>2, <1>1
    <3>2. w[j - 1] = ev[j - 1] /\ b.events[j] = q[j] /\ w[j] = ev[j]
      BY <3>1, <1>1, <1>4, <1>5
    <3>3. CanonOK(ev[j - 1]) /\ EventOK(ev[j - 1], q[j], h, H) /\ ev[j] = Follow(ev[j - 1], q[j])
      BY <3>1, <1>1
    <3>4. ev[j - 1].req \in Nat
      BY <3>3 DEF CanonOK, CanonType
    <3>5. EventOK(ev[j - 1], q[j], h, G)
      BY <3>3, <3>4, EventExtends
    <3> QED
      BY <3>2, <3>3, <3>5
  <2> QED
    BY <2>1, <2>2
<1>7. ASSUME NEW j \in 0..(n + 1)
      PROVE  CanonOK(w[j])
  <2>1. CASE j = n + 1
    BY <2>1, <1>3, <1>5
  <2>2. CASE j # n + 1
    <3>1. j \in 0..n
      BY <2>2, <1>1
    <3> QED
      BY <3>1, <1>1, <1>5
  <2> QED
    BY <2>1, <2>2
<1>8. ASSUME NEW i \in 0..n
      PROVE  Before(ev[i], f)
  <2>1. CanonOK(ev[i]) /\ CanonOK(ev[n]) /\ Before(ev[i], ev[n])
    BY <1>1
  <2> QED
    BY <2>1, <1>3, BeforeFacts
<1>9. ASSUME NEW i \in 0..(n + 1), NEW j \in 0..(n + 1), i <= j
      PROVE  Before(w[i], w[j])
  <2>1. CASE j = n + 1 /\ i = n + 1
    BY <2>1, <1>3, <1>5, BeforeFacts
  <2>2. CASE j = n + 1 /\ i # n + 1
    <3>1. i \in 0..n
      BY <2>2, <1>1
    <3> QED
      BY <3>1, <2>2, <1>5, <1>8
  <2>3. CASE j # n + 1
    <3>1. i \in 0..n /\ j \in 0..n
      BY <2>3, <1>1, <1>9
    <3> QED
      BY <3>1, <1>1, <1>5, <1>9
  <2> QED
    BY <2>1, <2>2, <2>3
<1>10. w[0] = before /\ Before(before, f)
  <2>1. 0 \in 0..n
    BY <1>1
  <2> QED
    BY <2>1, <1>1, <1>5, <1>8
<1>11. StepsOK(w, b, before, h, G)
  BY <1>4, <1>6, <1>7, <1>9, <1>10 DEF StepsOK, Before
<1> QED
  BY <1>3, <1>4, <1>5, <1>10, <1>11

(* The gatekeepers come from c to f with the event e.                      *)
Takes(st, H, G, c, h, q, e, f) ==
  /\ H \in Seq(Entry) /\ G \in Seq(Entry) /\ Extends(H, G) /\ WalkOK(st, H)
  /\ Tip(c, h, q, e, f.gks, st, H) /\ EventOK(c, e, h, G) /\ f = Follow(c, e)

(* The account goes on with the event, and stays what it was as far as the *)
(* blocks have been handled.                                               *)
LEMMA TipGrows ==
  ASSUME NEW st, NEW H, NEW G, NEW c, NEW h, NEW q, NEW e, NEW f, final \in 0..Len(blocks),
         Takes(st, H, G, c, h, q, e, f)
  PROVE  \E s : /\ WalkOK(s, G)' /\ SameChain(f, s[h])
                /\ \A i \in 0..final : s[i] = st[i]
<1> USE DEF Takes
<1>b. PICK b : b = blocks'[h]
  OBVIOUS
<1>n. PICK n : n = Len(blocks)
  OBVIOUS
<1>1. /\ h \in Nat \ {0} /\ final <= h - 1 /\ h \in {n, n + 1}
      /\ AnySeq(blocks') /\ Len(blocks') = h /\ \A i \in 1..(h - 1) : blocks'[i] = blocks[i]
      /\ AnySeq(q) /\ b.events = Append(q, e) /\ b.gatekeepers = f.gks /\ CanonOK(c)
  BY <1>b, <1>n DEF Tip
<1>2. PICK ev : StepsOK(ev, [events |-> q], st[h - 1], h, H) /\ c = ev[Len(q)]
  BY DEF Tip
<1>3. /\ \E w : StepsOK(w, b, st[h - 1], h, G) /\ w[Len(b.events)] = f
      /\ CanonOK(f) /\ Before(st[h - 1], f)
  <2>1. OneMore(ev, q, st[h - 1], h, H, G, e, b, f)
    BY <1>1, <1>2 DEF OneMore
  <2> QED
    BY <2>1, StepsGrow
<1>z. PICK z : z = AfterBlock(f, b, h)
  OBVIOUS
<1>4. CanonOK(z) /\ SameChain(f, z) /\ Extends(f.stream, z.stream)
  BY <1>3, <1>z, AfterCanon
<1>5. Before(f, z)
  <2>1. f.idx \in Nat /\ z.idx = f.idx
    BY <1>3, <1>4 DEF CanonOK, CanonType, SameChain
  <2> QED
    BY <2>1, <1>4 DEF Before
<1>6. BlockOK(b, st[h - 1], z, h, G)
  BY <1>1, <1>3, <1>4, <1>z DEF BlockOK, SameChain
<1>s. PICK s : s = [i \in 0..h |-> IF i = h THEN z ELSE st[i]]
  OBVIOUS
<1>7. s[h] = z /\ \A i \in 0..(h - 1) : s[i] = st[i]
  BY <1>1, <1>s
<1>8. /\ AnySeq(blocks) /\ st[0] = Start /\ n \in Nat
      /\ \A i \in 1..n : BlockOK(blocks[i], st[i - 1], st[i], i, H)
      /\ \A i \in 0..n : CanonOK(st[i])
      /\ \A i, j \in 0..n : i <= j => Before(st[i], st[j])
  BY <1>n DEF WalkOK, Before, AnySeq
<1>9. ASSUME NEW i \in 1..h
      PROVE  BlockOK(blocks'[i], s[i - 1], s[i], i, G)
  <2>1. CASE i = h
    <3>1. h - 1 \in 0..(h - 1)
      BY <1>1
    <3> QED
      BY <3>1, <2>1, <1>b, <1>6, <1>7
  <2>2. CASE i # h
    <3>1. i \in 1..n /\ i \in 0..(h - 1) /\ i - 1 \in 0..(h - 1) /\ i \in 1..(h - 1)
      BY <2>2, <1>1, <1>8
    <3>2. BlockOK(blocks[i], st[i - 1], st[i], i, H)
      BY <3>1, <1>8
    <3>3. BlockOK(blocks[i], st[i - 1], st[i], i, G)
      BY <3>2, BlockExtends
    <3> QED
      BY <3>1, <3>3, <1>1, <1>7
  <2> QED
    BY <2>1, <2>2
<1>10. ASSUME NEW i \in 0..(h - 1)
       PROVE  CanonOK(st[i]) /\ CanonOK(st[h - 1]) /\ Before(st[i], st[h - 1]) /\ i \in 0..n
  <2>1. i \in 0..n /\ h - 1 \in 0..n /\ i <= h - 1
    BY <1>1, <1>8
  <2> QED
    BY <2>1, <1>8
<1>11. ASSUME NEW i \in 0..h
       PROVE  CanonOK(s[i])
  <2>1. CASE i = h
    BY <2>1, <1>4, <1>7
  <2>2. CASE i # h
    <3>1. i \in 0..(h - 1)
      BY <2>2, <1>1
    <3> QED
      BY <3>1, <1>7, <1>10
  <2> QED
    BY <2>1, <2>2
<1>12. ASSUME NEW i \in 0..h, NEW j \in 0..h, i <= j
       PROVE  Before(s[i], s[j])
  <2>1. CASE i = h
    <3>1. j = h
      BY <2>1, <1>1, <1>12
    <3> QED
      BY <3>1, <2>1, <1>4, <1>7, BeforeFacts
  <2>2. CASE i # h /\ j = h
    <3>1. i \in 0..(h - 1)
      BY <2>2, <1>1
    <3>2. CanonOK(st[i]) /\ CanonOK(st[h - 1]) /\ Before(st[i], st[h - 1])
      BY <3>1, <1>10
    <3>3. Before(st[i], f)
      BY <3>2, <1>3, BeforeFacts
    <3>4. Before(st[i], z)
      BY <3>2, <3>3, <1>3, <1>4, <1>5, BeforeFacts
    <3> QED
      BY <3>1, <3>4, <2>2, <1>7
  <2>3. CASE j # h
    <3>1. i \in 0..(h - 1) /\ j \in 0..(h - 1)
      BY <2>3, <1>1, <1>12
    <3>2. i \in 0..n /\ j \in 0..n
      BY <3>1, <1>10
    <3>3. Before(st[i], st[j])
      BY <3>2, <1>8, <1>12
    <3> QED
      BY <3>1, <3>3, <1>7
  <2> QED
    BY <2>1, <2>2, <2>3
<1>13. s[0] = Start
  BY <1>1, <1>7, <1>8
<1>14. WalkOK(s, G)'
  BY <1>1, <1>9, <1>11, <1>12, <1>13 DEF WalkOK, Before
<1>15. \A i \in 0..final : s[i] = st[i]
  BY <1>1, <1>7
<1> QED
  BY <1>4, <1>7, <1>14, <1>15

(* The events of the blocks are those there were, and the new one.         *)
LEMMA TipEvents ==
  ASSUME NEW st, NEW H, WalkOK(st, H), NEW c, NEW h, NEW q, NEW e, NEW gks,
         Tip(c, h, q, e, gks, st, H)
  PROVE  /\ \A i \in 1..Len(blocks') : \A j \in 1..Len(blocks'[i].events) :
              \/ i = h /\ blocks'[i].events[j] = e
              \/ /\ i \in 1..Len(blocks) /\ j \in 1..Len(blocks[i].events)
                 /\ blocks'[i].events[j] = blocks[i].events[j]
                 /\ i = h => j \in 1..Len(q) /\ blocks[i].events[j] = q[j]
         /\ \A i \in 1..Len(blocks) : \A j \in 1..Len(blocks[i].events) :
              /\ i \in 1..Len(blocks') /\ j \in 1..Len(blocks'[i].events)
              /\ blocks'[i].events[j] = blocks[i].events[j]
         /\ h \in 1..Len(blocks') /\ Len(q) + 1 \in 1..Len(blocks'[h].events)
         /\ blocks'[h].events[Len(q) + 1] = e
<1>n. PICK n : n = Len(blocks)
  OBVIOUS
<1>1. /\ h \in Nat \ {0} /\ n \in Nat /\ Len(blocks') = h
      /\ \A i \in 1..(h - 1) : blocks'[i] = blocks[i]
      /\ AnySeq(q) /\ blocks'[h].events = Append(q, e)
      /\ (q = <<>> /\ h = n + 1) \/ (h = n /\ q = blocks[h].events)
  BY <1>n DEF Tip, WalkOK, AnySeq
<1>2. /\ Len(q) \in Nat /\ Len(Append(q, e)) = Len(q) + 1
      /\ \A i \in 1..Len(q) : Append(q, e)[i] = q[i]
      /\ Append(q, e)[Len(q) + 1] = e
  BY <1>1, AppendFacts
<1>3. ASSUME NEW i \in 1..h, NEW j \in 1..Len(blocks'[i].events)
      PROVE  \/ i = h /\ blocks'[i].events[j] = e
             \/ /\ i \in 1..n /\ j \in 1..Len(blocks[i].events)
                /\ blocks'[i].events[j] = blocks[i].events[j]
                /\ i = h => j \in 1..Len(q) /\ blocks[i].events[j] = q[j]
  <2>1. CASE i # h
    <3>1. i \in 1..(h - 1) /\ i \in 1..n
      BY <2>1, <1>1
    <3> QED
      BY <3>1, <2>1, <1>1, <1>3
  <2>2. CASE i = h /\ j = Len(q) + 1
    BY <2>2, <1>1, <1>2
  <2>3. CASE i = h /\ j # Len(q) + 1
    <3>1. j \in 1..Len(q)
      BY <2>3, <1>1, <1>2, <1>3
    <3>2. h = n /\ q = blocks[h].events
      BY <3>1, <1>1
    <3> QED
      BY <3>1, <3>2, <2>3, <1>1, <1>2
  <2> QED
    BY <2>1, <2>2, <2>3
<1>4. ASSUME NEW i \in 1..n, NEW j \in 1..Len(blocks[i].events)
      PROVE  /\ i \in 1..h /\ j \in 1..Len(blocks'[i].events)
             /\ blocks'[i].events[j] = blocks[i].events[j]
  <2>1. CASE i # h
    <3>1. i \in 1..(h - 1) /\ i \in 1..h
      BY <2>1, <1>1
    <3> QED
      BY <3>1, <1>1, <1>4
  <2>2. CASE i = h
    <3>1. q = blocks[h].events
      BY <2>2, <1>1
    <3>2. j \in 1..Len(q) /\ j \in 1..(Len(q) + 1)
      BY <3>1, <2>2, <1>2, <1>4
    <3> QED
      BY <3>1, <3>2, <2>2, <1>1, <1>2
  <2> QED
    BY <2>1, <2>2
<1>5. h \in 1..h /\ Len(q) + 1 \in 1..(Len(q) + 1)
  BY <1>1, <1>2
<1> QED
  BY <1>n, <1>1, <1>2, <1>3, <1>4, <1>5

(* Who was registered as the first gatekeeper, with the new event.         *)
LEMMA TipFirsts ==
  ASSUME NEW st, NEW H, WalkOK(st, H), NEW c, NEW h, NEW q, NEW e, NEW gks,
         Tip(c, h, q, e, gks, st, H)
  PROVE  Firsts' = Firsts \cup {w \in Workers : e = FirstGatekeeper(w)}
<1>1. ASSUME NEW w \in Workers, w \in Firsts' PROVE w \in Firsts \/ e = FirstGatekeeper(w)
  <2>1. PICK i \in 1..Len(blocks') : \E j \in 1..Len(blocks'[i].events) :
                                       blocks'[i].events[j] = FirstGatekeeper(w)
    BY <1>1 DEF Firsts
  <2>2. PICK j \in 1..Len(blocks'[i].events) : blocks'[i].events[j] = FirstGatekeeper(w)
    BY <2>1
  <2>3. CASE i = h /\ blocks'[i].events[j] = e
    BY <2>2, <2>3
  <2>4. CASE /\ i \in 1..Len(blocks) /\ j \in 1..Len(blocks[i].events)
             /\ blocks'[i].events[j] = blocks[i].events[j]
    BY <2>2, <2>4 DEF Firsts
  <2> QED
    BY <2>3, <2>4, TipEvents
<1>2. ASSUME NEW w \in Workers, w \in Firsts PROVE w \in Firsts'
  <2>1. PICK i \in 1..Len(blocks) : \E j \in 1..Len(blocks[i].events) :
                                       blocks[i].events[j] = FirstGatekeeper(w)
    BY <1>2 DEF Firsts
  <2>2. PICK j \in 1..Len(blocks[i].events) : blocks[i].events[j] = FirstGatekeeper(w)
    BY <2>1
  <2>3. /\ i \in 1..Len(blocks') /\ j \in 1..Len(blocks'[i].events)
        /\ blocks'[i].events[j] = FirstGatekeeper(w)
    BY <2>2, TipEvents
  <2> QED
    BY <2>3 DEF Firsts
<1>3. ASSUME NEW w \in Workers, e = FirstGatekeeper(w) PROVE w \in Firsts'
  <2>1. /\ h \in 1..Len(blocks') /\ Len(q) + 1 \in 1..Len(blocks'[h].events)
        /\ blocks'[h].events[Len(q) + 1] = e
    BY TipEvents
  <2> QED
    BY <2>1, <1>3 DEF Firsts
<1>4. Firsts \subseteq Workers /\ Firsts' \subseteq Workers
  BY DEF Firsts
<1> QED
  BY <1>1, <1>2, <1>3, <1>4

(* Senders of proposals stay gatekeepers after their block, unless the new *)
(* event takes a gatekeeper away from a block with a proposal.             *)
LEMMA TipSenders ==
  ASSUME NEW st, NEW H, WalkOK(st, H), NEW c, NEW h, NEW q, NEW e, NEW gks,
         Tip(c, h, q, e, gks, st, H), SendersOK,
         e.type = "MasterKeyRotation" => e.sender \in gks,
         \/ blocks[h].gatekeepers \subseteq gks
         \/ \A j \in 1..Len(q) : q[j].type # "MasterKeyRotation"
  PROVE  SendersOK'
<1> SUFFICES ASSUME NEW i \in 1..Len(blocks'), NEW j \in 1..Len(blocks'[i].events),
                    blocks'[i].events[j].type = "MasterKeyRotation"
             PROVE  blocks'[i].events[j].sender \in blocks'[i].gatekeepers
  BY DEF SendersOK
<1>1. /\ h \in Nat \ {0} /\ Len(blocks') = h
      /\ \A k \in 1..(h - 1) : blocks'[k] = blocks[k]
      /\ blocks'[h].gatekeepers = gks
  BY DEF Tip
<1>2. CASE i = h /\ blocks'[i].events[j] = e
  BY <1>1, <1>2
<1>3. CASE /\ i \in 1..Len(blocks) /\ j \in 1..Len(blocks[i].events)
           /\ blocks'[i].events[j] = blocks[i].events[j]
           /\ i = h => j \in 1..Len(q) /\ blocks[i].events[j] = q[j]
  <2>1. blocks'[i].events[j].sender \in blocks[i].gatekeepers
    BY <1>3 DEF SendersOK
  <2>2. CASE i # h
    <3>1. i \in 1..(h - 1)
      BY <2>2, <1>1
    <3> QED
      BY <3>1, <2>1, <1>1
  <2>3. CASE i = h
    BY <2>1, <2>3, <1>1, <1>3
  <2> QED
    BY <2>2, <2>3
<1> QED
  BY <1>2, <1>3, TipEvents

(* What an action of the chain that emits e has to show.                   *)
GoesOn(st, H, first, c, h, q, e, f, G, new, S) ==
  /\ IInv(st, H, first) /\ S = st[final].stream
  /\ Tip(c, h, q, e, f.gks, st, H) /\ f = Follow(c, e) /\ EventOK(c, e, h, G)
  /\ Extends(H, G) /\ KeysOK(G, keys)
  /\ SendersOK' /\ (\A w \in Firsts' : w = new /\ f.on)
  /\ G # <<>> => new \in Firsts' /\ seal[new] # <<>>
  /\ ChainOK(f, S, G)' /\ TransitOK(S, G)'
  /\ final' = final /\ node' = node /\ seal' = seal /\ ckpt' = ckpt /\ keys' = keys

(* Then there is an account with the event.                                *)
LEMMA ChainGoesOn ==
  ASSUME NEW st, NEW H, NEW first, NEW c, NEW h, NEW q, NEW e, NEW f, NEW G, NEW new, NEW S,
         GoesOn(st, H, first, c, h, q, e, f, G, new, S)
  PROVE  \E s : IInv(s, G, new)'
<1> USE DEF GoesOn
<1>1. /\ final \in 0..Len(blocks) /\ keys \in Nat /\ KeysOK(H, keys) /\ H \in Seq(Entry)
      /\ OfWorkers(node) /\ OfWorkers(ckpt) /\ OfWorkers(seal)
      /\ WalkOK(st, H) /\ NodesOK(st, H) /\ G \in Seq(Entry)
  BY DEF IInv, KeysOK
<1>2. PICK s : WalkOK(s, G)' /\ SameChain(f, s[h]) /\ \A i \in 0..final : s[i] = st[i]
  <2>1. Takes(st, H, G, c, h, q, e, f)
    BY <1>1 DEF Takes
  <2> HIDE DEF GoesOn
  <2> QED
    BY <1>1, <2>1, TipGrows
<1>3. Len(blocks') = h /\ h \in Nat /\ final \in 0..h /\ s[final] = st[final]
  <2>1. Len(blocks') = h /\ h \in Nat \ {0} /\ final <= h - 1
    BY DEF Tip
  <2> QED
    BY <2>1, <1>1, <1>2
<1>4. NodesOK(s, G)'
  <2>1. ASSUME NEW r, NEW n, WorkerOK(r, n, st, H, final)
        PROVE  WorkerOK(r, n, s, G, final)
    <3>1. n.height \in 0..final /\ s[n.height] = st[n.height] /\ n.height \in 0..Len(blocks)
      BY <1>1, <1>2, <2>1 DEF WorkerOK
    <3>2. CanonType(st[n.height])
      BY <3>1, <1>1 DEF WalkOK, CanonOK
    <3>3. NodeOK(r, n, st[n.height], G)
      BY <3>2, <1>1, <2>1, NodeExtends DEF WorkerOK
    <3> QED
      BY <3>1, <3>3, <2>1 DEF WorkerOK
  <2> SUFFICES ASSUME NEW r \in Workers
               PROVE  /\ WorkerOK(r, node[r], s, G, final) /\ WorkerOK(r, ckpt[r], s, G, final)
                      /\ node[r].panic \notin BadPanics /\ ckpt[r].panic = "none"
                      /\ Genuine(seal[r], G)
    BY DEF NodesOK
  <2> QED
    BY <1>1, <2>1, GenuineExtends DEF NodesOK
<1>5. FirstOK(s, G, new)'
  <2>1. s[h].on <=> f.on
    BY <1>2 DEF SameChain
  <2> QED
    BY <2>1, <1>3 DEF FirstOK
<1>6. ChainOK(s[h], S, G)'
  BY <1>2 DEF ChainOK, SameChain
<1>7. IInv(s, G, new)'
  BY <1>1, <1>2, <1>3, <1>4, <1>5, <1>6 DEF IInv
<1> QED
  BY <1>7

(* What is known where an event is emitted.                                *)
Opened(c, h, q, e, gks, st, H, S) ==
  /\ Tip(c, h, q, e, gks, st, H) /\ CanonOK(c) /\ ChainOK(c, S, H) /\ StreamOK(S)
  /\ Extends(S, c.stream) /\ (q = <<>> \/ blocks[h].gatekeepers = c.gks)

(* The chain agrees with the account up to the new event.                  *)
LEMMA Opens ==
  ASSUME NEW st, NEW H, NEW first, IInv(st, H, first), NEW e, NEW gks, Emit(e, gks), NEW S,
         S = st[final].stream
  PROVE  \E c, h, q : Opened(c, h, q, e, gks, st, H, S)
<1>1. /\ WalkOK(st, H) /\ final \in 0..Len(blocks) /\ ChainOK(st[Len(blocks)], S, H)
  BY DEF IInv
<1>2. PICK c, h, q : Tip(c, h, q, e, gks, st, H)
  BY <1>1, EmitTip
<1>3. CanonOK(c) /\ SameChain(c, st[Len(blocks)]) /\ Extends(S, c.stream)
  BY <1>2 DEF Tip
<1>4. ChainOK(c, S, H)
  BY <1>1, <1>3 DEF ChainOK, SameChain
<1>5. StreamOK(S)
  BY <1>1 DEF WalkOK, CanonOK
<1>6. q = <<>> \/ blocks[h].gatekeepers = c.gks
  <2>1. q = <<>> \/ (h \in Nat \ {0} /\ h = Len(blocks))
    BY <1>2 DEF Tip
  <2>2. ASSUME h \in Nat \ {0}, h = Len(blocks)
        PROVE  blocks[h].gatekeepers = c.gks
    <3>1. BlockOK(blocks[h], st[h - 1], st[h], h, H)
      BY <1>1, <2>2 DEF WalkOK
    <3>2. blocks[h].gatekeepers = st[h].gks
      BY <3>1 DEF BlockOK
    <3> QED
      BY <3>2, <2>2, <1>3 DEF SameChain
  <2> QED
    BY <2>1, <2>2
<1> QED
  BY <1>2, <1>3, <1>4, <1>5, <1>6 DEF Opened

(* What an action that emits e has to show, unless e is about the first    *)
(* gatekeeper.                                                             *)
GoesOnLater(st, H, first, c, h, q, e, f, G, S) ==
  /\ IInv(st, H, first) /\ S = st[final].stream
  /\ Opened(c, h, q, e, f.gks, st, H, S) /\ f = Follow(c, e) /\ EventOK(c, e, h, G)
  /\ e.type # "FirstGatekeeper" /\ Extends(H, G) /\ (G # <<>> => H # <<>>)
  /\ KeysOK(G, keys)
  /\ e.type = "MasterKeyRotation" => e.sender \in f.gks
  /\ c.gks \subseteq f.gks \/ \A j \in 1..Len(q) : q[j].type # "MasterKeyRotation"
  /\ ChainOK(f, S, G)' /\ TransitOK(S, G)'
  /\ final' = final /\ node' = node /\ seal' = seal /\ ckpt' = ckpt /\ keys' = keys

(* Then there is an account with the event.                                *)
LEMMA ChainGoesOnLater ==
  ASSUME NEW st, NEW H, NEW first, NEW c, NEW h, NEW q, NEW e, NEW f, NEW G, NEW S,
         GoesOnLater(st, H, first, c, h, q, e, f, G, S)
  PROVE  \E s : IInv(s, G, first)'
<1>1. /\ IInv(st, H, first) /\ WalkOK(st, H) /\ SendersOK /\ FirstOK(st, H, first)
      /\ Tip(c, h, q, e, f.gks, st, H)
  BY DEF GoesOnLater, IInv, Opened
<1>2. SendersOK'
  <2>1. \/ blocks[h].gatekeepers \subseteq f.gks
        \/ \A j \in 1..Len(q) : q[j].type # "MasterKeyRotation"
    BY DEF GoesOnLater, Opened
  <2>2. e.type = "MasterKeyRotation" => e.sender \in f.gks
    BY DEF GoesOnLater
  <2> QED
    BY <1>1, <2>1, <2>2, TipSenders
<1>3. Firsts' = Firsts
  <2>1. \A w \in Workers : e # FirstGatekeeper(w)
    BY DEF GoesOnLater, FirstGatekeeper
  <2> QED
    BY <1>1, <2>1, TipFirsts
<1>4. (\A w \in Firsts' : w = first /\ f.on) /\ (G # <<>> => first \in Firsts' /\ seal[first] # <<>>)
  <2>1. c.on <=> st[Len(blocks)].on
    BY <1>1 DEF Tip, SameChain
  <2>2. f.on <=> c.on
    BY DEF GoesOnLater, Follow
  <2> QED
    BY <2>1, <2>2, <1>1, <1>3 DEF FirstOK, GoesOnLater
<1>5. GoesOn(st, H, first, c, h, q, e, f, G, first, S)
  BY <1>1, <1>2, <1>4 DEF GoesOn, GoesOnLater
<1> QED
  BY <1>5, ChainGoesOn

(* Nothing changes for the chain with an event about neither gatekeepers   *)
(* nor rotations.                                                          *)
LEMMA FollowIdly ==
  ASSUME NEW c, CanonOK(c), NEW e,
         e.type \in {"MasterPubkeyOnChain", "NewRandomNumber", "Settle"}, NEW f,
         f = Follow(c, e)
  PROVE  /\ (f.on <=> c.on) /\ f.idx = c.idx /\ f.req = c.req /\ f.gks = c.gks
         /\ f.keyed = c.keyed /\ f.at = c.at
BY DEF Follow, CanonOK, CanonType

(* Worker events that lead to a report.                                    *)
LEMMA SettleInv ==
  ASSUME NEW st, NEW H, NEW first, IInv(st, H, first), SettleWorkers
  PROVE  \E s : IInv(s, H, first)'
<1>S. PICK S : S = st[final].stream
  OBVIOUS
<1>e. PICK e : e = Settle
  OBVIOUS
<1>1. /\ Emit(e, gatekeepers)
      /\ UNCHANGED <<final, gatekeepers, master, lock, rotations, ingress, pool, uploads,
                     node, seal, ckpt, keys>>
  BY <1>e DEF SettleWorkers, chainVars, nodeVars
<1>2. PICK c, h, q : Opened(c, h, q, e, gatekeepers, st, H, S)
  BY <1>1, <1>S, Opens
<1>f. PICK f : f = Follow(c, e)
  OBVIOUS
<1>3. e.type = "Settle" /\ CanonOK(c) /\ ChainOK(c, S, H)
  BY <1>e, <1>2 DEF Settle, Opened
<1>4. /\ (f.on <=> c.on) /\ f.idx = c.idx /\ f.req = c.req /\ f.gks = c.gks
      /\ f.keyed = c.keyed /\ f.at = c.at
  BY <1>3, <1>f, FollowIdly
<1>5. ChainOK(f, S, H)'
  BY <1>1, <1>3, <1>4 DEF ChainOK
<1>6. TransitOK(S, H)'
  BY <1>1, <1>S DEF IInv, TransitOK
<1>7. gatekeepers = f.gks
  BY <1>3, <1>4 DEF ChainOK
<1>8. EventOK(c, e, h, H)
  BY <1>3 DEF EventOK
<1>9. KeysOK(H, keys) /\ Extends(H, H)
  <2>1. KeysOK(H, keys) /\ H \in Seq(Entry)
    BY DEF IInv, KeysOK
  <2> QED
    BY <2>1, SeqIsAny, ExtendsFacts
<1>10. GoesOnLater(st, H, first, c, h, q, e, f, H, S)
  BY <1>S, <1>f, <1>1, <1>2, <1>3, <1>4, <1>5, <1>6, <1>7, <1>8, <1>9 DEF GoesOnLater
<1> QED
  BY <1>10, ChainGoesOnLater

(* The first key becomes the master key on chain.                          *)
LEMMA UploadInv ==
  ASSUME NEW st, NEW H, NEW first, IInv(st, H, first), AcceptUpload
  PROVE  \E s : IInv(s, H, first)'
<1>S. PICK S : S = st[final].stream
  OBVIOUS
<1>k. PICK k \in uploads : master' = k /\ Emit(MasterPubkeyOnChain(k), gatekeepers)
  BY DEF AcceptUpload
<1>e. PICK e : e = MasterPubkeyOnChain(k)
  OBVIOUS
<1>1. /\ Emit(e, gatekeepers) /\ master = 0 /\ master' = k
      /\ UNCHANGED <<final, gatekeepers, lock, rotations, ingress, pool, uploads,
                     node, seal, ckpt, keys>>
  BY <1>e, <1>k DEF AcceptUpload, nodeVars
<1>2. PICK c, h, q : Opened(c, h, q, e, gatekeepers, st, H, S)
  BY <1>1, <1>S, Opens
<1>f. PICK f : f = Follow(c, e)
  OBVIOUS
<1>3. e.type = "MasterPubkeyOnChain" /\ CanonOK(c) /\ ChainOK(c, S, H)
  BY <1>e, <1>2 DEF MasterPubkeyOnChain, Opened
<1>4. /\ (f.on <=> c.on) /\ f.idx = c.idx /\ f.req = c.req /\ f.gks = c.gks
      /\ f.keyed = c.keyed /\ f.at = c.at
  BY <1>3, <1>f, FollowIdly
<1>9. KeysOK(H, keys) /\ Extends(H, H) /\ H \in Seq(Entry) /\ Len(H) \in Nat
  <2>1. KeysOK(H, keys) /\ H \in Seq(Entry)
    BY DEF IInv, KeysOK
  <2> QED
    BY <2>1, SeqIsAny, ExtendsFacts
<1>10. TransitOK(S, H) /\ H # <<>> /\ k = H[1].key /\ keys \in Nat
  BY <1>k, <1>S DEF IInv, TransitOK
<1>11. ingress = 0 /\ c.idx = 0 /\ c.on
  BY <1>1, <1>3, <1>10 DEF ChainOK
<1>12. 0 < Len(H) /\ k # 0
  <2>1. Len(H) # 0
    BY <1>9, <1>10
  <2>2. 1 \in 1..Len(H)
    BY <2>1, <1>9
  <2>3. H[1].key \in 1..keys
    BY <2>2, <1>9 DEF KeysOK
  <2> QED
    BY <2>1, <2>3, <1>9, <1>10
<1>13. Signing(S, ingress) = 0
  BY <1>11 DEF Signing
<1>5. ChainOK(f, S, H)'
  BY <1>1, <1>3, <1>4, <1>10, <1>11, <1>12, <1>13 DEF ChainOK
<1>6. TransitOK(S, H)'
  BY <1>1, <1>10 DEF TransitOK
<1>7. gatekeepers = f.gks
  BY <1>3, <1>4 DEF ChainOK
<1>8. EventOK(c, e, h, H)
  BY <1>e, <1>10, <1>11 DEF EventOK
<1>14. GoesOnLater(st, H, first, c, h, q, e, f, H, S)
  BY <1>S, <1>f, <1>1, <1>2, <1>3, <1>4, <1>5, <1>6, <1>7, <1>8, <1>9 DEF GoesOnLater
<1> QED
  BY <1>14, ChainGoesOnLater

(* rotate_master_key asks for the next key.                                *)
LEMMA RequestInv ==
  ASSUME NEW st, NEW H, NEW first, IInv(st, H, first), RequestRotation
  PROVE  \E s : IInv(s, H, first)'
<1>S. PICK S : S = st[final].stream
  OBVIOUS
<1>e. PICK e : e = RotateMasterKey(rotations + 1, gatekeepers)
  OBVIOUS
<1>1. /\ Emit(e, gatekeepers) /\ lock = 0 /\ rotations' = rotations + 1 /\ lock' = rotations + 1
      /\ UNCHANGED <<final, gatekeepers, master, ingress, pool, uploads,
                     node, seal, ckpt, keys>>
  BY <1>e DEF RequestRotation, nodeVars
<1>2. PICK c, h, q : Opened(c, h, q, e, gatekeepers, st, H, S)
  BY <1>1, <1>S, Opens
<1>f. PICK f : f = Follow(c, e)
  OBVIOUS
<1>3. /\ e.type = "RotateMasterKey" /\ e.id = rotations + 1 /\ CanonOK(c) /\ ChainOK(c, S, H)
  BY <1>e, <1>2 DEF RotateMasterKey, Opened
<1>4. /\ (f.on <=> c.on) /\ f.idx = c.idx /\ f.req = rotations + 1 /\ f.gks = c.gks
      /\ f.keyed = c.keyed /\ f.at = c.at
  BY <1>3, <1>f DEF Follow, CanonOK, CanonType
<1>5. rotations = c.req /\ c.req \in Nat /\ gatekeepers = c.gks /\ (c.on => c.idx = c.req)
  BY <1>1, <1>3 DEF ChainOK, CanonOK, CanonType
<1>6. ChainOK(f, S, H)'
  <2>1. lock' # 0 /\ lock' = rotations'
    BY <1>1, <1>5
  <2>2. c.on => Signing(S, ingress) = rotations' - 1
    BY <1>1, <1>3, <1>5 DEF ChainOK
  <2> QED
    BY <2>1, <2>2, <1>1, <1>3, <1>4, <1>5 DEF ChainOK
<1>7. TransitOK(S, H)'
  BY <1>1, <1>S DEF IInv, TransitOK
<1>8. EventOK(c, e, h, H)
  BY <1>e, <1>5 DEF EventOK
<1>9. KeysOK(H, keys) /\ Extends(H, H)
  <2>1. KeysOK(H, keys) /\ H \in Seq(Entry)
    BY DEF IInv, KeysOK
  <2> QED
    BY <2>1, SeqIsAny, ExtendsFacts
<1>10. GoesOnLater(st, H, first, c, h, q, e, f, H, S)
  BY <1>S, <1>f, <1>1, <1>2, <1>3, <1>4, <1>5, <1>6, <1>7, <1>8, <1>9 DEF GoesOnLater
<1> QED
  BY <1>10, ChainGoesOnLater

(* While no rotation is under way, a block that nobody has handled yet has *)
(* no proposal in it: the chain would have to wait for its announcement.   *)
LEMMA NoProposalOpen ==
  ASSUME NEW st, NEW H, WalkOK(st, H), final \in 0..Len(blocks), NEW S, S = st[final].stream,
         NEW c, NEW h, NEW q, NEW e, NEW gks, Opened(c, h, q, e, gks, st, H, S),
         lock = 0, c.on
  PROVE  \A j \in 1..Len(q) : q[j].type # "MasterKeyRotation"
<1> SUFFICES ASSUME NEW j \in 1..Len(q), q[j].type = "MasterKeyRotation"
             PROVE  FALSE
  OBVIOUS
<1>1. PICK ev : StepsOK(ev, [events |-> q], st[h - 1], h, H) /\ c = ev[Len(q)]
  BY DEF Opened, Tip
<1>d. PICK d : d = [events |-> q]
  OBVIOUS
<1>2. d.events = q /\ StepsOK(ev, d, st[h - 1], h, H)
  BY <1>1, <1>d
<1>3. /\ Len(q) \in Nat /\ ev[0] = st[h - 1]
      /\ EventOK(ev[j - 1], q[j], h, H) /\ ev[j] = Follow(ev[j - 1], q[j])
      /\ \A i \in 0..Len(q) : CanonOK(ev[i])
      /\ \A i, k \in 0..Len(q) : i <= k => ev[i].idx <= ev[k].idx
  BY <1>2 DEF StepsOK, AnySeq
<1>4. j - 1 \in 0..Len(q) /\ j \in 0..Len(q) /\ 0 \in 0..Len(q) /\ Len(q) \in 0..Len(q)
  BY <1>3
<1>5. /\ ev[0].idx \in Nat /\ ev[j - 1].idx \in Nat /\ ev[j].idx \in Nat /\ c.idx \in Nat
      /\ ev[0].idx <= ev[j - 1].idx /\ ev[j].idx <= c.idx
  BY <1>1, <1>3, <1>4 DEF CanonOK, CanonType
<1>6. q[j].id = ev[j - 1].req /\ ev[j - 1].req = ev[j - 1].idx + 1
  <2>1. PICK x, y : x = q[j] /\ y = ev[j - 1]
    OBVIOUS
  <2>2. EventOK(y, x, h, H) /\ x.type = "MasterKeyRotation"
    BY <2>1, <1>3
  <2>3. y.req = y.idx + 1 /\ x = MasterKeyRotation(y.req, x.key, y.gks, x.sender)
    BY <2>2 DEF EventOK, FirstGatekeeper, MasterPubkeyOnChain, Registered, Unregistered,
         RotateMasterKey
  <2>4. x.id = y.req
    BY <2>3 DEF MasterKeyRotation
  <2> QED
    BY <2>1, <2>3, <2>4
<1>7. ev[j].idx = ev[j - 1].idx + 1
  BY <1>3, <1>6 DEF Follow
<1>8. CanonOK(st[final]) /\ st[final].idx <= ev[0].idx
  <2>1. h \in Nat \ {0} /\ final <= h - 1 /\ (h = Len(blocks) + 1 \/ h = Len(blocks))
    BY DEF Opened, Tip
  <2>2. Len(blocks) \in Nat
    BY DEF WalkOK, AnySeq
  <2>3. h - 1 \in 0..Len(blocks) /\ final \in 0..Len(blocks)
    BY <2>1, <2>2
  <2> QED
    BY <2>1, <2>3, <1>3 DEF WalkOK
<1>9. c.idx = Signing(S, ingress) /\ ingress \in 0..Len(S)
  BY DEF Opened, ChainOK
<1>10. Signing(S, ingress) <= st[final].idx /\ st[final].idx \in Nat
  BY <1>8, <1>9 DEF CanonOK, CanonType, StreamOK
<1> QED
  BY SMTT(30), <1>5, <1>7, <1>8, <1>9, <1>10

(* The first gatekeeper is registered.                                     *)
LEMMA RegisterFirstInv ==
  ASSUME NEW st, NEW H, NEW first, IInv(st, H, first), NEW g \in Workers, gatekeepers = {},
         RegisterGatekeeper(g)
  PROVE  \E s : IInv(s, H, g)'
<1>S. PICK S : S = st[final].stream
  OBVIOUS
<1>e. PICK e : e = FirstGatekeeper(g)
  OBVIOUS
<1>1. /\ Emit(e, {g}) /\ lock = 0 /\ gatekeepers' = {g}
      /\ UNCHANGED <<final, master, lock, rotations, ingress, pool, uploads,
                     node, seal, ckpt, keys>>
  BY <1>e DEF RegisterGatekeeper, nodeVars
<1>2. PICK c, h, q : Opened(c, h, q, e, {g}, st, H, S)
  BY <1>1, <1>S, Opens
<1>f. PICK f : f = Follow(c, e)
  OBVIOUS
<1>3. /\ e.type = "FirstGatekeeper" /\ e.gk = g /\ CanonOK(c) /\ ChainOK(c, S, H)
      /\ Tip(c, h, q, e, {g}, st, H)
  BY <1>e, <1>2 DEF FirstGatekeeper, Opened
<1>4. ~c.on /\ H = <<>> /\ rotations = 0 /\ c.req = 0
  BY <1>1, <1>3 DEF ChainOK
<1>5. c.idx = 0 /\ c.gks = {} /\ c.stream = <<>>
  BY <1>3, <1>4 DEF CanonOK
<1>6. /\ f.on /\ f.idx = 0 /\ f.req = 0 /\ f.gks = {g} /\ g \in f.keyed /\ f.at = c.at
  BY <1>3, <1>4, <1>5, <1>f DEF Follow
<1>7. ingress = 0 /\ Signing(S, ingress) = 0
  <2>1. StreamOK(S) /\ Extends(S, c.stream) /\ ingress \in 0..Len(S)
    BY <1>2, <1>3 DEF Opened, ChainOK
  <2>2. Len(S) \in Nat /\ Len(S) <= 0
    BY <2>1, <1>5 DEF StreamOK, AnySeq, Extends
  <2>3. ingress = 0
    BY <2>1, <2>2
  <2> QED
    BY <2>3 DEF Signing
<1>8. master = 0
  BY <1>3, <1>4 DEF ChainOK
<1>9. ChainOK(f, S, H)'
  BY <1>1, <1>3, <1>4, <1>6, <1>7, <1>8 DEF ChainOK
<1>10. TransitOK(S, H)'
  BY <1>1, <1>S DEF IInv, TransitOK
<1>11. EventOK(c, e, h, H)
  BY <1>e, <1>4 DEF EventOK
<1>12. KeysOK(H, keys) /\ Extends(H, H)
  <2>1. KeysOK(H, keys) /\ H \in Seq(Entry)
    BY DEF IInv, KeysOK
  <2> QED
    BY <2>1, SeqIsAny, ExtendsFacts
<1>13. SendersOK'
  <2>1. \/ blocks[h].gatekeepers \subseteq {g}
        \/ \A j \in 1..Len(q) : q[j].type # "MasterKeyRotation"
    BY <1>2, <1>5 DEF Opened
  <2> QED
    BY <2>1, <1>3, TipSenders DEF IInv
<1>14. \A w \in Firsts' : w = g /\ f.on
  <2>1. Firsts = {}
    <3>1. c.on <=> st[Len(blocks)].on
      BY <1>3 DEF Tip, SameChain
    <3> QED
      BY <3>1, <1>4 DEF IInv, FirstOK
  <2>2. \A w : e = FirstGatekeeper(w) => w = g
    BY <1>e DEF FirstGatekeeper
  <2>3. WalkOK(st, H)
    BY DEF IInv
  <2>4. Firsts' = Firsts \cup {w \in Workers : e = FirstGatekeeper(w)}
    BY <2>3, <1>3, TipFirsts
  <2> QED
    BY <2>1, <2>2, <2>4, <1>6
<1>15. GoesOn(st, H, first, c, h, q, e, f, H, g, S)
  BY <1>S, <1>f, <1>1, <1>3, <1>4, <1>6, <1>9, <1>10, <1>11, <1>12, <1>13, <1>14 DEF GoesOn
<1> QED
  BY <1>15, ChainGoesOn

(* Another gatekeeper is registered: the key is shared with it later than  *)
(* anything the chain has accepted.                                        *)
LEMMA RegisterLaterInv ==
  ASSUME NEW st, NEW H, NEW first, IInv(st, H, first), NEW g \in Workers, gatekeepers # {},
         RegisterGatekeeper(g)
  PROVE  \E s : IInv(s, H, first)'
<1>S. PICK S : S = st[final].stream
  OBVIOUS
<1>e. PICK e : e = Registered(g)
  OBVIOUS
<1>g. PICK gks : gks = gatekeepers \cup {g}
  OBVIOUS
<1>1. /\ Emit(e, gks) /\ lock = 0 /\ gatekeepers' = gks
      /\ UNCHANGED <<final, master, lock, rotations, ingress, pool, uploads,
                     node, seal, ckpt, keys>>
  BY <1>e, <1>g DEF RegisterGatekeeper, nodeVars
<1>2. PICK c, h, q : Opened(c, h, q, e, gks, st, H, S)
  BY <1>1, <1>S, Opens
<1>f. PICK f : f = Follow(c, e)
  OBVIOUS
<1>3. /\ e.type = "Registered" /\ e.gk = g /\ CanonOK(c) /\ ChainOK(c, S, H)
  BY <1>e, <1>2 DEF Registered, Opened
<1>4. c.on /\ gatekeepers = c.gks /\ c.req = c.idx
  BY <1>1, <1>3 DEF ChainOK
<1>5. /\ f.on /\ f.idx = c.idx /\ f.req = c.req /\ f.gks = gks /\ f.keyed = c.keyed
      /\ f.at = [c.at EXCEPT ![g] = Len(c.stream) + 1]
  BY <1>3, <1>4, <1>f, <1>g DEF Follow
<1>6. f.at[g] > ingress /\ \A w \in gatekeepers : w # g => f.at[w] = c.at[w]
  <2>1. /\ c.at \in [Workers -> 0..Len(c.stream)] /\ gatekeepers \subseteq Workers
        /\ Len(c.stream) \in Nat
    BY <1>3, <1>4 DEF CanonOK, CanonType, StreamOK, AnySeq
  <2>2. f.at[g] = Len(c.stream) + 1 /\ \A w \in gatekeepers : w # g => f.at[w] = c.at[w]
    BY <2>1, <1>5
  <2>3. ingress \in 0..Len(S) /\ Len(S) \in Nat /\ Len(S) <= Len(c.stream)
    BY <1>2, <1>3 DEF Opened, ChainOK, StreamOK, AnySeq, Extends
  <2>4. Len(c.stream) + 1 > ingress
    BY <2>1, <2>3
  <2> QED
    BY <2>2, <2>4
<1>7. ChainOK(f, S, H)'
  <2>1. \A w \in gks : w \in f.keyed \/ f.at[w] > ingress
    BY <1>3, <1>5, <1>6, <1>g DEF ChainOK
  <2>2. gks # {}
    BY <1>g
  <2> QED
    BY <2>1, <2>2, <1>1, <1>3, <1>4, <1>5 DEF ChainOK
<1>8. TransitOK(S, H)'
  BY <1>1, <1>S DEF IInv, TransitOK
<1>9. EventOK(c, e, h, H)
  BY <1>e, <1>4 DEF EventOK
<1>10. KeysOK(H, keys) /\ Extends(H, H)
  <2>1. KeysOK(H, keys) /\ H \in Seq(Entry)
    BY DEF IInv, KeysOK
  <2> QED
    BY <2>1, SeqIsAny, ExtendsFacts
<1>11. c.gks \subseteq f.gks
  BY <1>4, <1>5, <1>g
<1>12. GoesOnLater(st, H, first, c, h, q, e, f, H, S)
  BY <1>S, <1>f, <1>1, <1>2, <1>3, <1>5, <1>7, <1>8, <1>9, <1>10, <1>11 DEF GoesOnLater
<1> QED
  BY <1>12, ChainGoesOnLater

(* A gatekeeper is unregistered, which is never the last one.              *)
LEMMA UnregisterInv ==
  ASSUME NEW st, NEW H, NEW first, IInv(st, H, first), NEW g \in Workers,
         UnregisterGatekeeper(g)
  PROVE  \E s : IInv(s, H, first)'
<1>S. PICK S : S = st[final].stream
  OBVIOUS
<1>e. PICK e : e = Unregistered(g)
  OBVIOUS
<1>g. PICK gks : gks = gatekeepers \ {g}
  OBVIOUS
<1>1. /\ Emit(e, gks) /\ lock = 0 /\ gatekeepers' = gks /\ g \in gatekeepers
      /\ Cardinality(gatekeepers) > 1
      /\ UNCHANGED <<final, master, lock, rotations, ingress, pool, uploads,
                     node, seal, ckpt, keys>>
  BY <1>e, <1>g DEF UnregisterGatekeeper, nodeVars
<1>2. PICK c, h, q : Opened(c, h, q, e, gks, st, H, S)
  BY <1>1, <1>S, Opens
<1>f. PICK f : f = Follow(c, e)
  OBVIOUS
<1>3. /\ e.type = "Unregistered" /\ e.gk = g /\ CanonOK(c) /\ ChainOK(c, S, H)
  BY <1>e, <1>2 DEF Unregistered, Opened
<1>4. c.on /\ gatekeepers = c.gks /\ c.req = c.idx
  BY <1>1, <1>3 DEF ChainOK
<1>5. /\ f.on /\ f.idx = c.idx /\ f.req = c.req /\ f.gks = gks /\ f.keyed = c.keyed
      /\ f.at = c.at
  BY <1>3, <1>4, <1>f, <1>g DEF Follow
<1>6. gks # {}
  <2> SUFFICES ASSUME gks = {} PROVE FALSE
    OBVIOUS
  <2>1. gatekeepers = {g}
    BY <1>1, <1>g
  <2>2. Cardinality({g}) = 1
    BY FS_Singleton
  <2> QED
    BY <2>1, <2>2, <1>1
<1>7. ChainOK(f, S, H)'
  <2>1. gks \subseteq gatekeepers
    BY <1>g
  <2> QED
    BY <2>1, <1>1, <1>3, <1>4, <1>5, <1>6 DEF ChainOK
<1>8. TransitOK(S, H)'
  BY <1>1, <1>S DEF IInv, TransitOK
<1>9. EventOK(c, e, h, H)
  BY <1>e, <1>4 DEF EventOK
<1>10. KeysOK(H, keys) /\ Extends(H, H)
  <2>1. KeysOK(H, keys) /\ H \in Seq(Entry)
    BY DEF IInv, KeysOK
  <2> QED
    BY <2>1, SeqIsAny, ExtendsFacts
<1>11. \A j \in 1..Len(q) : q[j].type # "MasterKeyRotation"
  BY <1>S, <1>1, <1>2, <1>4, NoProposalOpen DEF IInv
<1>12. GoesOnLater(st, H, first, c, h, q, e, f, H, S)
  BY <1>S, <1>f, <1>1, <1>2, <1>3, <1>5, <1>7, <1>8, <1>9, <1>10, <1>11 DEF GoesOnLater
<1> QED
  BY <1>12, ChainGoesOnLater

(* What is known of the message that the chain accepts.                    *)
Due(m, d, c, S, H) ==
  /\ CanonOK(c) /\ ChainOK(c, S, H) /\ StreamOK(S) /\ Extends(S, c.stream)
  /\ KeysOK(H, keys) /\ TransitOK(S, H) /\ keys \in Nat
  /\ m \in pool /\ Acceptable(m) /\ d = S[ingress + 1]

(* It is the next one of the stream, signed with the key that the stream   *)
(* signs it with.                                                          *)
LEMMA DueFacts ==
  ASSUME NEW m, NEW d, NEW c, NEW S, NEW H, Due(m, d, c, S, H)
  PROVE  /\ ingress \in Nat /\ ingress < Len(S) /\ Len(S) \in Nat /\ ingress + 1 \in 1..Len(S)
         /\ Tells(m.payload, d, H, keys) /\ DescriptorOK(d) /\ d.idx = Signing(S, ingress)
         /\ Signing(S, ingress) \in Nat
         /\ Signing(S, ingress + 1) = IF d.kind = "RotatedMasterPubkey" THEN d.of.id ELSE d.idx
         /\ c.on /\ H # <<>> /\ H \in Seq(Entry) /\ Len(H) \in Nat /\ Len(H) = c.idx + 1
         /\ c.idx \in Nat /\ c.req \in {c.idx, c.idx + 1} /\ rotations = c.req
         /\ gatekeepers = c.gks /\ c.stream[ingress + 1] = d
         /\ ingress + 1 \in 1..Len(c.stream)
<1>1. /\ m.seq = ingress /\ master # 0 /\ Fits(m, S, H, keys)
  BY DEF Due, Acceptable, TransitOK
<1>2. ingress \in Nat /\ ingress < Len(S) /\ Tells(m.payload, d, H, keys)
  BY <1>1 DEF Fits, Due
<1>3. Len(S) \in Nat /\ ingress + 1 \in 1..Len(S) /\ ingress \in 0..Len(S)
  BY <1>2 DEF Due, StreamOK, AnySeq
<1>4. DescriptorOK(d) /\ d.idx = Signing(S, ingress) /\ Signing(S, ingress) \in Nat
  <2>1. DescriptorOK(S[ingress + 1]) /\ S[ingress + 1].idx = Signing(S, (ingress + 1) - 1)
    BY <1>3 DEF Due, StreamOK
  <2>2. (ingress + 1) - 1 = ingress
    BY <1>2
  <2> QED
    BY <2>1, <2>2, <1>3 DEF Due, StreamOK
<1>5. Signing(S, ingress + 1) = IF d.kind = "RotatedMasterPubkey" THEN d.of.id ELSE d.idx
  BY <1>2 DEF Signing, Due
<1>6. H # <<>> /\ c.on /\ Len(H) = c.idx + 1 /\ rotations = c.req /\ gatekeepers = c.gks
  BY <1>1 DEF Due, ChainOK
<1>7. c.idx \in Nat /\ c.req \in {c.idx, c.idx + 1}
  BY <1>6 DEF Due, CanonOK, CanonType
<1>8. H \in Seq(Entry) /\ Len(H) \in Nat
  BY DEF Due, KeysOK
<1>9. c.stream[ingress + 1] = d /\ ingress + 1 \in 1..Len(c.stream)
  <2>1. Len(c.stream) \in Nat
    BY DEF Due, CanonOK, StreamOK, AnySeq
  <2> QED
    BY <2>1, <1>3 DEF Due, Extends
<1> QED
  BY <1>2, <1>3, <1>4, <1>5, <1>6, <1>7, <1>8, <1>9

(* The key is shared with a gatekeeper that must have it with this message *)
(* or later.                                                               *)
LEMMA SharedLater ==
  ASSUME NEW m, NEW d, NEW c, NEW S, NEW H, Due(m, d, c, S, H), NEW g \in gatekeepers
  PROVE  \/ g \in c.keyed
         \/ c.at[g] > ingress + 1
         \/ d.kind = "MasterKeyHistory" /\ d.of.gk = g
<1>1. g \in c.keyed \/ c.at[g] > ingress
  BY DEF Due, ChainOK
<1>2. /\ ingress \in Nat /\ gatekeepers = c.gks /\ c.stream[ingress + 1] = d
      /\ ingress + 1 \in 1..Len(c.stream)
  BY DueFacts
<1>3. g \in Workers /\ c.at[g] \in Nat
  BY <1>2 DEF Due, CanonOK, CanonType
<1>4. CASE c.at[g] = ingress + 1
  <2>1. c.stream[c.at[g]].kind = "MasterKeyHistory" /\ c.stream[c.at[g]].of.gk = g
    BY <1>2, <1>3, <1>4 DEF Due, CanonOK, SharesOK
  <2> QED
    BY <2>1, <1>2, <1>4
<1> QED
  BY <1>1, <1>2, <1>3, <1>4

(* What stays in transit fits still.                                       *)
LEMMA TransitMoves ==
  ASSUME NEW S, NEW H, NEW G, TransitOK(S, H), StreamOK(S), H \in Seq(Entry),
         G \in Seq(Entry), Extends(H, G), keys \in Nat, pool' \subseteq pool,
         keys' = keys, uploads' = uploads
  PROVE  TransitOK(S, G)'
<1>1. AnySeq(S) /\ Extends(S, S) /\ keys <= keys
  BY ExtendsFacts DEF StreamOK
<1>2. \A m \in pool : Fits(m, S, G, keys)
  BY <1>1, FitsExtends DEF TransitOK
<1>3. ASSUME NEW k \in uploads PROVE G # <<>> /\ k = G[1].key
  <2>1. H # <<>> /\ k = H[1].key
    BY DEF TransitOK
  <2>2. Len(H) \in Nat /\ Len(G) \in Nat /\ Len(H) # 0 /\ Len(H) <= Len(G)
    BY <2>1 DEF Extends
  <2>3. 1 \in 1..Len(H)
    BY <2>2
  <2>4. G[1] = H[1]
    BY <2>3 DEF Extends
  <2> QED
    BY <2>1, <2>2, <2>4
<1> QED
  BY <1>2, <1>3 DEF TransitOK

(* The chain after a message that concerns no rotation and shares no key.  *)
LEMMA QuietMessage ==
  ASSUME NEW m, NEW d, NEW c, NEW S, NEW H, Due(m, d, c, S, H),
         d.kind \in {"Report", "NewRandomNumber"}, ingress' = ingress + 1,
         UNCHANGED <<gatekeepers, master, lock, rotations>>
  PROVE  ChainOK(c, S, H)'
<1>1. /\ ingress \in Nat /\ Len(S) \in Nat /\ ingress + 1 \in 1..Len(S)
      /\ d.idx = Signing(S, ingress)
      /\ Signing(S, ingress + 1) = IF d.kind = "RotatedMasterPubkey" THEN d.of.id ELSE d.idx
  BY DueFacts
<1>2. Signing(S, ingress + 1) = Signing(S, ingress) /\ ingress + 1 \in 0..Len(S)
  BY <1>1
<1>3. \A g \in gatekeepers : g \in c.keyed \/ c.at[g] > ingress + 1
  BY SharedLater
<1>4. \A n \in 1..ingress : n \in 1..(ingress + 1)
  BY <1>1
<1>5. ChainOK(c, S, H) /\ master # 0
  BY DEF Due, Acceptable
<1> QED
  BY <1>2, <1>3, <1>4, <1>5 DEF ChainOK

(* The chain after the announcement of the key that the rotation under way *)
(* has led to: the rotation is over, with that key.                        *)
LEMMA AnnouncementOK ==
  ASSUME NEW m, NEW d, NEW c, NEW S, NEW H, Due(m, d, c, S, H),
         d.kind = "RotatedMasterPubkey", ingress' = ingress + 1,
         OnRotatedMasterPubkey(m.payload), UNCHANGED <<gatekeepers, rotations>>
  PROVE  ChainOK(c, S, H)'
<1>1. /\ ingress \in Nat /\ Len(S) \in Nat /\ ingress + 1 \in 1..Len(S)
      /\ d.idx = Signing(S, ingress) /\ Signing(S, ingress) \in Nat
      /\ Signing(S, ingress + 1) = IF d.kind = "RotatedMasterPubkey" THEN d.of.id ELSE d.idx
      /\ Tells(m.payload, d, H, keys) /\ DescriptorOK(d) /\ c.on /\ H # <<>>
      /\ Len(H) = c.idx + 1 /\ c.idx \in Nat /\ c.req \in {c.idx, c.idx + 1}
      /\ rotations = c.req
  BY DueFacts
<1>2. ChainOK(c, S, H) /\ KeysOK(H, keys)
  BY DEF Due
<1>i. PICK i : i = d.of.id
  OBVIOUS
<1>3. /\ i = d.idx + 1 /\ i < Len(H) /\ m.payload = RotatedMasterPubkey(i, H[i + 1].key)
      /\ Signing(S, ingress + 1) = i
  BY <1>1, <1>i DEF Tells, DescriptorOK
<1>4. m.payload.id = i /\ m.payload.key = H[i + 1].key
  BY <1>3 DEF RotatedMasterPubkey
<1>5. lock # 0
  <2> SUFFICES ASSUME lock = 0 PROVE FALSE
    OBVIOUS
  <2>1. c.idx = Signing(S, ingress)
    BY <1>1, <1>2 DEF ChainOK
  <2> QED
    BY <2>1, <1>1, <1>3
<1>6. lock = rotations /\ Signing(S, ingress) = rotations - 1
  BY <1>1, <1>2, <1>5 DEF ChainOK
<1>7. i = rotations /\ c.idx = i
  BY <1>1, <1>3, <1>6
<1>8. lock' = 0 /\ master' = H[i + 1].key
  BY <1>4, <1>6, <1>7 DEF OnRotatedMasterPubkey
<1>9. master' # 0
  <2>1. i + 1 \in 1..Len(H)
    BY <1>1, <1>7
  <2>2. H[i + 1].key \in 1..keys
    BY <2>1, <1>2 DEF KeysOK
  <2> QED
    BY <2>2, <1>8 DEF Due
<1>10. \A g \in gatekeepers : g \in c.keyed \/ c.at[g] > ingress + 1
  BY SharedLater
<1>11. c.idx # i + 1 /\ ingress + 1 \in 0..Len(S)
  BY <1>1, <1>7
<1> QED
  BY <1>1, <1>2, <1>3, <1>7, <1>8, <1>9, <1>10, <1>11 DEF ChainOK

(* The chain after the key was shared with a gatekeeper.                   *)
LEMMA HistoryMessage ==
  ASSUME NEW m, NEW d, NEW c, NEW S, NEW H, Due(m, d, c, S, H),
         d.kind = "MasterKeyHistory", ingress' = ingress + 1,
         UNCHANGED <<gatekeepers, master, lock, rotations>>, NEW e, e = m.payload, NEW h,
         NEW f, f = Follow(c, e)
  PROVE  ChainOK(f, S, H)' /\ EventOK(c, e, h, H) /\ f.gks = c.gks
<1>1. /\ ingress \in Nat /\ Len(S) \in Nat /\ ingress + 1 \in 1..Len(S)
      /\ d.idx = Signing(S, ingress) /\ c.on /\ DescriptorOK(d)
      /\ Signing(S, ingress + 1) = IF d.kind = "RotatedMasterPubkey" THEN d.of.id ELSE d.idx
      /\ Tells(e, d, H, keys)
  BY DueFacts
<1>2. Signing(S, ingress + 1) = Signing(S, ingress) /\ ingress + 1 \in 0..Len(S)
  BY <1>1
<1>g. PICK g : g = d.of.gk
  OBVIOUS
<1>3. /\ e = MasterKeyHistory(g, e.history) /\ Genuine(e.history, H) /\ e.history # <<>>
      /\ g \in Workers
  BY <1>1, <1>g DEF Tells, DescriptorOK
<1>4. e.type = "MasterKeyHistory" /\ e.dest = g
  BY <1>3 DEF MasterKeyHistory
<1>5. EventOK(c, e, h, H)
  BY <1>1, <1>3, <1>4 DEF EventOK
<1>6. /\ (f.on <=> c.on) /\ f.idx = c.idx /\ f.req = c.req /\ f.gks = c.gks
      /\ f.keyed = c.keyed \cup {g} /\ f.at = c.at
  BY <1>4 DEF Follow, Due, CanonOK, CanonType
<1>7. \A w \in gatekeepers : w \in f.keyed \/ f.at[w] > ingress + 1
  BY <1>6, <1>g, SharedLater
<1>8. \A n \in 1..ingress : n \in 1..(ingress + 1)
  BY <1>1
<1>9. ChainOK(c, S, H) /\ master # 0
  BY DEF Due, Acceptable
<1>10. ChainOK(f, S, H)'
  BY <1>2, <1>6, <1>7, <1>8, <1>9 DEF ChainOK
<1> QED
  BY <1>5, <1>6, <1>10

(* A proposal that the chain accepts is the first one for the rotation     *)
(* under way, for the gatekeepers there are, all of which must have the    *)
(* keys before it.                                                         *)
LEMMA ProposalIsFirst ==
  ASSUME NEW m, NEW d, NEW c, NEW S, NEW H, Due(m, d, c, S, H), d.kind = "MasterKeyRotation"
  PROVE  /\ lock # 0 /\ d.of.id = c.req /\ c.req = c.idx + 1 /\ Signing(S, ingress) = c.idx
         /\ d.of.gks = c.gks /\ c.gks \subseteq c.keyed
<1>1. /\ ingress \in Nat /\ Len(S) \in Nat /\ ingress + 1 \in 1..Len(S)
      /\ d.idx = Signing(S, ingress) /\ Signing(S, ingress) \in Nat /\ DescriptorOK(d)
      /\ c.on /\ c.idx \in Nat /\ c.req \in {c.idx, c.idx + 1} /\ rotations = c.req
      /\ gatekeepers = c.gks /\ c.stream[ingress + 1] = d /\ ingress + 1 \in 1..Len(c.stream)
  BY DueFacts
<1>2. ChainOK(c, S, H) /\ ProposalsOK(c)
  BY DEF Due, CanonOK
<1>3. d.of.id = Signing(S, ingress) + 1
  BY <1>1 DEF DescriptorOK
<1>4. d.of.id <= c.req
  BY <1>1, <1>2 DEF ProposalsOK
<1>5. lock # 0
  <2> SUFFICES ASSUME lock = 0 PROVE FALSE
    OBVIOUS
  <2>1. Signing(S, ingress) = c.req
    BY <1>1, <1>2 DEF ChainOK
  <2> QED
    BY <2>1, <1>1, <1>3, <1>4
<1>6. Signing(S, ingress) = c.req - 1 /\ d.of.id = c.req
  <2>1. Signing(S, ingress) = rotations - 1
    BY <1>1, <1>2, <1>5 DEF ChainOK
  <2> QED
    BY <2>1, <1>1, <1>3
<1>7. c.req = c.idx + 1
  <2> SUFFICES ASSUME c.idx = c.req PROVE FALSE
    BY <1>1
  <2>1. c.idx = Signing(S, ingress) + 1
    BY <1>1, <1>6
  <2>2. PICK n \in 1..ingress : S[n].kind = "MasterKeyRotation" /\ S[n].of.id = c.idx
    BY <2>1, <1>2 DEF ChainOK
  <2>3. n \in 1..Len(S) /\ n < ingress + 1 /\ S[ingress + 1] = d
    BY <1>1 DEF Due
  <2>4. S[n].of.id < S[ingress + 1].of.id
    BY <2>2, <2>3, <1>1 DEF Due, StreamOK
  <2> QED
    BY <2>2, <2>3, <2>4, <1>1, <1>6
<1>8. d.of.gks = c.gks /\ \A g \in c.gks : c.at[g] < ingress + 1
  BY <1>1, <1>2, <1>6, <1>7 DEF ProposalsOK
<1>9. ASSUME NEW g \in c.gks PROVE g \in c.keyed
  <2>1. g \in Workers /\ c.at[g] \in Nat
    BY DEF Due, CanonOK, CanonType
  <2>2. g \in c.keyed \/ c.at[g] > ingress
    BY <1>1, <1>2 DEF ChainOK
  <2> QED
    BY <2>1, <2>2, <1>1, <1>8
<1>10. Signing(S, ingress) = c.idx
  BY <1>1, <1>6, <1>7
<1> QED
  BY <1>5, <1>6, <1>7, <1>8, <1>9, <1>10

(* An accepted proposal m, which block h emits as e.                       *)
Proposes(m, d, c, S, H, e, h, f, G) ==
  /\ Due(m, d, c, S, H) /\ d.kind = "MasterKeyRotation" /\ ingress' = ingress + 1
  /\ UNCHANGED <<gatekeepers, master, lock, rotations>> /\ e = m.payload /\ h \in Nat
  /\ f = Follow(c, e) /\ G = Append(H, RotatedKey(c.req, h, e.key))

(* The chain after an accepted proposal: its key is the next one.          *)
LEMMA ProposalMessage ==
  ASSUME NEW m, NEW d, NEW c, NEW S, NEW H, NEW e, NEW h, NEW f, NEW G,
         Proposes(m, d, c, S, H, e, h, f, G)
  PROVE  /\ ChainOK(f, S, G)' /\ EventOK(c, e, h, G) /\ f.gks = c.gks /\ e.sender \in c.gks
         /\ KeysOK(G, keys) /\ Extends(H, G)
<1> USE DEF Proposes
<1>1. /\ ingress \in Nat /\ Len(S) \in Nat /\ ingress + 1 \in 1..Len(S)
      /\ d.idx = Signing(S, ingress) /\ Signing(S, ingress) \in Nat
      /\ Signing(S, ingress + 1) = IF d.kind = "RotatedMasterPubkey" THEN d.of.id ELSE d.idx
      /\ Tells(e, d, H, keys) /\ c.on /\ H # <<>> /\ H \in Seq(Entry) /\ Len(H) \in Nat
      /\ Len(H) = c.idx + 1 /\ c.idx \in Nat /\ rotations = c.req /\ gatekeepers = c.gks
  BY DueFacts
<1>2. /\ lock # 0 /\ d.of.id = c.req /\ c.req = c.idx + 1 /\ Signing(S, ingress) = c.idx
      /\ d.of.gks = c.gks /\ c.gks \subseteq c.keyed
  BY ProposalIsFirst
<1>3. /\ e = MasterKeyRotation(c.req, e.key, c.gks, e.sender) /\ e.key \in 1..keys
      /\ e.sender \in c.gks
  BY <1>1, <1>2 DEF Tells
<1>4. e.type = "MasterKeyRotation" /\ e.id = c.req /\ e.dests = c.gks
  BY <1>3 DEF MasterKeyRotation
<1>x. PICK x : x = RotatedKey(c.req, h, e.key)
  OBVIOUS
<1>5. x \in Entry /\ x.id = c.req /\ x.key = e.key
  BY <1>1, <1>2, <1>3, <1>x DEF RotatedKey, Entry, Due
<1>6. /\ G \in Seq(Entry) /\ Len(G) = Len(H) + 1 /\ G[Len(H) + 1] = x
      /\ \A i \in 1..Len(H) : G[i] = H[i]
  <2>1. G = Append(H, x)
    BY <1>x
  <2> QED
    BY <2>1, <1>1, <1>5
<1>7. Extends(H, G)
  BY <1>1, <1>6 DEF Extends
<1>8. KeysOK(G, keys)
  <2>1. KeysOK(H, keys)
    BY DEF Due
  <2>2. ASSUME NEW i \in 1..Len(G) PROVE G[i].key \in 1..keys /\ G[i].id = i - 1
    <3>1. CASE i = Len(H) + 1
      <4>1. G[i] = x /\ i - 1 = c.req
        BY <3>1, <1>1, <1>2, <1>6
      <4> QED
        BY <4>1, <1>3, <1>5
    <3>2. CASE i # Len(H) + 1
      <4>1. i \in 1..Len(H)
        BY <3>2, <1>1, <1>6
      <4> QED
        BY <4>1, <2>1, <1>6 DEF KeysOK
    <3> QED
      BY <3>1, <3>2
  <2>3. G[1].height = 0
    <3>1. 1 \in 1..Len(H)
      BY <1>1
    <3> QED
      BY <3>1, <2>1, <1>1, <1>6 DEF KeysOK
  <2> QED
    BY <2>2, <2>3, <1>6 DEF KeysOK
<1>9. EventOK(c, e, h, G)
  <2>1. c.req < Len(G) /\ G[c.req + 1] = RotatedKey(c.req, h, e.key)
    BY <1>1, <1>2, <1>6, <1>x
  <2> QED
    BY <2>1, <1>1, <1>2, <1>3, <1>4 DEF EventOK
<1>10. /\ (f.on <=> c.on) /\ f.idx = c.req /\ f.req = c.req /\ f.gks = c.gks
       /\ f.keyed = c.keyed \cap c.gks /\ f.at = c.at
  BY <1>4 DEF Follow, Due, CanonOK, CanonType
<1>11. ChainOK(f, S, G)'
  <2>1. ChainOK(c, S, H) /\ master # 0
    BY DEF Due, Acceptable
  <2>2. Signing(S, ingress + 1) = c.idx /\ c.idx = rotations - 1 /\ ingress + 1 \in 0..Len(S)
    BY <1>1, <1>2
  <2>3. Len(G) = f.idx + 1 /\ G # <<>>
    BY <1>1, <1>2, <1>6, <1>10
  <2>4. c.idx < Len(G) /\ master = G[c.idx + 1].key
    <3>1. master = H[c.idx + 1].key
      BY <2>1, <1>2 DEF ChainOK
    <3>2. c.idx + 1 \in 1..Len(H)
      BY <1>1
    <3> QED
      BY <3>1, <3>2, <1>1, <1>6
  <2>5. \A g \in gatekeepers : g \in f.keyed
    BY <1>1, <1>2, <1>10
  <2>6. \E n \in 1..(ingress + 1) : S[n].kind = "MasterKeyRotation" /\ S[n].of.id = f.idx
    <3>1. ingress + 1 \in 1..(ingress + 1) /\ S[ingress + 1] = d
      BY <1>1 DEF Due
    <3> QED
      BY <3>1, <1>2, <1>10
  <2>7. lock = rotations
    BY <2>1, <1>2 DEF ChainOK
  <2> QED
    BY <2>1, <2>2, <2>3, <2>4, <2>5, <2>6, <2>7, <1>1, <1>2, <1>10 DEF ChainOK
<1> QED
  BY <1>3, <1>7, <1>8, <1>9, <1>10, <1>11

(* sync_offchain_message, with an event for the pRuntimes.                 *)
LEMMA AcceptEmitting ==
  ASSUME NEW st, NEW H, NEW first, IInv(st, H, first), NEW m \in pool, Acceptable(m),
         m.payload.type \in {"MasterKeyHistory", "MasterKeyRotation", "NewRandomNumber"},
         Emit(m.payload, gatekeepers), ingress' = ingress + 1, pool' \subseteq pool,
         UNCHANGED <<final, gatekeepers, master, lock, rotations, uploads, node, seal, ckpt,
                     keys>>
  PROVE  \E s, G : IInv(s, G, first)'
<1>S. PICK S : S = st[final].stream
  OBVIOUS
<1>e. PICK e : e = m.payload
  OBVIOUS
<1>1. /\ KeysOK(H, keys) /\ TransitOK(S, H) /\ keys \in Nat /\ H \in Seq(Entry)
  BY <1>S DEF IInv, KeysOK
<1>2. PICK c, h, q : Opened(c, h, q, e, gatekeepers, st, H, S)
  BY <1>e, <1>S, Opens
<1>d. PICK d : d = S[ingress + 1]
  OBVIOUS
<1>3. Due(m, d, c, S, H)
  BY <1>d, <1>1, <1>2 DEF Due, Opened
<1>f. PICK f : f = Follow(c, e)
  OBVIOUS
<1>4. /\ Tells(e, d, H, keys) /\ gatekeepers = c.gks /\ H # <<>>
      /\ StreamOK(S) /\ CanonOK(c) /\ h \in Nat
  BY <1>e, <1>2, <1>3, DueFacts DEF Opened, Tip
<1>5. e.type = d.kind
  BY <1>4 DEF Tells
<1>6. Extends(H, H)
  BY <1>1, SeqIsAny, ExtendsFacts
<1>7. ASSUME NEW G, ChainOK(f, S, G)', EventOK(c, e, h, G), f.gks = c.gks, KeysOK(G, keys),
             Extends(H, G), e.type = "MasterKeyRotation" => e.sender \in c.gks
      PROVE  \E s : IInv(s, G, first)'
  <2>1. G \in Seq(Entry)
    BY <1>7 DEF KeysOK
  <2>2. TransitOK(S, G)'
    BY <2>1, <1>1, <1>4, <1>7, TransitMoves
  <2>3. e.type # "FirstGatekeeper"
    BY <1>e
  <2>4. GoesOnLater(st, H, first, c, h, q, e, f, G, S)
    BY <2>2, <2>3, <1>S, <1>f, <1>2, <1>4, <1>7 DEF GoesOnLater
  <2> QED
    BY <2>4, ChainGoesOnLater
<1>8. CASE d.kind = "MasterKeyHistory"
  <2>1. ChainOK(f, S, H)' /\ EventOK(c, e, h, H) /\ f.gks = c.gks
    BY <1>3, <1>8, <1>e, <1>f, HistoryMessage
  <2>2. \E s : IInv(s, H, first)'
    BY <2>1, <1>1, <1>5, <1>6, <1>7, <1>8
  <2> QED
    BY <2>2
<1>9. CASE d.kind = "MasterKeyRotation"
  <2>1. PICK G : G = Append(H, RotatedKey(c.req, h, e.key))
    OBVIOUS
  <2>2. /\ ChainOK(f, S, G)' /\ EventOK(c, e, h, G) /\ f.gks = c.gks /\ e.sender \in c.gks
        /\ KeysOK(G, keys) /\ Extends(H, G)
    <3>1. Proposes(m, d, c, S, H, e, h, f, G)
      BY <2>1, <1>3, <1>4, <1>9, <1>e, <1>f DEF Proposes
    <3> QED
      BY <3>1, ProposalMessage
  <2>3. \E s : IInv(s, G, first)'
    BY <2>2, <1>7
  <2> QED
    BY <2>3
<1>10. CASE d.kind = "NewRandomNumber"
  <2>1. ChainOK(c, S, H)'
    BY <1>3, <1>10, QuietMessage
  <2>2. /\ (f.on <=> c.on) /\ f.idx = c.idx /\ f.req = c.req /\ f.gks = c.gks
        /\ f.keyed = c.keyed /\ f.at = c.at
    BY <1>4, <1>5, <1>10, <1>f, FollowIdly
  <2>3. ChainOK(f, S, H)'
    BY <2>1, <2>2 DEF ChainOK
  <2>4. EventOK(c, e, h, H)
    BY <1>5, <1>10 DEF EventOK
  <2>5. \E s : IInv(s, H, first)'
    BY <2>2, <2>3, <2>4, <1>1, <1>5, <1>6, <1>7, <1>10
  <2> QED
    BY <2>5
<1> QED
  BY <1>5, <1>8, <1>9, <1>10, <1>e

(* sync_offchain_message, without one.                                     *)
LEMMA AcceptSilently ==
  ASSUME NEW st, NEW H, NEW first, IInv(st, H, first), NEW m \in pool, Acceptable(m),
         \/ m.payload.type = "RotatedMasterPubkey" /\ OnRotatedMasterPubkey(m.payload)
         \/ m.payload.type = "Report" /\ UNCHANGED <<master, lock>>,
         ingress' = ingress + 1, pool' \subseteq pool,
         UNCHANGED <<blocks, final, gatekeepers, rotations, uploads, node, seal, ckpt, keys>>
  PROVE  IInv(st, H, first)'
<1>S. PICK S : S = st[final].stream
  OBVIOUS
<1>c. PICK c : c = st[Len(blocks)]
  OBVIOUS
<1>d. PICK d : d = S[ingress + 1]
  OBVIOUS
<1>1. /\ final \in 0..Len(blocks) /\ keys \in Nat /\ KeysOK(H, keys) /\ H \in Seq(Entry)
      /\ OfWorkers(node) /\ OfWorkers(ckpt) /\ OfWorkers(seal)
      /\ WalkOK(st, H) /\ SendersOK /\ NodesOK(st, H) /\ FirstOK(st, H, first)
      /\ ChainOK(c, S, H) /\ TransitOK(S, H)
  BY <1>S, <1>c DEF IInv, KeysOK
<1>2. CanonOK(c) /\ StreamOK(S) /\ Extends(S, c.stream)
  <2>1. Len(blocks) \in Nat
    BY <1>1 DEF WalkOK, AnySeq
  <2>2. Len(blocks) \in 0..Len(blocks) /\ final <= Len(blocks)
    BY <2>1, <1>1
  <2> QED
    BY <2>2, <1>1, <1>S, <1>c DEF WalkOK, CanonOK
<1>3. Due(m, d, c, S, H)
  BY <1>d, <1>1, <1>2 DEF Due
<1>4. m.payload.type = d.kind
  <2>1. Tells(m.payload, d, H, keys)
    BY <1>3, DueFacts
  <2> QED
    BY <2>1 DEF Tells
<1>5. ChainOK(c, S, H)'
  <2>1. CASE m.payload.type = "RotatedMasterPubkey" /\ OnRotatedMasterPubkey(m.payload)
    BY <2>1, <1>3, <1>4, AnnouncementOK
  <2>2. CASE m.payload.type = "Report" /\ UNCHANGED <<master, lock>>
    BY <2>2, <1>3, <1>4, QuietMessage
  <2> QED
    BY <2>1, <2>2
<1>6. TransitOK(S, H)'
  <2>1. Extends(H, H)
    BY <1>1, SeqIsAny, ExtendsFacts
  <2> QED
    BY <2>1, <1>1, <1>2, TransitMoves
<1>7. WalkOK(st, H)' /\ SendersOK'
  BY <1>1 DEF WalkOK, SendersOK
<1>8. NodesOK(st, H)' /\ FirstOK(st, H, first)'
  <2>1. Firsts' = Firsts
    BY DEF Firsts
  <2> QED
    BY <2>1, <1>1 DEF NodesOK, FirstOK
<1> QED
  BY <1>S, <1>c, <1>1, <1>5, <1>6, <1>7, <1>8 DEF IInv

(* sync_offchain_message.                                                  *)
LEMMA AcceptInv ==
  ASSUME NEW st, NEW H, NEW first, IInv(st, H, first), AcceptMessage
  PROVE  \E s, G : IInv(s, G, first)'
<1>1. /\ ingress' = ingress + 1 /\ pool' \subseteq pool
      /\ UNCHANGED <<final, gatekeepers, rotations, uploads, node, seal, ckpt, keys>>
  BY DEF AcceptMessage, nodeVars
<1>2. PICK m \in pool :
          /\ Acceptable(m)
          /\ \/ /\ m.payload.type \in {"MasterKeyHistory", "MasterKeyRotation",
                                       "NewRandomNumber"}
                /\ Emit(m.payload, gatekeepers)
                /\ UNCHANGED <<master, lock>>
             \/ /\ m.payload.type = "RotatedMasterPubkey"
                /\ OnRotatedMasterPubkey(m.payload)
                /\ UNCHANGED blocks
             \/ /\ m.payload.type = "Report"
                /\ UNCHANGED <<blocks, master, lock>>
  BY DEF AcceptMessage
<1>3. CASE /\ m.payload.type \in {"MasterKeyHistory", "MasterKeyRotation", "NewRandomNumber"}
           /\ Emit(m.payload, gatekeepers)
           /\ UNCHANGED <<master, lock>>
  BY <1>1, <1>2, <1>3, AcceptEmitting
<1>4. CASE /\ m.payload.type = "RotatedMasterPubkey"
           /\ OnRotatedMasterPubkey(m.payload)
           /\ UNCHANGED blocks
  BY <1>1, <1>2, <1>4, AcceptSilently
<1>5. CASE /\ m.payload.type = "Report"
           /\ UNCHANGED <<blocks, master, lock>>
  BY <1>1, <1>2, <1>5, AcceptSilently
<1> QED
  BY <1>2, <1>3, <1>4, <1>5

----------------------------------------------------------------------------
(* The theorems.                                                           *)

(* At the start the account is empty.                                      *)
LEMMA InvInit == Init => Inv
<1> SUFFICES ASSUME Init PROVE Inv
  OBVIOUS
<1> USE DEF Init
<1>s. PICK st : st = [i \in {0} |-> Start]
  OBVIOUS
<1>h. PICK H : H = <<>>
  OBVIOUS
<1>1. st[0] = Start /\ AnySeq(blocks) /\ Len(blocks) = 0 /\ AnySeq(H) /\ Len(H) = 0
  <2>1. <<>> \in Seq({}) /\ Len(<<>>) = 0
    OBVIOUS
  <2> QED
    BY <2>1, <1>s, <1>h DEF AnySeq
<1>2. H \in Seq(Entry) /\ KeysOK(H, keys)
  BY <1>h DEF KeysOK
<1>c. PICK c : c = Start
  OBVIOUS
<1>3. /\ CanonOK(c) /\ c.stream = <<>> /\ ~c.on /\ c.req = 0 /\ c.idx = 0
      /\ c.gks = {} /\ c.keyed = {}
  BY <1>c, StartCanon
<1>4. Before(c, c)
  BY <1>3, BeforeFacts
<1>5. WalkOK(st, H)
  BY <1>1, <1>3, <1>4, <1>c DEF WalkOK, Before
<1>6. SendersOK /\ Firsts = {}
  BY <1>1 DEF SendersOK, Firsts
<1>7. NodesOK(st, H)
  <2> SUFFICES ASSUME NEW r \in Workers
               PROVE  /\ WorkerOK(r, node[r], st, H, final) /\ WorkerOK(r, ckpt[r], st, H, final)
                      /\ node[r].panic \notin BadPanics /\ ckpt[r].panic = "none"
                      /\ Genuine(seal[r], H)
    BY DEF NodesOK
  <2>1. node[r] = Boot /\ ckpt[r] = Boot /\ seal[r] = <<>> /\ final \in Nat
    OBVIOUS
  <2>2. WorkerOK(r, Boot, st, H, final) /\ Boot.panic = "none"
    BY <2>1, <1>1, BootOK
  <2>3. Genuine(<<>>, H)
    BY <1>1, <1>2, <1>h, ExtendsFacts DEF Genuine
  <2> QED
    BY <2>1, <2>2, <2>3 DEF BadPanics
<1>8. FirstOK(st, H, {})
  BY <1>6, <1>h DEF FirstOK
<1>9. ChainOK(c, c.stream, H)
  <2>1. Signing(c.stream, 0) = 0
    BY DEF Signing
  <2> QED
    BY <2>1, <1>1, <1>3, <1>h DEF ChainOK
<1>10. TransitOK(c.stream, H)
  BY DEF TransitOK
<1>11. OfWorkers(node) /\ OfWorkers(ckpt) /\ OfWorkers(seal)
  BY DEF OfWorkers
<1>12. IInv(st, H, {})
  BY <1>1, <1>2, <1>5, <1>6, <1>7, <1>8, <1>9, <1>10, <1>11, <1>c DEF IInv
<1> QED
  BY <1>12 DEF Inv

(* Every step keeps an account.                                            *)
LEMMA InvNext == Inv /\ [Next]_vars => Inv'
<1> SUFFICES ASSUME Inv, [Next]_vars PROVE Inv'
  OBVIOUS
<1>1. PICK st, H, first : IInv(st, H, first)
  BY DEF Inv
<1>2. ASSUME NEW g \in Workers, RegisterGatekeeper(g) PROVE Inv'
  <2>1. CASE gatekeepers = {}
    <3>1. \E s : IInv(s, H, g)'
      BY <2>1, <1>1, <1>2, RegisterFirstInv
    <3> QED
      BY <3>1 DEF Inv
  <2>2. CASE gatekeepers # {}
    <3>1. \E s : IInv(s, H, first)'
      BY <2>2, <1>1, <1>2, RegisterLaterInv
    <3> QED
      BY <3>1 DEF Inv
  <2> QED
    BY <2>1, <2>2
<1>3. ASSUME NEW g \in Workers, UnregisterGatekeeper(g) PROVE Inv'
  <2>1. \E s : IInv(s, H, first)'
    BY <1>1, <1>3, UnregisterInv
  <2> QED
    BY <2>1 DEF Inv
<1>4. CASE RequestRotation
  <2>1. \E s : IInv(s, H, first)'
    BY <1>1, <1>4, RequestInv
  <2> QED
    BY <2>1 DEF Inv
<1>5. CASE SettleWorkers
  <2>1. \E s : IInv(s, H, first)'
    BY <1>1, <1>5, SettleInv
  <2> QED
    BY <2>1 DEF Inv
<1>6. CASE AcceptUpload
  <2>1. \E s : IInv(s, H, first)'
    BY <1>1, <1>6, UploadInv
  <2> QED
    BY <2>1 DEF Inv
<1>7. CASE AcceptMessage
  <2>1. \E s, G : IInv(s, G, first)'
    BY <1>1, <1>7, AcceptInv
  <2> QED
    BY <2>1 DEF Inv
<1>8. ASSUME NEW r \in Workers, DispatchBlock(r) PROVE Inv'
  <2>1. \E G : IInv(st, G, first)'
    BY <1>1, <1>8, DispatchInv
  <2> QED
    BY <2>1 DEF Inv
<1>9. ASSUME NEW r \in Workers, RestartAsGatekeeper(r) \/ Restart(r) \/ RestartBlank(r)
      PROVE  Inv'
  <2>1. IInv(st, H, first)'
    BY <1>1, <1>9, RestartInv
  <2> QED
    BY <2>1 DEF Inv
<1>10. CASE UNCHANGED vars
  <2>1. UNCHANGED <<blocks, final, gatekeepers, master, lock, rotations, ingress, pool,
                    uploads, node, seal, ckpt, keys>>
    BY <1>10 DEF vars, chainVars, nodeVars
  <2>2. Firsts' = Firsts
    BY <2>1 DEF Firsts
  <2>3. IInv(st, H, first)'
    BY <2>1, <2>2, <1>1 DEF IInv, WalkOK, SendersOK, NodesOK, FirstOK, ChainOK, TransitOK
  <2> QED
    BY <2>3 DEF Inv
<1> QED
  BY <1>2, <1>3, <1>4, <1>5, <1>6, <1>7, <1>8, <1>9, <1>10 DEF Next

(* Every state that pRuntimes and chain reach has an account: one stream   *)
(* of messages, the same for all gatekeepers whatever they restarted from, *)
(* and one row of keys, of which everybody has the first ones.             *)
THEOREM Inductive == Spec => []Inv
<1>1. Init => Inv
  BY InvInit
<1>2. Inv /\ [Next]_vars => Inv'
  BY InvNext
<1> QED
  BY <1>1, <1>2, PTL DEF Spec

(* The keys of H are keys that were generated.                             *)
LEMMA KeyOfHistory ==
  ASSUME NEW H, NEW k \in Nat, KeysOK(H, k), NEW i \in Nat, i < Len(H)
  PROVE  i + 1 \in 1..Len(H) /\ H[i + 1].key \in 1..k
<1>1. Len(H) \in Nat
  BY DEF KeysOK
<1>2. i + 1 \in 1..Len(H)
  BY <1>1
<1> QED
  BY <1>2 DEF KeysOK

(* The account explains the types of the chain and of its messages.        *)
LEMMA ChainTypes ==
  ASSUME NEW st, NEW H, NEW first, IInv(st, H, first)
  PROVE  /\ final \in 0..Len(blocks) /\ gatekeepers \subseteq Workers
         /\ {master, lock, rotations, ingress, keys} \subseteq Nat
         /\ uploads \subseteq 1..keys
         /\ \A m \in pool : m.seq \in Nat /\ m.signer \in 1..keys
<1>S. PICK S : S = st[final].stream
  OBVIOUS
<1>c. PICK c : c = st[Len(blocks)]
  OBVIOUS
<1>1. /\ final \in 0..Len(blocks) /\ keys \in Nat /\ KeysOK(H, keys) /\ WalkOK(st, H)
      /\ ChainOK(c, S, H) /\ TransitOK(S, H)
  BY <1>S, <1>c DEF IInv
<1>2. Len(blocks) \in Nat
  BY <1>1 DEF WalkOK, AnySeq
<1>3. CanonOK(c) /\ StreamOK(S)
  BY <1>1, <1>2, <1>S, <1>c DEF WalkOK, CanonOK
<1>4. gatekeepers \subseteq Workers /\ rotations \in Nat /\ lock \in Nat /\ ingress \in 0..Len(S)
  BY <1>1, <1>3 DEF ChainOK, CanonOK, CanonType
<1>5. ingress \in Nat /\ Signing(S, ingress) \in Nat
  BY <1>3, <1>4 DEF StreamOK, AnySeq
<1>6. master \in Nat
  <2>1. CASE master = 0
    BY <2>1
  <2>2. CASE master # 0
    <3>1. Signing(S, ingress) < Len(H) /\ master = H[Signing(S, ingress) + 1].key
      BY <2>2, <1>1 DEF ChainOK
    <3>2. master \in 1..keys
      BY <3>1, <1>1, <1>5, KeyOfHistory
    <3> QED
      BY <3>2, <1>1
  <2> QED
    BY <2>1, <2>2
<1>7. ASSUME NEW k \in uploads PROVE k \in 1..keys
  <2>1. H # <<>> /\ k = H[1].key /\ H \in Seq(Entry)
    BY <1>1 DEF TransitOK, KeysOK
  <2>2. 0 < Len(H) /\ 0 + 1 = 1
    BY <2>1
  <2> QED
    BY <2>1, <2>2, <1>1, KeyOfHistory
<1>8. ASSUME NEW m \in pool PROVE m.seq \in Nat /\ m.signer \in 1..keys
  <2>1. Fits(m, S, H, keys)
    BY <1>1 DEF TransitOK
  <2>d. PICK d : d = S[m.seq + 1]
    OBVIOUS
  <2>2. /\ m.seq \in Nat /\ m.seq < Len(S) /\ SignerIdx(d) < Len(H)
        /\ m.signer = H[SignerIdx(d) + 1].key
    BY <2>1, <2>d DEF Fits
  <2>3. m.seq + 1 \in 1..Len(S)
    BY <2>2, <1>3 DEF StreamOK, AnySeq
  <2>4. SignerIdx(d) \in Nat
    BY <2>3, <2>d, <1>3 DEF StreamOK, DescriptorOK, SignerIdx
  <2> QED
    BY <2>2, <2>4, <1>1, KeyOfHistory
<1> QED
  BY <1>1, <1>4, <1>5, <1>6, <1>7, <1>8

(* And those of a pRuntime.                                                *)
LEMMA NodeTypes ==
  ASSUME NEW st, NEW H, NEW first, IInv(st, H, first), NEW r \in Workers
  PROVE  /\ node[r].height \in 0..final /\ node[r].seq \in Nat
         /\ node[r].dummy \in BOOLEAN
         /\ node[r].gk \in Gk \cup {NoGatekeeper}
         /\ node[r].gk.on =>
               LET history == node[r].gk.history IN
               /\ \A i \in 1..Len(history) : history[i].id = i - 1
               /\ node[r].gk.key \in {entry.key : entry \in Range(history)}
<1>n. PICK n : n = node[r]
  OBVIOUS
<1>c. PICK c : c = st[n.height]
  OBVIOUS
<1>1. /\ n.height \in 0..final /\ NodeOK(r, n, c, H) /\ final \in 0..Len(blocks)
      /\ WalkOK(st, H) /\ KeysOK(H, keys) /\ keys \in Nat
  BY <1>n, <1>c DEF IInv, NodesOK, WorkerOK
<1>2. n.seq \in Nat /\ n.dummy \in BOOLEAN /\ n.gk \in Gk \cup {NoGatekeeper}
  BY <1>1 DEF NodeOK
<1>3. c.idx \in Nat
  <2>1. Len(blocks) \in Nat
    BY <1>1 DEF WalkOK, AnySeq
  <2>2. n.height \in 0..Len(blocks)
    BY <2>1, <1>1
  <2> QED
    BY <2>2, <1>1, <1>c DEF WalkOK, CanonOK, CanonType
<1>4. ASSUME n.gk.on
      PROVE  /\ \A i \in 1..Len(n.gk.history) : n.gk.history[i].id = i - 1
             /\ n.gk.key \in {entry.key : entry \in Range(n.gk.history)}
  <2>0. n.gk # NoGatekeeper
    BY <1>1, <1>4, OnOrOff
  <2>x. PICK x : x = n.gk.history
    OBVIOUS
  <2>1. /\ Genuine(x, H) /\ c.idx < Len(x) /\ n.gk.key = H[c.idx + 1].key
    BY <2>0, <2>x, <1>1 DEF NodeOK
  <2>2. /\ x \in Seq(Entry) /\ Len(x) \in Nat /\ Len(H) \in Nat /\ Len(x) <= Len(H)
        /\ \A i \in 1..Len(x) : H[i] = x[i]
    BY <2>1, <1>1 DEF Genuine, Extends, KeysOK
  <2>3. \A i \in 1..Len(x) : x[i].id = i - 1
    <3> SUFFICES ASSUME NEW i \in 1..Len(x) PROVE x[i].id = i - 1
      OBVIOUS
    <3>1. i \in 1..Len(H) /\ H[i] = x[i]
      BY <2>2
    <3> QED
      BY <3>1, <1>1 DEF KeysOK
  <2>4. c.idx + 1 \in 1..Len(x) /\ c.idx + 1 \in DOMAIN x
    BY <2>1, <2>2, <1>3
  <2>5. x[c.idx + 1] \in Range(x) /\ n.gk.key = x[c.idx + 1].key
    BY <2>1, <2>2, <2>4 DEF Range
  <2> QED
    BY <2>3, <2>5, <2>x
<1> QED
  BY <1>n, <1>1, <1>2, <1>4

(* The state of the registry, of the messages in transit and of every      *)
(* pRuntime is well formed: rotations in a key history are in order, and a *)
(* gatekeeper works with a key of its history.                             *)
THEOREM TypeCorrect == Spec => []TypeOK
<1>1. Inv => TypeOK
  <2> SUFFICES ASSUME Inv PROVE TypeOK
    OBVIOUS
  <2>1. PICK st, H, first : IInv(st, H, first)
    BY DEF Inv
  <2>2. /\ final \in 0..Len(blocks) /\ gatekeepers \subseteq Workers
        /\ {master, lock, rotations, ingress, keys} \subseteq Nat
        /\ uploads \subseteq 1..keys
        /\ \A m \in pool : m.seq \in Nat /\ m.signer \in 1..keys
    BY <2>1, ChainTypes
  <2>3. ASSUME NEW r \in Workers
        PROVE  /\ node[r].height \in 0..final /\ node[r].seq \in Nat
               /\ node[r].dummy \in BOOLEAN
               /\ node[r].gk \in Gk \cup {NoGatekeeper}
               /\ node[r].gk.on =>
                     LET history == node[r].gk.history IN
                     /\ \A i \in 1..Len(history) : history[i].id = i - 1
                     /\ node[r].gk.key \in {entry.key : entry \in Range(history)}
    BY <2>1, NodeTypes
  <2> QED
    BY <2>2, <2>3 DEF TypeOK
<1> QED
  BY <1>1, Inductive, PTL

(* master_key.seal never diverges between pRuntimes, although every        *)
(* gatekeeper proposes a key of its own at a rotation, and another one     *)
(* when it handles the request again.                                      *)
THEOREM HistoriesAlwaysAgree == Spec => []HistoriesAgree
<1>1. Inv => HistoriesAgree
  <2> SUFFICES ASSUME Inv, NEW r \in Workers, NEW q \in Workers
               PROVE  IsPrefix(seal[r], seal[q]) \/ IsPrefix(seal[q], seal[r])
    BY DEF HistoriesAgree
  <2>1. PICK st, H, first : IInv(st, H, first)
    BY DEF Inv
  <2>x. PICK x, y : x = seal[r] /\ y = seal[q]
    OBVIOUS
  <2>2. Genuine(x, H) /\ Genuine(y, H) /\ H \in Seq(Entry)
    BY <2>1, <2>x DEF IInv, NodesOK, KeysOK
  <2>3. ASSUME NEW a, NEW b, Genuine(a, H), Genuine(b, H), Len(a) <= Len(b)
        PROVE  IsPrefix(a, b)
    <3>1. /\ a \in Seq(Entry) /\ b \in Seq(Entry) /\ Len(a) \in Nat /\ Len(b) \in Nat
          /\ Len(a) <= Len(b)
      BY <2>3 DEF Genuine
    <3>2. \A i \in 1..Len(a) : a[i] = b[i]
      <4> SUFFICES ASSUME NEW i \in 1..Len(a) PROVE a[i] = b[i]
        OBVIOUS
      <4>1. i \in 1..Len(b)
        BY <3>1
      <4>2. H[i] = a[i] /\ H[i] = b[i]
        BY <4>1, <2>3 DEF Genuine, Extends
      <4> QED
        BY <4>2
    <3>3. SubSeq(a, 1, Len(a)) = [i \in 1..Len(a) |-> a[i]]
      BY <3>1
    <3>4. SubSeq(b, 1, Len(a)) = [i \in 1..Len(a) |-> b[i]]
      BY <3>1
    <3>5. [i \in 1..Len(a) |-> a[i]] = [i \in 1..Len(a) |-> b[i]]
      BY <3>2
    <3> QED
      BY <3>1, <3>3, <3>4, <3>5 DEF IsPrefix
  <2>4. Len(x) \in Nat /\ Len(y) \in Nat
    BY <2>2 DEF Genuine
  <2>5. Len(x) <= Len(y) \/ Len(y) <= Len(x)
    BY <2>4
  <2>6. IsPrefix(x, y) \/ IsPrefix(y, x)
    BY <2>2, <2>3, <2>5
  <2> QED
    BY <2>6, <2>x
<1> QED
  BY <1>1, Inductive, PTL

(* None of the assertions on the key history fails in any pRuntime: the    *)
(* uploaded key is the one it works with, rotations find the history they  *)
(* expect, and no proposal reaches a worker that is no gatekeeper yet.     *)
THEOREM HistoryAlwaysIntact == Spec => []HistoryIntact
<1>1. Inv => HistoryIntact
  BY DEF Inv, IInv, NodesOK, BadPanics, HistoryIntact
<1> QED
  BY <1>1, Inductive, PTL

(* While no rotation is under way, every gatekeeper that has handled all   *)
(* blocks works with the master key on chain.                              *)
THEOREM KeysAlwaysAgree == Spec => []KeysAgree
<1>1. Inv => KeysAgree
  <2> SUFFICES ASSUME Inv, lock = 0, master # 0, NEW r \in Workers, node[r].gk.on,
                      node[r].height = Len(blocks)
               PROVE  node[r].gk.key = master
    BY DEF KeysAgree
  <2>1. PICK st, H, first : IInv(st, H, first)
    BY DEF Inv
  <2>c. PICK c : c = st[Len(blocks)]
    OBVIOUS
  <2>2. NodeOK(r, node[r], c, H)
    BY <2>1, <2>c DEF IInv, NodesOK, WorkerOK
  <2>3. node[r].gk # NoGatekeeper /\ c.on
    BY <2>2, OnOrOff
  <2>4. node[r].gk.key = H[c.idx + 1].key
    BY <2>2, <2>3 DEF NodeOK
  <2>5. ChainOK(c, st[final].stream, H)
    BY <2>1, <2>c DEF IInv
  <2> QED
    BY <2>3, <2>4, <2>5 DEF ChainOK
<1> QED
  BY <1>1, Inductive, PTL

(* The message of the gatekeeper that the chain expects next, from         *)
(* whichever replica, carries a signature that sync_offchain_message can   *)
(* verify with the master key on chain, unless it is a report.             *)
THEOREM ExpectedAlwaysVerifies == Spec => []ExpectedVerifies
<1>1. Inv => ExpectedVerifies
  <2> SUFFICES ASSUME Inv, NEW m \in pool, m.seq = ingress, master # 0, m.payload # Report
               PROVE  m.signer = master
    BY DEF ExpectedVerifies
  <2>1. PICK st, H, first : IInv(st, H, first)
    BY DEF Inv
  <2>S. PICK S : S = st[final].stream
    OBVIOUS
  <2>d. PICK d : d = S[ingress + 1]
    OBVIOUS
  <2>2. /\ ChainOK(st[Len(blocks)], S, H) /\ TransitOK(S, H) /\ WalkOK(st, H)
        /\ final \in 0..Len(blocks)
    BY <2>1, <2>S DEF IInv
  <2>3. Fits(m, S, H, keys)
    BY <2>2 DEF TransitOK
  <2>4. /\ ingress \in Nat /\ ingress < Len(S) /\ Tells(m.payload, d, H, keys)
        /\ m.signer = H[SignerIdx(d) + 1].key
    BY <2>3, <2>d DEF Fits
  <2>5. d.kind # "Report"
    BY <2>4 DEF Tells
  <2>6. StreamOK(S)
    BY <2>2, <2>S DEF WalkOK, CanonOK
  <2>7. ingress + 1 \in 1..Len(S) /\ (ingress + 1) - 1 = ingress
    BY <2>4, <2>6 DEF StreamOK, AnySeq
  <2>8. d.idx = Signing(S, ingress)
    BY <2>6, <2>7, <2>d DEF StreamOK
  <2>9. master = H[Signing(S, ingress) + 1].key
    BY <2>2 DEF ChainOK
  <2> QED
    BY <2>4, <2>5, <2>8, <2>9 DEF SignerIdx
<1> QED
  BY <1>1, Inductive, PTL
=============================================================================
