-------------------------- MODULE OffchainMqProofs --------------------------
(***************************************************************************)
(* Proofs about the message queue, for any number of replicas, blocks,     *)
(* restarts and lost transactions.                                         *)
(***************************************************************************)
EXTENDS OffchainMq, SequenceTheorems, FiniteSetTheorems, TLAPS

Msgs == [seq : Nat, block : Nat]
Rounds == [fetched : BOOLEAN, checked : BOOLEAN, batch : SUBSET Msgs,
           min_seq : Nat, count : Nat]

-----------------------------------------------------------------------------
(* Lemmas on the operators of the model.                                   *)

EventRecords == [emits : BOOLEAN, joins : SUBSET Replicas,
                 leaves : SUBSET Replicas]

(* The fields of a block.                                                  *)
LEMMA BlockFields ==
    ASSUME NEW b \in Blocks
    PROVE  /\ b.event \in EventRecords
           /\ b.ingress \in Nat
           /\ b.registered \subseteq Replicas
           /\ b.accepted \in Seq(Msgs)
           /\ b.emitted \in Seq(Nat)
           /\ Len(b.accepted) \in Nat
           /\ Len(b.emitted) \in Nat
  BY DEF Blocks, EventRecords, Msgs

(* The last block of the fork is a block.                                  *)
LEMMA BestType == TypeOK => Best \in Blocks /\ Len(chain) \in Nat \ {0}
  BY DEF TypeOK, Best

(* The fork is a non-empty sequence of blocks with a finalised prefix.     *)
LEMMA ChainType ==
    TypeOK => /\ chain \in Seq(Blocks) /\ Len(chain) \in Nat \ {0}
              /\ finalized \in 1..Len(chain)
              /\ \A i \in 1..Len(chain) : chain[i] \in Blocks
  BY DEF TypeOK

(* What a prefix of a fork holds.                                          *)
LEMMA ChainPrefix ==
    ASSUME NEW c \in Seq(Blocks), NEW n \in 1..Len(c)
    PROVE  /\ Len(SubSeq(c, 1, n)) = n
           /\ \A i \in 1..n : SubSeq(c, 1, n)[i] = c[i]
  OBVIOUS

(* Extending twice is extending.                                           *)
LEMMA ExtendsTransitive ==
    ASSUME NEW s, NEW t, NEW u, Len(s) \in Nat, Len(t) \in Nat,
           Len(u) \in Nat, Extends(s, t), Extends(t, u)
    PROVE  Extends(s, u)
<1>1. Len(s) <= Len(u)
  BY DEF Extends
<1>2. ASSUME NEW k \in 1..Len(s)
      PROVE  u[k] = s[k]
  <2>1. k \in 1..Len(t)
    BY DEF Extends
  <2> QED
    BY <2>1 DEF Extends
<1> QED
  BY <1>1, <1>2 DEF Extends

(* Every event is a record of the event type and never lets one replica    *)
(* join and leave at once.                                                 *)
LEMMA EventType ==
    ASSUME TypeOK, NEW event \in Events, EventEnabled(event)
    PROVE  /\ event \in [emits : BOOLEAN, joins : SUBSET Replicas,
                         leaves : SUBSET Replicas]
           /\ event.joins \cap event.leaves = {}
<1>1. Best.registered \subseteq Replicas
  BY BestType DEF Blocks
<1>2. CASE event = Work
  BY <1>2 DEF Work
<1>3. CASE \E r \in Replicas : event = Registered(r)
  BY <1>3 DEF Registered
<1>4. CASE \E r \in Best.registered : event = Unregistered(r)
  BY <1>1, <1>4 DEF Unregistered
<1>5. CASE \E r \in Best.registered, q \in Replicas \ Best.registered :
               event = Replaced(r, q)
  BY <1>1, <1>5 DEF Replaced
<1> QED
  BY <1>2, <1>3, <1>4, <1>5 DEF EventEnabled

(* The operations of a send queue yield channels.                          *)
LEMMA ChannelType ==
    ASSUME NEW ch \in Channels, NEW b \in Nat, NEW n \in Nat,
           NEW d \in BOOLEAN
    PROVE  /\ EnqueueMessage(ch, b) \in Channels
           /\ SetDummyMode(ch, d) \in Channels
           /\ Purge(ch, n) \in Channels
<1> USE DEF Channels
<1>2. Message(ch.sequence, b) \in Msgs
  BY DEF Message, Msgs
<1>3. EnqueueMessage(ch, b) \in Channels
  BY <1>2 DEF EnqueueMessage, Msgs
<1>4. SetDummyMode(ch, d) \in Channels
  BY DEF SetDummyMode
<1>5. Purge(ch, n) =
        [sequence |-> ch.sequence,
         messages |-> {m \in ch.messages : m.seq >= n},
         dummy |-> ch.dummy]
  BY DEF Purge
<1>6. Purge(ch, n) \in Channels
  BY <1>5
<1> QED
  BY <1>3, <1>4, <1>6

(* So does the handling of a block's event.                                *)
LEMMA HandleEventType ==
    ASSUME NEW r, NEW ch \in Channels, NEW b \in Nat,
           NEW event \in [emits : BOOLEAN, joins : SUBSET Replicas,
                          leaves : SUBSET Replicas]
    PROVE  HandleEvent(r, ch, b, event) \in Channels
<1> DEFINE pushed == IF event.emits THEN EnqueueMessage(ch, b) ELSE ch
<1>1. pushed \in Channels
  BY ChannelType
<1> HIDE DEF pushed
<1>2. /\ SetDummyMode(pushed, TRUE) \in Channels
      /\ SetDummyMode(pushed, FALSE) \in Channels
  BY <1>1, ChannelType
<1>3. HandleEvent(r, ch, b, event) \in
        {pushed, SetDummyMode(pushed, TRUE), SetDummyMode(pushed, FALSE)}
  BY DEF HandleEvent, pushed
<1> QED
  BY <1>1, <1>2, <1>3

(* A new block is a block.                                                 *)
LEMMA NextBlockType ==
    ASSUME TypeOK, NEW txs \in Seq(Msgs),
           NEW event \in [emits : BOOLEAN, joins : SUBSET Replicas,
                          leaves : SUBSET Replicas]
    PROVE  NextBlock(event, txs) \in Blocks
<1>1. Best \in Blocks /\ Len(chain) + 1 \in Nat
  BY BestType
<1>2. Best.accepted \o txs \in Seq(Msgs)
  BY <1>1, ConcatProperties DEF Blocks, Msgs
<1> QED
  BY <1>1, <1>2 DEF NextBlock, Blocks, Msgs

-----------------------------------------------------------------------------
(* Type correctness.                                                       *)

(* Init establishes the type invariant.                                    *)
LEMMA InitTypeOK == Init => TypeOK
<1> SUFFICES ASSUME Init PROVE TypeOK
  OBVIOUS
<1>1. Genesis \in Blocks
  BY ConstantsAssumption DEF Genesis, NoEvent, Blocks
<1>2. chain \in Seq(Blocks) /\ chain # << >> /\ Len(chain) = 1
  BY <1>1 DEF Init
<1>3. \A r \in Replicas : Boot(r) \in [height : 1..finalized, ch : Channels]
  BY DEF Init, Boot, NewChannel, Channels
<1>4. IdleRound \in Rounds
  BY DEF IdleRound, Rounds, Msgs
<1> QED
  BY <1>1, <1>2, <1>3, <1>4, ConstantsAssumption
  DEF Init, TypeOK, Rounds, Msgs

(* Appending a block keeps the type invariant.                             *)
LEMMA AppendTypeOK ==
    ASSUME TypeOK, NEW b \in Blocks, chain' = Append(chain, b),
           UNCHANGED <<finalized, pool, node, ckpt, relay, faults>>
    PROVE  TypeOK'
  BY DEF TypeOK

(* Every step keeps the type invariant.                                    *)
LEMMA NextTypeOK == TypeOK /\ [Next]_vars => TypeOK'
<1> SUFFICES ASSUME TypeOK, [Next]_vars PROVE TypeOK'
  OBVIOUS
<1> USE DEF TypeOK
<1>1. CASE BuildEventBlock
  <2>1. PICK event \in Events :
           EventEnabled(event) /\ chain' = Append(chain, NextBlock(event, << >>))
    BY <1>1 DEF BuildEventBlock
  <2>2. << >> \in Seq(Msgs)
    OBVIOUS
  <2>3. event \in [emits : BOOLEAN, joins : SUBSET Replicas,
                   leaves : SUBSET Replicas]
    BY <2>1, EventType
  <2>4. NextBlock(event, << >>) \in Blocks
    BY <2>2, <2>3, NextBlockType
  <2> QED
    BY <1>1, <2>1, <2>4, AppendTypeOK DEF BuildEventBlock
<1>2. CASE IncludeMessage
  <2>1. PICK m \in pool, event \in Events \cup {NoEvent} :
           /\ event # NoEvent => EventEnabled(event)
           /\ chain' = Append(chain, NextBlock(event, <<m>>))
    BY <1>2 DEF IncludeMessage
  <2>2. event \in [emits : BOOLEAN, joins : SUBSET Replicas,
                   leaves : SUBSET Replicas]
    <3>1. CASE event = NoEvent
      BY <3>1 DEF NoEvent
    <3>2. CASE event # NoEvent
      BY <2>1, <3>2, EventType
    <3> QED
      BY <3>1, <3>2
  <2>3. <<m>> \in Seq(Msgs)
    BY <2>1 DEF Msgs
  <2>4. NextBlock(event, <<m>>) \in Blocks
    BY <2>2, <2>3, NextBlockType
  <2> QED
    BY <1>2, <2>1, <2>4, AppendTypeOK DEF IncludeMessage
<1>3. CASE Finalize
  <2>1. finalized' \in 1..Len(chain) /\ 1..finalized \subseteq 1..finalized'
    BY <1>3 DEF Finalize
  <2> QED
    BY <1>3, <2>1 DEF Finalize
<1>4. CASE Reorg
  <2>1. PICK n \in finalized..(Len(chain) - 1) : chain' = SubSeq(chain, 1, n)
    BY <1>4 DEF Reorg
  <2>2. n \in 1..Len(chain) /\ \A i \in 1..n : chain[i] \in Blocks
    OBVIOUS
  <2>3. chain' \in Seq(Blocks) /\ Len(chain') = n
    BY <2>1, <2>2, SubSeqProperties
  <2>5. chain' # << >> /\ finalized \in 1..Len(chain')
    BY <2>2, <2>3
  <2> QED
    BY <1>4, <2>3, <2>5 DEF Reorg
<1>5. CASE DropTransaction
  BY <1>5 DEF DropTransaction
<1>6. ASSUME NEW r \in Replicas, DispatchBlock(r) PROVE TypeOK'
  <2> DEFINE b == node[r].height + 1
  <2>1. b \in 1..finalized /\ b \in 1..Len(chain) /\ chain[b] \in Blocks
    BY <1>6 DEF DispatchBlock
  <2> DEFINE purged == Purge(node[r].ch, chain[b].ingress)
             s == [height |-> b,
                   ch |-> HandleEvent(r, purged, b, chain[b].event)]
  <2>2. purged \in Channels
    BY <2>1, ChannelType DEF Blocks
  <2>3. s.ch \in Channels
    <3> HIDE DEF purged, b
    <3>1. b \in Nat
      BY <2>1
    <3>2. chain[b].event \in
             [emits : BOOLEAN, joins : SUBSET Replicas, leaves : SUBSET Replicas]
      BY <2>1 DEF Blocks
    <3>3. HandleEvent(r, purged, b, chain[b].event) \in Channels
      BY <2>2, <3>1, <3>2, HandleEventType
    <3> QED
      BY <3>3
  <2>5. s \in [height : 1..finalized, ch : Channels]
    BY <2>1, <2>3
  <2>6. node' = [node EXCEPT ![r] = s]
    BY <1>6 DEF DispatchBlock
  <2>7. ckpt' = ckpt \/ ckpt' = [ckpt EXCEPT ![r] = s]
    BY <1>6, <2>6 DEF DispatchBlock
  <2> HIDE DEF s
  <2>8. /\ node' \in [Replicas -> [height : 1..finalized, ch : Channels]]
        /\ ckpt' \in [Replicas -> [height : 1..finalized, ch : Channels]]
    BY <2>5, <2>6, <2>7
  <2> QED
    BY <1>6, <2>8 DEF DispatchBlock
<1>7. ASSUME NEW r \in Replicas, RestoreFromCheckpoint(r) PROVE TypeOK'
  BY <1>7, ConstantsAssumption DEF RestoreFromCheckpoint
<1>8. ASSUME NEW r \in Replicas, RestartFromGenesis(r) PROVE TypeOK'
  <2>1. Boot(r) \in [height : 1..finalized, ch : Channels]
    BY DEF Boot, NewChannel, Channels
  <2> QED
    BY <1>8, <2>1, ConstantsAssumption DEF RestartFromGenesis
<1> DEFINE RelayType == relay' \in [Replicas -> Rounds]
<1>9. IdleRound \in Rounds
  BY DEF IdleRound, Rounds, Msgs
<1>10. ASSUME NEW r \in Replicas, FetchEgress(r) PROVE TypeOK'
  BY ZenonT(60), <1>10 DEF FetchEgress, Channels
<1>11. ASSUME NEW r \in Replicas, ReadNextSequence(r) PROVE TypeOK'
  <2>1. Best.ingress \in Nat
    BY BestType DEF Blocks
  <2> QED
    BY <1>11, <2>1 DEF ReadNextSequence
<1>12. ASSUME NEW r \in Replicas, SyncMessage(r) PROVE TypeOK'
  <2>1. PICK m \in relay[r].batch, sent \in {0, 1} :
           /\ pool' \in {pool, pool \cup {m}}
           /\ relay' = [relay EXCEPT ![r] = AfterMessage(@, m, sent)]
    BY <1>12 DEF SyncMessage
  <2> DEFINE round == relay[r]
             count == round.count + sent
  <2>6. round \in Rounds /\ count \in Nat
    BY DEF Rounds, Msgs
  <2>7. [round EXCEPT !.batch = @ \ {m}, !.count = count] \in Rounds
    BY <2>6 DEF Rounds
  <2>2. AfterMessage(relay[r], m, sent) \in Rounds
    BY <1>9, <2>7 DEF AfterMessage
  <2>3. relay' \in [Replicas -> Rounds] /\ pool' \subseteq Msgs
    BY <2>1, <2>2 DEF Rounds, Msgs
  <2> QED
    BY <1>12, <2>3 DEF SyncMessage, Rounds, Msgs
<1>13. ASSUME NEW r \in Replicas, AbortRound(r) PROVE TypeOK'
  BY <1>9, <1>13, ConstantsAssumption DEF AbortRound, Rounds, Msgs
<1>14. CASE UNCHANGED vars
  BY <1>14 DEF vars
<1> QED
  BY <1>1, <1>2, <1>3, <1>4, <1>5, <1>6, <1>7, <1>8, <1>10, <1>11, <1>12,
     <1>13, <1>14 DEF Next, ChainNext, ReplicaNext

(* The type invariant holds in every reachable state.                      *)
THEOREM TypeCorrect == Spec => []TypeOK
  BY InitTypeOK, NextTypeOK, PTL DEF Spec

-----------------------------------------------------------------------------
(* The inductive invariant.                                                *)

States(f) == [height : 1..f, ch : Channels]

(* A genuine message stays genuine while the final part grows.             *)
LEMMA GenuineStable ==
    ASSUME NEW c, NEW f, NEW d, NEW g, NEW m \in Msgs,
           c[f].emitted \in Seq(Nat), d[g].emitted \in Seq(Nat),
           Extends(c[f].emitted, d[g].emitted),
           Genuine(c, f, m)
    PROVE  Genuine(d, g, m)
<1>1. m.seq + 1 \in 1..Len(c[f].emitted)
  BY DEF Genuine, Msgs
<1>2. m.seq \in Nat /\ Len(d[g].emitted) \in Nat
  BY DEF Msgs
<1>3. Len(c[f].emitted) <= Len(d[g].emitted) /\ Len(c[f].emitted) \in Nat
  BY DEF Extends
<1>4. d[g].emitted[m.seq + 1] = c[f].emitted[m.seq + 1]
  BY <1>1 DEF Extends
<1>5. m.seq < Len(c[f].emitted) /\ m.block = c[f].emitted[m.seq + 1]
  BY DEF Genuine
<1>6. m.seq < Len(d[g].emitted)
  BY <1>2, <1>3, <1>5
<1> QED
  BY <1>4, <1>5, <1>6 DEF Genuine

(* A pRuntime stays in sync while blocks it has not handled come and go    *)
(* and become final.                                                       *)
LEMMA InSyncStable ==
    ASSUME NEW c \in Seq(Blocks), NEW f \in 1..Len(c),
           NEW d \in Seq(Blocks), NEW g \in 1..Len(d),
           f <= Len(d), \A i \in 1..f : d[i] = c[i],
           Linked(c), Extends(c[f].emitted, d[g].emitted),
           NEW r, NEW s \in States(f), InSync(c, f, r, s)
    PROVE  InSync(d, g, r, s)
<1> DEFINE b == c[s.height]
<1>1. s.height \in 1..f /\ d[s.height] = b /\ b \in Blocks
  BY DEF States
<1>2. \A m \in s.ch.messages : Genuine(d, g, m)
  <2>1. c[f] \in Blocks /\ d[g] \in Blocks
    OBVIOUS
  <2> SUFFICES ASSUME NEW m \in s.ch.messages PROVE Genuine(d, g, m)
    OBVIOUS
  <2>2. m \in Msgs /\ Genuine(c, f, m)
    BY DEF States, Channels, Msgs, InSync
  <2>3. c[f].emitted \in Seq(Nat) /\ d[g].emitted \in Seq(Nat)
    BY <2>1, BlockFields
  <2> QED
    BY <2>2, <2>3, GenuineStable
<1>3. \A k \in 1..Len(b.emitted) : d[b.emitted[k] - 1] = c[b.emitted[k] - 1]
  <2> SUFFICES ASSUME NEW k \in 1..Len(b.emitted)
               PROVE  d[b.emitted[k] - 1] = c[b.emitted[k] - 1]
    OBVIOUS
  <2>1. b.emitted[k] \in 2..s.height
    BY SMTT(30), <1>1 DEF Linked
  <2> QED
    BY SMTT(30), <1>1, <2>1
<1>4. b.ingress \in Nat /\ Len(b.emitted) \in Nat
  BY <1>1, BlockFields
<1>5. /\ s.ch.sequence = Len(b.emitted)
      /\ s.ch.dummy = (r \notin b.registered)
  BY DEF InSync
<1>6. ASSUME NEW k \in (b.ingress + 1)..Len(b.emitted),
             r \in d[b.emitted[k] - 1].registered
      PROVE  Message(k - 1, b.emitted[k]) \in s.ch.messages
  <2>1. k \in 1..Len(b.emitted)
    BY <1>4
  <2>2. r \in c[b.emitted[k] - 1].registered
    BY <1>3, <1>6, <2>1
  <2> QED
    BY <2>2 DEF InSync
<1> QED
  BY <1>1, <1>2, <1>5, <1>6 DEF InSync

(* So a step that only changes blocks that are not final, or finalizes     *)
(* some, keeps the part of the invariant about pRuntimes and transit.      *)
LEMMA ForkStep ==
    ASSUME TypeOK, TypeOK', IInv,
           finalized <= Len(chain'), finalized <= finalized',
           \A i \in 1..finalized : chain'[i] = chain[i],
           Extends(chain[finalized].emitted, chain'[finalized'].emitted),
           ExactlyOnceInOrder', Linked(chain'),
           UNCHANGED <<pool, node, ckpt, relay, faults>>
    PROVE  IInv'
<1>1. /\ chain \in Seq(Blocks) /\ chain' \in Seq(Blocks)
      /\ finalized \in 1..Len(chain) /\ finalized' \in 1..Len(chain')
  BY DEF TypeOK
<1>2. \A m \in Msgs : Genuine(chain, finalized, m)
                          => Genuine(chain', finalized', m)
  <2>1. chain[finalized] \in Blocks /\ chain'[finalized'] \in Blocks
    BY <1>1
  <2>2. /\ chain[finalized].emitted \in Seq(Nat)
        /\ chain'[finalized'].emitted \in Seq(Nat)
    BY <2>1, BlockFields
  <2> QED
    BY <2>2, GenuineStable
<1>3. \A r \in Replicas : \A s \in States(finalized) :
         InSync(chain, finalized, r, s) => InSync(chain', finalized', r, s)
  BY <1>1, InSyncStable DEF IInv
<1>4. \A r \in Replicas : /\ node[r] \in States(finalized)
                          /\ ckpt[r] \in States(finalized)
                          /\ relay[r].batch \subseteq Msgs
  BY DEF TypeOK, States, Msgs
<1>5. pool \subseteq Msgs
  BY DEF TypeOK, Msgs
<1>6. chain'[1] = Genesis
  BY <1>1 DEF IInv
<1> QED
  BY <1>2, <1>3, <1>4, <1>5, <1>6 DEF IInv

(* Some replica is registered after every block.                           *)
LEMMA SomeRegistered ==
    ASSUME TypeOK, IInv, NEW event \in EventRecords,
           event = NoEvent \/ EventEnabled(event)
    PROVE  (Best.registered \cup event.joins) \ event.leaves # {}
<1>1. Best.registered # {} /\ Best.registered \subseteq Replicas
  <2>1. Len(chain) \in 1..Len(chain) /\ Best \in Blocks
    BY BestType
  <2>2. Best.registered # {}
    BY <2>1 DEF IInv, Linked, Best
  <2> QED
    BY <2>1, <2>2, BlockFields
<1>2. CASE event = NoEvent \/ event = Work
  BY <1>1, <1>2 DEF NoEvent, Work
<1>3. CASE \E r \in Replicas \ Best.registered : event = Registered(r)
  BY <1>3 DEF Registered
<1>4. CASE \E r \in Best.registered : /\ Cardinality(Best.registered) > 1
                                      /\ event = Unregistered(r)
  <2>1. PICK r \in Best.registered : /\ Cardinality(Best.registered) > 1
                                     /\ event = Unregistered(r)
    BY <1>4
  <2>2. Best.registered # {r}
    <3>1. Cardinality({r}) = 1
      BY FS_Singleton
    <3> QED
      BY <2>1, <3>1
  <2> QED
    BY <2>1, <2>2 DEF Unregistered
<1>5. CASE \E r \in Best.registered, q \in Replicas \ Best.registered :
               event = Replaced(r, q)
  BY <1>5 DEF Replaced
<1> QED
  BY <1>2, <1>3, <1>4, <1>5 DEF EventEnabled

(* A new block keeps the invariant.                                        *)
LEMMA BuildStep ==
    ASSUME TypeOK, TypeOK', IInv, NEW event \in EventRecords,
           event = NoEvent \/ EventEnabled(event),
           event.joins \cap event.leaves = {},
           NEW txs,
           txs = << >> \/ \E m \in pool : Includable(m) /\ txs = <<m>>,
           chain' = Append(chain, NextBlock(event, txs)),
           UNCHANGED <<finalized, pool, node, ckpt, relay, faults>>
    PROVE  IInv'
<1> DEFINE n == Len(chain)
           nb == NextBlock(event, txs)
<1>1. /\ n \in Nat \ {0} /\ finalized \in 1..n /\ chain \in Seq(Blocks)
      /\ Best \in Blocks /\ chain[n] = Best
  BY BestType DEF TypeOK, Best
<1>2. /\ Best.ingress \in Nat /\ Best.accepted \in Seq(Msgs)
      /\ Best.emitted \in Seq(Nat) /\ Len(Best.emitted) \in Nat
  BY <1>1, BlockFields
<1>3. /\ Best.ingress = Len(Best.accepted)
      /\ Len(Best.accepted) <= Len(Best.emitted)
      /\ \A k \in 1..Len(Best.accepted) :
            Best.accepted[k] = Message(k - 1, Best.emitted[k])
      /\ \A k \in 1..Len(Best.emitted) : Best.emitted[k] \in 2..n
  <2>1. n \in 1..n /\ Best = chain[n]
    BY <1>1
  <2>2. \A k \in 1..Len(chain[n].emitted) : chain[n].emitted[k] \in 2..n
    BY <2>1 DEF IInv, Linked
  <2>3. /\ chain[n].ingress = Len(chain[n].accepted)
        /\ Len(chain[n].accepted) <= Len(chain[n].emitted)
        /\ \A k \in 1..Len(chain[n].accepted) :
              chain[n].accepted[k] = Message(k - 1, chain[n].emitted[k])
    BY <2>1 DEF IInv, ExactlyOnceInOrder
  <2> QED
    BY <2>1, <2>2, <2>3
<1>4. /\ nb.event = event
      /\ nb.registered = (Best.registered \cup event.joins) \ event.leaves
      /\ nb.emitted = IF event.emits THEN Append(Best.emitted, n + 1)
                      ELSE Best.emitted
      /\ nb.accepted = Best.accepted \o txs
      /\ nb.ingress = IF txs = << >> THEN Best.ingress ELSE Best.ingress + 1
  BY DEF NextBlock
<1>5. /\ Len(chain') = n + 1 /\ chain'[n + 1] = nb
      /\ \A i \in 1..n : chain'[i] = chain[i]
  BY <1>1
<1> HIDE DEF nb
<1>6. /\ nb.emitted \in Seq(Nat) /\ Len(nb.emitted) \in Nat
      /\ Extends(Best.emitted, nb.emitted)
      /\ \A k \in 1..Len(nb.emitted) : nb.emitted[k] \in 2..(n + 1)
  <2>1. CASE event.emits
    <3>1. nb.emitted = Append(Best.emitted, n + 1)
      BY <1>4, <2>1
    <3>2. /\ nb.emitted \in Seq(Nat) /\ Len(nb.emitted) = Len(Best.emitted) + 1
          /\ \A k \in 1..Len(Best.emitted) : nb.emitted[k] = Best.emitted[k]
          /\ nb.emitted[Len(Best.emitted) + 1] = n + 1
      BY <1>1, <1>2, <3>1
    <3>3. Extends(Best.emitted, nb.emitted)
      BY <1>2, <3>2 DEF Extends
    <3>4. ASSUME NEW k \in 1..Len(nb.emitted)
          PROVE  nb.emitted[k] \in 2..(n + 1)
      <4>1. CASE k = Len(Best.emitted) + 1
        BY <1>1, <3>2, <4>1
      <4>2. CASE k # Len(Best.emitted) + 1
        <5>1. k \in 1..Len(Best.emitted)
          BY <1>2, <3>2, <4>2
        <5>2. nb.emitted[k] \in 2..n
          BY <1>3, <3>2, <5>1
        <5> QED
          BY <1>1, <5>2
      <4> QED
        BY <4>1, <4>2
    <3>5. nb.emitted \in Seq(Nat) /\ Len(nb.emitted) \in Nat
      BY <1>2, <3>2
    <3> QED
      BY <3>3, <3>4, <3>5
  <2>2. CASE ~event.emits
    BY SMTT(30), <1>1, <1>2, <1>3, <1>4, <2>2 DEF Extends
  <2> QED
    BY <2>1, <2>2
<1>7. /\ nb.ingress = Len(nb.accepted) /\ Best.ingress <= nb.ingress
      /\ Len(nb.accepted) <= Len(nb.emitted)
      /\ nb.ingress <= Len(Best.emitted)
      /\ \A k \in 1..Len(nb.accepted) :
            nb.accepted[k] = Message(k - 1, nb.emitted[k])
  <2>1. CASE txs = << >>
    <3>1. nb.accepted = Best.accepted /\ nb.ingress = Best.ingress
      BY <1>2, <1>4, <2>1, ConcatEmptySeq
    <3>2. \A k \in 1..Len(Best.emitted) : nb.emitted[k] = Best.emitted[k]
      BY <1>6 DEF Extends
    <3>3. Len(Best.emitted) <= Len(nb.emitted)
      BY <1>6 DEF Extends
    <3>4. \A k \in 1..Len(nb.accepted) :
             nb.accepted[k] = Message(k - 1, nb.emitted[k])
      BY <1>2, <1>3, <3>1, <3>2
    <3>5. nb.ingress <= Len(Best.emitted)
      BY <1>2, <1>3, <3>1
    <3> QED
      BY <1>2, <1>3, <1>6, <3>1, <3>3, <3>4, <3>5
  <2>2. ASSUME NEW m \in pool, Includable(m), txs = <<m>>
        PROVE  <1>7
    <3>1. m \in Msgs /\ m.seq = Best.ingress
      BY <2>2 DEF Includable, TypeOK, Msgs
    <3>2. m.seq + 1 <= Len(Best.emitted) /\ m.block = Best.emitted[m.seq + 1]
      <4>1. Genuine(chain, finalized, m)
        BY DEF IInv
      <4>2. Extends(chain[finalized].emitted, chain[n].emitted)
        BY <1>1 DEF IInv, Linked, Grows
      <4>3. chain[finalized] \in Blocks
        BY <1>1
      <4>4. Genuine(chain, n, m)
        BY <1>1, <1>2, <3>1, <4>1, <4>2, <4>3, BlockFields, GenuineStable
      <4> QED
        BY <1>1, <1>2, <3>1, <4>4 DEF Genuine, Msgs
    <3>3. m = Message(m.seq, m.block)
      BY <3>1 DEF Message, Msgs
    <3>4. /\ Len(nb.accepted) = Len(Best.accepted) + 1
          /\ \A k \in 1..Len(Best.accepted) : nb.accepted[k] = Best.accepted[k]
          /\ nb.accepted[Len(Best.accepted) + 1] = m
      BY <1>2, <1>4, <2>2, <3>1, ConcatProperties
    <3>5. nb.ingress = Best.ingress + 1
      BY <1>4, <2>2
    <3>6. \A k \in 1..Len(Best.emitted) : nb.emitted[k] = Best.emitted[k]
      BY <1>6 DEF Extends
    <3>7. Len(Best.emitted) <= Len(nb.emitted)
      BY <1>6 DEF Extends
    <3>8. nb.accepted[Best.ingress + 1]
             = Message(Best.ingress, nb.emitted[Best.ingress + 1])
      BY SMTT(30), <1>2, <1>3, <3>1, <3>2, <3>3, <3>4, <3>6
    <3>9. ASSUME NEW k \in 1..Len(nb.accepted)
          PROVE  nb.accepted[k] = Message(k - 1, nb.emitted[k])
      <4>1. CASE k = Best.ingress + 1
        BY <1>2, <3>8, <4>1
      <4>2. CASE k # Best.ingress + 1
        <5>1. k \in 1..Len(Best.accepted) /\ k \in 1..Len(Best.emitted)
          BY SMTT(30), <1>2, <1>3, <3>4, <4>2
        <5> QED
          BY <1>3, <3>4, <3>6, <5>1
      <4> QED
        BY <4>1, <4>2
    <3>10. /\ nb.ingress = Len(nb.accepted) /\ Best.ingress <= nb.ingress
           /\ nb.ingress <= Len(Best.emitted)
      BY <1>2, <1>3, <3>1, <3>2, <3>4, <3>5
    <3>11. Len(nb.accepted) <= Len(nb.emitted)
      BY SMTT(30), <1>2, <1>3, <1>6, <3>1, <3>2, <3>4, <3>7
    <3> QED
      BY <3>9, <3>10, <3>11
  <2> QED
    BY <2>1, <2>2
<1>8. nb.registered # {}
  BY <1>4, SomeRegistered
<1>9. ExactlyOnceInOrder'
  <2> DEFINE InOrderAt(b) ==
                /\ b.ingress = Len(b.accepted)
                /\ Len(b.accepted) <= Len(b.emitted)
                /\ \A k \in 1..Len(b.accepted) :
                      b.accepted[k] = Message(k - 1, b.emitted[k])
  <2>1. InOrderAt(nb)
    BY <1>7
  <2>2. \A i \in 1..n : InOrderAt(chain[i])
    BY DEF IInv, ExactlyOnceInOrder
  <2> HIDE DEF InOrderAt
  <2>3. \A i \in 1..(n + 1) : InOrderAt(chain'[i])
    BY <1>1, <1>5, <2>1, <2>2
  <2> QED
    BY <1>5, <2>3 DEF ExactlyOnceInOrder, InOrderAt
<1>10. Linked(chain')
  <2>1. \A i \in 1..(n + 1) :
          /\ chain'[i].registered # {}
          /\ \A k \in 1..Len(chain'[i].emitted) : chain'[i].emitted[k] \in 2..i
    <3> SUFFICES ASSUME NEW i \in 1..(n + 1)
                 PROVE  /\ chain'[i].registered # {}
                        /\ \A k \in 1..Len(chain'[i].emitted) :
                              chain'[i].emitted[k] \in 2..i
      OBVIOUS
    <3>1. CASE i = n + 1
      BY <1>5, <1>6, <1>8, <3>1
    <3>2. CASE i \in 1..n
      <4>1. chain'[i] = chain[i]
        BY <1>5, <3>2
      <4> QED
        BY <3>2, <4>1 DEF IInv, Linked
    <3> QED
      BY <1>1, <3>1, <3>2
  <2>2. \A i, j \in 1..(n + 1) : i <= j => Grows(chain', i, j)
    <3> SUFFICES ASSUME NEW i \in 1..(n + 1), NEW j \in 1..(n + 1), i <= j
                 PROVE  Grows(chain', i, j)
      OBVIOUS
    <3>1. CASE j <= n
      <4>1. i \in 1..n /\ j \in 1..n /\ Grows(chain, i, j)
        BY <1>1, <3>1 DEF IInv, Linked
      <4>2. chain'[i] = chain[i] /\ chain'[j] = chain[j]
        BY <1>5, <4>1
      <4> QED
        BY <4>1, <4>2 DEF Grows
    <3>2. CASE i = n + 1
      <4>1. j = n + 1 /\ nb.ingress \in Nat
        BY <1>1, <1>2, <1>4, <3>2
      <4> QED
        BY <1>5, <1>6, <3>2, <4>1 DEF Grows, Extends
    <3>3. CASE i <= n /\ j = n + 1
      <4>1. i \in 1..n /\ Grows(chain, i, n) /\ chain[i] \in Blocks
        BY <1>1, <3>3 DEF IInv, Linked
      <4>2. /\ Extends(chain[i].emitted, Best.emitted)
            /\ chain[i].ingress <= Best.ingress
            /\ \A k \in (Len(chain[i].emitted) + 1)..Len(Best.emitted) :
                  Best.emitted[k] > i
        BY <1>1, <4>1 DEF Grows
      <4>3. Len(chain[i].emitted) \in Nat /\ chain[i].ingress \in Nat
        BY <4>1, BlockFields
      <4>4. Extends(chain[i].emitted, nb.emitted)
        BY <1>2, <1>6, <4>2, <4>3, ExtendsTransitive
      <4>5. chain[i].ingress <= nb.ingress
        BY SMTT(30), <1>2, <1>4, <1>7, <4>2, <4>3
      <4>6. ASSUME NEW k \in (Len(chain[i].emitted) + 1)..Len(nb.emitted)
            PROVE  nb.emitted[k] > i
        <5>1. CASE k <= Len(Best.emitted)
          <6>1. /\ k \in 1..Len(Best.emitted)
                /\ k \in (Len(chain[i].emitted) + 1)..Len(Best.emitted)
            BY <1>2, <4>3, <5>1
          <6> QED
            BY <1>6, <4>2, <6>1 DEF Extends
        <5>2. CASE k > Len(Best.emitted)
          <6>1. event.emits
            BY <1>2, <1>4, <4>3, <5>2
          <6>2. nb.emitted = Append(Best.emitted, n + 1)
            BY <1>4, <6>1
          <6>3. k = Len(Best.emitted) + 1
            BY <1>2, <4>3, <5>2, <6>2
          <6>4. nb.emitted[k] = n + 1
            BY <1>1, <1>2, <6>2, <6>3
          <6> QED
            BY <1>1, <4>1, <6>4
        <5> QED
          BY <1>2, <4>3, <5>1, <5>2
      <4> QED
        BY <1>5, <3>3, <4>1, <4>4, <4>5, <4>6 DEF Grows
    <3> QED
      BY <1>1, <3>1, <3>2, <3>3
  <2>3. \A i \in 2..(n + 1) : Follows(chain', i)
    <3> SUFFICES ASSUME NEW i \in 2..(n + 1) PROVE Follows(chain', i)
      OBVIOUS
    <3>1. CASE i = n + 1
      <4>1. chain'[i] = nb /\ chain'[i - 1] = Best
        BY <1>1, <1>5, <3>1
      <4>2. nb.ingress \in {Best.ingress, Best.ingress + 1}
        BY <1>4
      <4> QED
        BY <1>4, <1>7, <3>1, <4>1, <4>2 DEF Follows
    <3>2. CASE i <= n
      <4>1. chain'[i] = chain[i] /\ chain'[i - 1] = chain[i - 1] /\ i \in 2..n
        BY <1>1, <1>5, <3>2
      <4>2. Follows(chain, i)
        BY <4>1 DEF IInv, Linked
      <4> QED
        BY <4>1, <4>2 DEF Follows
    <3> QED
      BY <1>1, <3>1, <3>2
  <2> QED
    BY <1>5, <2>1, <2>2, <2>3 DEF Linked
<1>11. Extends(chain[finalized].emitted, chain'[finalized'].emitted)
  <2>1. chain'[finalized'] = chain[finalized] /\ chain[finalized] \in Blocks
    BY <1>1, <1>5
  <2> QED
    BY <2>1, BlockFields DEF Extends
<1>12. finalized <= Len(chain') /\ \A i \in 1..finalized : chain'[i] = chain[i]
  BY <1>1, <1>5
<1> QED
  BY <1>1, <1>9, <1>10, <1>11, <1>12, ForkStep

(* Handling the next final block keeps a pRuntime in sync.                 *)
LEMMA DispatchInSync ==
    ASSUME NEW c \in Seq(Blocks), NEW f \in 1..Len(c), Linked(c),
           NEW r \in Replicas, NEW s \in States(f), InSync(c, f, r, s),
           s.height < f
    PROVE  LET b == s.height + 1
               ch == HandleEvent(r, Purge(s.ch, c[b].ingress), b, c[b].event)
           IN  InSync(c, f, r, [height |-> b, ch |-> ch])
<1> DEFINE h == s.height
           b == h + 1
           event == c[b].event
           purged == Purge(s.ch, c[b].ingress)
           pushed == IF event.emits THEN EnqueueMessage(purged, b) ELSE purged
           ch == HandleEvent(r, purged, b, event)
<1>1. /\ h \in 1..f /\ b \in 2..Len(c) /\ b \in 1..f /\ b - 1 = h
      /\ c[h] \in Blocks /\ c[b] \in Blocks /\ c[f] \in Blocks
      /\ s.ch \in Channels
  BY DEF States
<1>2. /\ event \in EventRecords /\ c[b].ingress \in Nat /\ c[h].ingress \in Nat
      /\ c[h].emitted \in Seq(Nat) /\ c[b].emitted \in Seq(Nat)
      /\ c[f].emitted \in Seq(Nat)
      /\ Len(c[h].emitted) \in Nat /\ Len(c[b].emitted) \in Nat
  BY <1>1, BlockFields
<1>3. /\ c[b].registered = (c[h].registered \cup event.joins) \ event.leaves
      /\ event.joins \cap event.leaves = {}
      /\ c[b].emitted = IF event.emits THEN Append(c[h].emitted, b)
                        ELSE c[h].emitted
  <2>1. Follows(c, b)
    BY <1>1 DEF Linked
  <2> QED
    BY <1>1, <2>1 DEF Follows
<1>4. /\ Extends(c[h].emitted, c[b].emitted) /\ c[h].ingress <= c[b].ingress
      /\ Extends(c[b].emitted, c[f].emitted)
  <2>1. Grows(c, h, b) /\ Grows(c, b, f)
    BY <1>1 DEF Linked
  <2> QED
    BY <2>1 DEF Grows
<1>5. /\ s.ch.sequence = Len(c[h].emitted)
      /\ s.ch.dummy = (r \notin c[h].registered)
      /\ \A m \in s.ch.messages : Genuine(c, f, m)
      /\ \A k \in (c[h].ingress + 1)..Len(c[h].emitted) :
            r \in c[c[h].emitted[k] - 1].registered
               => Message(k - 1, c[h].emitted[k]) \in s.ch.messages
  BY DEF InSync
<1>6. /\ purged.sequence = s.ch.sequence /\ purged.dummy = s.ch.dummy
      /\ purged.messages = {m \in s.ch.messages : m.seq >= c[b].ingress}
  BY <1>1 DEF Purge, Channels
<1> HIDE DEF purged, h, b, event
<1>7. /\ pushed.dummy = (r \notin c[h].registered)
      /\ pushed.sequence = Len(c[b].emitted)
      /\ purged.messages \subseteq pushed.messages
      /\ \A m \in pushed.messages :
            \/ m \in purged.messages
            \/ event.emits /\ m = Message(Len(c[h].emitted), b)
      /\ event.emits /\ r \in c[h].registered
            => Message(Len(c[h].emitted), b) \in pushed.messages
  <2>1. CASE event.emits
    <3>1. /\ pushed.dummy = purged.dummy
          /\ pushed.sequence = purged.sequence + 1
          /\ pushed.messages = IF purged.dummy THEN purged.messages
               ELSE purged.messages \cup {Message(purged.sequence, b)}
      BY <2>1 DEF EnqueueMessage
    <3>2. Len(c[b].emitted) = Len(c[h].emitted) + 1
      BY <1>1, <1>2, <1>3, <2>1
    <3> QED
      BY <1>5, <1>6, <2>1, <3>1, <3>2
  <2>2. CASE ~event.emits
    BY <1>3, <1>5, <1>6, <2>2
  <2> QED
    BY <2>1, <2>2
<1>8. /\ ch.sequence = pushed.sequence /\ ch.messages = pushed.messages
      /\ ch.dummy = IF r \in event.joins THEN FALSE
                    ELSE IF r \in event.leaves THEN TRUE ELSE pushed.dummy
  <2>1. purged \in Channels
    BY <1>1, <1>2, ChannelType DEF purged
  <2>2. pushed \in Channels
    <3>1. b \in Nat
      BY <1>1
    <3>2. EnqueueMessage(purged, b) \in Channels
      BY <2>1, <3>1, ChannelType
    <3> QED
      BY <2>1, <3>2
  <2> HIDE DEF pushed
  <2>3. ch = IF r \in event.joins THEN SetDummyMode(pushed, FALSE)
             ELSE IF r \in event.leaves THEN SetDummyMode(pushed, TRUE)
             ELSE pushed
    BY DEF HandleEvent, pushed
  <2> QED
    BY <2>2, <2>3 DEF SetDummyMode, Channels
<1> HIDE DEF pushed, ch
<1>9. ch.dummy = (r \notin c[b].registered)
  BY <1>3, <1>7, <1>8
<1>10. ASSUME NEW m \in ch.messages PROVE Genuine(c, f, m)
  <2>1. CASE m \in purged.messages
    BY <1>5, <1>6, <2>1
  <2>2. CASE event.emits /\ m = Message(Len(c[h].emitted), b)
    <3>1. /\ Len(c[b].emitted) = Len(c[h].emitted) + 1
          /\ c[b].emitted[Len(c[h].emitted) + 1] = b
      BY <1>1, <1>2, <1>3, <2>2
    <3>2. /\ Len(c[h].emitted) < Len(c[f].emitted)
          /\ c[f].emitted[Len(c[h].emitted) + 1] = b
      <4>1. Len(c[h].emitted) + 1 \in 1..Len(c[b].emitted)
        BY <1>2, <3>1
      <4>2. Len(c[b].emitted) <= Len(c[f].emitted) /\ Len(c[f].emitted) \in Nat
        BY <1>2, <1>4 DEF Extends
      <4>3. c[f].emitted[Len(c[h].emitted) + 1]
               = c[b].emitted[Len(c[h].emitted) + 1]
        BY <1>4, <4>1 DEF Extends
      <4> QED
        BY <1>2, <3>1, <4>1, <4>2, <4>3
    <3> QED
      BY <2>2, <3>2 DEF Genuine, Message
  <2> QED
    BY <1>7, <1>8, <1>10, <2>1, <2>2
<1>11. ASSUME NEW k \in (c[b].ingress + 1)..Len(c[b].emitted),
              r \in c[c[b].emitted[k] - 1].registered
       PROVE  Message(k - 1, c[b].emitted[k]) \in ch.messages
  <2>1. CASE k <= Len(c[h].emitted)
    <3>1. k \in (c[h].ingress + 1)..Len(c[h].emitted)
      BY <1>2, <1>4, <2>1
    <3>2. c[b].emitted[k] = c[h].emitted[k]
      <4>1. k \in 1..Len(c[h].emitted)
        BY <1>2, <3>1
      <4> QED
        BY <1>4, <4>1 DEF Extends
    <3>3. Message(k - 1, c[b].emitted[k]) \in s.ch.messages
      BY <1>5, <1>11, <3>1, <3>2
    <3>4. Message(k - 1, c[b].emitted[k]).seq >= c[b].ingress
      BY <1>2 DEF Message
    <3> QED
      BY <1>6, <1>7, <1>8, <3>3, <3>4
  <2>2. CASE k > Len(c[h].emitted)
    <3>1. event.emits
      BY <1>2, <1>3, <2>2
    <3>2. k = Len(c[h].emitted) + 1 /\ c[b].emitted[k] = b
      BY SMTT(30), <1>1, <1>2, <1>3, <2>2, <3>1
    <3>3. k - 1 = Len(c[h].emitted) /\ r \in c[h].registered
      BY <1>1, <1>2, <1>11, <3>2
    <3> QED
      BY <1>7, <1>8, <3>1, <3>2, <3>3
  <2> QED
    BY SMTT(30), <1>2, <2>1, <2>2
<1>12. InSync(c, f, r, [height |-> b, ch |-> ch])
  BY <1>7, <1>8, <1>9, <1>10, <1>11 DEF InSync
<1> QED
  BY <1>12 DEF h, b, ch, purged, event

(* The initial state satisfies the invariant.                              *)
LEMMA InitIInv == Init => IInv
<1> SUFFICES ASSUME Init PROVE IInv
  OBVIOUS
<1>1. chain = <<Genesis>> /\ Len(chain) = 1 /\ chain[1] = Genesis
  BY DEF Init
<1>2. /\ Genesis.emitted = << >> /\ Genesis.accepted = << >>
      /\ Genesis.ingress = 0 /\ Genesis.registered = {First}
  BY DEF Genesis
<1>3. Len(Genesis.emitted) = 0 /\ Len(Genesis.accepted) = 0
  BY <1>2
<1>4. ExactlyOnceInOrder
  BY <1>1, <1>2, <1>3 DEF ExactlyOnceInOrder
<1>5. Linked(chain)
  <2>1. Grows(chain, 1, 1)
    BY <1>1, <1>2, <1>3 DEF Grows, Extends
  <2> QED
    BY SMTT(30), <1>1, <1>2, <1>3, <2>1 DEF Linked
<1>6. \A r \in Replicas : InSync(chain, finalized, r, Boot(r))
  BY <1>1, <1>2, <1>3 DEF Init, InSync, Boot, NewChannel
<1> QED
  BY <1>1, <1>4, <1>5, <1>6 DEF Init, IInv, IdleRound

(* A pRuntime that has handled nothing is in sync with any fork.           *)
LEMMA BootInSync ==
    ASSUME TypeOK, chain[1] = Genesis, NEW r \in Replicas
    PROVE  InSync(chain, finalized, r, Boot(r))
<1>1. /\ Genesis.emitted = << >> /\ Genesis.ingress = 0
      /\ Genesis.registered = {First} /\ Len(Genesis.emitted) = 0
  BY DEF Genesis
<1> QED
  BY <1>1 DEF InSync, Boot, NewChannel

(* Every step keeps the invariant.                                         *)
LEMMA NextIInv == TypeOK /\ TypeOK' /\ IInv /\ [Next]_vars => IInv'
<1> SUFFICES ASSUME TypeOK, TypeOK', IInv, [Next]_vars PROVE IInv'
  OBVIOUS
<1>1. CASE BuildEventBlock
  <2>1. PICK event \in Events :
           EventEnabled(event) /\ chain' = Append(chain, NextBlock(event, << >>))
    BY <1>1 DEF BuildEventBlock
  <2>2. event \in EventRecords /\ event.joins \cap event.leaves = {}
    BY <2>1, EventType DEF EventRecords
  <2> QED
    BY <1>1, <2>1, <2>2, BuildStep DEF BuildEventBlock
<1>2. CASE IncludeMessage
  <2>1. PICK m \in pool, event \in Events \cup {NoEvent} :
           /\ Includable(m)
           /\ event = NoEvent \/ (event \in Events /\ EventEnabled(event))
           /\ chain' = Append(chain, NextBlock(event, <<m>>))
    BY <1>2 DEF IncludeMessage
  <2>2. event \in EventRecords /\ event.joins \cap event.leaves = {}
    <3>1. CASE event = NoEvent
      BY <3>1 DEF NoEvent, EventRecords
    <3>2. CASE event # NoEvent
      BY <2>1, <3>2, EventType DEF EventRecords
    <3> QED
      BY <3>1, <3>2
  <2>3. UNCHANGED <<finalized, pool, node, ckpt, relay, faults>>
    BY <1>2 DEF IncludeMessage
  <2> QED
    BY <2>1, <2>2, <2>3, BuildStep
<1>3. CASE Finalize
  <2>1. /\ finalized' = finalized + 1 /\ finalized' \in 1..Len(chain)
        /\ finalized \in 1..Len(chain) /\ chain' = chain
        /\ UNCHANGED <<pool, node, ckpt, relay, faults>>
    BY <1>3 DEF Finalize, TypeOK
  <2>2. Extends(chain[finalized].emitted, chain'[finalized'].emitted)
    BY <2>1 DEF IInv, Linked, Grows
  <2>3. ExactlyOnceInOrder' /\ Linked(chain')
    BY <2>1 DEF IInv, ExactlyOnceInOrder
  <2> QED
    BY <2>1, <2>2, <2>3, ForkStep DEF TypeOK
<1>4. CASE Reorg
  <2>1. PICK n \in finalized..(Len(chain) - 1) : chain' = SubSeq(chain, 1, n)
    BY <1>4 DEF Reorg
  <2>2. /\ n \in 1..Len(chain) /\ \A i \in 1..n : chain[i] \in Blocks
        /\ finalized \in 1..n /\ chain[finalized] \in Blocks
    BY <2>1, ChainType
  <2>3. Len(chain') = n /\ \A i \in 1..n : chain'[i] = chain[i]
    BY <2>1, <2>2, ChainType, ChainPrefix
  <2>8. \A i \in 1..n : i \in 1..Len(chain)
    BY <2>2, ChainType
  <2>4. ExactlyOnceInOrder'
    <3> SUFFICES ASSUME NEW i \in 1..n
                 PROVE  /\ chain'[i].ingress = Len(chain'[i].accepted)
                        /\ Len(chain'[i].accepted) <= Len(chain'[i].emitted)
                        /\ \A k \in 1..Len(chain'[i].accepted) :
                              chain'[i].accepted[k]
                                 = Message(k - 1, chain'[i].emitted[k])
      BY <2>3 DEF ExactlyOnceInOrder
    <3>1. i \in 1..Len(chain) /\ chain'[i] = chain[i]
      BY <2>3, <2>8
    <3> QED
      BY <3>1 DEF IInv, ExactlyOnceInOrder
  <2>5. Linked(chain')
    <3>1. \A i \in 1..n :
             /\ chain'[i].registered # {}
             /\ \A k \in 1..Len(chain'[i].emitted) : chain'[i].emitted[k] \in 2..i
      <4> SUFFICES ASSUME NEW i \in 1..n
                   PROVE  /\ chain'[i].registered # {}
                          /\ \A k \in 1..Len(chain'[i].emitted) :
                                chain'[i].emitted[k] \in 2..i
        OBVIOUS
      <4>1. i \in 1..Len(chain) /\ chain'[i] = chain[i]
        BY <2>3, <2>8
      <4> QED
        BY <4>1 DEF IInv, Linked
    <3>2. \A i, j \in 1..n : i <= j => Grows(chain', i, j)
      <4> SUFFICES ASSUME NEW i \in 1..n, NEW j \in 1..n, i <= j
                   PROVE  Grows(chain', i, j)
        OBVIOUS
      <4>1. Grows(chain, i, j)
        BY <2>8 DEF IInv, Linked
      <4>2. chain'[i] = chain[i] /\ chain'[j] = chain[j]
        BY <2>3
      <4> QED
        BY <4>1, <4>2 DEF Grows
    <3>3. \A i \in 2..n : Follows(chain', i)
      <4> SUFFICES ASSUME NEW i \in 2..n PROVE Follows(chain', i)
        OBVIOUS
      <4>1. /\ i \in 2..Len(chain)
            /\ chain'[i] = chain[i] /\ chain'[i - 1] = chain[i - 1]
        BY <2>2, <2>3
      <4>2. Follows(chain, i)
        BY <4>1 DEF IInv, Linked
      <4> QED
        BY <4>1, <4>2 DEF Follows
    <3> QED
      BY <2>3, <3>1, <3>2, <3>3 DEF Linked
  <2>6. UNCHANGED <<finalized, pool, node, ckpt, relay, faults>>
    BY <1>4 DEF Reorg
  <2>7. Extends(chain[finalized].emitted, chain'[finalized'].emitted)
    BY <2>2, <2>3, <2>6, BlockFields DEF Extends
  <2> QED
    BY <2>2, <2>3, <2>4, <2>5, <2>6, <2>7, ForkStep
<1>5. ASSUME NEW r \in Replicas, DispatchBlock(r) PROVE IInv'
  <2> DEFINE b == node[r].height + 1
             s == [height |-> b,
                   ch |-> HandleEvent(r, Purge(node[r].ch, chain[b].ingress),
                                      b, chain[b].event)]
  <2>1. /\ node' = [node EXCEPT ![r] = s]
        /\ ckpt' = ckpt \/ ckpt' = [ckpt EXCEPT ![r] = node'[r]]
        /\ UNCHANGED <<chain, finalized, pool, relay, faults>>
    BY <1>5 DEF DispatchBlock
  <2>2. InSync(chain, finalized, r, s)
    <3>1. /\ chain \in Seq(Blocks) /\ finalized \in 1..Len(chain)
          /\ node[r] \in States(finalized) /\ node[r].height < finalized
      BY <1>5 DEF DispatchBlock, TypeOK, States
    <3>2. Linked(chain) /\ InSync(chain, finalized, r, node[r])
      BY DEF IInv
    <3> QED
      BY <3>1, <3>2, DispatchInSync
  <2> HIDE DEF s
  <2>3. node'[r] = s
    BY <2>1 DEF TypeOK
  <2>4. \A q \in Replicas : /\ node'[q] = node[q] \/ (q = r /\ node'[q] = s)
                            /\ ckpt'[q] = ckpt[q] \/ (q = r /\ ckpt'[q] = s)
    BY <2>1, <2>3 DEF TypeOK
  <2> QED
    BY <2>1, <2>2, <2>4 DEF IInv, ExactlyOnceInOrder
<1>6. ASSUME NEW r \in Replicas, RestoreFromCheckpoint(r) PROVE IInv'
  <2>1. \A q \in Replicas : node'[q] = node[q] \/ (q = r /\ node'[q] = ckpt[q])
    BY <1>6 DEF RestoreFromCheckpoint, TypeOK
  <2> QED
    BY <1>6, <2>1 DEF RestoreFromCheckpoint, IInv, ExactlyOnceInOrder
<1>7. ASSUME NEW r \in Replicas, RestartFromGenesis(r) PROVE IInv'
  <2>1. InSync(chain, finalized, r, Boot(r))
    BY BootInSync DEF IInv
  <2>2. \A q \in Replicas :
           /\ node'[q] = node[q] \/ (q = r /\ node'[q] = Boot(r))
           /\ ckpt'[q] = ckpt[q] \/ (q = r /\ ckpt'[q] = Boot(r))
    BY <1>7 DEF RestartFromGenesis, TypeOK
  <2> QED
    BY <1>7, <2>1, <2>2 DEF RestartFromGenesis, IInv, ExactlyOnceInOrder
<1>8. CASE DropTransaction
  BY <1>8 DEF DropTransaction, IInv, ExactlyOnceInOrder
<1>9. ASSUME NEW r \in Replicas, FetchEgress(r) PROVE IInv'
  <2>1. \A q \in Replicas : \/ relay'[q].batch = relay[q].batch
                            \/ relay'[q].batch = node[q].ch.messages
    BY <1>9 DEF FetchEgress, TypeOK
  <2>2. \A q \in Replicas : \A m \in node[q].ch.messages :
           Genuine(chain, finalized, m)
    BY DEF IInv, InSync
  <2> QED
    BY <1>9, <2>1, <2>2 DEF FetchEgress, IInv, ExactlyOnceInOrder
<1>10. ASSUME NEW r \in Replicas, ReadNextSequence(r) PROVE IInv'
  <2>1. \A q \in Replicas : relay'[q].batch = relay[q].batch
    BY <1>10 DEF ReadNextSequence, TypeOK
  <2> QED
    BY <1>10, <2>1 DEF ReadNextSequence, IInv, ExactlyOnceInOrder
<1>11. ASSUME NEW r \in Replicas, SyncMessage(r) PROVE IInv'
  <2>1. PICK m \in relay[r].batch, sent \in {0, 1} :
           /\ pool' \in {pool, pool \cup {m}}
           /\ relay' = [relay EXCEPT ![r] = AfterMessage(@, m, sent)]
    BY <1>11 DEF SyncMessage
  <2>2. AfterMessage(relay[r], m, sent).batch \subseteq relay[r].batch
    BY DEF AfterMessage, IdleRound, TypeOK
  <2>3. \A q \in Replicas : relay'[q].batch \subseteq relay[q].batch
    BY <2>1, <2>2 DEF TypeOK
  <2> QED
    BY <1>11, <2>1, <2>3 DEF SyncMessage, IInv, ExactlyOnceInOrder
<1>12. ASSUME NEW r \in Replicas, AbortRound(r) PROVE IInv'
  <2>1. \A q \in Replicas : relay'[q].batch \subseteq relay[q].batch
    BY <1>12 DEF AbortRound, IdleRound, TypeOK
  <2> QED
    BY <1>12, <2>1 DEF AbortRound, IInv, ExactlyOnceInOrder
<1>13. CASE UNCHANGED vars
  BY <1>13 DEF vars, IInv, ExactlyOnceInOrder
<1> QED
  BY <1>1, <1>2, <1>3, <1>4, <1>5, <1>6, <1>7, <1>8, <1>9, <1>10, <1>11,
     <1>12, <1>13 DEF Next, ChainNext, ReplicaNext

(* The inductive invariant holds in every reachable state.                 *)
THEOREM Invariance == Spec => []IInv
<1>1. Init => IInv
  BY InitIInv
<1>2. TypeOK /\ TypeOK' /\ IInv /\ [Next]_vars => IInv'
  BY NextIInv
<1> QED
  BY <1>1, <1>2, TypeCorrect, PTL DEF Spec

(* sync_offchain_message accepts what the sender produced, in order and    *)
(* once, whatever the replicas, relayers, forks and restarts do.           *)
THEOREM InOrder == Spec => []ExactlyOnceInOrder
<1>1. IInv => ExactlyOnceInOrder
  BY DEF IInv
<1> QED
  BY <1>1, Invariance, PTL

(* Replicas that have handled the same blocks number messages alike.       *)
THEOREM Agreement == Spec => []ReplicasAgree
<1>1. IInv => ReplicasAgree
  BY DEF IInv, InSync, ReplicasAgree
<1> QED
  BY <1>1, Invariance, PTL

(* No message produced by a final block is lost before it is accepted.     *)
THEOREM Retention == Spec => []NothingLost
<1>1. TypeOK /\ IInv => NothingLost
  <2> SUFFICES ASSUME TypeOK, IInv,
                      NEW k \in (chain[finalized].ingress + 1)
                                   ..Len(chain[finalized].emitted)
               PROVE  \E r \in Replicas : Holder(k, r)
    BY DEF NothingLost
  <2> DEFINE last == chain[finalized]
             b == last.emitted[k]
  <2>1. finalized \in 1..Len(chain) /\ last \in Blocks
    BY DEF TypeOK
  <2>2. last.ingress \in Nat /\ Len(last.emitted) \in Nat
    BY <2>1, BlockFields
  <2>3. k \in 1..Len(last.emitted)
    BY <2>2
  <2>4. b \in 2..finalized
    BY <2>1, <2>3 DEF IInv, Linked
  <2>5. b - 1 \in 1..Len(chain) /\ chain[b - 1] \in Blocks
    BY <2>1, <2>4 DEF TypeOK
  <2>6. PICK r \in chain[b - 1].registered : r \in Replicas
    BY <2>5, BlockFields DEF IInv, Linked
  <2> HIDE DEF last, b
  <2>7. ASSUME node[r].height >= b
        PROVE  Message(k - 1, b) \in node[r].ch.messages
    <3> DEFINE h == node[r].height
    <3>1. h \in 1..finalized /\ h \in 1..Len(chain) /\ chain[h] \in Blocks
      BY <2>1, <2>6 DEF TypeOK
    <3>2. chain[h].ingress \in Nat /\ Len(chain[h].emitted) \in Nat
      BY <3>1, BlockFields
    <3>3. InSync(chain, finalized, r, node[r])
      BY <2>6 DEF IInv
    <3> HIDE DEF h
    <3>4. Grows(chain, h, finalized)
      BY <2>1, <3>1 DEF IInv, Linked
    <3>5. k <= Len(chain[h].emitted)
      <4>1. SUFFICES ASSUME k > Len(chain[h].emitted) PROVE FALSE
        BY <2>2, <3>2
      <4>2. k \in (Len(chain[h].emitted) + 1)..Len(last.emitted)
        BY <2>2, <2>3, <3>2, <4>1
      <4>3. b > h
        BY <3>4, <4>2 DEF Grows, b, last
      <4> QED
        BY <2>4, <2>7, <3>1, <4>3 DEF h
    <3>6. chain[h].ingress <= last.ingress
      BY <3>4 DEF Grows, last
    <3>7. k \in (chain[h].ingress + 1)..Len(chain[h].emitted)
      BY <2>2, <3>2, <3>5, <3>6 DEF last
    <3>8. k \in 1..Len(chain[h].emitted)
      BY <3>2, <3>7
    <3>9. chain[h].emitted[k] = b
      BY <3>4, <3>8 DEF Grows, Extends, b, last
    <3> QED
      BY <2>6, <3>3, <3>7, <3>9 DEF InSync, h
  <2>8. Holder(k, r)
    BY <2>6, <2>7 DEF Holder, b, last
  <2> QED
    BY <2>6, <2>8
<1> QED
  BY <1>1, TypeCorrect, Invariance, PTL

-----------------------------------------------------------------------------
(* Refinement.                                                             *)

(* The messages accepted by the final blocks, as the abstract channel      *)
(* names them.                                                             *)
Delivered == [k \in 1..Len(chain[finalized].accepted) |->
                 chain[finalized].accepted[k].block]

(* A step that leaves the last final block alone is a stuttering step of   *)
(* the channel.                                                            *)
LEMMA SameFinalBlock ==
    chain'[finalized'] = chain[finalized] => UNCHANGED Channel!vars
  BY DEF Channel!vars

(* Finalizing one more block is a step of the channel, or stuttering.      *)
LEMMA FinalizeRefines ==
    ASSUME TypeOK, IInv, Finalize
    PROVE  [Channel!Next]_(Channel!vars)
<1> DEFINE p == chain[finalized]
           b == chain[finalized + 1]
<1>1. /\ finalized \in 1..Len(chain) /\ finalized + 1 \in 2..Len(chain)
      /\ finalized + 1 \in 1..Len(chain) /\ (finalized + 1) - 1 = finalized
      /\ p \in Blocks /\ b \in Blocks
  BY DEF TypeOK, Finalize
<1>2. /\ p.emitted \in Seq(Nat) /\ Len(p.emitted) \in Nat
      /\ b.emitted \in Seq(Nat) /\ Len(b.emitted) \in Nat
      /\ p.ingress \in Nat /\ b.ingress \in Nat
  BY <1>1, BlockFields
<1>3. Follows(chain, finalized + 1) /\ Grows(chain, finalized, finalized + 1)
  BY <1>1 DEF IInv, Linked
<1>4. /\ b.emitted = p.emitted \/ b.emitted = Append(p.emitted, finalized + 1)
      /\ b.ingress \in {p.ingress, p.ingress + 1}
      /\ b.ingress <= Len(p.emitted)
  BY <1>1, <1>3 DEF Follows
<1>5. \A k \in 1..Len(p.emitted) : b.emitted[k] = p.emitted[k]
  BY <1>3 DEF Grows, Extends
<1>6. /\ p.ingress = Len(p.accepted) /\ b.ingress = Len(b.accepted)
      /\ \A k \in 1..Len(p.accepted) :
            p.accepted[k] = Message(k - 1, p.emitted[k])
      /\ \A k \in 1..Len(b.accepted) :
            b.accepted[k] = Message(k - 1, b.emitted[k])
  BY <1>1 DEF IInv, ExactlyOnceInOrder
<1>7. /\ Delivered = [k \in 1..p.ingress |-> p.emitted[k]]
      /\ Delivered' = [k \in 1..b.ingress |-> p.emitted[k]]
  <2>1. chain'[finalized'] = b
    BY DEF Finalize
  <2>2. \A k \in 1..p.ingress : p.accepted[k].block = p.emitted[k]
    <3> TAKE k \in 1..p.ingress
    <3>1. p.accepted[k] = Message(k - 1, p.emitted[k])
      BY <1>6
    <3> QED
      BY <3>1 DEF Message
  <2>3. \A k \in 1..b.ingress : b.accepted[k].block = p.emitted[k]
    <3> TAKE k \in 1..b.ingress
    <3>1. k \in 1..Len(p.emitted)
      BY <1>2, <1>4
    <3>2. b.accepted[k] = Message(k - 1, b.emitted[k])
      BY <1>6
    <3> QED
      BY <1>5, <3>1, <3>2 DEF Message
  <2> QED
    BY <1>6, <2>1, <2>2, <2>3 DEF Delivered
<1>8. chain'[finalized'].emitted = b.emitted
  BY DEF Finalize
<1> HIDE DEF p, b
<1>9. CASE b.ingress = p.ingress + 1
  <2>1. Delivered \in Seq(Nat) /\ Len(Delivered) = p.ingress
    <3>1. \A k \in 1..p.ingress : p.emitted[k] \in Nat
      BY SMTT(30), <1>2, <1>4, <1>9
    <3>2. Delivered \in [1..p.ingress -> Nat]
      BY <1>7, <3>1
    <3> QED
      BY SMTT(30), <1>2, <3>2
  <2>2. Delivered' = Append(Delivered, p.emitted[p.ingress + 1])
    BY <1>2, <1>7, <1>9
  <2>3. Channel!Deliver
    <3>1. p.ingress < Len(p.emitted)
      BY <1>2, <1>4, <1>9
    <3> QED
      BY <2>1, <2>2, <3>1 DEF Channel!Deliver, Delivered, p
  <2>4. CASE b.emitted = p.emitted
    BY <1>8, <2>3, <2>4 DEF Channel!Next, p
  <2>5. CASE b.emitted = Append(p.emitted, finalized + 1)
    <3>1. Channel!Produce
      BY <1>1, <1>2, <1>5, <1>8, <2>5 DEF Channel!Produce, p
    <3> QED
      BY <2>3, <3>1 DEF Channel!Next
  <2> QED
    BY <1>4, <2>4, <2>5
<1>10. CASE b.ingress = p.ingress
  <2>1. Delivered' = Delivered
    BY <1>7, <1>10
  <2>2. CASE b.emitted = p.emitted
    BY <1>8, <2>1, <2>2 DEF Channel!vars, Delivered, p
  <2>3. CASE b.emitted = Append(p.emitted, finalized + 1)
    <3>1. Channel!Produce
      BY <1>1, <1>2, <1>5, <1>8, <2>3 DEF Channel!Produce, p
    <3> QED
      BY <2>1, <3>1 DEF Channel!Next, Delivered
  <2> QED
    BY <1>4, <2>2, <2>3
<1> QED
  BY <1>4, <1>9, <1>10

(* The queue implements the exactly-once channel: its initial state is the *)
(* channel's, and every step of chain, pRuntimes and relayers is a step of *)
(* the channel or leaves it alone.                                         *)
THEOREM Refinement == Spec => ImplementsChannel
<1>1. Init => Channel!Init
  <2> SUFFICES ASSUME Init PROVE Channel!Init
    OBVIOUS
  <2>1. /\ chain[finalized].emitted = << >>
        /\ chain[finalized].accepted = << >>
    BY DEF Init, Genesis
  <2> QED
    BY <2>1 DEF Channel!Init
<1>2. TypeOK /\ IInv /\ [Next]_vars => [Channel!Next]_(Channel!vars)
  <2> SUFFICES ASSUME TypeOK, IInv, [Next]_vars
               PROVE  [Channel!Next]_(Channel!vars)
    OBVIOUS
  <2>1. CASE Finalize
    BY <2>1, FinalizeRefines
  <2>2. CASE BuildEventBlock \/ IncludeMessage
    <3>1. PICK nb : chain' = Append(chain, nb) /\ finalized' = finalized
      BY <2>2 DEF BuildEventBlock, IncludeMessage
    <3>2. chain'[finalized'] = chain[finalized]
      BY <3>1 DEF TypeOK
    <3> QED
      BY <3>2, SameFinalBlock
  <2>3. CASE Reorg
    <3>1. PICK n \in finalized..(Len(chain) - 1) :
             chain' = SubSeq(chain, 1, n) /\ finalized' = finalized
      BY <2>3 DEF Reorg
    <3>2. chain'[finalized'] = chain[finalized]
      BY <3>1, SubSeqProperties DEF TypeOK
    <3> QED
      BY <3>2, SameFinalBlock
  <2>4. CASE /\ ~Finalize /\ ~BuildEventBlock /\ ~IncludeMessage /\ ~Reorg
    <3>1. UNCHANGED <<chain, finalized>>
      BY <2>4 DEF Next, ChainNext, ReplicaNext, DropTransaction, DispatchBlock,
         RestoreFromCheckpoint, RestartFromGenesis, FetchEgress,
         ReadNextSequence, SyncMessage, AbortRound, vars
    <3> QED
      BY <3>1, SameFinalBlock
  <2> QED
    BY <2>1, <2>2, <2>3, <2>4
<1> QED
  BY <1>1, <1>2, TypeCorrect, Invariance, PTL
  DEF Spec, ImplementsChannel, Channel!Spec
=============================================================================
