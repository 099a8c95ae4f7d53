----------------------------- MODULE OffchainMq -----------------------------
(***************************************************************************)
(* The message queue between one off-chain sender and the chain.           *)
(*                                                                         *)
(* The sender is a deterministic state machine replicated on one or more   *)
(* pRuntimes: a worker key lives on one of them, the Gatekeeper master key *)
(* on all gatekeepers.  Every replica handles the same finalized blocks    *)
(* and pushes the same messages, numbered by its own copy of the channel's *)
(* sequence; replicas that are not registered on chain count the message   *)
(* and drop it (dummy mode).  A relayer next to each pRuntime (pherry)     *)
(* copies the pending messages into the transaction pool of the chain,     *)
(* which accepts a message only when it has the expected sequence.         *)
(*                                                                         *)
(* The module keeps: the fork that is best at the moment and how much of   *)
(* it is final, the transaction pool, the state and the last checkpoint of *)
(* each pRuntime, and the round each relayer is in.  Blocks may be         *)
(* reverted until they are final, transactions and rounds may be lost, and *)
(* pRuntimes restart from a checkpoint or from nothing.                    *)
(***************************************************************************)
EXTENDS Integers, Sequences, FiniteSets

CONSTANTS Replicas,         \* pRuntimes that hold the key of the sender
          First,            \* the replica registered first
          MsgsPerRound,     \* max_sync_msgs_per_round of the relayers
          MaxEvents,        \* bound: blocks that carry an event
          MaxFork,          \* bound: blocks that are not final yet
          MaxFaults         \* bound: restarts, of any replica or relayer

ASSUME ConstantsAssumption ==
    /\ First \in Replicas
    /\ MsgsPerRound \in Nat \ {0}
    /\ MaxEvents \in Nat
    /\ MaxFork \in Nat
    /\ MaxFaults \in Nat

VARIABLES
    chain,      \* the best fork, a sequence of blocks; the first is genesis
    finalized,  \* number of blocks of the fork that are final
    pool,       \* messages in submitted transactions
    node,       \* pRuntime: blocks handled, and the channel of the sender
    ckpt,       \* pRuntime: the state saved by the last checkpoint
    relay,      \* pherry: the round it is in
    faults      \* restarts so far

vars == <<chain, finalized, pool, node, ckpt, relay, faults>>

-----------------------------------------------------------------------------
(* Messages, events and blocks.                                            *)

(* A signed message: its sequence, and the block whose handling made the   *)
(* sender push it, which stands for the payload.                           *)
Message(seq, b) == [seq |-> seq, block |-> b]

(* What a block makes the state machine do, as far as the queue sees it:   *)
(* whether it pushes a message, and which replicas become or cease to be   *)
(* registered after that.                                                  *)
NoEvent == [emits |-> FALSE, joins |-> {}, leaves |-> {}]
Work == [emits |-> TRUE, joins |-> {}, leaves |-> {}]
Registered(r) == [emits |-> TRUE, joins |-> {r}, leaves |-> {}]
Unregistered(r) == [emits |-> FALSE, joins |-> {}, leaves |-> {r}]
Replaced(r, q) == [emits |-> TRUE, joins |-> {q}, leaves |-> {r}]

Best == chain[Len(chain)]

(* The chain state a block leaves behind: OffchainIngress of the sender,   *)
(* the registered replicas, and two records the code does not keep: the    *)
(* messages accepted so far, and the blocks that emitted one so far.       *)
Genesis == [event |-> NoEvent, ingress |-> 0, registered |-> {First},
            accepted |-> << >>, emitted |-> << >>]

-----------------------------------------------------------------------------
(* The channel of a MessageSendQueue.                                      *)

NewChannel(r) == [sequence |-> 0, messages |-> {}, dummy |-> r # First]

(* Fault: a silent replica does not count what it drops. *)
SilentDoesNotCount(ch, b) ==
    [sequence |-> IF ch.dummy THEN ch.sequence ELSE ch.sequence + 1,
     messages |-> IF ch.dummy
                  THEN ch.messages
                  ELSE ch.messages \cup {Message(ch.sequence, b)},
     dummy |-> ch.dummy]

EnqueueMessage(ch, b) ==
    [sequence |-> ch.sequence + 1,
     messages |-> IF ch.dummy
                  THEN ch.messages
                  ELSE ch.messages \cup {Message(ch.sequence, b)},
     dummy |-> ch.dummy]

SetDummyMode(ch, dummy) == [ch EXCEPT !.dummy = dummy]

(* Fault: the expected message is purged too. *)
PurgeTooMuch(ch, next) == [ch EXCEPT !.messages = {m \in @ : m.seq > next}]

Purge(ch, next) == [ch EXCEPT !.messages = {m \in @ : m.seq >= next}]

(* A gatekeeper shares the key, which pushes a message, before it takes    *)
(* note that it is the registered one itself.                              *)
HandleEvent(r, ch, b, event) ==
    LET pushed == IF event.emits THEN EnqueueMessage(ch, b) ELSE ch
    IN  IF r \in event.joins THEN SetDummyMode(pushed, FALSE)
        ELSE IF r \in event.leaves THEN SetDummyMode(pushed, TRUE)
        ELSE pushed

-----------------------------------------------------------------------------
IdleRound == [fetched |-> FALSE, checked |-> FALSE, batch |-> {},
              min_seq |-> 0, count |-> 0]

Boot(r) == [height |-> 1, ch |-> NewChannel(r)]

Init == /\ chain = <<Genesis>>
        /\ finalized = 1
        /\ pool = {}
        /\ node = [r \in Replicas |-> Boot(r)]
        /\ ckpt = [r \in Replicas |-> Boot(r)]
        /\ relay = [r \in Replicas |-> IdleRound]
        /\ faults = 0

-----------------------------------------------------------------------------
(* The chain.                                                              *)

(* Faults: a message that is early, or one that is late, is executed. *)
AcceptEarly(m) == m \in pool /\ m.seq >= Best.ingress
AcceptLate(m) == m \in pool /\ m.seq <= Best.ingress

(* pre_dispatch of CheckMqSequence and the check of the call itself.       *)
Includable(m) == m \in pool /\ m.seq = Best.ingress

(* validate of CheckMqSequence: only stale messages are kept out.          *)
Valid(m) == m.seq >= Best.ingress

(* register_gatekeeper, unregister_gatekeeper, one after the other in one  *)
(* block, or anything else that makes the sender push a message.           *)
EventEnabled(event) ==
    \/ event = Work
    \/ \E r \in Replicas \ Best.registered : event = Registered(r)
    \/ \E r \in Best.registered :
          /\ Cardinality(Best.registered) > 1
          /\ event = Unregistered(r)
    \/ \E r \in Best.registered, q \in Replicas \ Best.registered :
          event = Replaced(r, q)

Events == {Work} \cup {Registered(r) : r \in Replicas}
                 \cup {Unregistered(r) : r \in Replicas}
                 \cup {Replaced(r, q) : r, q \in Replicas}

EventBlocks == Cardinality({i \in 1..Len(chain) : chain[i].event # NoEvent})

NextBlock(event, txs) ==
    [event |-> event,
     ingress |-> IF txs = << >> THEN Best.ingress ELSE Best.ingress + 1,
     registered |-> (Best.registered \cup event.joins) \ event.leaves,
     accepted |-> Best.accepted \o txs,
     emitted |-> IF event.emits
                 THEN Append(Best.emitted, Len(chain) + 1)
                 ELSE Best.emitted]

(* A block with an event.                                                  *)
BuildEventBlock ==
    /\ EventBlocks < MaxEvents
    /\ Len(chain) - finalized < MaxFork
    /\ \E event \in Events :
          /\ EventEnabled(event)
          /\ chain' = Append(chain, NextBlock(event, << >>))
    /\ UNCHANGED <<finalized, pool, node, ckpt, relay, faults>>

(* sync_offchain_message, in a block with or without an event.             *)
IncludeMessage ==
    /\ Len(chain) - finalized < MaxFork
    /\ \E m \in pool :
          /\ Includable(m)
          /\ \/ chain' = Append(chain, NextBlock(NoEvent, <<m>>))
             \/ /\ EventBlocks < MaxEvents
                /\ \E event \in Events :
                      /\ EventEnabled(event)
                      /\ chain' = Append(chain, NextBlock(event, <<m>>))
    /\ UNCHANGED <<finalized, pool, node, ckpt, relay, faults>>

(* The finality gadget finalizes one more block of the best fork.          *)
Finalize == /\ finalized < Len(chain)
            /\ finalized' = finalized + 1
            /\ UNCHANGED <<chain, pool, node, ckpt, relay, faults>>

(* Another fork becomes the best one: blocks that are not final go.        *)
Reorg == /\ \E n \in finalized..(Len(chain) - 1) :
               chain' = SubSeq(chain, 1, n)
         /\ UNCHANGED <<finalized, pool, node, ckpt, relay, faults>>

(* A transaction leaves the pool: it is stale, its era ended, its nonce    *)
(* was used, or the node never got it.                                     *)
DropTransaction == /\ \E m \in pool : pool' = pool \ {m}
                   /\ UNCHANGED <<chain, finalized, node, ckpt, relay, faults>>

-----------------------------------------------------------------------------
(* pRuntime.                                                               *)

(* dispatch_blocks for the next block: feed_block has replaced the chain   *)
(* storage by the state after the block, then purge_mq,                    *)
(* handle_inbound_messages, and maybe_take_checkpoint (it depends on the   *)
(* time since the last one).                                               *)
DispatchBlock(r) ==
    /\ node[r].height < finalized
    /\ LET b == node[r].height + 1
           purged == Purge(node[r].ch, chain[b].ingress)
       IN  node' = [node EXCEPT ![r] =
              [height |-> b, ch |-> HandleEvent(r, purged, b, chain[b].event)]]
    /\ \/ UNCHANGED ckpt
       \/ ckpt' = [ckpt EXCEPT ![r] = node'[r]]
    /\ UNCHANGED <<chain, finalized, pool, relay, faults>>

(* Fault: the checkpoint does not hold the send queue. *)
RestoreEmptyQueue(r) ==
    /\ faults < MaxFaults
    /\ node' = [node EXCEPT ![r] = [ckpt[r] EXCEPT !.ch.messages = {}]]
    /\ faults' = faults + 1
    /\ UNCHANGED <<chain, finalized, pool, ckpt, relay>>

(* The process ends and starts again from its last checkpoint.             *)
RestoreFromCheckpoint(r) ==
    /\ faults < MaxFaults
    /\ node' = [node EXCEPT ![r] = ckpt[r]]
    /\ faults' = faults + 1
    /\ UNCHANGED <<chain, finalized, pool, ckpt, relay>>

(* The process starts again without its checkpoints and syncs from the     *)
(* first block.                                                            *)
RestartFromGenesis(r) ==
    /\ faults < MaxFaults
    /\ node' = [node EXCEPT ![r] = Boot(r)]
    /\ ckpt' = [ckpt EXCEPT ![r] = Boot(r)]
    /\ faults' = faults + 1
    /\ UNCHANGED <<chain, finalized, pool, relay>>

-----------------------------------------------------------------------------
(* pherry: maybe_sync_mq_egress.                                           *)

(* get_egress_messages.  With no message the round is over.                *)
FetchEgress(r) ==
    /\ ~relay[r].fetched
    /\ node[r].ch.messages # {}
    /\ relay' = [relay EXCEPT ![r].fetched = TRUE,
                              ![r].batch = node[r].ch.messages]
    /\ UNCHANGED <<chain, finalized, pool, node, ckpt, faults>>

(* mq_next_sequence: asks the best block.                                  *)
ReadNextSequence(r) ==
    /\ relay[r].fetched /\ ~relay[r].checked
    /\ relay' = [relay EXCEPT ![r].checked = TRUE,
                              ![r].min_seq = Best.ingress]
    /\ UNCHANGED <<chain, finalized, pool, node, ckpt, faults>>

Oldest(batch, m) == m \in batch /\ \A k \in batch : m.seq <= k.seq

(* The round ends when the batch is used up or the limit is reached.       *)
AfterMessage(round, m, sent) ==
    LET count == round.count + sent
    IN  IF round.batch = {m} \/ count >= MsgsPerRound
        THEN IdleRound
        ELSE [round EXCEPT !.batch = @ \ {m}, !.count = count]

(* The next message of the batch: skipped if the chain was known to have   *)
(* it, else submitted by a spawned task, which the pool may refuse.        *)
SyncMessage(r) ==
    /\ relay[r].checked
    /\ \E m \in relay[r].batch :
          /\ Oldest(relay[r].batch, m)
          /\ \/ /\ m.seq < relay[r].min_seq
                /\ pool' = pool
                /\ relay' = [relay EXCEPT ![r] = AfterMessage(@, m, 0)]
             \/ /\ m.seq >= relay[r].min_seq
                /\ pool' = IF Valid(m) THEN pool \cup {m} ELSE pool
                /\ relay' = [relay EXCEPT ![r] = AfterMessage(@, m, 1)]
    /\ UNCHANGED <<chain, finalized, node, ckpt, faults>>

(* An RPC of the round fails, or pherry restarts.                          *)
AbortRound(r) ==
    /\ faults < MaxFaults
    /\ relay[r].fetched
    /\ relay' = [relay EXCEPT ![r] = IdleRound]
    /\ faults' = faults + 1
    /\ UNCHANGED <<chain, finalized, pool, node, ckpt>>

-----------------------------------------------------------------------------
ChainNext == BuildEventBlock \/ IncludeMessage \/ Finalize \/ Reorg
                \/ DropTransaction

ReplicaNext(r) == \/ DispatchBlock(r)
                  \/ RestoreFromCheckpoint(r)
                  \/ RestartFromGenesis(r)
                  \/ FetchEgress(r)
                  \/ ReadNextSequence(r)
                  \/ SyncMessage(r)
                  \/ AbortRound(r)

Next == ChainNext \/ \E r \in Replicas : ReplicaNext(r)

Spec == Init /\ [][Next]_vars

(* Block authors keep including transactions that are ready and finality   *)
(* keeps advancing, in spite of forks and lost transactions; pRuntime and  *)
(* pherry run their loops.                                                 *)
Fairness == /\ SF_vars(IncludeMessage)
            /\ SF_vars(Finalize)
            /\ \A r \in Replicas : /\ WF_vars(DispatchBlock(r))
                                   /\ WF_vars(FetchEgress(r))
                                   /\ WF_vars(ReadNextSequence(r))
                                   /\ WF_vars(SyncMessage(r))

FairSpec == Spec /\ Fairness

-----------------------------------------------------------------------------
(* Properties.                                                             *)

Channels == [sequence : Nat, messages : SUBSET [seq : Nat, block : Nat],
             dummy : BOOLEAN]

Blocks == [event : [emits : BOOLEAN, joins : SUBSET Replicas,
                    leaves : SUBSET Replicas],
           ingress : Nat,
           registered : SUBSET Replicas,
           accepted : Seq([seq : Nat, block : Nat]),
           emitted : Seq(Nat)]

(* The variables have the shape of the code's data: blocks on the fork,    *)
(* channels of the send queues, rounds of maybe_sync_mq_egress.            *)
TypeOK ==
    /\ chain \in Seq(Blocks) /\ chain # << >>
    /\ finalized \in 1..Len(chain)
    /\ pool \subseteq [seq : Nat, block : Nat]
    /\ node \in [Replicas -> [height : 1..finalized, ch : Channels]]
    /\ ckpt \in [Replicas -> [height : 1..finalized, ch : Channels]]
    /\ relay \in [Replicas ->
                    [fetched : BOOLEAN, checked : BOOLEAN,
                     batch : SUBSET [seq : Nat, block : Nat],
                     min_seq : Nat, count : Nat]]
    /\ faults \in 0..MaxFaults

(* The i-th message accepted by sync_offchain_message is the i-th message  *)
(* the state machine produced, on every fork: none is skipped, repeated,   *)
(* overtaken, or replaced by one of another position, although several     *)
(* replicas and their relayers, restarted at will, submit copies.          *)
ExactlyOnceInOrder ==
    \A i \in 1..Len(chain) :
       /\ chain[i].ingress = Len(chain[i].accepted)
       /\ Len(chain[i].accepted) <= Len(chain[i].emitted)
       /\ \A k \in 1..Len(chain[i].accepted) :
             chain[i].accepted[k] = Message(k - 1, chain[i].emitted[k])

(* Replicas that have handled the same blocks number their next message    *)
(* alike, whether they were registered, silent, or restored in between:    *)
(* what lets one gatekeeper take over the channel from another.            *)
ReplicasAgree ==
    \A r, q \in Replicas : node[r].height = node[q].height
                              => node[r].ch.sequence = node[q].ch.sequence

(* A message produced by a final block and not accepted by a final block   *)
(* is never lost for good: some replica was registered when it was pushed, *)
(* and if it has handled the block it still has the message in its queue,  *)
(* and it handles the block again when restored to an earlier state.       *)
Holder(k, r) ==
    LET b == chain[finalized].emitted[k] IN
    /\ r \in chain[b - 1].registered
    /\ node[r].height >= b => Message(k - 1, b) \in node[r].ch.messages

NothingLost ==
    \A k \in (chain[finalized].ingress + 1)..Len(chain[finalized].emitted) :
       \E r \in Replicas : Holder(k, r)

-----------------------------------------------------------------------------
(* The inductive strengthening of the three invariants.                    *)

Extends(s, t) == /\ Len(s) <= Len(t)
                 /\ \A k \in 1..Len(s) : t[k] = s[k]

(* What block j of fork c knows beyond block i: what was emitted and       *)
(* accepted stays, and what is emitted later is emitted by later blocks.   *)
Grows(c, i, j) ==
    /\ Extends(c[i].emitted, c[j].emitted)
    /\ c[i].ingress <= c[j].ingress
    /\ \A k \in (Len(c[i].emitted) + 1)..Len(c[j].emitted) :
          c[j].emitted[k] > i

(* Block i of fork c follows from the one before it: its event takes       *)
(* effect, and it accepts at most one message, emitted by an earlier one.  *)
Follows(c, i) ==
    /\ c[i].registered = (c[i - 1].registered \cup c[i].event.joins)
                            \ c[i].event.leaves
    /\ c[i].event.joins \cap c[i].event.leaves = {}
    /\ c[i].emitted = IF c[i].event.emits
                      THEN Append(c[i - 1].emitted, i)
                      ELSE c[i - 1].emitted
    /\ c[i].ingress \in {c[i - 1].ingress, c[i - 1].ingress + 1}
    /\ c[i].ingress <= Len(c[i - 1].emitted)

(* Fork c is linked, and some replica is registered in all of its blocks.  *)
Linked(c) ==
    /\ \A i \in 1..Len(c) :
          /\ c[i].registered # {}
          /\ \A k \in 1..Len(c[i].emitted) : c[i].emitted[k] \in 2..i
    /\ \A i, j \in 1..Len(c) : i <= j => Grows(c, i, j)
    /\ \A i \in 2..Len(c) : Follows(c, i)

(* Message m is what the first f blocks of c make the sender push with     *)
(* that sequence.                                                          *)
Genuine(c, f, m) == /\ m.seq < Len(c[f].emitted)
                    /\ m.block = c[f].emitted[m.seq + 1]

(* State s of pRuntime r is determined by the blocks of c it has handled:  *)
(* it has counted what they emit, is silent unless registered, and keeps   *)
(* what it pushed until a block it has handled accepts it.                 *)
InSync(c, f, r, s) ==
    LET b == c[s.height] IN
    /\ s.ch.sequence = Len(b.emitted)
    /\ s.ch.dummy = (r \notin b.registered)
    /\ \A m \in s.ch.messages : Genuine(c, f, m)
    /\ \A k \in (b.ingress + 1)..Len(b.emitted) :
          r \in c[b.emitted[k] - 1].registered
             => Message(k - 1, b.emitted[k]) \in s.ch.messages

(* The invariants above are not inductive.  This one is: accepted messages *)
(* are in order, the fork is linked, every pRuntime and every checkpoint   *)
(* is in sync with the blocks it has handled, and whatever is in transit   *)
(* is genuine.                                                             *)
IInv ==
    /\ ExactlyOnceInOrder
    /\ Linked(chain) /\ chain[1] = Genesis
    /\ \A r \in Replicas : /\ InSync(chain, finalized, r, node[r])
                            /\ InSync(chain, finalized, r, ckpt[r])
    /\ \A m \in pool : Genuine(chain, finalized, m)
    /\ \A r \in Replicas :
          \A m \in relay[r].batch : Genuine(chain, finalized, m)

(* On the final part of the chain the queue is an exactly-once channel.    *)
Channel == INSTANCE ExactlyOnceChannel
              WITH produced <- chain[finalized].emitted,
                   delivered <- [k \in 1..Len(chain[finalized].accepted) |->
                                    chain[finalized].accepted[k].block]

(* sync_offchain_message and the send queues implement the exactly-once    *)
(* channel: a step of the finality gadget is one of its steps.             *)
ImplementsChannel == Channel!Spec

(* Whatever a final block makes the sender push is accepted by a final     *)
(* block in the end.                                                       *)
EventuallyAccepted ==
    \A k \in 1..MaxEvents :
       Len(chain[finalized].emitted) >= k ~> chain[finalized].ingress >= k
=============================================================================
