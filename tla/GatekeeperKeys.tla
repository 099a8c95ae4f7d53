--------------------------- MODULE GatekeeperKeys ---------------------------
(***************************************************************************)
(* The gatekeepers and their master key.                                   *)
(*                                                                         *)
(* Governance registers and unregisters gatekeepers and asks for a new     *)
(* master key.  Every pRuntime handles the events of the blocks.  The one  *)
(* registered first generates the key and uploads its public half, the     *)
(* gatekeepers share it with those registered later, and those seal it and *)
(* start again from the first block.  A rotation makes every gatekeeper    *)
(* propose a key; the proposal the chain accepts reaches all of them, they *)
(* announce the new public key, signed with the old one, and switch.       *)
(*                                                                         *)
(* Messages of the gatekeepers reach the chain as OffchainMq says: in the  *)
(* order of their sequences, each sequence once, from any replica.  What a *)
(* replica pushes stays in transit until the chain has accepted its        *)
(* sequence; what is lost on the way is pushed again elsewhere.            *)
(*                                                                         *)
(* Blocks without an event of interest are left out, so the heights that   *)
(* are multiples of VRF_INTERVAL are any set, RandomBlocks.                *)
(***************************************************************************)
EXTENDS Integers, Sequences, FiniteSets, SequencesExt

CONSTANTS Workers,        \* the pRuntimes
          RandomBlocks,   \* heights at which a random number is emitted
          MaxCalls,       \* bound: calls of (un)register_gatekeeper and reports together
          MaxRotations,   \* bound: calls of rotate_master_key
          MaxReports,     \* bound: blocks that lead to an economics report
          MaxPerBlock,    \* bound: events in a block
          MaxFaults       \* bound: restarts that no handler asks for

ASSUME ConstantsAssumption ==
    /\ RandomBlocks \subseteq Nat
    /\ {MaxCalls, MaxRotations, MaxReports, MaxFaults} \subseteq Nat
    /\ MaxPerBlock \in Nat \ {0}

VARIABLES
    blocks,       \* the chain: events of each block, gatekeepers after it
    final,        \* blocks that some pRuntime has handled
    gatekeepers,  \* Gatekeeper of the registry pallet
    master,       \* GatekeeperMasterPubkey, 0 for none
    lock,         \* MasterKeyRotationLock, 0 for none
    rotations,    \* RotationCounter
    ingress,      \* OffchainIngress of the gatekeeper
    pool,         \* messages of the gatekeeper in transit
    uploads,      \* MasterPubkey messages of workers in transit
    node,         \* state of each pRuntime
    seal,         \* master_key.seal of each pRuntime
    ckpt,         \* last checkpoint of each pRuntime
    keys,         \* number of keys generated
    bounds        \* changes, reports and faults so far

chainVars == <<gatekeepers, master, lock, rotations>>
nodeVars == <<node, seal, ckpt, keys>>
vars == <<blocks, final, chainVars, ingress, pool, uploads, nodeVars, bounds>>

-----------------------------------------------------------------------------
(* Events of a block, which are messages from the chain to the pRuntimes.  *)

FirstGatekeeper(g) == [type |-> "FirstGatekeeper", gk |-> g]
MasterPubkeyOnChain(k) == [type |-> "MasterPubkeyOnChain", key |-> k]
Registered(g) == [type |-> "Registered", gk |-> g]
Unregistered(g) == [type |-> "Unregistered", gk |-> g]
RotateMasterKey(id, gks) == [type |-> "RotateMasterKey", id |-> id, gks |-> gks]
Settle == [type |-> "Settle"]

(* Messages of the gatekeeper; the first three come back as events.  A     *)
(* random number is determined by the key and the block it was made with.  *)
MasterKeyHistory(g, history) ==
    [type |-> "MasterKeyHistory", dest |-> g, history |-> history]
MasterKeyRotation(id, k, gks, g) ==
    [type |-> "MasterKeyRotation", id |-> id, key |-> k, dests |-> gks,
     sender |-> g]
NewRandomNumber(h, k) == [type |-> "NewRandomNumber", height |-> h, key |-> k]
RotatedMasterPubkey(id, k) ==
    [type |-> "RotatedMasterPubkey", id |-> id, key |-> k]
Report == [type |-> "Report"]

RotatedKey(id, h, k) == [id |-> id, height |-> h, key |-> k]

-----------------------------------------------------------------------------
(* The handlers of pRuntime.  They work on s, the state of pRuntime r while *)
(* it handles block b at height h: the gatekeeper if it is one, its channel *)
(* of the send queue, the sealed history, the number of keys generated, the *)
(* messages pushed, the keys uploaded, and the panic that ended it, if any. *)

NoGatekeeper == [on |-> FALSE]

(* Fault: the gatekeeper starts with the newest key it has. *)
NewGatekeeperLatest(history) ==
    [on |-> TRUE, key |-> Last(history).key, history |-> history,
     launched |-> FALSE, reporter |-> history[1].key]

(* Gatekeeper::new.  ComputingEconomics gets a channel of its own.         *)
NewGatekeeper(history) ==
    [on |-> TRUE, key |-> history[1].key, history |-> history,
     launched |-> FALSE, reporter |-> history[1].key]

Panic(s, reason) == [s EXCEPT !.panic = reason]

(* push_message on a channel with that signer.                             *)
Push(s, payload, signer) ==
    [s EXCEPT !.seq = @ + 1,
              !.out = IF s.dummy THEN @
                      ELSE @ \cup {[seq |-> s.seq, payload |-> payload,
                                    signer |-> signer]}]

(* Fault: the first gatekeeper generates a key whenever it handles this. *)
GenerateAgain(r, b, s, e) ==
    LET history == IF r = e.gk THEN <<RotatedKey(0, 0, s.keys + 1)>> ELSE s.seal
    IN  IF history = << >> THEN s
        ELSE [s EXCEPT !.gk = NewGatekeeper(history), !.dummy = r # e.gk,
                       !.seal = history, !.keys = @ + 1,
                       !.up = @ \cup {history[1].key}]

OnFirstGatekeeper(r, b, s, e) ==
    LET history == IF r = e.gk /\ s.seal = << >>
                   THEN <<RotatedKey(0, 0, s.keys + 1)>>
                   ELSE s.seal
        sealed == [s EXCEPT !.seal = history,
                            !.keys = IF history = s.seal THEN @ ELSE @ + 1,
                            !.up = IF r = e.gk THEN @ \cup {history[1].key} ELSE @]
    IN  IF e.gk \notin b.gatekeepers THEN Panic(s, "System state poisoned")
        ELSE IF history = << >> THEN s
        ELSE [sealed EXCEPT !.gk = NewGatekeeper(history), !.dummy = r # e.gk]

OnMasterPubkeyOnChain(s, e) ==
    IF ~s.gk.on THEN s
    ELSE IF s.gk.key # e.key THEN Panic(s, "master key mismatch")
    ELSE [s EXCEPT !.gk.launched = TRUE]

(* process_new_gatekeeper_event: share_master_key, then register_on_chain. *)
OnRegistered(r, b, s, e) ==
    LET history == IF Len(s.gk.history) > 1 THEN s.gk.history
                   ELSE <<RotatedKey(0, 0, s.gk.key)>>
        shared == Push(s, MasterKeyHistory(e.gk, history), s.gk.key)
    IN  IF e.gk \notin b.gatekeepers THEN Panic(s, "System state poisoned")
        ELSE IF ~s.gk.on THEN s
        ELSE IF r = e.gk THEN [shared EXCEPT !.dummy = FALSE]
        ELSE shared

OnUnregistered(r, s, e) ==
    IF r = e.gk /\ s.gk.on THEN [s EXCEPT !.dummy = TRUE] ELSE s

OnRotateMasterKey(r, s, e) ==
    IF ~s.gk.on THEN s
    ELSE LET proposal == MasterKeyRotation(e.id, s.keys + 1, e.gks, r)
         IN  [Push(s, proposal, s.gk.key) EXCEPT
                 !.keys = IF s.dummy THEN @ ELSE @ + 1]

(* process_master_key_distribution and process_master_key_history.         *)
OnMasterKeyHistory(r, s, e) ==
    IF r # e.dest THEN s
    ELSE IF ~s.gk.on
         THEN Panic([s EXCEPT !.seal = e.history], "Received master key")
    ELSE IF Len(e.history) <= Len(s.gk.history) THEN s
    ELSE [s EXCEPT !.gk.history = e.history, !.seal = e.history]

(* append_master_key.                                                      *)
AppendMasterKey(s, entry) ==
    IF entry \in Range(s.gk.history) THEN s
    ELSE IF entry.id # Len(s.gk.history)
         THEN Panic(s, "master key history corrupted")
    ELSE [s EXCEPT !.gk.history = Append(@, entry),
                   !.seal = Append(s.gk.history, entry)]

(* Fault: the new key signs its own announcement. *)
SwitchThenAnnounce(s, id, h) ==
    IF s.panic # "none" THEN s
    ELSE IF id >= Len(s.gk.history) THEN [s EXCEPT !.gk = NoGatekeeper]
    ELSE LET k == s.gk.history[id + 1].key
         IN  [Push(s, RotatedMasterPubkey(id, k), k) EXCEPT !.gk.key = k]

(* switch_master_key; a gatekeeper that lacks the key ceases to be one.    *)
SwitchMasterKey(s, id, h) ==
    IF s.panic # "none" THEN s
    ELSE IF id >= Len(s.gk.history) THEN [s EXCEPT !.gk = NoGatekeeper]
    ELSE LET entry == s.gk.history[id + 1]
         IN  IF entry.id # id \/ entry.height # h
             THEN Panic(s, "master key history corrupted")
             ELSE [Push(s, RotatedMasterPubkey(id, entry.key), s.gk.key)
                      EXCEPT !.gk.key = entry.key]

(* Fault: a gatekeeper follows a key it has proposed itself only. *)
FollowOwnKey(r, b, h, s, e) ==
    IF ~s.gk.on \/ r # e.sender THEN s
    ELSE SwitchMasterKey(AppendMasterKey(s, RotatedKey(e.id, h, e.key)), e.id, h)

(* process_batch_rotate_master_key.                                        *)
OnMasterKeyRotation(r, b, h, s, e) ==
    IF e.sender \notin b.gatekeepers THEN s
    ELSE IF ~s.gk.on
         THEN IF r \in e.dests
              THEN Panic(s, "Batch rotate master key to a normal worker")
              ELSE s
    ELSE SwitchMasterKey(
            IF r \in e.dests
            THEN AppendMasterKey(s, RotatedKey(e.id, h, e.key))
            ELSE s,
            e.id, h)

(* Fault: off by one at the block of the rotation. *)
KeyForRandomOffByOne(gk, height) ==
    IF Last(gk.history).height >= height
    THEN gk.history[Len(gk.history) - 1].key
    ELSE gk.key

(* The key that process_random_number_event verifies a number with.        *)
KeyForRandom(gk, height) ==
    IF Last(gk.history).height > height
    THEN gk.history[Len(gk.history) - 1].key
    ELSE gk.key

(* process_random_number_event, of Gatekeeper::process_messages.           *)
OnNewRandomNumber(s, e) ==
    IF s.gk.on /\ s.gk.launched /\ e.key # KeyForRandom(s.gk, e.height)
    THEN Panic(s, "GK state poisoned")
    ELSE s

(* System::process_messages, called for one event of the block at a time.  *)
SystemEvent(r, b, h, s, e) ==
    IF s.panic # "none" THEN s
    ELSE CASE e.type = "FirstGatekeeper" -> OnFirstGatekeeper(r, b, s, e)
           [] e.type = "MasterPubkeyOnChain" -> OnMasterPubkeyOnChain(s, e)
           [] e.type = "Registered" -> OnRegistered(r, b, s, e)
           [] e.type = "Unregistered" -> OnUnregistered(r, s, e)
           [] e.type = "RotateMasterKey" -> OnRotateMasterKey(r, s, e)
           [] e.type = "MasterKeyHistory" -> OnMasterKeyHistory(r, s, e)
           [] e.type = "MasterKeyRotation" -> OnMasterKeyRotation(r, b, h, s, e)
           [] e.type = "NewRandomNumber" -> OnNewRandomNumber(s, e)
           [] OTHER -> s

(* Gatekeeper::did_process_block: the report of ComputingEconomics, then   *)
(* the random number.                                                      *)
DidProcessBlock(b, h, s) ==
    IF s.panic # "none" \/ ~s.gk.on THEN s
    ELSE LET reported == IF s.gk.launched /\ Settle \in Range(b.events)
                         THEN Push(s, Report, s.gk.reporter)
                         ELSE s
         IN  IF h \in RandomBlocks
             THEN Push(reported, NewRandomNumber(h, s.gk.key), s.gk.key)
             ELSE reported

(* handle_inbound_messages: the state after block h, in a singleton.       *)
HandleBlock(r, h) ==
    LET b == blocks[h]
        start == [gk |-> node[r].gk, seq |-> node[r].seq,
                  dummy |-> node[r].dummy, seal |-> seal[r], keys |-> keys,
                  out |-> {}, up |-> {}, panic |-> "none"]
        after[i \in 0..Len(b.events)] ==
            IF i = 0 THEN start
            ELSE SystemEvent(r, b, h, after[i - 1], b.events[i])
    IN  {DidProcessBlock(b, h, s) : s \in {after[Len(b.events)]}}

-----------------------------------------------------------------------------
Boot == [height |-> 0, gk |-> NoGatekeeper, seq |-> 0, dummy |-> FALSE,
         panic |-> "none"]

Init == /\ blocks = << >> /\ final = 0
        /\ gatekeepers = {} /\ master = 0 /\ lock = 0 /\ rotations = 0
        /\ ingress = 0 /\ pool = {} /\ uploads = {}
        /\ node = [r \in Workers |-> Boot]
        /\ seal = [r \in Workers |-> << >>]
        /\ ckpt = [r \in Workers |-> Boot]
        /\ keys = 0
        /\ bounds = [changes |-> 0, reports |-> 0, faults |-> 0]

Count(what, max) == /\ bounds[what] < max
                    /\ bounds' = [bounds EXCEPT ![what] = @ + 1]

(* The event is in a new block, or in the last one, which nobody has       *)
(* handled yet.                                                            *)
Emit(event, gks) ==
    \/ blocks' = Append(blocks, [events |-> <<event>>, gatekeepers |-> gks])
    \/ LET n == Len(blocks) IN
       /\ n > final
       /\ Len(blocks[n].events) < MaxPerBlock
       /\ blocks' = [blocks EXCEPT ![n] =
             [events |-> Append(@.events, event), gatekeepers |-> gks]]

-----------------------------------------------------------------------------
(* Calls of governance to the registry pallet.                             *)

RegisterGatekeeper(g) ==
    /\ Count("changes", MaxCalls - bounds.reports)
    /\ lock = 0
    /\ gatekeepers = {} \/ master # 0
    /\ g \notin gatekeepers
    /\ gatekeepers' = gatekeepers \cup {g}
    /\ Emit(IF gatekeepers = {} THEN FirstGatekeeper(g) ELSE Registered(g),
            gatekeepers')
    /\ UNCHANGED <<final, master, lock, rotations, ingress, pool, uploads,
                   nodeVars>>

UnregisterGatekeeper(g) ==
    /\ Count("changes", MaxCalls - bounds.reports)
    /\ lock = 0
    /\ g \in gatekeepers /\ Cardinality(gatekeepers) > 1
    /\ gatekeepers' = gatekeepers \ {g}
    /\ Emit(Unregistered(g), gatekeepers')
    /\ UNCHANGED <<final, master, lock, rotations, ingress, pool, uploads,
                   nodeVars>>

RequestRotation ==
    /\ rotations < MaxRotations
    /\ lock = 0
    /\ rotations' = rotations + 1
    /\ lock' = rotations'
    /\ Emit(RotateMasterKey(rotations', gatekeepers), gatekeepers)
    /\ UNCHANGED <<final, gatekeepers, master, ingress, pool, uploads,
                   nodeVars, bounds>>

(* Worker events that make ComputingEconomics report.                      *)
SettleWorkers ==
    /\ bounds.changes + bounds.reports < MaxCalls
    /\ Count("reports", MaxReports)
    /\ Emit(Settle, gatekeepers)
    /\ UNCHANGED <<final, chainVars, ingress, pool, uploads, nodeVars>>

(* sync_offchain_message of a worker, on_message_received: MasterPubkey.   *)
(* When there is a key already, the message has no effect or fails.        *)
AcceptUpload ==
    /\ master = 0
    /\ \E k \in uploads :
          /\ master' = k
          /\ Emit(MasterPubkeyOnChain(k), gatekeepers)
    /\ UNCHANGED <<final, gatekeepers, lock, rotations, ingress, pool, uploads,
                   nodeVars, bounds>>

(* sync_offchain_message: the sequence is the expected one and the         *)
(* signature is verified with the master key on chain.                     *)
Acceptable(m) == m.seq = ingress /\ master # 0 /\ m.signer = master

(* Fault: the lock stays. *)
LockStays(payload) ==
    IF lock = payload.id
    THEN master' = payload.key /\ UNCHANGED lock
    ELSE UNCHANGED <<master, lock>>

OnRotatedMasterPubkey(payload) ==
    IF lock = payload.id
    THEN master' = payload.key /\ lock' = 0
    ELSE UNCHANGED <<master, lock>>

AcceptMessage ==
    /\ \E m \in pool :
          /\ Acceptable(m)
          /\ \/ /\ m.payload.type \in {"MasterKeyHistory", "MasterKeyRotation",
                                       "NewRandomNumber"}
                /\ Emit(m.payload, gatekeepers)
                /\ UNCHANGED <<master, lock>>
             \/ /\ m.payload.type = "RotatedMasterPubkey"
                /\ OnRotatedMasterPubkey(m.payload)
                /\ UNCHANGED blocks
             \/ /\ m.payload.type = "Report"
                /\ UNCHANGED <<blocks, master, lock>>
    /\ ingress' = ingress + 1
    /\ pool' = {m \in pool : m.seq > ingress}
    /\ UNCHANGED <<final, gatekeepers, rotations, uploads, nodeVars, bounds>>

-----------------------------------------------------------------------------
(* pRuntime.                                                               *)

(* Fault: the checkpoints of the time before the key are kept. *)
KeepAllCheckpoints(r, panic) == ckpt[r]

(* maybe_remove_checkpoints, once a key was received.                      *)
KeptCheckpoint(r, panic) ==
    IF panic = "Received master key" THEN Boot ELSE ckpt[r]

(* dispatch_blocks.  A panic ends the process: what it had sealed stays.   *)
DispatchBlock(r) ==
    /\ node[r].panic = "none"
    /\ node[r].height < Len(blocks)
    /\ \E s \in HandleBlock(r, node[r].height + 1) :
          LET h == node[r].height + 1
              done == [height |-> h, gk |-> s.gk, seq |-> s.seq,
                       dummy |-> s.dummy, panic |-> "none"]
          IN  /\ final' = IF h > final THEN h ELSE final
              /\ seal' = [seal EXCEPT ![r] = s.seal]
              /\ keys' = s.keys
              /\ \/ /\ s.panic = "none"
                    /\ node' = [node EXCEPT ![r] = done]
                    /\ ckpt' \in {ckpt, [ckpt EXCEPT ![r] = done]}
                    /\ pool' = pool \cup {m \in s.out : m.seq >= ingress}
                    /\ uploads' = uploads \cup s.up
                 \/ /\ s.panic # "none"
                    /\ node' = [node EXCEPT ![r].panic = s.panic]
                    /\ ckpt' = [ckpt EXCEPT ![r] = KeptCheckpoint(r, s.panic)]
                    /\ UNCHANGED <<pool, uploads>>
    /\ UNCHANGED <<blocks, chainVars, ingress, bounds>>

(* The restart that set_master_key_history asks for.                       *)
RestartAsGatekeeper(r) ==
    /\ node[r].panic = "Received master key"
    /\ node' = [node EXCEPT ![r] = ckpt[r]]
    /\ UNCHANGED <<blocks, final, chainVars, ingress, pool, uploads, seal, ckpt,
                   keys, bounds>>

(* Any other restart, from the last checkpoint or without checkpoints.     *)
Restart(r) ==
    /\ Count("faults", MaxFaults)
    /\ \/ ckpt' = ckpt
       \/ ckpt' = [ckpt EXCEPT ![r] = Boot]
    /\ node' = [node EXCEPT ![r] = ckpt'[r]]
    /\ UNCHANGED <<blocks, final, chainVars, ingress, pool, uploads, seal, keys>>

(* A restart that also lost the sealed key, which only the first gatekeeper *)
(* cannot afford.                                                          *)
RestartBlank(r) ==
    /\ Count("faults", MaxFaults)
    /\ \A i \in 1..Len(blocks) : FirstGatekeeper(r) \notin Range(blocks[i].events)
    /\ node' = [node EXCEPT ![r] = Boot]
    /\ ckpt' = [ckpt EXCEPT ![r] = Boot]
    /\ seal' = [seal EXCEPT ![r] = << >>]
    /\ UNCHANGED <<blocks, final, chainVars, ingress, pool, uploads, keys>>

-----------------------------------------------------------------------------
Next == \/ \E g \in Workers : RegisterGatekeeper(g) \/ UnregisterGatekeeper(g)
        \/ RequestRotation
        \/ SettleWorkers
        \/ AcceptUpload
        \/ AcceptMessage
        \/ \E r \in Workers : \/ DispatchBlock(r)
                              \/ RestartAsGatekeeper(r)
                              \/ Restart(r)
                              \/ RestartBlank(r)

Spec == Init /\ [][Next]_vars

(* Messages in transit reach the chain (see OffchainMq), pRuntimes handle  *)
(* the blocks, and their operators restart them when they ask for it.      *)
Fairness == /\ WF_vars(AcceptUpload)
            /\ WF_vars(AcceptMessage)
            /\ \A r \in Workers : /\ WF_vars(DispatchBlock(r))
                                  /\ WF_vars(RestartAsGatekeeper(r))

FairSpec == Spec /\ Fairness

-----------------------------------------------------------------------------
(* Properties.                                                             *)

Gk == [on : {TRUE}, key : Nat, history : Seq([id : Nat, height : Nat, key : Nat]),
       launched : BOOLEAN, reporter : Nat]

(* The rotations in a history are in order, and a gatekeeper works with    *)
(* one of its keys.                                                        *)
TypeOK ==
    /\ final \in 0..Len(blocks) /\ gatekeepers \subseteq Workers
    /\ {master, lock, rotations, ingress, keys} \subseteq Nat
    /\ uploads \subseteq 1..keys
    /\ \A m \in pool : m.seq \in Nat /\ m.signer \in 1..keys
    /\ \A r \in Workers :
          /\ node[r].height \in 0..final /\ node[r].seq \in Nat
          /\ node[r].dummy \in BOOLEAN
          /\ node[r].gk \in Gk \cup {NoGatekeeper}
          /\ node[r].gk.on =>
                LET history == node[r].gk.history IN
                /\ \A i \in 1..Len(history) : history[i].id = i - 1
                /\ node[r].gk.key \in {entry.key : entry \in Range(history)}

(* The message the chain expects next carries a signature the chain can    *)
(* verify, through all rotations, restarts and changes of gatekeepers:     *)
(* else the queue of the gatekeeper would be stuck for good.               *)
ExpectedVerifies ==
    \A m \in pool : m.seq = ingress /\ master # 0 /\ m.payload # Report
                       => m.signer = master

(* While no rotation is under way, every gatekeeper that has handled all   *)
(* blocks, registered or silent, works with the key on chain.              *)
KeysAgree ==
    lock = 0 /\ master # 0 =>
       \A r \in Workers :
          node[r].gk.on /\ node[r].panic = "none" /\ node[r].height = Len(blocks)
             => node[r].gk.key = master

(* Sealed histories never diverge, although every gatekeeper proposes a    *)
(* key of its own, and a new one each time it handles the request again.   *)
HistoriesAgree ==
    \A r, q \in Workers : IsPrefix(seal[r], seal[q]) \/ IsPrefix(seal[q], seal[r])

(* None of the assertions on the key history ever fails.                   *)
HistoryIntact ==
    \A r \in Workers :
       node[r].panic \notin {"master key mismatch",
                             "master key history corrupted",
                             "Batch rotate master key to a normal worker"}

(* The random numbers on chain are verified with the key they were made    *)
(* with.                                                                   *)
RandomsVerify == \A r \in Workers : node[r].panic # "GK state poisoned"

(* Whoever is announced as a new gatekeeper is a gatekeeper on chain.  It  *)
(* does not hold with two changes in one block: see README.                *)
NeverPoisoned == \A r \in Workers : node[r].panic # "System state poisoned"

(* Reports of ComputingEconomics can be verified on chain.                 *)
ReportsVerify ==
    \A m \in pool : m.seq = ingress /\ master # 0 /\ m.payload = Report
                       => m.signer = master

(* A rotation ends.                                                        *)
RotationEnds == lock # 0 /\ gatekeepers # {} ~> lock = 0

(* Whoever is registered becomes a gatekeeper that sends messages, unless  *)
(* it is unregistered again.                                               *)
Active(r) == node[r].gk.on /\ ~node[r].dummy /\ node[r].gk.key = master

RegisteredBecomesActive ==
    \A r \in Workers : r \in gatekeepers ~> r \notin gatekeepers \/ Active(r)
=============================================================================
