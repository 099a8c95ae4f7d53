------------------------------ MODULE BlockSync ------------------------------
(***************************************************************************)
(* How pRuntime follows the chain.                                         *)
(*                                                                         *)
(* A relayer hands pRuntime headers, which its light client checks against *)
(* the finality proofs of the chain, and then blocks, whose storage        *)
(* changes must lead to the state root of the header.  On a parachain the  *)
(* light client follows the relay chain, and a parachain header is checked *)
(* against the head that the relay chain's state records.  Blocks that     *)
(* pass are handed to the system.  pRuntime may start from a state loaded  *)
(* at some block instead of the genesis state, and restarts from           *)
(* checkpoints.                                                            *)
(*                                                                         *)
(* Blocks are dispatched on a clone of the state, without the lock, while  *)
(* other requests are served from the original, which the clone replaces   *)
(* in the end.                                                             *)
(*                                                                         *)
(* Besides one relayer that does its job there are stray calls with other  *)
(* headers, blocks and states: late, repeated, of a fork, or wrong.  A     *)
(* header is its number and its branch, which stand for its hash and for   *)
(* the root of the state after its block.                                  *)
(***************************************************************************)
EXTENDS Integers, Sequences, FiniteSets

CONSTANTS Kinds,        \* modes to check, "solo" and "para"
          MaxRelay,     \* final headers of the chain the light client follows
          Heads,        \* the parachain's head in the state of each of them
          SetChanges,   \* headers that announce the next authorities
          ForkAt,       \* first header of a fork that is never final
          Effects,      \* side effects of contract queries
          NoHeader,
          MAX_PENDING,
          MaxBatch,     \* bound: headers or blocks in one call
          MaxStray,     \* bound: stray calls
          MaxRestarts   \* bound: restarts

HeaderTypes == [n : Nat, b : {"final", "fork"}]

ASSUME ConstantsAssumption ==
    /\ Kinds \subseteq {"solo", "para"}
    /\ NoHeader \notin HeaderTypes
    /\ MaxRelay \in Nat /\ MAX_PENDING \in Nat /\ MaxBatch \in Nat
    /\ MaxStray \in Nat /\ MaxRestarts \in Nat
    /\ ForkAt \in Nat \ {0}
    /\ SetChanges \subseteq 1..MaxRelay
    /\ Heads \in [0..MaxRelay -> Nat] /\ Heads[0] = 0
    /\ \A i, j \in 0..MaxRelay : i <= j => Heads[i] <= Heads[j]

VARIABLES
    ph,        \* the Phactory
    task,      \* the dispatch_blocks call that is running
    ckpt,      \* the Phactory in the newest checkpoint
    accepted,  \* effects of queries that this process has not dropped
    strays, restarts

vars == <<ph, task, ckpt, accepted, strays, restarts>>

-----------------------------------------------------------------------------
(* The chain.                                                              *)

Final(n) == [n |-> n, b |-> "final"]

HeadersUpTo(max) ==
    {Final(n) : n \in 0..max} \cup {[n |-> n, b |-> "fork"] : n \in ForkAt..max}

Parent(h) == IF h.n = 0 THEN NoHeader
             ELSE IF h.n = ForkAt THEN Final(h.n - 1)
             ELSE [h EXCEPT !.n = @ - 1]

(* Headers of the chain whose blocks are dispatched.                       *)
Tip(kind) == IF kind = "para" THEN Heads[MaxRelay] ELSE MaxRelay

Batches(S) == UNION {[1..k -> S] : k \in 0..MaxBatch}

Segment(lo, hi) ==
    IF hi < lo THEN << >> ELSE [i \in 1..(hi - lo + 1) |-> Final(lo + i - 1)]

(* The authorities that finalise header n, by the number of sets before.   *)
SetIdAt(n) == Cardinality({c \in SetChanges : c < n})

LastOf(s) == s[Len(s)]

Retain(s, n) ==
    LET kept[i \in 0..Len(s)] ==
            IF i = 0 THEN << >>
            ELSE IF s[i].n >= n THEN Append(kept[i - 1], s[i]) ELSE kept[i - 1]
    IN  kept[Len(s)]

-----------------------------------------------------------------------------
(* The Phactory.                                                           *)

(* A process that has neither a checkpoint nor been initialised.           *)
New(safe) ==
    [kind |-> "none", safe |-> safe, can_load |-> TRUE, rcu |-> FALSE,
     header_next |-> 0, block_next |-> 0, para_next |-> 0,
     relay_root |-> NoHeader, roots |-> << >>, validated |-> FALSE,
     bridge |-> [last |-> NoHeader, set |-> 0],
     storage |-> NoHeader, genesis |-> 0, handled |-> << >>,
     applied |-> {}, pending |-> {}]

(* init_runtime: the light client trusts the genesis header it is given.   *)
InitSync(p, kind) ==
    [p EXCEPT !.kind = kind,
              !.header_next = IF kind = "para" THEN 1 ELSE 0,
              !.block_next = 1,
              !.bridge = [last |-> Final(0), set |-> 0],
              !.storage = Final(0)]

Chained(hs) == \A i \in 2..Len(hs) : Parent(hs[i]) = hs[i - 1]

(* submit_finalized_headers: the ancestry of the last header reaches the   *)
(* last final header, and the current authorities have finalised it.       *)
VerifyAncestry(hs, ancestor) == \E i \in 1..Len(hs) : Parent(hs[i]) = ancestor

(* Fault: the proof of another set of authorities counts. *)
VerifyAnySet(h, set) == h.b = "final"

VerifyGrandpaProof(h, set) == h.b = "final" /\ set = SetIdAt(h.n)

SubmitFinalized(bridge, h) ==
    [last |-> h, set |-> IF h.n \in SetChanges THEN bridge.set + 1
                         ELSE bridge.set]

HeadersAccepted(p, hs) ==
    /\ hs # << >>
    /\ hs[1].n = p.header_next
    /\ Chained(hs)
    /\ VerifyAncestry(hs, p.bridge.last)
    /\ VerifyGrandpaProof(LastOf(hs), p.bridge.set)

(* sync_header fails with an error; a batch of old headers is no error.    *)
HeadersRejected(p, hs) ==
    \/ p.kind = "none"
    \/ LET kept == Retain(hs, p.header_next)
       IN  kept # << >> /\ ~HeadersAccepted(p, kept)

Ingest(p, hs) ==
    LET kept == Retain(hs, p.header_next) IN
    IF p.kind = "none" \/ ~HeadersAccepted(p, kept) THEN p
    ELSE [p EXCEPT
            !.bridge = SubmitFinalized(@, LastOf(kept)),
            !.header_next = LastOf(kept).n + 1,
            !.roots = IF p.kind = "solo"
                      THEN @ \o Retain(kept, p.block_next - 1) ELSE @,
            !.relay_root = IF p.kind = "para" THEN LastOf(kept) ELSE @]

(* Fault: a state may still be loaded after headers were synced. *)
StillLoadable(p, hs) == Ingest(p, hs)

(* Any call of sync_header ends the time when a state may be loaded.       *)
SyncedHeaders(p, hs) == Ingest([p EXCEPT !.can_load = FALSE], hs)

(* What the state of the relay chain proves of a batch; alone it is a      *)
(* fault: the headers before the last one need not be its ancestors.       *)
ParaProved(p, hs) ==
    /\ p.kind = "para"
    /\ hs # << >>
    /\ hs[1].n = p.para_next
    /\ p.relay_root # NoHeader
    /\ LastOf(hs) = Final(Heads[p.relay_root.n])

ParaHeadersAccepted(p, hs) == ParaProved(p, hs) /\ Chained(hs)

SyncedParaHeaders(p, hs) ==
    LET kept == Retain(hs, p.para_next) IN
    IF ~ParaHeadersAccepted(p, kept) THEN p
    ELSE [p EXCEPT !.roots = @ \o kept,
                   !.relay_root = NoHeader,
                   !.para_next = LastOf(kept).n + 1]

(* sync_combined_headers returns early when sync_header fails.             *)
SyncedCombined(p, hs, phs) ==
    IF HeadersRejected(p, hs) THEN SyncedHeaders(p, hs)
    ELSE SyncedParaHeaders(SyncedHeaders(p, hs), phs)

(* The state after the changes of block h: the state of h if the changes   *)
(* meet the state they were made for, some state with no root otherwise.   *)
CalcRootIfChanges(storage, h) == IF storage = Parent(h) THEN h ELSE NoHeader

(* feed_block: the first block validates the state it starts from.  At     *)
(* safe mode level 2 the storage is dropped and only its root kept.        *)
GenesisValid(p) ==
    p.validated \/ (p.roots # << >> /\ p.storage = Head(p.roots))

Validate(p) == IF p.validated THEN p
               ELSE [p EXCEPT !.validated = TRUE, !.roots = Tail(@)]

RootMatches(p, b) ==
    p.roots # << >> /\ Head(p.roots) = CalcRootIfChanges(p.storage, b)

FeedFails(p, b) ==
    \/ b.n # p.block_next
    \/ p.safe = 2 /\ p.roots = << >>
    \/ p.safe < 2 /\ ~(GenesisValid(p) /\ RootMatches(Validate(p), b))

NextRoot(p) == [p EXCEPT !.block_next = @ + 1,
                         !.storage = Head(p.roots), !.roots = Tail(@)]

(* What an error leaves behind: the validation, and at level 2 the count.  *)
FedInVain(p, b) ==
    IF b.n # p.block_next THEN p
    ELSE IF p.safe = 2 THEN [p EXCEPT !.block_next = @ + 1]
    ELSE IF GenesisValid(p) THEN Validate(p) ELSE p

Fed(p, b) == NextRoot(IF p.safe = 2 THEN p ELSE Validate(p))

(* In safe mode the system does not see the block.                         *)
Handle(p, b) ==
    IF p.safe > 0 THEN p
    ELSE [p EXCEPT !.handled = Append(@, [n |-> b.n, state |-> p.storage])]

(* What a checkpoint keeps of a Phactory.                                  *)
Dump(p) == [p EXCEPT !.can_load = FALSE, !.rcu = FALSE,
                     !.applied = {}, !.pending = {}]

Loaded(p, n, state) ==
    [p EXCEPT !.block_next = n + 1,
              !.para_next = IF p.kind = "para" THEN n ELSE @,
              !.storage = state, !.genesis = n, !.can_load = FALSE]

(* assume_at_block                                                         *)
CanAssume(p) ==
    /\ p.block_next <= 1
    /\ IF p.kind = "para" THEN p.para_next <= 1 ELSE p.header_next = 0

-----------------------------------------------------------------------------
(* Requests.  One that is refused changes nothing.                         *)

Idle == [on |-> FALSE, rcu |-> FALSE, p |-> New(0), blocks |-> << >>]

Init == /\ ph = New(0)
        /\ task = Idle
        /\ ckpt = New(0)
        /\ accepted = {}
        /\ strays = 0 /\ restarts = 0

(* Fault: requests are served during a dispatch on a clone. *)
IgnoreRcu(allow_rcu, allow_safemode) ==
    (task.on => task.rcu) /\ (allow_safemode \/ ph.safe = 0)

(* A dispatch that is not on a clone holds the lock.                       *)
LockPhactory(allow_rcu, allow_safemode) ==
    /\ task.on => task.rcu
    /\ allow_rcu \/ ~ph.rcu
    /\ allow_safemode \/ ph.safe = 0

InitRuntime(kind) ==
    /\ LockPhactory(FALSE, FALSE)
    /\ ph.kind = "none"
    /\ ph' = InitSync(ph, kind)
    /\ UNCHANGED <<task, ckpt, accepted, strays, restarts>>

SyncHeader(hs) ==
    /\ LockPhactory(FALSE, TRUE)
    /\ ph' = SyncedHeaders(ph, hs)
    /\ UNCHANGED <<task, ckpt, accepted, restarts>>

SyncParaHeader(hs) ==
    /\ LockPhactory(FALSE, TRUE)
    /\ ph' = SyncedParaHeaders(ph, hs)
    /\ UNCHANGED <<task, ckpt, accepted, restarts>>

SyncCombinedHeaders(hs, phs) ==
    /\ LockPhactory(FALSE, TRUE)
    /\ ph' = SyncedCombined(ph, hs, phs)
    /\ UNCHANGED <<task, ckpt, accepted, restarts>>

LoadChainState(n, state) ==
    /\ LockPhactory(FALSE, FALSE)
    /\ ph.can_load /\ n > 0 /\ ph.kind # "none" /\ CanAssume(ph)
    /\ ph' = Loaded(ph, n, state)
    /\ UNCHANGED <<task, ckpt, accepted, restarts>>

(* dispatch_blocks: on a clone, or with the lock when that is configured   *)
(* or the worker is far behind.                                            *)
StartDispatch(blocks) ==
    /\ LockPhactory(FALSE, TRUE)
    /\ ph.kind # "none"
    /\ \E rcu \in BOOLEAN :
          /\ task' = [on |-> TRUE, rcu |-> rcu, p |-> ph,
                      blocks |-> Retain(blocks, ph.block_next)]
          /\ ph' = [ph EXCEPT !.rcu = rcu]
    /\ UNCHANGED <<ckpt, accepted, restarts>>

DispatchBlock ==
    /\ task.on /\ task.blocks # << >>
    /\ LET b == Head(task.blocks)
           q == Handle(Fed(task.p, b), b)
       IN  \/ /\ FeedFails(task.p, b)
              /\ task' = [task EXCEPT !.p = FedInVain(@, b), !.blocks = << >>]
              /\ UNCHANGED ckpt
           \/ /\ ~FeedFails(task.p, b)
              /\ task' = [task EXCEPT !.p = q, !.blocks = Tail(@)]
              /\ \/ UNCHANGED ckpt
                 \/ q.safe = 0 /\ ckpt' = Dump(q)
    /\ UNCHANGED <<ph, accepted, strays, restarts>>

(* Fault: the effects that waited are overwritten. *)
ForgetEffects ==
    /\ task.on /\ task.blocks = << >>
    /\ ph' = task.p
    /\ task' = Idle
    /\ UNCHANGED <<ckpt, accepted, strays, restarts>>

(* Fault: the flag is not part of what is put back. *)
KeepFlag ==
    /\ task.on /\ task.blocks = << >>
    /\ ph' = [task.p EXCEPT !.applied = @ \cup ph.pending, !.rcu = ph.rcu]
    /\ task' = Idle
    /\ UNCHANGED <<ckpt, accepted, strays, restarts>>

(* The clone replaces the Phactory, and with it the flag; the effects that *)
(* waited are applied to it.                                               *)
FinishDispatch ==
    /\ task.on /\ task.blocks = << >>
    /\ ph' = [task.p EXCEPT !.applied = @ \cup ph.pending]
    /\ task' = Idle
    /\ UNCHANGED <<ckpt, accepted, strays, restarts>>

(* The end of contract_query.  Effects above the limit are dropped.        *)
ApplySideEffects(e) ==
    /\ e \notin accepted
    /\ LockPhactory(TRUE, FALSE)
    /\ ph.kind # "none"
    /\ IF ph.rcu THEN /\ Cardinality(ph.pending) < MAX_PENDING
                      /\ ph' = [ph EXCEPT !.pending = @ \cup {e}]
       ELSE ph' = [ph EXCEPT !.applied = @ \cup {e}]
    /\ accepted' = accepted \cup {e}
    /\ UNCHANGED <<task, ckpt, strays, restarts>>

(* Fault: checkpoints in safe mode. *)
CheckpointAnyway ==
    /\ (task.on => task.rcu) /\ ~ph.rcu /\ ph.kind # "none"
    /\ ckpt' = Dump(ph)
    /\ UNCHANGED <<ph, task, accepted, restarts>>

TakeCheckpoint ==
    /\ LockPhactory(FALSE, FALSE)
    /\ ph.kind # "none"
    /\ ckpt' = Dump(ph)
    /\ UNCHANGED <<ph, task, accepted, restarts>>

(* The process ends, at any time, and starts again, maybe in safe mode.    *)
Restart(safe) ==
    /\ restarts < MaxRestarts
    /\ restarts' = restarts + 1
    /\ ph' = IF ckpt.kind = "none" THEN New(safe)
             ELSE [ckpt EXCEPT !.safe = safe]
    /\ task' = Idle
    /\ accepted' = {}
    /\ UNCHANGED <<ckpt, strays>>

-----------------------------------------------------------------------------
(* The relayer: get_info and get_sync_operation decide on the next call.   *)

NextSynced == IF ph.kind = "para" THEN ph.para_next ELSE ph.header_next

ParaHead == Heads[ph.header_next - 1]

(* What the node can prove final from header n on, before the authorities  *)
(* change.                                                                 *)
ProveFinality(n) ==
    {hi \in n..MaxRelay : hi > 0 /\ SetIdAt(hi) = SetIdAt(n)}

RelayBlocks ==
    /\ ph.block_next < NextSynced
    /\ \E hi \in ph.block_next..(NextSynced - 1) :
          /\ hi = NextSynced - 1 \/ hi = ph.block_next + MaxBatch - 1
          /\ hi < ph.block_next + MaxBatch
          /\ StartDispatch(Segment(ph.block_next, hi))

RelayParaHeaders ==
    /\ ph.block_next >= NextSynced
    /\ ph.kind = "para" /\ ParaHead > 0 /\ ph.para_next <= ParaHead
    /\ SyncParaHeader(Segment(ph.para_next, ParaHead))

RelayHeaders ==
    /\ ph.block_next >= NextSynced
    /\ ph.kind # "none"
    /\ ph.kind = "para" => ParaHead = 0 \/ ph.para_next > ParaHead
    /\ \E hi \in ProveFinality(ph.header_next) :
          SyncHeader(Segment(ph.header_next, hi))

Relay == (RelayBlocks \/ RelayParaHeaders \/ RelayHeaders) /\ UNCHANGED strays

(* Other calls, from whatever other callers know.                          *)
Stray ==
    /\ strays < MaxStray
    /\ strays' = strays + 1
    /\ LET relay == HeadersUpTo(MaxRelay)
           own   == HeadersUpTo(Tip(ph.kind))
       IN  \/ \E hs \in Batches(relay) : SyncHeader(hs)
           \/ \E hs \in Batches(own) : SyncParaHeader(hs)
           \/ \E lo, hi \in 0..MaxRelay, phs \in Batches(own) :
                 SyncCombinedHeaders(Segment(lo, hi), phs)
           \/ \E n \in 0..Tip(ph.kind), state \in own : LoadChainState(n, state)
           \/ \E blocks \in Batches(own) : StartDispatch(blocks)
           \/ TakeCheckpoint

Next == \/ \E kind \in Kinds : InitRuntime(kind)
        \/ Relay
        \/ Stray
        \/ DispatchBlock
        \/ FinishDispatch
        \/ \E e \in Effects : ApplySideEffects(e)
        \/ \E safe \in 0..2 : Restart(safe)

(* The relayer retries for ever and initialises a worker that is new; a    *)
(* dispatch runs on a thread of its own to the end.                        *)
Fairness == /\ WF_vars(\E kind \in Kinds : InitRuntime(kind))
            /\ WF_vars(Relay)
            /\ WF_vars(DispatchBlock)
            /\ WF_vars(FinishDispatch)

Spec == Init /\ [][Next]_vars /\ Fairness

-----------------------------------------------------------------------------
(* Properties.                                                             *)

Phactories ==
    [kind : {"none", "solo", "para"}, safe : 0..2, can_load : BOOLEAN,
     rcu : BOOLEAN, header_next : Nat, block_next : Nat, para_next : Nat,
     relay_root : HeaderTypes \cup {NoHeader}, roots : Seq(HeaderTypes),
     validated : BOOLEAN,
     bridge : [last : HeaderTypes \cup {NoHeader}, set : Nat],
     storage : HeaderTypes \cup {NoHeader}, genesis : Nat,
     handled : Seq([n : Nat, state : HeaderTypes \cup {NoHeader}]),
     applied : SUBSET Effects, pending : SUBSET Effects]

(* The variables have their types, only a dispatch on a clone sets the     *)
(* flag, and effects wait only while it is set and within the limit.       *)
TypeOK ==
    /\ ph \in Phactories /\ ckpt \in Phactories
    /\ task \in [on : BOOLEAN, rcu : BOOLEAN, p : Phactories,
                 blocks : Seq(HeaderTypes)]
    /\ accepted \subseteq Effects
    /\ strays \in 0..MaxStray /\ restarts \in 0..MaxRestarts
    /\ ph.rcu = task.rcu
    /\ Cardinality(ph.pending) <= (IF ph.rcu THEN MAX_PENDING ELSE 0)

(* The states that matter: the one requests see, the clone, and the one a  *)
(* restart would restore.                                                  *)
Live == {p \in {ph, task.p, ckpt} : p.kind # "none"}

(* The queued state roots are those of the blocks from the next one up to  *)
(* the last header, one for each, with that of the starting state in front *)
(* until it is validated; from then on the storage is the final state of   *)
(* the last block.  Neither a state loaded at some block, nor headers that *)
(* come before it, nor a batch that fails half way shifts the two          *)
(* sequences against each other (storage_sync.rs).  Safe mode level 2 does *)
(* not promise it.                                                         *)
RootsAligned ==
    \A p \in {q \in Live : q.safe < 2} :
       /\ p.roots = Segment(IF p.validated THEN p.block_next
                                           ELSE p.block_next - 1,
                            (IF p.kind = "para" THEN p.para_next
                                                ELSE p.header_next) - 1)
       /\ p.validated => p.storage = Final(p.block_next - 1)

(* At every safe mode level, whatever the callers send, pRuntime only      *)
(* queues roots of blocks that the headers it has verified make final: of  *)
(* a parachain, those up to the head in the relay chain's state.           *)
FinalOnly ==
    \A p \in Live :
       LET last == IF p.kind = "para" THEN Heads[p.bridge.last.n]
                                      ELSE p.bridge.last.n
       IN  /\ \A i \in 1..Len(p.roots) :
                p.roots[i].b = "final" /\ p.roots[i].n <= last
           /\ p.validated => p.storage.b = "final" /\ p.storage.n <= last

(* The light client knows the authorities that finalise the next header,   *)
(* in batches of any size: a change of authorities inside a batch is never *)
(* skipped (submit_finalized_headers only looks at the last header).       *)
AuthoritiesFollowed ==
    \A p \in Live : /\ p.bridge.set = SetIdAt(p.bridge.last.n + 1)
                    /\ p.header_next > 0 =>
                          p.bridge.last = Final(p.header_next - 1)

(* The system handles every block after the one it starts from exactly     *)
(* once, in order and on that block's final state.  Running in safe mode,  *)
(* which skips the system, never leaves a gap behind: it takes no          *)
(* checkpoint (prpc_service.rs, take_checkpoint).                          *)
HandledInOrder ==
    \A p \in {q \in Live : q.safe = 0} :
       /\ p.genesis + Len(p.handled) = p.block_next - 1
       /\ \A i \in 1..Len(p.handled) :
             p.handled[i] = [n |-> p.genesis + i,
                             state |-> Final(p.genesis + i)]

(* An effect that was not dropped is applied, or waits for the dispatch to *)
(* end: the clone that replaces the Phactory does not wipe it out.         *)
EffectsKept == accepted \subseteq ph.applied \cup ph.pending

(* Within a process nothing that was synced is undone; the clone that      *)
(* replaces the Phactory is never older than it in any counter.            *)
NothingUndone ==
    [][restarts' = restarts =>
          /\ ph'.header_next >= ph.header_next
          /\ ph'.para_next >= ph.para_next
          /\ ph'.block_next >= ph.block_next
          /\ Len(ph'.handled) >= Len(ph.handled)]_vars

(* pRuntime cannot be used when it is started in safe mode without a       *)
(* checkpoint, or from a state that was not the one of its block.          *)
Unusable ==
    \/ ph.kind = "none" /\ ph.safe > 0
    \/ ph.kind # "none" /\ ~ph.validated
                       /\ ph.storage # Final(ph.block_next - 1)

(* The relayer takes pRuntime to the end of the chain, whatever was synced *)
(* before by others, restored or loaded: no mix of counters makes it ask   *)
(* for what pRuntime refuses for ever.                                     *)
CatchesUp ==
    <>[](Unusable \/ (ph.kind # "none" /\ ph.block_next > Tip(ph.kind)))
=============================================================================
