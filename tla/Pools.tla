------------------------------- MODULE Pools -------------------------------
(***************************************************************************)
(* The delegation pallets: base_pool (shares, withdraw queue), one stake   *)
(* pool (stake_pool_v2), one vault that delegates to it (vault), and the   *)
(* wrapped token with its votes (wrapped_balances).                        *)
(*                                                                         *)
(* Every extrinsic is one action: the runtime runs it alone and rolls it   *)
(* back when it fails, so only calls that succeed are steps.  The share    *)
(* NFTs an account holds in a pool are merged by the code whenever they    *)
(* are read, so an account's holding is one number; an NFT in the withdraw *)
(* queue is the "shares" field of its request.  Slashing is disabled in    *)
(* the computation pallet (calc_final_stake returns a slash of zero), so   *)
(* reclaiming returns the whole stake.                                     *)
(*                                                                         *)
(* Left out: caps, whitelists and descriptions, reimbursements and legacy  *)
(* rewards, the creation of pools and the binding of workers (module       *)
(* Computation has the latter), transfers of W-PHA between users, and the  *)
(* sweeping of remainders below the minimum balance by pallet_assets.      *)
(***************************************************************************)
EXTENDS Integers, Sequences, FiniteSets, FiniteSetsExt

CONSTANTS
  Users,           \* accounts that hold W-PHA, delegate and vote
  Owner,           \* the user that owns the stake pool and the vault
  Workers,         \* workers bound to the stake pool
  Referenda,       \* referenda of the democracy pallet
  PriceScale,      \* unit of the fixed-point share price
  Dust,            \* balances up to this one are dust
  MinBalance,      \* minimum balance of W-PHA
  MinContribution, \* smallest contribution
  GracePeriod,     \* ticks before a request that cannot be paid expires
  VaultQueuePeriod,\* ticks before any request to a vault expires
  InitialFree,     \* W-PHA each user has wrapped at the start
  Amounts,         \* amounts, shares and stakes named in calls
  Rewards,         \* payouts of a settlement
  Commissions,     \* commissions an owner may set, in percent
  Claims,          \* shares the owner of the vault claims
  MaxCalls         \* bound on the calls of users and owners

ASSUME PoolsAssumption ==
  /\ Owner \in Users
  /\ IsFiniteSet(Users) /\ IsFiniteSet(Workers) /\ IsFiniteSet(Referenda)
  /\ Users \cap {"stakepool", "vault", "lock", "reward"} = {}
  /\ PriceScale \in Nat \ {0}
  /\ Dust \in Nat /\ MinBalance \in Nat /\ MinContribution \in Nat
  /\ GracePeriod \in Nat /\ VaultQueuePeriod \in Nat
  /\ InitialFree \in Nat /\ MaxCalls \in Nat
  /\ (Amounts \cup Claims) \subseteq Nat \ {0} /\ Rewards \subseteq Nat
  /\ Commissions \subseteq 0..100

StakePool == "stakepool"     \* also the pool_account_id of the pool
Vault == "vault"
LockAccount == "lock"        \* lock_account of the stake pool
OwnerReward == "reward"      \* owner_reward_account of the stake pool
Pids == {StakePool, Vault}
Holders == Users \cup {Vault}
Accounts == Holders \cup {StakePool, LockAccount, OwnerReward}

VARIABLES
  pool,       \* total_shares, total_value and withdraw_queue of each pool
  nft,        \* shares each account holds in a pool, queued ones excluded
  wpha,       \* balances of the W-PHA asset
  vault,      \* the fields and the lock of the vault
  commission, \* payout_commission of the stake pool
  worker,     \* state and stake of each worker's session
  pha,        \* native balances of the users
  backing,    \* native balance of WrappedBalancesAccountId
  unmintable, \* UnmintableDust
  account,    \* StakerAccounts: invest_pools and locked of each user
  votes,      \* VoteAccountMap and AccountVoteMap, 0 for no vote
  ongoing,    \* referenda that have not ended
  calls       \* number of calls made by users and owners

books == <<pool, nft, wpha>>
wrapped == <<pha, backing, unmintable>>
ballots == <<account, votes, ongoing>>
vars == <<books, vault, commission, worker, wrapped, ballots, calls>>

(* Ages are only compared with the periods, so they stop growing here. *)
MaxAge == Max({3 * GracePeriod, VaultQueuePeriod}) + 1

Requests == [user : Holders, shares : Nat, age : 0..MaxAge]

TypeOK ==
  /\ pool \in [Pids -> [shares : Nat, value : Nat, queue : Seq(Requests)]]
  /\ nft \in [Pids -> [Holders -> Nat]]
  /\ wpha \in [Accounts -> Nat]
  /\ vault \in [owner_shares : Nat, checkpoint : Nat, commission : 0..100,
                invests : BOOLEAN, locked : BOOLEAN, subscribed : BOOLEAN]
  /\ commission \in 0..100
  /\ worker \in [Workers -> [state : {"Ready", "Computing", "CoolingDown"},
                             stake : Nat]]
  /\ pha \in [Users -> Nat] /\ backing \in Nat /\ unmintable \in Nat
  /\ account \in [Users -> [invest_pools : SUBSET Pids, locked : Nat]]
  /\ votes \in [Referenda -> [Users -> Nat]]
  /\ ongoing \subseteq Referenda
  /\ calls \in 0..MaxCalls

Init ==
  /\ pool = [p \in Pids |-> [shares |-> 0, value |-> 0, queue |-> <<>>]]
  /\ nft = [p \in Pids |-> [h \in Holders |-> 0]]
  /\ wpha = [a \in Accounts |-> IF a \in Users THEN InitialFree ELSE 0]
  /\ vault = [owner_shares |-> 0, checkpoint |-> PriceScale, commission |-> 0,
              invests |-> FALSE, locked |-> FALSE, subscribed |-> FALSE]
  /\ commission = 0
  /\ worker = [w \in Workers |-> [state |-> "Ready", stake |-> 0]]
  /\ pha = [u \in Users |-> 0]
  /\ backing = Cardinality(Users) * InitialFree
  /\ unmintable = 0
  /\ account = [u \in Users |-> [invest_pools |-> {}, locked |-> 0]]
  /\ votes = [r \in Referenda |-> [u \in Users |-> 0]]
  /\ ongoing = Referenda
  /\ calls = 0

----------------------------------------------------------------------------
(* Balances, prices and the books the pallets write. *)

Books == [pool |-> pool, nft |-> nft, wpha |-> wpha]

SetBooks(s) == pool' = s.pool /\ nft' = s.nft /\ wpha' = s.wpha

Call == calls < MaxCalls /\ calls' = calls + 1

Least(x, y) == IF x <= y THEN x ELSE y

(* The sums of f over the subsets of its domain, and over all of it. *)
PartialSums(f) ==
  LET sum[s \in SUBSET DOMAIN f] ==
        IF s = {} THEN 0
        ELSE LET x == CHOOSE x \in s : TRUE IN f[x] + sum[s \ {x}]
  IN sum

SumOver(f) == PartialSums(f)[DOMAIN f]

IsDust(n) == n <= Dust

ExtractDust(n) == IF IsDust(n) THEN 0 ELSE n

(* share_price of a pool with shares; without shares the code has no price *)
SharePrice(b) == (b.value * PriceScale) \div b.shares

bmul(x, price) == (x * price) \div PriceScale

bdiv(x, price) == (x * PriceScale) \div price

(* pallet_assets: a transfer the code expects to succeed *)
Transfer(s, from, to, amount) ==
  [s EXCEPT !.wpha = [a \in Accounts |-> s.wpha[a]
                        - (IF a = from THEN amount ELSE 0)
                        + (IF a = to THEN amount ELSE 0)]]

(* pallet_assets: an account cannot be opened with less than the minimum *)
Mintable(s, acc, amount) ==
  amount = 0 \/ s.wpha[acc] > 0 \/ amount >= MinBalance

(* Where the requests of an account are in a queue. *)
RequestsOf(queue, who) == {i \in DOMAIN queue : queue[i].user = who}

(* The shares of the first request of an account, the only one it has. *)
QueuedShares(b, who) ==
  IF RequestsOf(b.queue, who) = {} THEN 0
  ELSE b.queue[Min(RequestsOf(b.queue, who))].shares

(* A queue without the requests of an account. *)
WithoutRequests(queue, who) ==
  LET rest[i \in 0..Len(queue)] ==
        IF i = 0 THEN <<>>
        ELSE IF queue[i].user = who THEN rest[i - 1]
        ELSE Append(rest[i - 1], queue[i])
  IN rest[Len(queue)]

(* A Permill of an amount, rounded to the nearest. *)
Part(percent, amount) == (percent * amount + 49) \div 100

----------------------------------------------------------------------------
(* base_pool *)

(* The condition of maybe_remove_dust. *)
WorthDust(b, shares) ==
  b.shares > 0 /\ bmul(shares, SharePrice(b)) <= MinBalance

(* Fault: what a request is paid is not taken from the value of the pool. *)
PayUnbooked(b, free, r, shares) ==
  LET left == ExtractDust(r.shares - shares)
  IN [paid |-> Least(bmul(shares, SharePrice(b)), free), left |-> left,
      pool |-> [b EXCEPT !.shares = @ - (r.shares - left)]]

(* remove_stake_from_nft for a request of r.shares, of which some are paid:
   what is left of the request, what is paid, and the pool after it *)
RemoveStakeFromNft(b, free, r, shares) ==
  LET paid == Least(bmul(shares, SharePrice(b)), free)
      left == ExtractDust(r.shares - shares)
  IN [paid |-> paid, left |-> left,
      pool |-> [b EXCEPT !.shares = @ - (r.shares - left),
                         !.value = ExtractDust(@ - paid)]]

(* One turn of the loop of try_process_withdraw_queue: the front request is
   burnt when it is worth dust; otherwise it is paid as far as the free stake
   goes, and leaves when what remains is dust. *)
ServeFront(p, price, s) ==
  LET b == s.pool[p]
      r == Head(b.queue)
      shares == IF price = 0 THEN r.shares
                ELSE Least(bdiv(s.wpha[p], price), r.shares)
      after == RemoveStakeFromNft(b, s.wpha[p], r, shares)
  IN IF WorthDust(b, r.shares)
     THEN [s EXCEPT !.pool[p] = [b EXCEPT !.shares = @ - r.shares,
                                          !.queue = Tail(@)]]
     ELSE [Transfer(s, p, r.user, after.paid) EXCEPT !.pool[p] =
             IF after.left = 0 \/ WorthDust(after.pool, after.left)
             THEN [after.pool EXCEPT !.shares = @ - after.left,
                                     !.queue = Tail(@)]
             ELSE [after.pool EXCEPT !.queue[1].shares = after.left]]

(* The loop goes on while more than dust is free and somebody waits. *)
Turn(p, price, s) ==
  IF s.wpha[p] > MinBalance /\ s.pool[p].queue # <<>>
  THEN ServeFront(p, price, s) ELSE s

(* The price is read once, before the loop.  A request is visited at most
   twice: once to be paid in part and once when it is then the front again. *)
TryProcessWithdrawQueue(p, s) ==
  LET price == SharePrice(s.pool[p])
      turns == 2 * Len(s.pool[p].queue)
      after[i \in 0..turns] == IF i = 0 THEN s ELSE Turn(p, price, after[i - 1])
  IN IF s.pool[p].shares = 0 THEN s ELSE after[turns]

(* Fault: every contribution gets one share for one token. *)
ContributeAtPar(p, who, amount, s) ==
  [Transfer(s, who, p, amount) EXCEPT
     !.pool[p].shares = @ + amount, !.pool[p].value = @ + amount,
     !.nft[p][who] = @ + amount]

(* base_pool::contribute refuses a pool that is bankrupt. *)
Operating(b) == b.shares = 0 \/ b.value > 0

Contribute(p, who, amount, s) ==
  LET b == s.pool[p]
      shares == IF b.shares = 0 \/ SharePrice(b) = 0 THEN amount
                ELSE bdiv(amount, SharePrice(b))
  IN [Transfer(s, who, p, amount) EXCEPT
        !.pool[p] = [b EXCEPT !.shares = @ + shares, !.value = @ + amount],
        !.nft[p][who] = @ + shares]

(* The checks of both withdraw extrinsics. *)
MayWithdraw(p, who, shares, s) ==
  /\ ~IsDust(shares)
  /\ shares <= s.nft[p][who] + QueuedShares(s.pool[p], who)

(* Fault: the shares of the request that is replaced are not given back. *)
PushAgain(p, who, shares, s) ==
  LET request == [user |-> who, shares |-> shares, age |-> 0]
  IN [s EXCEPT !.pool[p].queue = Append(WithoutRequests(@, who), request),
               !.nft[p][who] = @ - shares]

(* The request replaces the one the account has in the queue. *)
PushWithdrawInQueue(p, who, shares, s) ==
  LET b == s.pool[p]
      request == [user |-> who, shares |-> shares, age |-> 0]
  IN [s EXCEPT !.pool[p].queue = Append(WithoutRequests(b.queue, who), request),
               !.nft[p][who] = @ + QueuedShares(b, who) - shares]

TryWithdraw(p, who, shares, s) ==
  TryProcessWithdrawQueue(p, PushWithdrawInQueue(p, who, shares, s))

(* has_expired_withdrawal: walk the queue with the budget and stop at the
   first request that is too old for a vault or that cannot be covered. *)
HasExpiredWithdrawal(p, s, releasing) ==
  LET b == s.pool[p]
      budget == s.wpha[p] + releasing
      claimed(i) == SumOver(
                      [j \in 1..i |-> bmul(b.queue[j].shares, SharePrice(b))])
      overdue(i) == p = Vault /\ b.queue[i].age > VaultQueuePeriod
      short(i) == claimed(i) > budget
  IN /\ b.shares > 0 /\ SharePrice(b) # 0
     /\ \E i \in DOMAIN b.queue :
          /\ \A j \in 1..(i - 1) : ~overdue(j) /\ ~short(j)
          /\ overdue(i) \/ (short(i) /\ b.queue[i].age > GracePeriod)

(* BasePool::distribute_reward for the stake pool: the value grows, and a
   vault that subscribed gets its part booked, queued shares included. *)
DistributeReward(s, reward) ==
  LET b == s.pool[StakePool]
      held == s.nft[StakePool][Vault] + QueuedShares(b, Vault)
      ratio == (held * PriceScale) \div b.shares
      toVault == IF vault.subscribed THEN bmul(reward, ratio) ELSE 0
      gain == [p \in Pids |-> IF p = StakePool THEN reward ELSE toVault]
  IN [s EXCEPT !.pool =
        [p \in Pids |-> [s.pool[p] EXCEPT !.value = @ + gain[p]]]]

----------------------------------------------------------------------------
(* stake_pool_v2 *)

(* Fault: the stake of working workers counts as being released. *)
ReleasingAll == SumOver([w \in Workers |-> worker[w].stake])

(* maybe_subscribe_to_pool *)
Subscribe(u, p) ==
  account' = [account EXCEPT ![u].invest_pools = @ \cup {p}]

Releasing ==
  SumOver([w \in {v \in Workers : worker[v].state = "CoolingDown"} |->
             worker[w].stake])

StakePoolContribute(u, amount) ==
  /\ Call
  /\ amount >= MinContribution /\ wpha[u] >= amount
  /\ Operating(pool[StakePool])
  /\ SetBooks(TryProcessWithdrawQueue(StakePool,
                Contribute(StakePool, u, amount, Books)))
  /\ Subscribe(u, StakePool)
  /\ UNCHANGED <<vault, commission, worker, wrapped, votes, ongoing>>

(* contribute with as_vault: the vault's owner moves its free stake *)
StakePoolContributeAsVault(amount) ==
  /\ Call
  /\ ~vault.locked
  /\ amount >= MinContribution /\ wpha[Vault] >= amount
  /\ Operating(pool[StakePool])
  /\ SetBooks(TryProcessWithdrawQueue(StakePool,
                Contribute(StakePool, Vault, amount, Books)))
  /\ vault' = [vault EXCEPT !.invests = TRUE, !.subscribed = TRUE]
  /\ UNCHANGED <<commission, worker, wrapped, ballots>>

StakePoolWithdraw(who, shares) ==
  /\ Call
  /\ who = Vault => ~vault.locked
  /\ MayWithdraw(StakePool, who, shares, Books)
  /\ SetBooks(TryWithdraw(StakePool, who, shares, Books))
  /\ UNCHANGED <<vault, commission, worker, wrapped, ballots>>

StartComputing(w, stake) ==
  /\ Call
  /\ worker[w].state = "Ready"
  /\ wpha[StakePool] >= stake
  /\ worker' = [worker EXCEPT ![w] = [state |-> "Computing", stake |-> stake]]
  /\ SetBooks(Transfer(Books, StakePool, LockAccount, stake))
  /\ UNCHANGED <<vault, commission, wrapped, ballots>>

StopComputing(w) ==
  /\ Call
  /\ worker[w].state = "Computing"
  /\ worker' = [worker EXCEPT ![w].state = "CoolingDown"]
  /\ UNCHANGED <<books, vault, commission, wrapped, ballots>>

(* Fault: the stake is returned but the queue is left for the next check. *)
ReclaimOnly(w, s) == Transfer(s, LockAccount, StakePool, worker[w].stake)

(* handle_reclaim: the stake is free again, and the queue is served. *)
HandleReclaim(w, s) ==
  TryProcessWithdrawQueue(StakePool,
    Transfer(s, LockAccount, StakePool, worker[w].stake))

ReclaimPoolWorker(w) ==
  /\ worker[w].state = "CoolingDown"
  /\ worker' = [worker EXCEPT ![w] = [state |-> "Ready", stake |-> 0]]
  /\ SetBooks(HandleReclaim(w, Books))
  /\ UNCHANGED <<vault, commission, wrapped, ballots, calls>>

(* restart_computing: stop, reclaim and start again with more stake *)
RestartComputing(w, stake) ==
  LET s == HandleReclaim(w, Books)
  IN /\ Call
     /\ pool[StakePool].queue = <<>>
     /\ worker[w].state = "Computing"
     /\ stake > worker[w].stake /\ s.wpha[StakePool] >= stake
     /\ worker' = [worker EXCEPT ![w].stake = stake]
     /\ SetBooks(Transfer(s, StakePool, LockAccount, stake))
     /\ UNCHANGED <<vault, commission, wrapped, ballots>>

(* check_and_maybe_force_withdraw: serve the queue, and stop every computing
   worker when a request has waited too long *)
StakePoolChecked ==
  LET s == TryProcessWithdrawQueue(StakePool, Books)
      stopped(w) == /\ worker[w].state = "Computing"
                    /\ HasExpiredWithdrawal(StakePool, s, Releasing)
  IN [books |-> s,
      worker |-> [w \in Workers |->
        IF stopped(w) THEN [worker[w] EXCEPT !.state = "CoolingDown"]
        ELSE worker[w]]]

StakePoolCheckAndMaybeForceWithdraw ==
  /\ SetBooks(StakePoolChecked.books)
  /\ worker' = StakePoolChecked.worker
  /\ UNCHANGED <<vault, commission, wrapped, ballots, calls>>

SetPayoutPref(c) ==
  /\ Call
  /\ commission' = c
  /\ UNCHANGED <<books, vault, worker, wrapped, ballots>>

ClaimOwnerRewards(target) ==
  /\ Call
  /\ wpha[OwnerReward] > 0
  /\ SetBooks(Transfer(Books, OwnerReward, target, wpha[OwnerReward]))
  /\ UNCHANGED <<vault, commission, worker, wrapped, ballots>>

Mint(s, acc, amount) ==
  IF Mintable(s, acc, amount) THEN [s EXCEPT !.wpha[acc] = @ + amount] ELSE s

(* on_reward: a settlement for a worker of the pool.  The payout is moved
   from the subsidy pool, and minted for the owner and the pool; what cannot
   be minted is kept in UnmintableDust. *)
OnReward(reward) ==
  LET toOwner == Part(commission, reward)
      toPool == reward - toOwner
      s1 == Mint(Books, OwnerReward, toOwner)
      s2 == Mint(s1, StakePool, toPool)
      minted == Mintable(s1, StakePool, toPool)
  IN /\ Call
     /\ ~IsDust(reward) /\ ~IsDust(pool[StakePool].shares)
     /\ SetBooks(IF minted /\ ~IsDust(toPool)
                 THEN DistributeReward(s2, toPool) ELSE s2)
     /\ backing' = backing + reward
     /\ unmintable' = unmintable
          + (IF Mintable(Books, OwnerReward, toOwner) THEN 0 ELSE toOwner)
          + (IF minted THEN 0 ELSE toPool)
     /\ UNCHANGED <<vault, commission, worker, pha, ballots>>

----------------------------------------------------------------------------
(* vault *)

(* do_gain_owner_share: when the share price has grown since the last
   checkpoint, new shares pay the owner's commission on the growth.  A vault
   is created with a checkpoint of one, so it is never zero. *)
OwnerGain(b) ==
  LET current == SharePrice(b)
      price == current - Part(vault.commission, current - vault.checkpoint)
      shares == Max({bdiv(b.value, price) - b.shares, 0})
  IN IF b.shares = 0 \/ current <= vault.checkpoint
     THEN [shares |-> 0, checkpoint |-> vault.checkpoint]
     ELSE [shares |-> shares, checkpoint |-> price]

GainOwnerShare(s) ==
  [s EXCEPT !.pool[Vault].shares = @ + OwnerGain(s.pool[Vault]).shares]

VaultAfterGain ==
  LET gain == OwnerGain(pool[Vault])
  IN [vault EXCEPT !.owner_shares = @ + gain.shares,
                   !.checkpoint = gain.checkpoint]

MaybeGainOwnerShares ==
  /\ SetBooks(GainOwnerShare(Books))
  /\ vault' = VaultAfterGain
  /\ UNCHANGED <<commission, worker, wrapped, ballots, calls>>

VaultSetPayoutPref(c) ==
  /\ Call
  /\ c # vault.commission
  /\ SetBooks(GainOwnerShare(Books))
  /\ vault' = [VaultAfterGain EXCEPT !.commission = c]
  /\ UNCHANGED <<commission, worker, wrapped, ballots>>

(* claim_owner_shares: the shares go to the target; it is the owner that is
   subscribed to the pool *)
ClaimOwnerShares(target, shares) ==
  /\ Call
  /\ vault.owner_shares >= shares
  /\ vault' = [vault EXCEPT !.owner_shares = @ - shares]
  /\ SetBooks([Books EXCEPT !.nft[Vault][target] = @ + shares])
  /\ Subscribe(Owner, Vault)
  /\ UNCHANGED <<commission, worker, wrapped, votes, ongoing>>

VaultContribute(u, amount) ==
  LET s == GainOwnerShare(Books)
  IN /\ Call
     /\ amount >= MinContribution /\ wpha[u] >= amount
     /\ Operating(s.pool[Vault])
     /\ vault' = VaultAfterGain
     /\ SetBooks(TryProcessWithdrawQueue(Vault,
                   Contribute(Vault, u, amount, s)))
     /\ Subscribe(u, Vault)
     /\ UNCHANGED <<commission, worker, wrapped, votes, ongoing>>

VaultWithdraw(u, shares) ==
  LET s == GainOwnerShare(Books)
  IN /\ Call
     /\ MayWithdraw(Vault, u, shares, s)
     /\ vault' = VaultAfterGain
     /\ SetBooks(TryWithdraw(Vault, u, shares, s))
     /\ UNCHANGED <<commission, worker, wrapped, ballots>>

(* check_and_maybe_force_withdraw: serve the queue and unlock the vault when
   it is empty; unless it is still locked, and when a request has waited too
   long, ask the stake pool for everything the vault delegated and lock it.
   A pool in which the vault holds no shares outside the queue is dropped
   from the list of its investments; the attempt to burn what dust it holds
   there is made in the name of an account that does not own it and its
   failure is ignored. *)
VaultChecked ==
  LET s == TryProcessWithdrawQueue(Vault, Books)
      b == s.pool[Vault]
      locked == vault.locked /\ b.queue # <<>>
      sp == s.pool[StakePool]
      queued == QueuedShares(sp, Vault)
      releasing == IF vault.invests /\ queued > 0
                   THEN bmul(queued, SharePrice(sp)) ELSE 0
      shutdown == /\ ~locked
                  /\ \/ b.queue # <<>> /\ Head(b.queue).age > 3 * GracePeriod
                     \/ HasExpiredWithdrawal(Vault, s, releasing)
      recall == vault.invests /\ ~IsDust(s.nft[StakePool][Vault])
  IN [books |-> IF shutdown /\ recall
                THEN TryWithdraw(StakePool, Vault,
                                 queued + s.nft[StakePool][Vault], s)
                ELSE s,
      vault |-> [vault EXCEPT !.locked = locked \/ shutdown,
                              !.invests = @ /\ (shutdown => recall)]]

VaultCheckAndMaybeForceWithdraw ==
  /\ SetBooks(VaultChecked.books)
  /\ vault' = VaultChecked.vault
  /\ UNCHANGED <<commission, worker, wrapped, ballots, calls>>

----------------------------------------------------------------------------
(* wrapped_balances *)

(* get_net_value: shares in withdraw queues are not counted, nor those in
   pools the account is not subscribed to *)
NetValue(u) ==
  wpha[u] + SumOver([p \in {q \in account[u].invest_pools : pool[q].shares > 0}
                       |-> bmul(nft[p][u], SharePrice(pool[p]))])

Wrap(u, amount) ==
  /\ Call
  /\ amount <= pha[u]
  /\ pha' = [pha EXCEPT ![u] = @ - amount]
  /\ backing' = backing + amount
  /\ SetBooks(Mint(Books, u, amount))
  /\ unmintable' = unmintable
       + (IF Mintable(Books, u, amount) THEN 0 ELSE amount)
  /\ UNCHANGED <<vault, commission, worker, ballots>>

Release(u, amount) ==
  /\ pha' = [pha EXCEPT ![u] = @ + amount]
  /\ backing' = backing - amount
  /\ SetBooks([Books EXCEPT !.wpha[u] = @ - amount])
  /\ UNCHANGED <<vault, commission, worker, unmintable, ballots>>

Unwrap(u, amount) ==
  /\ Call
  /\ amount <= wpha[u]
  /\ amount + account[u].locked <= NetValue(u)
  /\ Release(u, amount)

(* unwrap_all subtracts without a check: when the net value is below the
   lock, the u128 difference wraps round and exceeds every balance. *)
UnwrapAll(u) ==
  LET spare == NetValue(u) - account[u].locked
  IN /\ Call
     /\ Release(u, IF spare < 0 THEN wpha[u] ELSE Least(spare, wpha[u]))

(* update_user_locked: the largest vote the user has on record *)
LockedBy(v, u) == Max({v[r][u] : r \in Referenda} \cup {0})

(* The two amounts of a vote, aye and nay, are one amount here. *)
Vote(u, r, amount) ==
  /\ Call
  /\ r \in ongoing
  /\ amount <= NetValue(u)
  /\ votes' = [votes EXCEPT ![r][u] = amount]
  /\ account' = [account EXCEPT ![u].locked = LockedBy(votes', u)]
  /\ UNCHANGED <<books, vault, commission, worker, wrapped, ongoing>>

(* unlock drains the votes of at most max_iterations users of a referendum
   that has ended. *)
Unlock(r, drained) ==
  /\ r \notin ongoing
  /\ drained # {} /\ \A u \in drained : votes[r][u] > 0
  /\ votes' = [votes EXCEPT ![r] =
                 [u \in Users |-> IF u \in drained THEN 0 ELSE @[u]]]
  /\ account' = [u \in Users |-> IF u \in drained
                   THEN [account[u] EXCEPT !.locked = LockedBy(votes', u)]
                   ELSE account[u]]
  /\ UNCHANGED <<books, vault, commission, worker, wrapped, ongoing, calls>>

(* pallet_democracy: a referendum ends. *)
EndReferendum(r) ==
  /\ r \in ongoing
  /\ ongoing' = ongoing \ {r}
  /\ UNCHANGED <<books, vault, commission, worker, wrapped, account, votes,
                 calls>>

(* Time passes for the requests that wait. *)
Aged(queue) ==
  [i \in DOMAIN queue |-> [queue[i] EXCEPT !.age = Least(@ + 1, MaxAge)]]

Tick ==
  /\ pool' = [p \in Pids |-> [pool[p] EXCEPT !.queue = Aged(@)]]
  /\ UNCHANGED <<nft, wpha, vault, commission, worker, wrapped, ballots, calls>>

----------------------------------------------------------------------------
StakePoolNext ==
  \/ \E u \in Users, a \in Amounts : StakePoolContribute(u, a)
  \/ \E a \in Amounts : StakePoolContributeAsVault(a)
  \/ \E h \in Holders, a \in Amounts : StakePoolWithdraw(h, a)
  \/ \E w \in Workers, a \in Amounts : StartComputing(w, a)
  \/ \E w \in Workers : StopComputing(w)
  \/ \E w \in Workers : ReclaimPoolWorker(w)
  \/ \E w \in Workers, a \in Amounts : RestartComputing(w, a)
  \/ StakePoolCheckAndMaybeForceWithdraw
  \/ \E c \in Commissions : SetPayoutPref(c)
  \/ \E u \in Users : ClaimOwnerRewards(u)
  \/ \E r \in Rewards : OnReward(r)

VaultNext ==
  \/ MaybeGainOwnerShares
  \/ \E c \in Commissions : VaultSetPayoutPref(c)
  \/ \E u \in Users, n \in Claims : ClaimOwnerShares(u, n)
  \/ \E u \in Users, a \in Amounts : VaultContribute(u, a)
  \/ \E u \in Users, a \in Amounts : VaultWithdraw(u, a)
  \/ VaultCheckAndMaybeForceWithdraw

WrappedNext ==
  \/ \E u \in Users, a \in Amounts : Wrap(u, a)
  \/ \E u \in Users, a \in Amounts : Unwrap(u, a)
  \/ \E u \in Users : UnwrapAll(u)
  \/ \E u \in Users, r \in Referenda, a \in Amounts : Vote(u, r, a)
  \/ \E r \in Referenda, drained \in SUBSET Users : Unlock(r, drained)
  \/ \E r \in Referenda : EndReferendum(r)

Next == StakePoolNext \/ VaultNext \/ WrappedNext \/ Tick

(* Anyone may call check_and_maybe_force_withdraw and reclaim_pool_worker:
   somebody keeps doing so as long as the call changes something, and time
   passes.  The last three are weak fairness of the three calls, spelled out
   with the condition under which the call has no effect. *)
Fairness ==
  /\ WF_vars(Tick)
  /\ \/ []<>(StakePoolChecked = [books |-> Books, worker |-> worker])
     \/ []<><<StakePoolCheckAndMaybeForceWithdraw>>_vars
  /\ \/ []<>(VaultChecked = [books |-> Books, vault |-> vault])
     \/ []<><<VaultCheckAndMaybeForceWithdraw>>_vars
  /\ \A w \in Workers : \/ []<>(worker[w].state # "CoolingDown")
                        \/ []<><<ReclaimPoolWorker(w)>>_vars

Spec == Init /\ [][Next]_vars /\ Fairness

----------------------------------------------------------------------------
(* Shares that are held or queued. *)
Redeemable(s, p) ==
  SumOver([h \in Holders |-> s.nft[p][h] + QueuedShares(s.pool[p], h)])

(* The shares a pool counts (total_shares) are exactly the ones somebody can
   redeem: those held as NFTs, those in the withdraw queue, and the ones the
   vault keeps for its owner.  No account has two requests in a queue, however
   contributions, withdrawals, partial payments and burnt dust follow each
   other: base_pool changes the total, the NFT and the request in different
   places. *)
SharesAccounted ==
  \A p \in Pids :
    /\ pool[p].shares = Redeemable(Books, p)
                          + (IF p = Vault THEN vault.owner_shares ELSE 0)
    /\ \A i, j \in DOMAIN pool[p].queue :
         i # j => pool[p].queue[i].user # pool[p].queue[j].user

(* The money behind the books: the lock account of the stake pool holds
   exactly the stakes of its workers' sessions, free and locked stake cover
   the total_value the pool owes its delegators, and every W-PHA is backed by
   a native token in WrappedBalancesAccountId. *)
FundsCovered ==
  /\ wpha[LockAccount] = SumOver([w \in Workers |-> worker[w].stake])
  /\ pool[StakePool].value <= wpha[StakePool] + wpha[LockAccount]
  /\ SumOver(wpha) + unmintable = backing

(* Whenever free stake of the stake pool grows by a contribution or by the
   reclaim of a worker, the same call serves the withdraw queue until it is
   empty or nothing but dust is free.  A reward adds free stake without
   serving the queue (handle_pool_new_reward). *)
QueueServed ==
  [][wpha'[StakePool] > wpha[StakePool] /\ backing' = backing
     => pool'[StakePool].queue = <<>> \/ wpha'[StakePool] <= MinBalance]_vars

(* No call lowers the price of a share of the stake pool by more than the
   rounding of one unit: contributions, withdrawals and partial payments are
   all made at the price before them, so nobody pays for another delegator. *)
PriceNeverFalls ==
  [][pool[StakePool].shares > 0 /\ pool'[StakePool].value > 0
     => SharePrice(pool'[StakePool]) >= SharePrice(pool[StakePool]) - 1]_vars

(* A delegator who asks to withdraw from the stake pool or from the vault is
   paid in the end although the stake is with the workers, or with the stake
   pool the vault delegated to: requests expire, the check then stops the
   workers or recalls what the vault delegated, and reclaiming pays. *)
WithdrawalsEnd ==
  \A p \in Pids, u \in Users :
    (QueuedShares(pool[p], u) > 0) ~> (QueuedShares(pool[p], u) = 0)

(* "The W-PHA used in vote will be locked until the vote is finished or
   canceled" (wrapped_balances.rs, vote): unwrapping leaves the account a net
   value that covers what its votes lock.  unwrap_all breaks it: see README. *)
LockedNotUnwrapped ==
  [][\A u \in Users : pha'[u] > pha[u] => account[u].locked <= NetValue(u)']_vars
============================================================================
