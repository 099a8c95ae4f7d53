SPECIFICATION Spec
CONSTANTS
  owner = owner
  delegator = delegator
  miner = miner
  poll = poll
  Users = {owner, delegator}
  Owner = owner
  Workers = {miner}
  Referenda = {poll}
  PriceScale = 1000
  Dust = 1
  MinBalance = 3
  MinContribution = 3
  GracePeriod = 1
  VaultQueuePeriod = 3
  InitialFree = 40
  Amounts = {19, 20}
  Rewards = {10}
  Commissions = {0, 50}
  Claims = {4}
  MaxCalls = 5
INVARIANTS SharesAccounted 
PROPERTIES QueueServed PriceNeverFalls WithdrawalsEnd
CHECK_DEADLOCK FALSE
