SPECIFICATION PoolsSpec
CONSTANTS
  Thread = {t1, t2, t3, t4}
  TargetPoolSize = 2
  Client = {r1, r2}
  NoClient = NoClient
INVARIANT ExclusiveUse
INVARIANT SlotsAccounted
INVARIANT NobodyWaitsBesideIdle
