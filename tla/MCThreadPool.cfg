SPECIFICATION FairSpec
CONSTANTS
  t1 = t1
  t2 = t2
  t3 = t3
  t4 = t4
  NoTask = NoTask
  Task <- MCTask
  Keyed <- MCKeyed
  Key <- MCKey
  PoolSize = 2
INVARIANT StoppedPoolFinishedAll
PROPERTY ImplementsExecutor
PROPERTY AcceptedIsExecuted
