SPECIFICATION FairSpec
CONSTANTS
  Fd = {f1, f2}
  Character = {c1}
  NoFd = NoFd
  NoChar = NoChar
  MaxUsers = 2
  MaxSession = 3
  MaxTask = 1
INVARIANT NoUseAfterDelete
INVARIANT TaskHasItsPlayer
INVARIANT OneSessionPerPlayer
PROPERTY DisconnectReturns
PROPERTY AuthEnds
