SPECIFICATION FairSpec
CONSTANTS
  Character = {c1}
  NoChar = NoChar
  Connection = {s1, s2}
  kMaxSaveAttempts = 2
  MaxVersion = 2
  MaxFailure = 2
INVARIANT LoadsNewest
INVARIANT CleanIsStored
PROPERTY StoredNeverRegresses
PROPERTY PendingEnds
