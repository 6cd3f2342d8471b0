SPECIFICATION EntrySpec
CONSTANTS
  a1 = a1
  a2 = a2
  p1 = p1
  p2 = p2
  ch1 = ch1
  ch2 = ch2
  Account = {a1, a2}
  MaxId = 2
  Channel = {ch1, ch2}
  WorldTicket = {wt1, wt2}
  ChannelTicket = {ct1, ct2}
  WorldSession = {w1}
  ChannelSession = {p1, p2}
  Serves <- MCServes
  MaxCharacters = 1
  MaxAttempts = 2
  Null = Null
SYMMETRY Symmetric
INVARIANT TicketUsedOnce
INVARIANT SessionIsItsLogin
INVARIANT EntersAsAuthorised
INVARIANT PlaysWithStats
