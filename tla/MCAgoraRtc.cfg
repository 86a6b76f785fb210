CONSTANTS
  alice = alice
  lobby = lobby
  None = None
  Accounts <- OneAccount
  Channels <- OneChannel
  QueueCap = 1
  MaxLogins = 3
  MaxSubs = 2
  MaxConns = 2
SPECIFICATION FairSpec
INVARIANTS
  ConnectionAgrees
PROPERTIES
  JoinFollowsLogin
  SecondJoinIsHarmless
  CallReturns
