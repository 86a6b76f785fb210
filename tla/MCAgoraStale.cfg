CONSTANTS
  alice = alice
  lobby = lobby
  None = None
  Accounts <- OneAccount
  Channels <- OneChannel
  QueueCap = 2
  MaxLogins = 2
  MaxSubs = 2
  MaxConns = 2
SPECIFICATION Spec
PROPERTY EndedByItsOwnEvent
