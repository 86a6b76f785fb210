CONSTANTS
  Tokens = {t1, t2}
  Conversations = {c1}
  None = None
  PairRetryInitial = 1
  PairRetryMax = 1
  RenewRetryInitial = 1
  RenewRetryMax = 1
  QueueCap = 1
SPECIFICATION FairSpec
PROPERTIES
  WorkReturns
  ConversationsEnd
  SurfaceSpec
