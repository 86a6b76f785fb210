CONSTANTS
  Tokens = {t1, t2, t3}
  Conversations = {c1, c2, c3}
  None = None
  PairRetryInitial = 1
  PairRetryMax = 2
  RenewRetryInitial = 1
  RenewRetryMax = 2
  QueueCap = 2
SPECIFICATION Spec
SYMMETRY Symmetry
INVARIANTS
  BindingTrue
  OnePollOutstanding
  ConversationClean
  StopAfterTeardown
  NeverStranded
PROPERTIES
  BindingSpec
