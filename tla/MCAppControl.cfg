CONSTANT
  QueueCap = 2
SPECIFICATION FairSpec
INVARIANTS
  StateShown
  WakeWordsWhenReady
  QuietWhenStopped
PROPERTIES
  CallsReturn
  LinkLossEndsConversation
