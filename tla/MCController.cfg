SPECIFICATION FairSpec
CONSTANTS
  QueueCap = 1
  Networks = {home, office, shop}
  MaxCredentials = 2
INVARIANTS
  SdkIsTold
  ModesApart
  NetworkServesSdk
  ListsAgree
PROPERTIES
  LinkReachesSdk
  RequestHonoured
CHECK_DEADLOCK FALSE
