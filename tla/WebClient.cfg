SPECIFICATION MCFairSpec
CONSTANTS
  tab1 = tab1
  c1 = c1
  c2 = c2
  p1 = p1
  p2 = p2
  p3 = p3
  Null = Null
  Nil = Nil
  Tabs <- MCTabs
  Calls <- MCCalls
  Tokens <- MCTokens
  MayReload = TRUE
  MayLogout = TRUE
  dashboard = dashboard
  devices = devices
  s1 = s1
  s2 = s2
  s3 = s3
  s4 = s4
  Consumers <- MCConsumers
  Streams <- MCStreams
  MaxRetries = 4
  MaxSwaps = 2
  NoStatus = NoStatus
  NotAsked = NotAsked
  Out = Out
  MaxRuns = 2
  MaxTrouble = 1
  d1 = d1
  d2 = d2
  slot1 = slot1
  Devices <- MCDevices
  Filters <- MCFilters
  PageSize = 1
  LastPage = 2
  Slots <- MCSlots
  Nothing = Nothing
  MaxChanges = 1
  MaxListFaults = 2
  Scopes <- AllScopes
CHECK_DEADLOCK FALSE
INVARIANTS
  RefusedForCause
  StreamPerSwap
  OnlyWhileWanted
  EndsTold
PROPERTIES
  Quiesces
  SeesTheEnd
  ListHeals
