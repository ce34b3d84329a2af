SPECIFICATION MCFairSpec
CONSTANTS
  login1 = login1
  refresh1 = refresh1
  Absent = Absent
  LoginKeys <- MCLoginKeys
  RefreshKeys <- MCRefreshKeys
  Limit = 2
  Window = 2
  Slack = 1
  Horizon = 4
  MaxCount = 4
  hbbs = hbbs
  a1 = a1
  a2 = a2
  Unknown = Unknown
  Null = Null
  Comps <- MCComps
  Calls <- MCTwo
  MaxVersion = 2
  MaxFaults = 2
  Faults <- MCFaults
  peer1 = peer1
  peer2 = peer2
  nat = nat
  Peers <- MCPeers
  Home <- MCHome
  Grace = 1
  QueueSize = 1
  Missing = Missing
  MaxMishaps = 1
CHECK_DEADLOCK FALSE
INVARIANTS
  LimitExact
  ServersSurvive
  StatusFollows
PROPERTIES
  AnswerHonest
  AlwaysAnswered
  SettlesDown
