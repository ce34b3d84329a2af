SPECIFICATION MCSpec
CONSTANTS
  vp9 = vp9
  vp8 = vp8
  Null = Null
  Order <- MCOrder
  KindSets <- MCBrowsers
  Attended <- MCAttended
  Limit = 0
  SteerBudget = 2
  MaxQueue = 1
  MaxChoices = 1
  MaxStrays = 1
  MaxDisplays = 3
  MaxInFlight = 2
  Qualities = {2, 3}
  Rates = {30, 60}
  AutoTargets <- MCTargets
  KnobCodecs = {vp9}
  MaxProbes = 2
  MaxRedials = 1
  Starts <- MCStarts
  MaxMirrors = 2
  Scales <- MCScales
  MaxSent = 4
  MaxUnderWay = 3
  Scopes <- Everything
INVARIANTS
  UnderstandEachOther
  StreamDecodable
  DisplayHonest
  ShownIsSent
  WellMeasured
PROPERTIES
  WarnsLast
