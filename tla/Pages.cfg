SPECIFICATION MCSpec
CONSTANTS
  t1 = t1
  t2 = t2
  Null = Null
  MaxRetries = 2
  RetryTimers <- MCRetryTimers
  f1 = f1
  f2 = f2
  mouse = mouse
  s1 = s1
  s2 = s2
  ctrl = ctrl
  enter = enter
  char = char
  dead = dead
  png1 = png1
  png2 = png2
  raw1 = raw1
  Absent = Absent
  NoCursor = NoCursor
  Fingers <- MCFingers
  Mouse = mouse
  Spots <- MCSpots
  Burst = 1
  MaxWheel = 2
  Modifiers <- MCModifiers
  Controls <- MCControls
  Chars <- MCChars
  Odd <- MCOdd
  Pngs <- MCPngs
  Bitmaps <- MCBitmaps
  MaxUrls = 3
  sv1 = sv1
  sv2 = sv2
  Saves <- MCSaves
  SaveOrder <- MCForms
  Steady <- MCSteady
  Eager <- MCEager
  Texts <- MCTexts
  NameField = "name"
  ModeForm = "mode"
  Nowhere = Nowhere
  NoGet = NoGet
  Asked = Asked
  MaxEdits = 3
  MaxFaults = 1
  img1 = img1
  img2 = img2
  Images <- MCImages
  Ids <- MCIds
  PhotoLimit = 1
  LibraryLimit = 1
  InstructionLimit = 2
  Hole = Hole
  None = None
  MaxTouches = 5
  d1 = d1
  d2 = d2
  slot1 = slot1
  Devices <- MCDevices
  Filters <- MCFilters
  PageSize = 1
  LastPage = 2
  Slots <- MCSlots
  Nothing = Nothing
  MaxChanges = 1
  MaxListFaults = 2
  Scopes <- AllScopes
  MAX_LOGS = 2
  MAX_CHAT = 2
  MaxUnread = 2
  Viewport = 3
  WindowSize = 2
  Landings = {0, 3}
  Greeting = TRUE
  CloseNotice = TRUE
  Unset = Unset
SYMMETRY Symmetry
CHECK_DEADLOCK FALSE
INVARIANTS
  StatusHonest
  NeverStranded
  SessionHeld
  InputHolds
  FormsHold
  DocumentsHold
  ListFresh
PROPERTIES
  KeepsToLifecycle
  RetriesOnlyDrops
