SPECIFICATION Spec
CONSTANTS
  hbbs = hbbs
  a1 = a1
  a2 = a2
  Unknown = Unknown
  Null = Null
  Comps <- MCComps
  Calls <- MCOne
  MaxVersion = 3
  MaxFaults = 1
  Faults <- MCStart
INVARIANT
  RollsBack
