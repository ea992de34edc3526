SPECIFICATION MCSpec
CONSTANTS
  a = a
  b = b
  x = x
  y = y
  g = g
  h = h
  NoGroup = NoGroup
  Option = {a, b, x}
  ModifierKey = {a, b, x, y}
  Group = {g, h}
  GroupOf <- MCGroupOf
  Attribute <- MCAttribute
  CartTurns = {1, 2}
  Batches <- MCBatches
  InitialChoices <- MCChoices
  Withdrawn = {a, x}
  Absent = Absent
  Item = {1, 2, 3}
  Phrase = {1, 2}
  Price = {1, 2, 3}
  Menus <- MCMenus
  Searches <- MCSearches
  K = 2
  Overfetch = 2
  Missed <- MCMissed
  LexicalLimit = 1
  MaxCandidates = 2
INVARIANTS BestOfReachable
PROPERTIES AppliedBatchIsWhole AskedForAReason
CHECK_DEADLOCK FALSE
