SPECIFICATION Spec
CONSTANTS
  Heads = 2
  Rows = 1
  Group = 2
  Groups = 2
  KOut = 2
INVARIANTS
  PointersAgree
  KeysOfThisWindow
  AttendsToHistory
  ListsAreExact
PROPERTIES
  HistoryIsKept
