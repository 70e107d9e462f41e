SPECIFICATION Spec
CONSTANTS
  Heads = 1
  Rows = 2
  Group = 2
  Groups = 2
  KOut = 1
INVARIANTS
  AttendsToHistory
