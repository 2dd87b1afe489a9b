CONSTANTS
  None = None
  Nil = Nil
  Main = "main"
  MaxScopes = 4
  Node <- TestNode
  Comp <- TestComp
  Roots <- TestRoots
  Kids <- TestKids
  Kind <- TestKind
  Targets <- TestTargets
  VSlot <- TestVSlot
  Asks <- AskDefault
  HasKey <- TestHasKey
  Slotted <- WithSlot
SPECIFICATION Spec
PROPERTIES SlotsReplaced
