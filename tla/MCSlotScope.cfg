CONSTANTS
  None = None
  Nil = Nil
  Main = "page"
  MaxScopes = 7
  Node <- MCNode
  Comp <- MCComp
  Roots <- MCRoots
  Kids <- MCKids
  Kind <- MCKind
  Targets <- MCTargets
  VSlot <- MCVSlot
  Asks <- MCAsks
  HasKey <- MCHasKey
  Slotted <- MCSlotted
SPECIFICATION Spec
INVARIANTS TypeOK SeesWhatIsAround
PROPERTIES SlotsReplaced LexicalSpec
