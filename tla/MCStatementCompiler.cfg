SPECIFICATION DocSpec
CONSTANTS
  Docs <- MCDocs
  Node <- MCNodes
  HtmlTag = {"div", "br"}
  Void = {"br"}
  Word = {"w", "bad"}
  Bad = "bad"
  SlotNames <- MCSlotNames
  Cond = {"a", "b"}
  Nil = Nil
INVARIANTS
  OutputAsWritten
  TextsMerged
  WordsKept
