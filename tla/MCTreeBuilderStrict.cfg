SPECIFICATION Spec
CONSTANTS
  Tag = {"p", "b", "br"}
  VoidTag = {"br"}
  Leaf = {"text"}
  Strict = TRUE
  MaxNodes = 5
  MaxAttrs = 1
INVARIANTS
  OnlyContainersHaveChildren
PROPERTIES
  ReadsDocument
  EndTagsClose
