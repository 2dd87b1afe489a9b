SPECIFICATION Spec
CONSTANTS
  KeyOrder <- MCKeyOrder
  Attr = {"id"}
  Text = {"", "null", "s", "v", "w", "z", "a", "b", "x", "y"}
  Declaration = {"c", "d", "e"}
  Tags <- MCTags
  Null = Null
  Unset = Unset
INVARIANTS
  OnceWithAll
  DataStaysInside
  OrderKept
