SPECIFICATION Spec
CONSTANTS
  s1 = s1
  s2 = s2
  u1 = u1
  u2 = u2
  r1 = r1
  r2 = r2
  Key <- MCKey
  Val = {"red", "blue", "green", "black", "1px", "2px", "5px", "9px"}
  Static = {s1, s2}
  User = {u1, u2}
  Content <- MCContent
  Var = {"x", "y"}
  Expr = {"e", "f"}
  VarMap <- MCVarMap
  Literal <- MCLiteral
  Merged <- MCMerged
  Unset = Unset
  Nil = Nil
  Str = Str
  Render = {r1, r2}
  Page <- ReadmePage
INVARIANTS
  NoConcurrentMapUse
