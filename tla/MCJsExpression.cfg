SPECIFICATION ExprSpec
CONSTANTS
  Literals <- LiteralValues
  Envs <- EnvValues
  Exprs <- ExprValues
INVARIANTS
  CompareBothWays
  AgreesWithES5
