SPECIFICATION Spec
CONSTANTS
  Node <- NodeValue
  Kind <- KindValue
  Kids <- KidsValue
  Name <- NameValue
  As <- AsValue
  Request <- RequestValue
  Entry <- EntryValue
  StatementsOf <- StatementsOfValue
  Data <- DataValue
  Given <- GivenValues
  Registered <- RegisteredValue
  Forking <- ForkingValue
  Var = {"a", "b", "c", "g", "$props"}
  Nil = Nil
  Null = Null
  Outside = Outside
  Late = FALSE
  MaxRounds = 1
INVARIANTS
  TypeOK
  NoConcurrentMapUse
  OwnContext
  ReadsAsInPlace
  CallerDataIntact
