SPECIFICATION Spec
CONSTANTS
  Markup <- PlainMarkup
  SkipComment = FALSE
  MaxNodes = 4
INVARIANTS
  TypeOK
  ElseFollowsIf
  ElseBelongsToIf
  RendersAsWritten
  AttrsToTheRoot
