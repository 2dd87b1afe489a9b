SPECIFICATION Spec
CONSTANTS
  Task = {"page", "left", "inner", "right", "broken", "child", "empty"}
  Requests = {"page", "broken"}
  Body <- MCBody
  NoChild <- MCNoChild
  Piece <- MCPiece
  ErrText <- MCErrText
  Doc <- MCDoc
  Pending = Pending
INVARIANTS
  TypeOK
  WriterInOrder
  SequentialAnswer
  NoBlockedSender
  JoinedUnlessFailed
PROPERTIES
  ServiceSpec
  NoGoroutineLeak
