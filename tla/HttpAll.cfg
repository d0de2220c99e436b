SPECIFICATION Spec
CONSTANTS
  RecvBuf = 5
  RequestLen = 2
  Heads = {3, 4, 5}
  Bodies = {0, 1, 2, 4}
  Rest = {2}
  Unknown = Unknown
  Answers <- MCAnswers
  Worlds <- AnyWorld
INVARIANTS
  TypeOK
  HandledWhole
  ParkedIsDrained
  TypeIsWhole
PROPERTIES
  AnswerHandled
  
CHECK_DEADLOCK FALSE
