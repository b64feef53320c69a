CONSTANTS
  none = none
  Requests = {r1, r2}
  r1 = r1
  r2 = r2
  Routes <- MCRoutes
  Contexts = {c1, c2}
  Buffers = {b1, b2}
SPECIFICATION FairSpec
CHECK_DEADLOCK FALSE
INVARIANTS
  TypeOK
  AnswersAreOwn
  EachAnswerOnce
PROPERTIES
  TimeoutEndsRequest
  HandlerGoroutineEnds
  FetchEnds
