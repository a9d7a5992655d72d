SPECIFICATION MCSpec
\* Nothing is left to do when every program has ended.
CHECK_DEADLOCK FALSE
CONSTANTS
  Sends = 3
  Clients = {c1, c2}
  Texts <- MCTexts
  Buffer = 4
  Size <- MCSize
  IntRange = 32
  Hello <- MCHello
  PhoneLists <- MCPhoneLists
  Junk <- MCJunk
INVARIANTS
  RightAnswer
  SinkPrintsOwn
  EndsForCause
  AllPrinted
PROPERTIES
  Served
  JoinReturns
