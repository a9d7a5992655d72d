SPECIFICATION MCSpec
\* Nothing is left to do when every program has ended.
CHECK_DEADLOCK FALSE
CONSTANTS
  Clients = {c1, c2}
  Message <- Day
  Window = 2
  MaxErrors = 1
  Buffer = 2
  IntRange = 32
  Size <- MCSize
  Tests <- MCTests
  Names <- MCNames
  NoPeer = noPeer
INVARIANTS
  WholeMessage
  EchoComplete
  ToldOfItsFile
PROPERTIES
  ServedAmongIdle
  ServedInTurn
  EveryoneEnds
