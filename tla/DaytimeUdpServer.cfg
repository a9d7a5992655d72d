SPECIFICATION FairSpec
\* Nothing is left to do once the server has ended, or every client has.
CHECK_DEADLOCK FALSE
CONSTANTS
  Clients = {c1, c2, c3}
  NoEndpoint = noEndpoint
INVARIANTS
  TypeOK
  OneAnswerEach
PROPERTIES
  DeafForGood
  DeafEnds
  AllServed
