SPECIFICATION FairSpec
\* A server idle after the last datagram is no error: the clients are bounded.
CHECK_DEADLOCK FALSE
CONSTANTS
  Servers = {s1}
  Clients = {c1, c2}
  Bodies = {a, b}
  Zero = zero
  NoRequest = noRequest
  NoEndpoint = noEndpoint
  MaxLength = 1
  Lengths <- AllLengths
  MaxSends = 2
INVARIANTS
  TypeOK
  OneOutstandingOperation
  BuffersMatchRequest
PROPERTIES
  EchoesRequests
  ListensAgain
