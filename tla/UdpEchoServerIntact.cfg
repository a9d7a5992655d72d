SPECIFICATION Spec
\* A server idle after the last datagram is no error: the clients are bounded.
CHECK_DEADLOCK FALSE
CONSTANTS
  Servers = {s1}
  Clients = {c1}
  Bodies = {a}
  Zero = zero
  NoRequest = noRequest
  NoEndpoint = noEndpoint
  MaxLength = 1
  Lengths <- SomeLengths
  MaxSends = 2
INVARIANTS
  EchoIntact
