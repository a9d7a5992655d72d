SPECIFICATION System
\* The system stops when io_service::run has returned, or waits for a reply.
CHECK_DEADLOCK FALSE
CONSTANTS
  c1 = c1
  c2 = c2
  c3 = c3
  s1 = s1
  s2 = s2
  s3 = s3
  m1 = m1
  m2 = m2
  m3 = m3
  Clients = {c1, c3}
  Others = {s1, s3}
  Server <- ServerOf
  HeaderLength = 22
  MaxBody = 1024
  Texts = {m1, m3}
  TextLength <- LengthOf
  Garbage = garbage
  Foreign = {zero}
  Zero = zero
  MaxLength = 1024
  NoRequest = noRequest
  NoEndpoint = noEndpoint
  Script <- TwoOfThree
  CopiesEarly <- EitherWay
  StrayLengths <- NoStray
  MaxStray = 0
  Lossy = TRUE
INVARIANTS
  ShowsOwnRequest
  OneExchange
PROPERTIES
  ServersServe
