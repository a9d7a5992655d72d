SPECIFICATION Spec
\* The program may end, stop at undefined behaviour, or wait for a reply.
CHECK_DEADLOCK FALSE
CONSTANTS
  c1 = c1
  c2 = c2
  s1 = s1
  s2 = s2
  m1 = m1
  m2 = m2
  m3 = m3
  Clients = {c1, c2}
  Others = {s1, s2}
  Server <- ServerOf
  HeaderLength = 2
  MaxBody = 3
  Texts = {m1, m2, m3}
  TextLength <- LengthOf
  Garbage = garbage
  Foreign = {m1, m2, m3}
  Script <- OneEach
  CopiesEarly <- AtOnce
  StrayLengths <- SomeStrayLengths
  MaxStray = 1
INVARIANTS
  TypeOK
  OneRequestEach
