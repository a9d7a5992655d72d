-------------------------- MODULE MCAsyncUdpClient --------------------------
(* Instances of AsyncUdpClient for TLC. *)
EXTENDS AsyncUdpClient

CONSTANTS c1, c2, s1, s2, m1, m2, m3

ServerOf == [c \in Clients |-> IF c = c1 THEN s1 ELSE s2]

\* The third text is longer than message::body_length allows.
LengthOf == [t \in Texts |-> IF t = m3 THEN MaxBody + 1 ELSE 2]

\* A datagram shorter than a header, one with a body, one too long for data_.
SomeStrayLengths == {HeaderLength, HeaderLength + 1, MaxMessage + 1}

\* main: one message for each client.
OneEach == <<[client |-> c1, text |-> m1], [client |-> c2, text |-> m2]>>

\* The queue of one client holds several messages.
SeveralForOne == <<[client |-> c1, text |-> m1], [client |-> c1, text |-> m2],
                   [client |-> c1, text |-> m3]>>

TwoForOne == <<[client |-> c1, text |-> m1], [client |-> c1, text |-> m2]>>

EitherWay == BOOLEAN
AtOnce == {TRUE}
=============================================================================
