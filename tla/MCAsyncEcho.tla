---------------------------- MODULE MCAsyncEcho ----------------------------
(* Instances of AsyncEcho for TLC: main of udp_client.cpp and its servers. *)
EXTENDS AsyncEcho

CONSTANTS c1, c2, c3, s1, s2, s3, m1, m2, m3

ServerOf == [c \in Clients |-> CASE c = c1 -> s1 [] c = c2 -> s2 [] c = c3 -> s3]

\* The texts of main.
MainLength == [t \in Texts |-> 29]

\* The text of c3 is the longest a message holds, longer than main's: with its
\* header it does not fit in the server's buffer.
LengthOf == [t \in Texts |-> IF t = m3 THEN MaxBody ELSE 29]

OneEach == <<[client |-> c1, text |-> m1], [client |-> c2, text |-> m2],
             [client |-> c3, text |-> m3]>>
TwoOfThree == <<[client |-> c1, text |-> m1], [client |-> c3, text |-> m3]>>

EitherWay == BOOLEAN
AtOnce == {TRUE}
NoStray == {}
=============================================================================
