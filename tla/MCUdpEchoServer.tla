-------------------------- MODULE MCUdpEchoServer --------------------------
(* Instances of UdpEchoServer for TLC. *)
EXTENDS UdpEchoServer

\* Zero-length, ordinary, exactly filling and truncated datagrams.
AllLengths == 0..MaxLength + 1
SomeLengths == {0, 1}


=============================================================================
