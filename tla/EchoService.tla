---------------------------- MODULE EchoService ----------------------------
(***************************************************************************)
(* What a UDP echo service promises, independently of how udp_server.cpp   *)
(* schedules its operations: a request is taken off the network by the     *)
(* server it is addressed to, and is then either dropped or answered once, *)
(* to the endpoint that sent it, with as many bytes of it as the server's  *)
(* buffer holds.  The bytes of an answer are those of the request, or      *)
(* zeros; they are never the bytes of another request.                     *)
(***************************************************************************)
EXTENDS Naturals

CONSTANTS Servers,    \* endpoints of the echo servers
          Zero,       \* the content of a buffer cleared with memset
          MaxLength   \* size of the server's buffer

VARIABLES net,        \* datagrams in flight
          held        \* requests taken by a server and not decided yet

vars == <<net, held>>

Answer(d, b) ==
  [src |-> d.dst, dst |-> d.src, id |-> d.id, body |-> b,
   len |-> IF d.len > MaxLength THEN MaxLength ELSE d.len]

Init == net = {} /\ held = {}

\* A host other than an echo server puts a datagram on the network.
Submit == \E d \in net' \ net :
            /\ d.src \notin Servers
            /\ net' = net \cup {d}
            /\ UNCHANGED held

\* The network loses a datagram, or delivers it to a host that is no server.
Remove == \E d \in net : net' = net \ {d} /\ UNCHANGED held

Take == \E d \in net :
          /\ d.dst \in Servers
          /\ net' = net \ {d}
          /\ held' = held \cup {d}

Reply == \E d \in held :
           /\ held' = held \ {d}
           /\ \E b \in {d.body, Zero} : net' = net \cup {Answer(d, b)}

Drop == \E d \in held : held' = held \ {d} /\ UNCHANGED net

Next == Submit \/ Remove \/ Take \/ Reply \/ Drop

Spec == Init /\ [][Next]_vars
=============================================================================
