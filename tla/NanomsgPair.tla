----------------------------- MODULE NanomsgPair -----------------------------
(***************************************************************************)
(* Two programs of Nanomsg/testPairExample.cpp, started as node0 and node1 *)
(* on one URL.  Each repeats for ever: receive a name, or give up after    *)
(* 100 ms; sleep a second; send its own name.  Nothing answers anything,   *)
(* and nn_send waits while the pipe is full, so the question is whether    *)
(* the two can end up waiting for each other.                              *)
(*                                                                         *)
(* A message is always the sender's name: how many there are is all that   *)
(* matters.  The library is external: a pair socket has one peer, keeps    *)
(* its messages in order, and loses those of a broken connection.          *)
(***************************************************************************)
EXTENDS Naturals

CONSTANTS Wire,       \* messages a direction holds before they are received
          Inbox,      \* received messages a socket holds for nn_recv
          MaxBreaks   \* bound: connections broken and nodes killed

ASSUME PairAssumption ==
  Wire \in Nat \ {0} /\ Inbox \in Nat \ {0} /\ MaxBreaks \in Nat

VARIABLES loc,     \* where each node is in send_recv, or "down"
          linked,  \* the sockets are connected
          wire,    \* wire[n]: messages on their way to n
          inbox,   \* inbox[n]: messages nn_recv returns to n
          breaks

vars == <<loc, linked, wire, inbox, breaks>>

Nodes == {0, 1}
Peer(n) == 1 - n
Up(n) == loc[n] # "down"

Init ==
  /\ loc = [n \in Nodes |-> "down"]
  /\ linked = FALSE
  /\ wire = [n \in Nodes |-> 0]
  /\ inbox = [n \in Nodes |-> 0]
  /\ breaks = 0

-----------------------------------------------------------------------------
(* The program.  A failure of nn_socket, nn_bind, nn_connect or            *)
(* nn_setsockopt ends it before send_recv's loop: the node stays down.     *)

Start(n) ==
  /\ loc[n] = "down"
  /\ loc' = [loc EXCEPT ![n] = "recv"]
  /\ UNCHANGED <<linked, wire, inbox, breaks>>

RecvName(n) ==
  /\ loc[n] = "recv"
  /\ inbox[n] > 0
  /\ inbox' = [inbox EXCEPT ![n] = @ - 1]
  /\ loc' = [loc EXCEPT ![n] = "sleep"]
  /\ UNCHANGED <<linked, wire, breaks>>

\* The timeout is not looked at: the loop goes on.
RecvTimeout(n) ==
  /\ loc[n] = "recv"
  /\ inbox[n] = 0
  /\ loc' = [loc EXCEPT ![n] = "sleep"]
  /\ UNCHANGED <<linked, wire, inbox, breaks>>

Wake(n) ==
  /\ loc[n] = "sleep"
  /\ loc' = [loc EXCEPT ![n] = "send"]
  /\ UNCHANGED <<linked, wire, inbox, breaks>>

\* Mutant: the loop sends again without receiving.
SendAgain(n) ==
  /\ loc[n] = "send"
  /\ linked
  /\ wire[Peer(n)] < Wire
  /\ wire' = [wire EXCEPT ![Peer(n)] = @ + 1]
  /\ loc' = [loc EXCEPT ![n] = "sleep"]
  /\ UNCHANGED <<linked, inbox, breaks>>

\* Mutant: nn_send does not wait for room.
SendAnyway(n) ==
  /\ loc[n] = "send"
  /\ linked
  /\ wire' = [wire EXCEPT ![Peer(n)] = @ + 1]
  /\ loc' = [loc EXCEPT ![n] = "recv"]
  /\ UNCHANGED <<linked, inbox, breaks>>

\* nn_send has no timeout: it waits for a peer, and for room.
SendName(n) ==
  /\ loc[n] = "send"
  /\ linked
  /\ wire[Peer(n)] < Wire
  /\ wire' = [wire EXCEPT ![Peer(n)] = @ + 1]
  /\ loc' = [loc EXCEPT ![n] = "recv"]
  /\ UNCHANGED <<linked, inbox, breaks>>

-----------------------------------------------------------------------------
(* The library and the system.                                             *)

Connect ==
  /\ ~linked
  /\ \A n \in Nodes : Up(n)
  /\ linked' = TRUE
  /\ UNCHANGED <<loc, wire, inbox, breaks>>

Deliver(n) ==
  /\ wire[n] > 0
  /\ inbox[n] < Inbox
  /\ wire' = [wire EXCEPT ![n] = @ - 1]
  /\ inbox' = [inbox EXCEPT ![n] = @ + 1]
  /\ UNCHANGED <<loc, linked, breaks>>

\* Messages on the way are lost, and received ones may be.
Disconnect ==
  /\ linked
  /\ breaks < MaxBreaks
  /\ breaks' = breaks + 1
  /\ linked' = FALSE
  /\ wire' = [n \in Nodes |-> 0]
  /\ \E kept \in [Nodes -> 0..Inbox] :
       /\ \A n \in Nodes : kept[n] <= inbox[n]
       /\ inbox' = kept
  /\ UNCHANGED loc

\* The process of node n ends, wherever it is; the other one notices.
Kill(n) ==
  /\ Up(n)
  /\ breaks < MaxBreaks
  /\ breaks' = breaks + 1
  /\ loc' = [loc EXCEPT ![n] = "down"]
  /\ linked' = FALSE
  /\ wire' = [m \in Nodes |-> 0]
  /\ \E k \in 0..inbox[Peer(n)] :
       inbox' = [m \in Nodes |-> IF m = n THEN 0 ELSE k]

-----------------------------------------------------------------------------
SendRecv(n) == RecvName(n) \/ RecvTimeout(n) \/ Wake(n) \/ SendName(n)

Next ==
  \/ \E n \in Nodes : Start(n) \/ SendRecv(n) \/ Deliver(n) \/ Kill(n)
  \/ Connect
  \/ Disconnect

Spec == Init /\ [][Next]_vars

\* A running node takes its next step, and the library connects the sockets
\* and carries the messages.  Nobody needs to start a node, or to stop one.
Fairness ==
  /\ \A n \in Nodes : WF_vars(SendRecv(n)) /\ WF_vars(Deliver(n))
  /\ WF_vars(Connect)

FairSpec == Spec /\ Fairness

-----------------------------------------------------------------------------
TypeOK ==
  /\ loc \in [Nodes -> {"down", "recv", "sleep", "send"}]
  /\ linked \in BOOLEAN
  /\ wire \in [Nodes -> 0..Wire]
  /\ inbox \in [Nodes -> 0..Inbox]
  /\ breaks \in 0..MaxBreaks

Full(n) == wire[n] = Wire /\ inbox[n] = Inbox

\* The nodes never wait for each other in nn_send, every buffer full: each
\* receives what waits for it before it sends, and adds a message to those on
\* the way only when it found none.
NoStandoff ==
  ~ \A n \in Nodes : loc[n] = "send" /\ Full(n)

\* send_recv's loop does not stop: a node that runs with its peer receives and
\* sends for ever, whatever was lost before.
KeepTalking ==
  <>[](\A n \in Nodes : Up(n)) =>
    \A n \in Nodes : []<>(loc[n] = "send") /\ []<>(loc[n] = "recv")
=============================================================================
