-------------------------- MODULE NanomsgPairProofs --------------------------
(***************************************************************************)
(* Proof that the two nodes of NanomsgPair never wait for each other, for  *)
(* any size of the library's buffers and any number of broken connections. *)
(***************************************************************************)
EXTENDS NanomsgPair, TLAPS

\* A node between its receive and its send will add a message.
Holds(n) == IF loc[n] \in {"sleep", "send"} THEN 1 ELSE 0

Total == wire[0] + wire[1] + inbox[0] + inbox[1] + Holds(0) + Holds(1)

\* Only a timeout adds to the total, and then one inbox is empty.
TotalBound == Total <= Wire + Wire + Inbox + 2

IInv == TypeOK /\ TotalBound

LEMMA Types ==
  ASSUME TypeOK, NEW n \in Nodes
  PROVE  /\ wire[n] \in Nat /\ wire[n] <= Wire
         /\ inbox[n] \in Nat /\ inbox[n] <= Inbox
         /\ Holds(n) \in Nat /\ Holds(n) <= 1
         /\ Peer(n) \in Nodes /\ Peer(n) # n
<1>1. wire[n] \in 0..Wire /\ inbox[n] \in 0..Inbox
  BY DEF TypeOK
<1>2. Holds(n) \in Nat /\ Holds(n) <= 1
  BY DEF Holds
<1>3. Peer(n) \in Nodes /\ Peer(n) # n
  BY DEF Nodes, Peer
<1> QED
  BY <1>1, <1>2, <1>3, PairAssumption

LEMMA InitInvariant == Init => IInv
<1> SUFFICES ASSUME Init PROVE IInv
  OBVIOUS
<1>1. TypeOK
  <2>1. 0 \in 0..Wire /\ 0 \in 0..Inbox /\ 0 \in 0..MaxBreaks
    BY PairAssumption
  <2> QED
    BY <2>1 DEF Init, TypeOK
<1>2. wire[0] = 0 /\ wire[1] = 0 /\ inbox[0] = 0 /\ inbox[1] = 0
  BY DEF Init, Nodes
<1>3. Holds(0) = 0 /\ Holds(1) = 0
  BY DEF Init, Nodes, Holds
<1>4. Total = 0
  BY <1>2, <1>3 DEF Total
<1> QED
  BY <1>1, <1>4, PairAssumption DEF IInv, TotalBound

\* A step that does not add to the total keeps its bound.
LEMMA KeepsTotal ==
  ASSUME IInv, TypeOK', Total' <= Total PROVE IInv'
<1>1. 0 \in Nodes /\ 1 \in Nodes
  BY DEF Nodes
<1>2. Total \in Nat
  BY <1>1, Types DEF IInv, Total
<1>3. Total' \in Nat
  <2>1. /\ wire'[0] \in 0..Wire /\ wire'[1] \in 0..Wire
        /\ inbox'[0] \in 0..Inbox /\ inbox'[1] \in 0..Inbox
    BY <1>1 DEF TypeOK
  <2>2. Holds(0)' \in Nat /\ Holds(1)' \in Nat
    BY DEF Holds
  <2> QED
    BY <2>1, <2>2, PairAssumption DEF Total
<1> QED
  BY <1>2, <1>3, PairAssumption DEF IInv, TotalBound

LEMMA NextInvariant == IInv /\ [Next]_vars => IInv'
<1> SUFFICES ASSUME IInv, [Next]_vars PROVE IInv'
  OBVIOUS
<1>0. /\ 0 \in Nodes /\ 1 \in Nodes /\ TypeOK
      /\ \A n \in Nodes : n = 0 \/ n = 1
      /\ Peer(0) = 1 /\ Peer(1) = 0
  BY DEF Nodes, IInv, Peer
<1>t. /\ wire[0] \in Nat /\ wire[1] \in Nat /\ inbox[0] \in Nat /\ inbox[1] \in Nat
      /\ Holds(0) \in Nat /\ Holds(1) \in Nat
  BY <1>0, Types
<1>1. ASSUME NEW n \in Nodes, Start(n) PROVE IInv'
  <2>1. TypeOK'
    BY <1>0, <1>1 DEF TypeOK, Start
  <2>2. Holds(0)' = Holds(0) /\ Holds(1)' = Holds(1)
    BY <1>0, <1>1 DEF TypeOK, Start, Holds
  <2>3. Total' = Total
    BY <1>1, <2>2 DEF Total, Start
  <2> QED
    BY <1>0, <1>t, <2>1, <2>3, KeepsTotal DEF Total
<1>2. ASSUME NEW n \in Nodes, RecvName(n) PROVE IInv'
  <2>1. TypeOK'
    BY <1>0, <1>2, PairAssumption DEF TypeOK, RecvName
  <2>2. /\ inbox'[n] = inbox[n] - 1 /\ inbox'[Peer(n)] = inbox[Peer(n)] /\ wire' = wire
        /\ Holds(n) = 0 /\ Holds(n)' = 1 /\ Holds(Peer(n))' = Holds(Peer(n))
    BY <1>0, <1>2 DEF TypeOK, RecvName, Holds
  <2>3. Total' = Total
    BY <1>0, <1>t, <2>2 DEF Total
  <2> QED
    BY <1>0, <1>t, <2>1, <2>3, KeepsTotal DEF Total
<1>3. ASSUME NEW n \in Nodes, RecvTimeout(n) PROVE IInv'
  <2>1. TypeOK'
    BY <1>0, <1>3 DEF TypeOK, RecvTimeout
  <2>2. /\ inbox[n] = 0 /\ inbox' = inbox /\ wire' = wire
        /\ Holds(n)' = 1 /\ Holds(Peer(n))' = Holds(Peer(n))
    BY <1>0, <1>3 DEF TypeOK, RecvTimeout, Holds
  <2>3. Total' = wire[0] + wire[1] + inbox[Peer(n)] + 1 + Holds(Peer(n))
    BY <1>0, <1>t, <2>2 DEF Total
  <2>4. /\ wire[0] <= Wire /\ wire[1] <= Wire
        /\ inbox[Peer(n)] \in Nat /\ inbox[Peer(n)] <= Inbox
        /\ Holds(Peer(n)) \in Nat /\ Holds(Peer(n)) <= 1
    BY <1>0, Types
  <2>5. Total' <= Wire + Wire + Inbox + 2
    BY <1>t, <2>3, <2>4, PairAssumption
  <2> QED
    BY <2>1, <2>5 DEF IInv, TotalBound
<1>4. ASSUME NEW n \in Nodes, Wake(n) PROVE IInv'
  <2>1. TypeOK'
    BY <1>0, <1>4 DEF TypeOK, Wake
  <2>2. Holds(0)' = Holds(0) /\ Holds(1)' = Holds(1)
    BY <1>0, <1>4 DEF TypeOK, Wake, Holds
  <2>3. Total' = Total
    BY <1>4, <2>2 DEF Total, Wake
  <2> QED
    BY <1>0, <1>t, <2>1, <2>3, KeepsTotal DEF Total
<1>5. ASSUME NEW n \in Nodes, SendName(n) PROVE IInv'
  <2>1. TypeOK'
    BY <1>0, <1>5, PairAssumption DEF TypeOK, SendName
  <2>2. /\ wire'[Peer(n)] = wire[Peer(n)] + 1 /\ wire'[n] = wire[n] /\ inbox' = inbox
        /\ Holds(n) = 1 /\ Holds(n)' = 0 /\ Holds(Peer(n))' = Holds(Peer(n))
    BY <1>0, <1>5 DEF TypeOK, SendName, Holds
  <2>3. Total' = Total
    BY <1>0, <1>t, <2>2 DEF Total
  <2> QED
    BY <1>0, <1>t, <2>1, <2>3, KeepsTotal DEF Total
<1>6. ASSUME NEW n \in Nodes, Deliver(n) PROVE IInv'
  <2>1. TypeOK'
    BY <1>0, <1>6, PairAssumption DEF TypeOK, Deliver
  <2>2. /\ wire'[n] = wire[n] - 1 /\ inbox'[n] = inbox[n] + 1
        /\ wire'[Peer(n)] = wire[Peer(n)] /\ inbox'[Peer(n)] = inbox[Peer(n)]
        /\ Holds(0)' = Holds(0) /\ Holds(1)' = Holds(1)
    BY <1>0, <1>6 DEF TypeOK, Deliver, Holds
  <2>3. Total' = Total
    BY <1>0, <1>t, <2>2 DEF Total
  <2> QED
    BY <1>0, <1>t, <2>1, <2>3, KeepsTotal DEF Total
<1>7. ASSUME NEW n \in Nodes, Kill(n) PROVE IInv'
  <2>1. PICK k \in 0..inbox[Peer(n)] :
          inbox' = [m \in Nodes |-> IF m = n THEN 0 ELSE k]
    BY <1>7 DEF Kill
  <2>2. k \in Nat /\ k <= inbox[Peer(n)] /\ k \in 0..Inbox
    BY <1>0, <2>1, Types, PairAssumption
  <2>3. TypeOK'
    <3>1. 0 \in 0..Wire /\ 0 \in 0..Inbox /\ breaks + 1 \in 0..MaxBreaks
      BY <1>0, <1>7, PairAssumption DEF TypeOK, Kill
    <3>2. wire' \in [Nodes -> 0..Wire] /\ inbox' \in [Nodes -> 0..Inbox]
      BY <1>7, <2>1, <2>2, <3>1 DEF Kill
    <3> QED
      BY <1>0, <1>7, <3>1, <3>2 DEF TypeOK, Kill
  <2>4. /\ wire'[0] = 0 /\ wire'[1] = 0 /\ inbox'[n] = 0 /\ inbox'[Peer(n)] = k
        /\ Holds(n)' = 0 /\ Holds(Peer(n))' = Holds(Peer(n))
    BY <1>0, <1>7, <2>1 DEF TypeOK, Kill, Holds
  <2>5. Total' <= Total
    BY <1>0, <1>t, <2>2, <2>4 DEF Total
  <2> QED
    BY <2>3, <2>5, KeepsTotal
<1>8. CASE Disconnect
  <2>1. PICK kept \in [Nodes -> 0..Inbox] :
          (\A n \in Nodes : kept[n] <= inbox[n]) /\ inbox' = kept
    BY <1>8 DEF Disconnect
  <2>2. TypeOK'
    <3>1. 0 \in 0..Wire /\ breaks + 1 \in 0..MaxBreaks
      BY <1>0, <1>8, PairAssumption DEF TypeOK, Disconnect
    <3>2. wire' \in [Nodes -> 0..Wire] /\ inbox' \in [Nodes -> 0..Inbox]
      BY <1>8, <2>1, <3>1 DEF Disconnect
    <3> QED
      BY <1>0, <1>8, <3>1, <3>2 DEF TypeOK, Disconnect
  <2>3. /\ wire'[0] = 0 /\ wire'[1] = 0
        /\ inbox'[0] \in Nat /\ inbox'[0] <= inbox[0]
        /\ inbox'[1] \in Nat /\ inbox'[1] <= inbox[1]
        /\ Holds(0)' = Holds(0) /\ Holds(1)' = Holds(1)
    BY <1>0, <1>8, <2>1, PairAssumption DEF Disconnect, Holds
  <2>4. Total' <= Total
    BY <1>t, <2>3 DEF Total
  <2> QED
    BY <2>2, <2>4, KeepsTotal
<1>9. CASE Connect \/ UNCHANGED vars
  <2>1. TypeOK'
    BY <1>0, <1>9 DEF TypeOK, Connect, vars
  <2>2. Total' = Total
    BY <1>9 DEF Total, Holds, Connect, vars
  <2> QED
    BY <1>0, <1>t, <2>1, <2>2, KeepsTotal DEF Total
<1> QED
  BY <1>1, <1>2, <1>3, <1>4, <1>5, <1>6, <1>7, <1>8, <1>9 DEF Next, SendRecv

\* The strengthening holds in every reachable state.
THEOREM InvariantHolds == Spec => []IInv
  BY InitInvariant, NextInvariant, PTL DEF Spec

\* The buffers of the pair never hold more than their room, and a node is at one
\* of the places of send_recv or down.
THEOREM TypeCorrect == Spec => []TypeOK
<1>1. IInv => TypeOK
  BY DEF IInv
<1> QED
  BY <1>1, InvariantHolds, PTL

\* The two nodes of testPairExample are never both in nn_send with every
\* buffer full, however large or small the library's buffers are.
THEOREM Standoff == Spec => []NoStandoff
<1>1. IInv => NoStandoff
  <2> SUFFICES ASSUME IInv, \A n \in Nodes : loc[n] = "send" /\ Full(n) PROVE FALSE
    BY DEF NoStandoff
  <2>1. /\ wire[0] = Wire /\ wire[1] = Wire /\ inbox[0] = Inbox /\ inbox[1] = Inbox
        /\ Holds(0) = 1 /\ Holds(1) = 1
    BY DEF Nodes, Full, Holds
  <2>2. Wire + Wire + Inbox + Inbox + 1 + 1 <= Wire + Wire + Inbox + 2
    BY <2>1 DEF IInv, TotalBound, Total
  <2> QED
    BY <2>2, PairAssumption
<1> QED
  BY <1>1, InvariantHolds, PTL
=============================================================================
